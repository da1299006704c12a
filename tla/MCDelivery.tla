----------------------------- MODULE MCDelivery -----------------------------
(***************************************************************************)
(* A receiver of each kind in turn, in front of a channel of one.           *)
(***************************************************************************)
EXTENDS Delivery

AllKinds == {"kafka", "pulsar", "drop", "wait"}
=============================================================================
