---------------------------- MODULE SampleLedger ----------------------------
(***************************************************************************)
(* What a windowing stage of the aggregator promises its neighbours,        *)
(* without windows, clocks or services: a sample (here, one contribution    *)
(* of one envelope to one service) is taken once, and leaves once, either   *)
(* inside a batch that goes downstream or because the process gave it up.   *)
(* Summarizer.tla is shown to implement this specification.                 *)
(***************************************************************************)

CONSTANT Sample

VARIABLES open, reported, lost

ledger == <<open, reported, lost>>

Init ==
  /\ open = {}
  /\ reported = {}
  /\ lost = {}

Fresh(S) == S \cap (open \cup reported \cup lost) = {}

Take(S) ==
  /\ Fresh(S)
  /\ open' = open \cup S
  /\ UNCHANGED <<reported, lost>>

Report(S) ==
  /\ S \subseteq open
  /\ open' = open \ S
  /\ reported' = reported \cup S
  /\ UNCHANGED lost

GiveUp ==
  /\ open' = {}
  /\ lost' = lost \cup open
  /\ UNCHANGED reported

Next ==
  \/ \E S \in SUBSET Sample : Take(S)
  \/ \E S \in SUBSET open : Report(S)
  \/ GiveUp

Spec == Init /\ [][Next]_ledger
=============================================================================
