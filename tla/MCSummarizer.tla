---------------------------- MODULE MCSummarizer ----------------------------
(***************************************************************************)
(* A small instance of Summarizer for TLC: two interchangeable services     *)
(* would be symmetric, but the liveness check forbids symmetry.             *)
(***************************************************************************)
EXTENDS Summarizer

CONSTANTS s1, s2

MCServices == {s1, s2}
=============================================================================
