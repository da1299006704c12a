---------------------------- MODULE MCLifecycle -----------------------------
(***************************************************************************)
(* Three pipelines, any of which may be misconfigured.                      *)
(***************************************************************************)
EXTENDS Lifecycle

CONSTANTS p1, p2, p3

MCPipelines == {p1, p2, p3}
=============================================================================
