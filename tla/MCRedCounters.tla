--------------------------- MODULE MCRedCounters ----------------------------
(***************************************************************************)
(* One service, two cumulative counters: its failed requests and its        *)
(* errors, each alone under its key.  Counters that share a key are not     *)
(* explored: what two of them add up to has no bound.  The exports of one   *)
(* of them overtake each other, the other is exported once.                 *)
(***************************************************************************)
EXTENDS RedCounters

CONSTANTS svc, requests, errors

MCServices == {svc}
MCCounters == {requests, errors}
MCKeys == {"requests_total|svc|status_code=500", "errors_total|svc"}
MCKeyOf == [c \in MCCounters |-> IF c = requests THEN "requests_total|svc|status_code=500"
                                                 ELSE "errors_total|svc"]
MCServiceOf == [c \in MCCounters |-> svc]
MCErrors == {errors}
MCCodeOf == [c \in MCCounters |-> IF c = requests THEN "500" ELSE ""]
MCMaxTotal == [c \in MCCounters |-> IF c = requests THEN 3 ELSE 1]
MCMaxExports == [c \in MCCounters |-> IF c = requests THEN 3 ELSE 1]
MCOneEach == [c \in MCCounters |-> 1]
=============================================================================
