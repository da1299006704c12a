---------------------------- MODULE RedCounters -----------------------------
(***************************************************************************)
(* What the summarizer counts per service between two flushes, and where    *)
(* it comes from: cumulative OTLP counters turned into deltas through the   *)
(* map p.last, spans turned into delta counters by the spanmetrics          *)
(* processor, and Prometheus samples                                        *)
(* (internal/processors/summarizer/summarizer.go,                           *)
(*  internal/processors/spanmetrics/spanmetrics.go).                        *)
(*                                                                          *)
(* Floats are integers.  The number of samples and the latency digest are   *)
(* left out.  An envelope of several data points is one step for each.      *)
(* What was exported once stays on its way: an export may be lost, come     *)
(* late, or come again, as a client's retry does.                           *)
(***************************************************************************)
EXTENDS Integers, FiniteSets, Sequences

CONSTANTS
  Services,     \* values of the service attribute
  Counters,     \* cumulative counters, one per process that exports one
  Keys,         \* series keys
  KeyOf,        \* seriesKey of each counter
  ServiceOf,    \* service of each counter
  IsErrors,     \* counters named errors_total; the others are requests_total
  CodeOf,       \* status_code attribute of each counter, "" for none
  MaxTotal,     \* bound: what each counter counts in all
  MaxExports,   \* bound: exports of each counter
  MaxLate,      \* bound: exports of a counter taken after a newer one
  MaxDirect,    \* bound: spans, samples and delta sums taken
  MaxResets     \* bound: restarts of an exporting process or of this one

ASSUME RedAssumption ==
  /\ KeyOf \in [Counters -> Keys]
  /\ ServiceOf \in [Counters -> Services]
  /\ IsErrors \subseteq Counters
  /\ MaxTotal \in [Counters -> Nat]
  /\ MaxExports \in [Counters -> Nat]
  /\ MaxLate \in Nat
  /\ MaxDirect \in Nat
  /\ MaxResets \in Nat

VARIABLES
  total,    \* per counter: its cumulative value
  made,     \* history: per counter, what it has counted in its lifetimes
  reset,    \* history: counters that started again at zero
  restarts, \* restarts so far
  sent,     \* per counter: its exports, with what it had made by then
  last,     \* p.last, 0 for a key that is not there
  st,       \* p.state
  counted,  \* history: per counter, the deltas added since this process started
  at,       \* history: per counter, which export this process took last, or 0
  late,     \* history: per counter, exports taken after one that was sent later
  direct,   \* spans, samples and delta sums taken so far
  spans     \* history: per service, the error spans of this window, whether spans
            \* were all it had, and the delta sums below zero

vars == <<total, made, reset, restarts, sent, last, st, counted, at, late, direct, spans>>

source == <<total, made, reset, restarts, sent>>
deltas == <<last, counted, at, late>>

EmptySvc == [req |-> 0, ok |-> 0, err |-> 0]
EmptySpans == [errors |-> 0, only |-> TRUE, below |-> 0]

Statuses == {"unset", "ok", "error"}
Span == [status : Statuses, event : BOOLEAN]
Codes == {"", "200", "500"}

Init ==
  /\ total = [c \in Counters |-> 0]
  /\ made = [c \in Counters |-> 0]
  /\ reset = {}
  /\ restarts = 0
  /\ sent = [c \in Counters |-> <<>>]
  /\ last = [k \in Keys |-> 0]
  /\ st = [s \in Services |-> EmptySvc]
  /\ counted = [c \in Counters |-> 0]
  /\ at = [c \in Counters |-> 0]
  /\ late = [c \in Counters |-> 0]
  /\ direct = 0
  /\ spans = [s \in Services |-> EmptySpans]

-----------------------------------------------------------------------------
(* The processes that export counters.                                      *)

(* The process counts n more and exports the total.                         *)
Export(c, n) ==
  /\ made[c] + n <= MaxTotal[c]
  /\ Len(sent[c]) < MaxExports[c]
  /\ total' = [total EXCEPT ![c] = @ + n]
  /\ made' = [made EXCEPT ![c] = @ + n]
  /\ sent' = [sent EXCEPT ![c] = Append(@, [value |-> total'[c], made |-> made'[c]])]
  /\ UNCHANGED <<reset, restarts, st, direct, spans>> /\ UNCHANGED deltas

ExporterRestarts(c) ==
  /\ restarts < MaxResets
  /\ restarts' = restarts + 1
  /\ total' = [total EXCEPT ![c] = 0]
  /\ reset' = reset \cup {c}
  /\ UNCHANGED <<made, sent, st, direct, spans>> /\ UNCHANGED deltas

-----------------------------------------------------------------------------
(* consumeSum                                                               *)

(* It also accepts any other code that begins with a 2; Codes has none.     *)
isOKStatus(code) == code \in {"ok", "unset", "2xx", "200", "201", "202", "204"}

AddRequests(r, code, val) ==
  IF code # "" /\ ~isOKStatus(code)
    THEN [req |-> r.req + val, ok |-> r.ok, err |-> r.err + val]
    ELSE [req |-> r.req + val, ok |-> r.ok + val, err |-> r.err]

\* variant: an error is not a request
AddErrorsOnly(r, val) == [req |-> r.req, ok |-> r.ok, err |-> r.err + val]

(* errors imply requests too *)
AddErrors(r, val) == [req |-> r.req + val, ok |-> r.ok, err |-> r.err + val]

\* variants: a counter that fell counts by how much it fell, or less than nothing
deltaAbsolute(key, cur) == IF cur < last[key] THEN last[key] - cur ELSE cur - last[key]
deltaUnclamped(key, cur) == cur - last[key]

delta(key, cur) == IF cur < last[key] THEN 0 ELSE cur - last[key]

(* The k-th export of a counter reaches the summarizer, first, late or once *)
(* more: its value goes through the delta map, which takes any value as the *)
(* last, and the difference is added to the service.                        *)
TakeCounter(c, k) ==
  LET s == ServiceOf[c]
      cur == sent[c][k].value
      val == delta(KeyOf[c], cur)
  IN  /\ k < at[c] => late[c] < MaxLate
      /\ st' = [st EXCEPT ![s] = IF c \in IsErrors THEN AddErrors(@, val)
                                 ELSE AddRequests(@, CodeOf[c], val)]
      /\ last' = [last EXCEPT ![KeyOf[c]] = cur]
      /\ counted' = [counted EXCEPT ![c] = @ + val]
      /\ at' = [at EXCEPT ![c] = k]
      /\ late' = [late EXCEPT ![c] = IF k < at[c] THEN @ + 1 ELSE @]
      /\ spans' = [spans EXCEPT ![s].only = FALSE]
      /\ UNCHANGED source /\ UNCHANGED direct

(* A sum of delta temporality is added as it is, also one below zero.       *)
TakeDelta(s, errors, code, val) ==
  /\ direct < MaxDirect
  /\ direct' = direct + 1
  /\ st' = [st EXCEPT ![s] = IF errors THEN AddErrors(@, val) ELSE AddRequests(@, code, val)]
  /\ spans' = [spans EXCEPT ![s] = [errors |-> @.errors, only |-> FALSE,
                                    below |-> IF val < 0 THEN @.below + 1 ELSE @.below]]
  /\ UNCHANGED source /\ UNCHANGED deltas

-----------------------------------------------------------------------------
(* spanmetrics: tracesToResourceMetrics                                     *)

(* The enum's String(), lower-cased: this is the name in the OTLP protocol. *)
StatusName(status) ==
  CASE status = "unset" -> "status_code_unset"
    [] status = "ok"    -> "status_code_ok"
    [] status = "error" -> "status_code_error"

(* EqualFold of the enum's String() with ERROR, or an exception event       *)
isErrorSpan(sp) == StatusName(sp.status) = "error" \/ sp.event

(* One requests_total with the label status.code, one errors_total if it is *)
(* an error span; both have delta temporality and go on to consumeSum.      *)
TakeSpan(s, sp) ==
  /\ direct < MaxDirect
  /\ direct' = direct + 1
  /\ LET r == AddRequests(st[s], StatusName(sp.status), 1)
     IN  st' = [st EXCEPT ![s] = IF isErrorSpan(sp) THEN AddErrors(r, 1) ELSE r]
  /\ spans' = [spans EXCEPT ![s].errors =
                 IF sp.status = "error" \/ sp.event THEN @ + 1 ELSE @]
  /\ UNCHANGED source /\ UNCHANGED deltas

-----------------------------------------------------------------------------
(* consumePromRW: sample values are taken as deltas, at least 0             *)

TakeProm(s, errors, code, value) ==
  /\ direct < MaxDirect
  /\ direct' = direct + 1
  /\ LET v == IF value > 0 THEN value ELSE 0
     IN  st' = [st EXCEPT ![s] = IF errors THEN AddErrors(@, v) ELSE AddRequests(@, code, v)]
  /\ spans' = [spans EXCEPT ![s].only = FALSE]
  /\ UNCHANGED source /\ UNCHANGED deltas

-----------------------------------------------------------------------------
\* variant: the delta map is reset with the window
FlushForgettingDeltas ==
  /\ st' = [s \in Services |-> EmptySvc]
  /\ spans' = [s \in Services |-> EmptySpans]
  /\ last' = [k \in Keys |-> 0]
  /\ UNCHANGED source /\ UNCHANGED <<counted, at, late, direct>>

(* reset window state (not the delta map) *)
Flush ==
  /\ st' = [s \in Services |-> EmptySvc]
  /\ spans' = [s \in Services |-> EmptySpans]
  /\ UNCHANGED source /\ UNCHANGED deltas /\ UNCHANGED direct

(* The aggregator starts again: both maps are only in memory.               *)
Restart ==
  /\ restarts < MaxResets
  /\ restarts' = restarts + 1
  /\ st' = [s \in Services |-> EmptySvc]
  /\ spans' = [s \in Services |-> EmptySpans]
  /\ last' = [k \in Keys |-> 0]
  /\ counted' = [c \in Counters |-> 0]
  /\ at' = [c \in Counters |-> 0]
  /\ late' = [c \in Counters |-> 0]
  /\ UNCHANGED <<total, made, reset, sent, direct>>

Next ==
  \/ \E c \in Counters : \E n \in 0 .. MaxTotal[c] : Export(c, n)
  \/ \E c \in Counters : ExporterRestarts(c)
  \/ \E c \in Counters : \E k \in 1 .. Len(sent[c]) : TakeCounter(c, k)
  \/ \E s \in Services, errors \in BOOLEAN, code \in Codes, val \in -1 .. 1 :
       TakeDelta(s, errors, code, val)
  \/ \E s \in Services, sp \in Span : TakeSpan(s, sp)
  \/ \E s \in Services, errors \in BOOLEAN, code \in Codes, value \in -1 .. 1 :
       TakeProm(s, errors, code, value)
  \/ Flush
  \/ Restart

Spec == Init /\ [][Next]_vars

-----------------------------------------------------------------------------
(* Properties                                                               *)

(* Whatever falls, restarts or comes late, no counter is counted below zero,*)
(* and the sums of a service are natural numbers unless a delta sum below   *)
(* zero, which nothing clamps, came in during the window.                   *)
TypeOK ==
  /\ total \in [Counters -> Nat]
  /\ made \in [Counters -> Nat]
  /\ reset \in SUBSET Counters
  /\ restarts \in Nat
  /\ sent \in [Counters -> Seq([value : Nat, made : Nat])]
  /\ last \in [Keys -> Nat]
  /\ st \in [Services -> [req : Int, ok : Int, err : Int]]
  /\ counted \in [Counters -> Nat]
  /\ at \in [Counters -> Nat]
  /\ late \in [Counters -> Nat]
  /\ direct \in Nat
  /\ spans \in [Services -> [errors : Nat, only : BOOLEAN, below : Nat]]
  /\ \A s \in Services : spans[s].below = 0 => st[s].req >= 0 /\ st[s].ok >= 0 /\ st[s].err >= 0

(* flush divides err by ok + err and req by the window (summarizer.go:      *)
(* 136-140); the two agree on what a request is whichever way a data point  *)
(* came in, so the error rate is err / req, a fraction as model.go:43 says. *)
RequestsSplit ==
  \A s \in Services : st[s].req = st[s].ok + st[s].err

Alone(c) == \A d \in Counters : KeyOf[d] = KeyOf[c] => d = c

(* A counter that shares its series key with no other is counted beyond what*)
(* it has counted only when exports of it overtake each other, and then each*)
(* one that comes after a newer one costs at most the whole count once more.*)
(* That holds over any number of windows, lost and repeated exports and     *)
(* restarts of the exporting process.                                       *)
NeverOvercounted ==
  \A c \in Counters : Alone(c) => counted[c] <= made[c] * (1 + late[c])

(* The windows since the aggregator started never add up to less than the   *)
(* export that was taken last, and to exactly that when none came after a   *)
(* newer one and the exporting process has not restarted: nothing is lost or*)
(* doubled where one window ends and the next begins, nor by an export that *)
(* is lost or comes twice.                                                  *)
ExactWithoutReset ==
  \A c \in Counters : Alone(c) =>
    /\ counted[c] >= last[KeyOf[c]]
    /\ c \notin reset /\ late[c] = 0 => counted[c] = last[KeyOf[c]]

(* architecture.md:155-158 and 189, spanmetrics.go:245: errors_total counts *)
(* the error spans, via status or error events, and svc.err is what it      *)
(* counts.  So a service that had only spans in this window has as many     *)
(* errors as error spans.                                                   *)
ErrorsAreErrorSpans ==
  \A s \in Services : spans[s].only => st[s].err = spans[s].errors
=============================================================================
