------------------------------ MODULE Pipelines ------------------------------
(***************************************************************************)
(* The data plane built by BuildAndRun and runSinglePipeline                *)
(* (internal/pipeline/pipeline.go): a receiver started once, its shared     *)
(* channel, the fan-out goroutine that copies every envelope to each        *)
(* subscribed pipeline, and per pipeline the chain                          *)
(*     envelopeToAny -> processors -> bridge -> dispatcher -> exporters     *)
(* of goroutines joined by unbuffered channels.                             *)
(*                                                                          *)
(* An envelope is a number; 0 is an empty hand.  A pipeline has one         *)
(* processor stage, which turns the envelopes of Summarised into Aggregates *)
(* and passes the others unchanged, one out for one in; what a summarizer   *)
(* does inside its window is in Summarizer.tla.                             *)
(***************************************************************************)
EXTENDS Integers, Sequences, FiniteSets, SequencesExt

CONSTANTS
  Receivers,    \* keys of the receivers
  Pipelines,    \* names of the pipelines
  Subs,         \* per receiver, its subscribers in fan-out order
  ExportersOf,  \* per pipeline, the number of exporters it lists
  Faults,       \* per pipeline, the kinds of stage it may name that do not exist
  Blocking,     \* receivers that wait for room; the others drop
  Summarised,   \* envelopes that become Aggregates
  MayCancel,    \* bound: whether the context may be cancelled
  MaxMsgs,      \* bound: envelopes received in all
  SharedCap,    \* capacity of a shared channel (64)
  RxCap         \* capacity of a pipeline's input channel (64)

Kinds == {"none", "processor", "exporter"}

ASSUME PipelinesAssumption ==
  /\ Subs \in [Receivers -> Seq(Pipelines)]
  /\ \A r \in Receivers : Subs[r] # <<>>
  /\ ExportersOf \in [Pipelines -> Nat]
  /\ Faults \in [Pipelines -> SUBSET Kinds]
  /\ Blocking \subseteq Receivers
  /\ MayCancel \in BOOLEAN
  /\ MaxMsgs \in Nat
  /\ Summarised \subseteq 1 .. MaxMsgs
  /\ SharedCap \in Nat \ {0}
  /\ RxCap \in Nat \ {0}

VARIABLES
  fault,      \* per pipeline: what made runSinglePipeline return an error
  ctxDone,    \* the context is cancelled
  nextMsg,    \* number of the next envelope
  shared,     \* per receiver: shared channel
  fan, fanAt, \* per receiver: envelope in the fan-out's hand, next subscriber
  rx,         \* per pipeline: input channel
  conv,       \* per pipeline: envelopeToAny's hand
  proc,       \* per pipeline: the processor's hand
  bridge,     \* per pipeline: the bridge's hand
  disp, dispAt, \* per pipeline: the dispatcher's hand, next exporter
  exp,        \* per pipeline and exporter: the Aggregate being upserted
  running,    \* goroutines that have not returned
  log,        \* history: per receiver, what its shared channel accepted
  dropped,    \* history: envelopes a receiver acknowledged and dropped
  entered,    \* history: per pipeline, what its input channel accepted
  handed      \* history: per pipeline and exporter, what it was done with: upserts
              \* that failed are here too, and what is stored is in Delivery.tla

vars == <<fault, ctxDone, nextMsg, shared, fan, fanAt, rx, conv, proc, bridge, disp,
          dispAt, exp, running, log, dropped, entered, handed>>

Msgs == 1 .. MaxMsgs
None == 0
Hand == 0 .. MaxMsgs
Exporters(p) == 1 .. ExportersOf[p]

\* goroutines that end, by name
Goroutine ==
  [kind : {"fan"}, of : Receivers, at : {0}]
    \cup [kind : {"proc", "bridge", "disp"}, of : Pipelines, at : {0}]
    \cup UNION {[kind : {"exp"}, of : {p}, at : Exporters(p)] : p \in Pipelines}

Go(kind, of) == [kind |-> kind, of |-> of, at |-> 0]
GoExp(p, i) == [kind |-> "exp", of |-> p, at |-> i]
Running(g) == g \in running
Return(g) == running' = running \ {g}

broken == {p \in Pipelines : fault[p] # "none"}

\* variant: the bridge is called without go, so nothing after it starts
StartedUpToBridge ==
  {g \in Goroutine :
     /\ g.kind \in {"proc", "bridge"} => fault[g.of] # "processor"
     /\ g.kind \notin {"disp", "exp"}}

(* runSinglePipeline starts the stages as it looks them up: nothing of it   *)
(* is undone when it returns "processor not found" or "exporter not found". *)
(* The processor or the first exporter is the missing one.  A pipeline that *)
(* lists no exporters gets no dispatcher.                                   *)
Started ==
  {g \in Goroutine :
     /\ g.kind \in {"proc", "bridge"} => fault[g.of] # "processor"
     /\ g.kind \in {"disp", "exp"} => fault[g.of] = "none"
     /\ g.kind = "disp" => ExportersOf[g.of] > 0}

Init ==
  /\ fault \in [Pipelines -> Kinds]
  /\ \A p \in Pipelines : fault[p] \in Faults[p]
  /\ ctxDone = FALSE
  /\ nextMsg = 1
  /\ shared = [r \in Receivers |-> <<>>]
  /\ fan = [r \in Receivers |-> None]
  /\ fanAt = [r \in Receivers |-> 1]
  /\ rx = [p \in Pipelines |-> <<>>]
  /\ conv = [p \in Pipelines |-> None]
  /\ proc = [p \in Pipelines |-> None]
  /\ bridge = [p \in Pipelines |-> None]
  /\ disp = [p \in Pipelines |-> None]
  /\ dispAt = [p \in Pipelines |-> 1]
  /\ exp = [p \in Pipelines |-> [i \in Exporters(p) |-> None]]
  /\ running = Started
  /\ log = [r \in Receivers |-> <<>>]
  /\ dropped = {}
  /\ entered = [p \in Pipelines |-> <<>>]
  /\ handed = [p \in Pipelines |-> [i \in Exporters(p) |-> <<>>]]

-----------------------------------------------------------------------------
(* Receivers.  The HTTP, PromRW and Pulsar receivers select with a default  *)
(* that drops (and acknowledge all the same); JSON logs, Kafka and OTLP     *)
(* gRPC block on the send.  A handler in flight looks at no context, so     *)
(* envelopes may still come after the cancellation.                         *)

Accept(r) ==
  /\ nextMsg \in Msgs
  /\ Len(shared[r]) < SharedCap
  /\ shared' = [shared EXCEPT ![r] = Append(@, nextMsg)]
  /\ log' = [log EXCEPT ![r] = Append(@, nextMsg)]
  /\ nextMsg' = nextMsg + 1
  /\ UNCHANGED <<fault, ctxDone, fan, fanAt, rx, conv, proc, bridge, disp, dispAt, exp,
                 running, dropped, entered, handed>>

Drop(r) ==
  /\ nextMsg \in Msgs
  /\ r \notin Blocking
  /\ Len(shared[r]) = SharedCap
  /\ dropped' = dropped \cup {nextMsg}
  /\ nextMsg' = nextMsg + 1
  /\ UNCHANGED <<fault, ctxDone, shared, fan, fanAt, rx, conv, proc, bridge, disp, dispAt,
                 exp, running, log, entered, handed>>

-----------------------------------------------------------------------------
(* Fan-out: for env := range shared, for each subscriber in order,          *)
(* select { sub.ch <- e / ctx.Done }.                                       *)

FanTake(r) ==
  /\ Running(Go("fan", r))
  /\ fan[r] = None
  /\ shared[r] # <<>>
  /\ fan' = [fan EXCEPT ![r] = Head(shared[r])]
  /\ fanAt' = [fanAt EXCEPT ![r] = 1]
  /\ shared' = [shared EXCEPT ![r] = Tail(@)]
  /\ UNCHANGED <<fault, ctxDone, nextMsg, rx, conv, proc, bridge, disp, dispAt, exp,
                 running, log, dropped, entered, handed>>

\* variant: like the receivers, the fan-out skips a subscriber that is full
FanSendOrSkip(r) ==
  /\ fan[r] # None
  /\ LET p == Subs[r][fanAt[r]]
         last == fanAt[r] = Len(Subs[r])
         room == Len(rx[p]) < RxCap
     IN  /\ rx' = [rx EXCEPT ![p] = IF room THEN Append(@, fan[r]) ELSE @]
         /\ entered' = [entered EXCEPT ![p] = IF room THEN Append(@, fan[r]) ELSE @]
         /\ fan' = [fan EXCEPT ![r] = IF last THEN None ELSE @]
         /\ fanAt' = [fanAt EXCEPT ![r] = IF last THEN 1 ELSE @ + 1]
  /\ UNCHANGED <<fault, ctxDone, nextMsg, shared, conv, proc, bridge, disp, dispAt, exp,
                 running, log, dropped, handed>>

\* variant: the loop over the subscribers ends one late
FanSendPastLast(r) ==
  /\ fan[r] # None
  /\ LET p == Subs[r][fanAt[r]]
         last == fanAt[r] > Len(Subs[r])
     IN  /\ Len(rx[p]) < RxCap
         /\ rx' = [rx EXCEPT ![p] = Append(@, fan[r])]
         /\ entered' = [entered EXCEPT ![p] = Append(@, fan[r])]
         /\ fan' = [fan EXCEPT ![r] = IF last THEN None ELSE @]
         /\ fanAt' = [fanAt EXCEPT ![r] = IF last THEN 1 ELSE @ + 1]
  /\ UNCHANGED <<fault, ctxDone, nextMsg, shared, conv, proc, bridge, disp, dispAt, exp,
                 running, log, dropped, handed>>

FanSend(r) ==
  /\ fan[r] # None
  /\ LET p == Subs[r][fanAt[r]]
         last == fanAt[r] = Len(Subs[r])
     IN  /\ Len(rx[p]) < RxCap
         /\ rx' = [rx EXCEPT ![p] = Append(@, fan[r])]
         /\ entered' = [entered EXCEPT ![p] = Append(@, fan[r])]
         /\ fan' = [fan EXCEPT ![r] = IF last THEN None ELSE @]
         /\ fanAt' = [fanAt EXCEPT ![r] = IF last THEN 1 ELSE @ + 1]
  /\ UNCHANGED <<fault, ctxDone, nextMsg, shared, conv, proc, bridge, disp, dispAt, exp,
                 running, log, dropped, handed>>

\* variant: break leaves the select only, and the loop goes on
FanQuitBreak(r) ==
  /\ ctxDone
  /\ fan[r] # None
  /\ LET last == fanAt[r] = Len(Subs[r])
     IN  /\ fan' = [fan EXCEPT ![r] = IF last THEN None ELSE @]
         /\ fanAt' = [fanAt EXCEPT ![r] = IF last THEN 1 ELSE @ + 1]
  /\ UNCHANGED <<fault, ctxDone, nextMsg, shared, rx, conv, proc, bridge, disp, dispAt, exp,
                 running, log, dropped, entered, handed>>

(* The envelope in hand goes to no further subscriber.                      *)
FanQuit(r) ==
  /\ ctxDone
  /\ fan[r] # None
  /\ fan' = [fan EXCEPT ![r] = None]
  /\ fanAt' = [fanAt EXCEPT ![r] = 1]
  /\ Return(Go("fan", r))
  /\ UNCHANGED <<fault, ctxDone, nextMsg, shared, rx, conv, proc, bridge, disp, dispAt, exp,
                 log, dropped, entered, handed>>

-----------------------------------------------------------------------------
(* One pipeline.  A send on an unbuffered channel and its receive are one   *)
(* step.                                                                    *)

ConvTake(p) ==
  /\ conv[p] = None
  /\ rx[p] # <<>>
  /\ conv' = [conv EXCEPT ![p] = Head(rx[p])]
  /\ rx' = [rx EXCEPT ![p] = Tail(@)]
  /\ UNCHANGED <<fault, ctxDone, nextMsg, shared, fan, fanAt, proc, bridge, disp, dispAt, exp,
                 running, log, dropped, entered, handed>>

ProcTake(p) ==
  /\ Running(Go("proc", p))
  /\ proc[p] = None
  /\ conv[p] # None
  /\ proc' = [proc EXCEPT ![p] = conv[p]]
  /\ conv' = [conv EXCEPT ![p] = None]
  /\ UNCHANGED <<fault, ctxDone, nextMsg, shared, fan, fanAt, rx, bridge, disp, dispAt, exp,
                 running, log, dropped, entered, handed>>

(* The processor's select sees ctx.Done; deferred, it closes its output.    *)
ProcQuit(p) ==
  /\ ctxDone
  /\ Running(Go("proc", p))
  /\ proc[p] = None
  /\ Return(Go("proc", p))
  /\ UNCHANGED <<fault, ctxDone, nextMsg, shared, fan, fanAt, rx, conv, proc, bridge, disp,
                 dispAt, exp, log, dropped, entered, handed>>

(* Aggregates stay in hand for finalAgg, anything else is discarded.        *)
\* variant: the bridge does not wait for the Aggregate to be taken
BridgeOverwrites(p) ==
  /\ Running(Go("bridge", p))
  /\ proc[p] # None
  /\ bridge' = [bridge EXCEPT ![p] = IF proc[p] \in Summarised THEN proc[p] ELSE None]
  /\ proc' = [proc EXCEPT ![p] = None]
  /\ UNCHANGED <<fault, ctxDone, nextMsg, shared, fan, fanAt, rx, conv, disp, dispAt, exp,
                 running, log, dropped, entered, handed>>

BridgeTake(p) ==
  /\ Running(Go("bridge", p))
  /\ bridge[p] = None
  /\ proc[p] # None
  /\ bridge' = [bridge EXCEPT ![p] = IF proc[p] \in Summarised THEN proc[p] ELSE None]
  /\ proc' = [proc EXCEPT ![p] = None]
  /\ UNCHANGED <<fault, ctxDone, nextMsg, shared, fan, fanAt, rx, conv, disp, dispAt, exp,
                 running, log, dropped, entered, handed>>

BridgeQuit(p) ==
  /\ Running(Go("bridge", p))
  /\ bridge[p] = None
  /\ ~Running(Go("proc", p))
  /\ Return(Go("bridge", p))
  /\ UNCHANGED <<fault, ctxDone, nextMsg, shared, fan, fanAt, rx, conv, proc, bridge, disp,
                 dispAt, exp, log, dropped, entered, handed>>

DispTake(p) ==
  /\ Running(Go("disp", p))
  /\ disp[p] = None
  /\ bridge[p] # None
  /\ disp' = [disp EXCEPT ![p] = bridge[p]]
  /\ dispAt' = [dispAt EXCEPT ![p] = 1]
  /\ bridge' = [bridge EXCEPT ![p] = None]
  /\ UNCHANGED <<fault, ctxDone, nextMsg, shared, fan, fanAt, rx, conv, proc, exp,
                 running, log, dropped, entered, handed>>

\* variant: an exporter that is busy does not get the Aggregate
DispSendOrSkip(p) ==
  /\ disp[p] # None
  /\ LET i == dispAt[p]
         last == i = ExportersOf[p]
         ready == Running(GoExp(p, i)) /\ exp[p][i] = None
     IN  /\ exp' = [exp EXCEPT ![p][i] = IF ready THEN disp[p] ELSE @]
         /\ disp' = [disp EXCEPT ![p] = IF last THEN None ELSE @]
         /\ dispAt' = [dispAt EXCEPT ![p] = IF last THEN 1 ELSE i + 1]
  /\ UNCHANGED <<fault, ctxDone, nextMsg, shared, fan, fanAt, rx, conv, proc, bridge,
                 running, log, dropped, entered, handed>>

DispSend(p) ==
  /\ disp[p] # None
  /\ LET i == dispAt[p]
         last == i = ExportersOf[p]
     IN  /\ Running(GoExp(p, i))
         /\ exp[p][i] = None
         /\ exp' = [exp EXCEPT ![p][i] = disp[p]]
         /\ disp' = [disp EXCEPT ![p] = IF last THEN None ELSE @]
         /\ dispAt' = [dispAt EXCEPT ![p] = IF last THEN 1 ELSE i + 1]
  /\ UNCHANGED <<fault, ctxDone, nextMsg, shared, fan, fanAt, rx, conv, proc, bridge,
                 running, log, dropped, entered, handed>>

\* variant: the dispatcher's send does not watch the context
DispQuitOnlyWhenClosed(p) ==
  /\ Running(Go("disp", p))
  /\ disp[p] = None
  /\ ~Running(Go("bridge", p))
  /\ Return(Go("disp", p))
  /\ UNCHANGED <<fault, ctxDone, nextMsg, shared, fan, fanAt, rx, conv, proc, bridge, disp,
                 dispAt, exp, log, dropped, entered, handed>>

DispQuit(p) ==
  /\ Running(Go("disp", p))
  /\ \/ disp[p] # None /\ ctxDone
     \/ disp[p] = None /\ ~Running(Go("bridge", p))
  /\ disp' = [disp EXCEPT ![p] = None]
  /\ dispAt' = [dispAt EXCEPT ![p] = 1]
  /\ Return(Go("disp", p))
  /\ UNCHANGED <<fault, ctxDone, nextMsg, shared, fan, fanAt, rx, conv, proc, bridge, exp,
                 log, dropped, entered, handed>>

(* The upsert returns, with an error or not; errors are only logged, so the *)
(* exporter is done with the Aggregate whether or not it is stored.         *)
Export(p, i) ==
  /\ exp[p][i] # None
  /\ handed' = [handed EXCEPT ![p][i] = Append(@, exp[p][i])]
  /\ exp' = [exp EXCEPT ![p][i] = None]
  /\ UNCHANGED <<fault, ctxDone, nextMsg, shared, fan, fanAt, rx, conv, proc, bridge, disp,
                 dispAt, running, log, dropped, entered>>

ExpQuit(p, i) ==
  /\ Running(GoExp(p, i))
  /\ exp[p][i] = None
  /\ ctxDone \/ ~Running(Go("disp", p))
  /\ Return(GoExp(p, i))
  /\ UNCHANGED <<fault, ctxDone, nextMsg, shared, fan, fanAt, rx, conv, proc, bridge, disp,
                 dispAt, exp, log, dropped, entered, handed>>

Cancel ==
  /\ MayCancel
  /\ ~ctxDone
  /\ ctxDone' = TRUE
  /\ UNCHANGED <<fault, nextMsg, shared, fan, fanAt, rx, conv, proc, bridge, disp, dispAt, exp,
                 running, log, dropped, entered, handed>>

-----------------------------------------------------------------------------
FanStep(r) == FanTake(r) \/ FanSend(r) \/ FanQuit(r)

DispStep(p) == DispTake(p) \/ DispSend(p) \/ DispQuit(p)

Next ==
  \/ Cancel
  \/ \E r \in Receivers : Accept(r) \/ Drop(r) \/ FanStep(r)
  \/ \E p \in Pipelines :
       \/ ConvTake(p) \/ ProcTake(p) \/ ProcQuit(p)
       \/ BridgeTake(p) \/ BridgeQuit(p) \/ DispStep(p)
       \/ \E i \in Exporters(p) : Export(p, i) \/ ExpQuit(p, i)

Spec == Init /\ [][Next]_vars

(* A goroutine whose channel operation can proceed eventually runs, and an  *)
(* upsert returns (the HTTP client has a timeout).  Requests need not       *)
(* arrive and the context need not be cancelled.                            *)
Fairness ==
  /\ \A r \in Receivers : WF_vars(FanStep(r))
  /\ \A p \in Pipelines :
       /\ WF_vars(ConvTake(p))
       /\ WF_vars(ProcTake(p) \/ ProcQuit(p))
       /\ WF_vars(BridgeTake(p) \/ BridgeQuit(p))
       /\ WF_vars(DispStep(p))
       /\ \A i \in Exporters(p) : WF_vars(Export(p, i) \/ ExpQuit(p, i))

FairSpec == Spec /\ Fairness

-----------------------------------------------------------------------------
(* Properties                                                               *)

(* Every variable keeps its shape and every channel its capacity.           *)
TypeOK ==
  /\ fault \in [Pipelines -> Kinds]
  /\ ctxDone \in BOOLEAN
  /\ nextMsg \in 1 .. MaxMsgs + 1
  /\ \A r \in Receivers :
       /\ shared[r] \in Seq(Msgs) /\ Len(shared[r]) <= SharedCap
       /\ fan[r] \in Hand
       /\ fanAt[r] \in 1 .. Len(Subs[r])
       /\ log[r] \in Seq(Msgs)
  /\ \A p \in Pipelines :
       /\ rx[p] \in Seq(Msgs) /\ Len(rx[p]) <= RxCap
       /\ {conv[p], proc[p], bridge[p], disp[p]} \subseteq Hand
       /\ dispAt[p] \in Nat
       /\ exp[p] \in [Exporters(p) -> Hand]
       /\ entered[p] \in Seq(Msgs)
       /\ handed[p] \in [Exporters(p) -> Seq(Msgs)]
  /\ running \subseteq Started
  /\ dropped \subseteq Msgs

(* Envelopes are numbered in the order they are received: of a log that     *)
(* has some of Kept, q holds the first ones, each once and in order,        *)
(* whatever of other receivers lies between them.                           *)
Begins(q, r, Kept) ==
  /\ \A a, b \in DOMAIN q : a < b /\ {q[a], q[b]} \subseteq ToSet(log[r]) => q[a] < q[b]
  /\ \A m \in ToSet(q) \cap ToSet(log[r]) :
       m \in Kept /\ \A n \in ToSet(log[r]) \cap Kept : n < m => n \in ToSet(q)

(* What was handed to an exporter and tried is, for each receiver, a prefix *)
(* of the Aggregates made from what that receiver accepted: through seven   *)
(* hands and four kinds of channel nothing is lost in the middle, doubled   *)
(* or overtaken, whatever a second receiver or a cancellation does.  It is  *)
(* not what is stored: an upsert that fails leaves no object                *)
(* (weaviate.go:55).                                                        *)
HandedInOrder ==
  \A r \in Receivers : \A j \in DOMAIN Subs[r] :
    LET p == Subs[r][j] IN
      /\ Begins(entered[p], r, Msgs)
      /\ \A i \in Exporters(p) : Begins(handed[p][i], r, Summarised)

\* what of a receiver the j-th subscriber was sent
SentTo(r, j) == ToSet(entered[Subs[r][j]]) \cap ToSet(log[r])

(* The fan-out sends to its subscribers in turn and waits for each: an      *)
(* earlier subscriber was sent all that a later one was, and at most one    *)
(* envelope more, so one full pipeline holds back all the others            *)
(* (pipeline.go:88-105).                                                    *)
FanOutLockstep ==
  \A r \in Receivers : \A j, k \in DOMAIN Subs[r] :
    j < k => /\ SentTo(r, k) \subseteq SentTo(r, j)
             /\ Cardinality(SentTo(r, j) \ SentTo(r, k)) <= 1

Received(p, i) == Len(handed[p][i]) + IF exp[p][i] = None THEN 0 ELSE 1

(* The same for the exporters of a pipeline: the dispatcher waits for a     *)
(* slow upsert before it offers the next Aggregate to anyone                *)
(* (pipeline.go:230-238).                                                   *)
DispatchLockstep ==
  \A p \in Pipelines : \A i, k \in Exporters(p) :
    i < k => Received(p, i) - Received(p, k) \in {0, 1}

(* A pipeline that failed to start still subscribes: what is left of it     *)
(* swallows what its channels and hands hold, and from then on no pipeline  *)
(* of that receiver gets another Aggregate's worth: one envelope per place  *)
(* in the input channel, one in envelopeToAny's hand, one that only the     *)
(* subscribers before it got, and, when it is an exporter that is missing,  *)
(* one each in the hands of the processor and the bridge.                   *)
Held(p) == RxCap + 2 + IF fault[p] = "exporter" THEN 2 ELSE 0

BrokenPipelineStopsReceiver ==
  \A r \in Receivers : \A j, k \in DOMAIN Subs[r] :
    Subs[r][k] \in broken
      => Cardinality(SentTo(r, j) \cap Summarised) <= Held(Subs[r][k])

(* An Aggregate of an envelope that was accepted from a receiver none of    *)
(* whose subscribers is broken reaches every exporter of each subscriber,   *)
(* unless the context is cancelled; a broken pipeline elsewhere and a       *)
(* receiver that is stuck do not matter.                                    *)
Healthy(r) == broken \cap ToSet(Subs[r]) = {}

EveryAggregateExported ==
  \A m \in Summarised, p \in Pipelines : \A i \in Exporters(p) :
    (\E r \in Receivers : Healthy(r) /\ p \in ToSet(Subs[r]) /\ m \in ToSet(log[r]))
      ~> (ctxDone \/ m \in ToSet(handed[p][i]))

(* After cancellation every dispatcher and exporter returns, also when a    *)
(* stage before them is stuck on a channel nobody reads any more.           *)
ExportersStop ==
  ctxDone ~> (\A g \in running : g.kind \notin {"disp", "exp"})

(* pipeline.go:202 logs "no exporters; aggregates will be dropped": an      *)
(* Aggregate the bridge of such a pipeline holds is eventually discarded.   *)
AggregatesDropped ==
  \A p \in Pipelines, m \in Summarised :
    (ExportersOf[p] = 0 /\ bridge[p] = m) ~> (bridge[p] # m)
=============================================================================
