----------------------------- MODULE Summarizer -----------------------------
(***************************************************************************)
(* The window loop of the summarizer processor                              *)
(* (internal/processors/summarizer/summarizer.go), which the logsum         *)
(* processor repeats line for line.  One goroutine selects over its         *)
(* context, its input and a 200ms ticker; it accumulates envelopes in       *)
(* per-service state and, on a tick past the end of the window, sends one   *)
(* Aggregate per service over an unbuffered channel, then starts the        *)
(* window the tick falls in.                                                *)
(*                                                                          *)
(* Data is abstracted to identities: the state of a service is the set of   *)
(* the envelopes that contributed to it, so that "counted once, in one      *)
(* window" can be said.  The arithmetic on the counters is in RedCounters.  *)
(***************************************************************************)
EXTENDS Integers, Sequences, FiniteSets

CONSTANTS
  Services,      \* values of the service attribute
  WindowSec,     \* p.windowSec
  MaxTime,       \* bound: last second of the modelled clock
  MaxItems,      \* bound: number of envelopes taken
  MaxRestarts    \* bound: number of times the process comes back

ASSUME WindowAssumption == WindowSec \in Nat \ {0}
ASSUME BoundsAssumption ==
  /\ MaxTime \in Nat
  /\ MaxTime >= WindowSec
  /\ MaxItems \in Nat
  /\ MaxRestarts \in Nat

VARIABLES
  clock,      \* wall clock, Unix seconds
  tick,       \* the ticker's channel: NoTick or the time of an unread tick
  pc,         \* where the goroutine is
  winStart,   \* start of the current window, 0 while the process is down
  state,      \* p.state: contributions per service, {} when there is no entry
  toEmit,     \* services the range loop of flush has still to send
  flushedAt,  \* the tick that made flush run, 0 outside flush
  held,       \* envelope being passed through
  nextId,     \* identity of the next envelope
  run,        \* how often the process has been started again
  readAt,     \* history: when each envelope was taken by the loop
  accepted,   \* history: contributions taken, as <<service, envelope>>
  lost,       \* history: contributions dropped with the state
  emitted     \* history: the Aggregates sent, in order

vars == <<clock, tick, pc, winStart, state, toEmit, flushedAt, held,
          nextId, run, readAt, accepted, lost, emitted>>

loop == <<pc, winStart, state, toEmit, flushedAt, held>>
history == <<nextId, readAt, accepted, lost, emitted>>

Time == 0 .. MaxTime
Ids == 1 .. MaxItems
NoTick == -1
NoItem == 0

Aggregate == [svc : Services, start : Time, end : Nat,
              items : SUBSET Ids, at : Time]

Sample == Services \X Ids

\* Variants of the code that the properties have to reject stand before the
\* definition they replace; no specification uses them.
TruncToPrevious(ts) == ts - WindowSec
TruncUp(ts) == ts - (ts % WindowSec) + WindowSec

trunc(ts) == ts - (ts % WindowSec)

Open == {x \in Sample : x[2] \in state[x[1]]}

(* While flush runs, what has been sent is still in p.state, which is only *)
(* replaced when the range loop ends.                                      *)
Unsent == {x \in Open : pc = "flush" => x[1] \in toEmit}

EmptyState == [s \in Services |-> {}]

Init ==
  /\ clock \in 0 .. WindowSec - 1     \* any phase of a window
  /\ tick = NoTick
  /\ pc = "select"
  /\ winStart = trunc(clock)
  /\ state = EmptyState
  /\ toEmit = {}
  /\ flushedAt = 0
  /\ held = NoItem
  /\ nextId = 1
  /\ run = 0
  /\ readAt = [i \in Ids |-> 0]
  /\ accepted = {}
  /\ lost = {}
  /\ emitted = <<>>

-----------------------------------------------------------------------------
(* The surroundings: time and the ticker.                                   *)

Advance ==
  /\ clock < MaxTime
  /\ clock' = clock + 1
  /\ UNCHANGED <<tick, run>>
  /\ UNCHANGED loop /\ UNCHANGED history

(* The runtime's timer channel holds one tick: one that is not read in time *)
(* stays there with the time it was produced, later ones are dropped.       *)
TickerFires ==
  /\ pc # "down"
  /\ tick = NoTick
  /\ tick' = clock
  /\ UNCHANGED <<clock, run>>
  /\ UNCHANGED loop /\ UNCHANGED history

-----------------------------------------------------------------------------
(* case v, ok := <-in                                                       *)

(* consumeOTLPMetrics, consumePromRW: ensureSvc for each resource, then the *)
(* data points.  svcs are the services of the envelope, none if it does not *)
(* decode; envelopes are numbered in the order they are taken.              *)
ConsumeMetrics(svcs) ==
  /\ pc = "select"
  /\ nextId \in Ids
  /\ state' = [s \in Services |-> IF s \in svcs THEN state[s] \cup {nextId} ELSE state[s]]
  /\ accepted' = accepted \cup (svcs \X {nextId})
  /\ readAt' = [readAt EXCEPT ![nextId] = clock]
  /\ nextId' = nextId + 1
  /\ UNCHANGED <<clock, tick, run, pc, winStart, toEmit, flushedAt, held, lost, emitted>>

(* default: out <- v, which may block *)
TakeOther ==
  /\ pc = "select"
  /\ nextId \in Ids
  /\ held' = nextId
  /\ nextId' = nextId + 1
  /\ pc' = "pass"
  /\ UNCHANGED <<clock, tick, run, winStart, state, toEmit, flushedAt>>
  /\ UNCHANGED <<readAt, accepted, lost, emitted>>

PassAlong ==
  /\ pc = "pass"
  /\ held' = NoItem
  /\ pc' = "select"
  /\ UNCHANGED <<clock, tick, run, winStart, state, toEmit, flushedAt>>
  /\ UNCHANGED history

-----------------------------------------------------------------------------
(* case now := <-ticker.C                                                   *)

TickTooEarly ==
  /\ pc = "select"
  /\ tick # NoTick
  /\ tick < winStart + WindowSec
  /\ tick' = NoTick
  /\ UNCHANGED <<clock, run>>
  /\ UNCHANGED loop /\ UNCHANGED history

\* variant: the comparison forgets the length of the window
TickClosesEarly ==
  /\ pc = "select"
  /\ tick # NoTick
  /\ tick >= winStart
  /\ flushedAt' = tick
  /\ tick' = NoTick
  /\ toEmit' = {s \in Services : state[s] # {}}
  /\ pc' = "flush"
  /\ UNCHANGED <<clock, run, winStart, state, held>>
  /\ UNCHANGED history

\* variant: only a tick in the very second of the end is noticed
TickClosesOnTime ==
  /\ tick = winStart + WindowSec
  /\ TickClosesEarly

(* flush ranges over the entries of p.state *)
TickClosesWindow ==
  /\ pc = "select"
  /\ tick # NoTick
  /\ tick >= winStart + WindowSec
  /\ flushedAt' = tick
  /\ tick' = NoTick
  /\ toEmit' = {s \in Services : state[s] # {}}
  /\ pc' = "flush"
  /\ UNCHANGED <<clock, run, winStart, state, held>>
  /\ UNCHANGED history

\* variant: the send does not wait for the next stage
EmitWithoutWaiting(s) ==
  /\ pc = "flush"
  /\ s \in toEmit
  /\ toEmit' = toEmit \ {s}
  /\ UNCHANGED <<clock, tick, run, pc, winStart, state, flushedAt, held>>
  /\ UNCHANGED history

(* One iteration: out <- agg is complete when the next stage takes it.      *)
(* Go ranges over a map in any order.                                       *)
EmitAggregate(s) ==
  /\ pc = "flush"
  /\ s \in toEmit
  /\ emitted' = Append(emitted,
       [svc |-> s, start |-> winStart, end |-> winStart + WindowSec,
        items |-> state[s], at |-> clock])
  /\ toEmit' = toEmit \ {s}
  /\ UNCHANGED <<clock, tick, run, pc, winStart, state, flushedAt, held>>
  /\ UNCHANGED <<nextId, readAt, accepted, lost>>

\* variant: the window state is not reset
FinishFlushKeepingState ==
  /\ pc = "flush"
  /\ toEmit = {}
  /\ winStart' = trunc(flushedAt)
  /\ flushedAt' = 0
  /\ pc' = "select"
  /\ UNCHANGED <<clock, tick, run, state, toEmit, held>>
  /\ UNCHANGED history

(* the end of flush, and winStart = trunc(now.Unix(), windowSec) after it   *)
FinishFlush ==
  /\ pc = "flush"
  /\ toEmit = {}
  /\ state' = EmptyState
  /\ winStart' = trunc(flushedAt)
  /\ flushedAt' = 0
  /\ pc' = "select"
  /\ UNCHANGED <<clock, tick, run, toEmit, held>>
  /\ UNCHANGED history

-----------------------------------------------------------------------------
(* The end of the loop.  Start returns from its select when the context is  *)
(* cancelled or its input is closed, without a last flush; a crash can come *)
(* anywhere.  Whatever is upstream in memory goes with the process.         *)

Forget ==
  /\ lost' = lost \cup Unsent
  /\ state' = EmptyState
  /\ toEmit' = {}
  /\ held' = NoItem
  /\ tick' = NoTick
  /\ winStart' = 0 /\ flushedAt' = 0
  /\ pc' = "down"
  /\ UNCHANGED <<clock, run, nextId, readAt, accepted, emitted>>

Stop == pc = "select" /\ Forget

Crash == pc \in {"pass", "flush"} /\ Forget

Restart ==
  /\ pc = "down"
  /\ run < MaxRestarts
  /\ run' = run + 1
  /\ pc' = "select"
  /\ winStart' = trunc(clock)
  /\ UNCHANGED <<clock, tick, state, toEmit, flushedAt, held>>
  /\ UNCHANGED history

-----------------------------------------------------------------------------
Loop ==
  \/ \E svcs \in SUBSET Services : ConsumeMetrics(svcs)
  \/ TakeOther
  \/ PassAlong
  \/ TickTooEarly
  \/ TickClosesWindow
  \/ \E s \in Services : EmitAggregate(s)
  \/ FinishFlush

Next ==
  \/ Advance
  \/ TickerFires
  \/ Loop
  \/ Stop
  \/ Crash
  \/ Restart

Spec == Init /\ [][Next]_vars

(* Time passes, the runtime keeps ticking, a runnable goroutine runs, and   *)
(* the next stage keeps receiving.  Nothing obliges envelopes to arrive or  *)
(* the process to stop or to come back.                                     *)
Fairness ==
  /\ WF_vars(Advance)
  /\ WF_vars(TickerFires)
  /\ WF_vars(PassAlong)
  /\ WF_vars(TickTooEarly \/ TickClosesWindow)
  /\ \A s \in Services : WF_vars(EmitAggregate(s))
  /\ WF_vars(FinishFlush)

FairSpec == Spec /\ Fairness

-----------------------------------------------------------------------------
(* Properties                                                               *)

(* Every variable keeps its shape; a start of window is a time the loop     *)
(* has seen.                                                                *)
TypeOK ==
  /\ clock \in Time
  /\ tick \in Time \cup {NoTick}
  /\ pc \in {"select", "pass", "flush", "down"}
  /\ winStart \in Time
  /\ state \in [Services -> SUBSET Ids]
  /\ toEmit \in SUBSET Services
  /\ flushedAt \in Time
  /\ held \in Ids \cup {NoItem}
  /\ nextId \in 1 .. MaxItems + 1
  /\ run \in 0 .. MaxRestarts
  /\ readAt \in [Ids -> Time]
  /\ accepted \in SUBSET Sample
  /\ lost \in SUBSET Sample
  /\ emitted \in Seq(Aggregate)

Reported == {x \in Sample : \E i \in DOMAIN emitted :
                              emitted[i].svc = x[1] /\ x[2] \in emitted[i].items}

(* The windows reported for one service do not overlap and come in order,   *)
(* however late or stale the tick was that closed them, and however often   *)
(* the process came back: at most one Aggregate per service and window      *)
(* start, which is what the exporter's object id assumes                    *)
(* (summarizer.go:115-120).                                                 *)
WindowsDisjoint ==
  \A i, j \in DOMAIN emitted :
    (i < j /\ emitted[i].svc = emitted[j].svc) => emitted[i].end <= emitted[j].start

(* A contribution that was taken is waiting in the window, reported or      *)
(* lost with the process, exactly one of the three, and is in the items of  *)
(* at most one Aggregate: flush sends p.state while it is still in place    *)
(* and only then resets it (summarizer.go:125-160).                         *)
EachSampleCountedOnce ==
  /\ accepted = Unsent \cup Reported \cup lost
  /\ Unsent \cap Reported = {}
  /\ Unsent \cap lost = {}
  /\ Reported \cap lost = {}
  /\ \A i, j \in DOMAIN emitted :
       (i # j /\ emitted[i].svc = emitted[j].svc)
         => emitted[i].items \cap emitted[j].items = {}

(* An Aggregate never claims a sample for a window that had not begun when  *)
(* the loop took the sample, even after a tick that waited in the channel.  *)
SampleNotBeforeWindow ==
  \A i \in DOMAIN emitted : \A x \in emitted[i].items :
    readAt[x] >= emitted[i].start

(* An Aggregate is sent only after its window is over (summarizer.go:117).  *)
ReportedAfterWindow ==
  \A i \in DOMAIN emitted : emitted[i].at >= emitted[i].end

(* A contribution to a window that ends within the modelled time is         *)
(* eventually reported, or lost because the process stopped: a window       *)
(* cannot stay open because its tick was missed or the output was blocked.  *)
EveryWindowCloses ==
  \A x \in Sample :
    (x \in Unsent /\ winStart + WindowSec <= MaxTime) ~> (x \in Reported \cup lost)

Ledger == INSTANCE SampleLedger WITH open <- Unsent, reported <- Reported

(* The loop implements the ledger of samples: no step takes a sample again, *)
(* reports one that is not open, or lets one disappear unaccounted for.     *)
ImplementsLedger == Ledger!Spec

(* What architecture.md:179 and model.go:35-36 say of an Aggregate: its     *)
(* samples are those whose envelope arrived in [WindowStart, WindowEnd).    *)
(* Here an envelope is taken in the second it arrives, which is the most    *)
(* favourable case: TSUnix is readAt.                                       *)
SamplesArrivedInWindow ==
  \A i \in DOMAIN emitted : \A x \in emitted[i].items :
    readAt[x] >= emitted[i].start /\ readAt[x] < emitted[i].end
=============================================================================
