-------------------------- MODULE SummarizerProofs --------------------------
(***************************************************************************)
(* Proofs about Summarizer for every set of services, window length and     *)
(* bound.  The inductive invariants tie the position of the goroutine to    *)
(* the windows already reported and to the samples waiting in p.state.      *)
(***************************************************************************)
EXTENDS Summarizer, TLAPS

-----------------------------------------------------------------------------
(* Arithmetic of windows                                                    *)

(* A truncated time is a multiple of the window length, at most the time    *)
(* and less than one window behind it (trunc, summarizer.go:328).           *)
LEMMA TruncFacts ==
  ASSUME NEW t \in Nat
  PROVE  /\ trunc(t) \in Nat
         /\ trunc(t) <= t
         /\ t < trunc(t) + WindowSec
         /\ trunc(t) = WindowSec * (t \div WindowSec)
  BY WindowAssumption DEF trunc

(* The start of the window of a clock value is again a clock value.         *)
LEMMA TruncInTime ==
  ASSUME NEW t \in Time
  PROVE  trunc(t) \in Time /\ trunc(t) <= t
<1>1. t \in Nat /\ t <= MaxTime
  BY BoundsAssumption DEF Time
<1>2. trunc(t) \in Nat /\ trunc(t) <= t
  BY <1>1, TruncFacts
<1> QED
  BY <1>1, <1>2, BoundsAssumption DEF Time

(* Truncation of a time past the start of an aligned window gives a start   *)
(* no earlier than that one.                                                *)
LEMMA TruncPastStart ==
  ASSUME NEW t \in Nat, NEW k \in Nat, t >= WindowSec * k
  PROVE  trunc(t) >= WindowSec * k
<1> DEFINE q == t \div WindowSec
<1>1. q \in Nat /\ WindowSec \in Nat /\ WindowSec > 0
  BY WindowAssumption
<1>2. t < WindowSec * q + WindowSec
  BY TruncFacts
<1>3. q >= k
  <2> SUFFICES ASSUME q + 1 <= k PROVE FALSE
    BY <1>1
  <2>1. WindowSec * (q + 1) <= WindowSec * k
    BY <1>1
  <2>2. WindowSec * (q + 1) = WindowSec * q + WindowSec
    BY <1>1
  <2> QED
    BY <1>1, <1>2, <2>1, <2>2
<1>4. WindowSec * q >= WindowSec * k
  BY <1>1, <1>3
<1>5. trunc(t) = WindowSec * q
  BY TruncFacts
<1> QED
  BY <1>4, <1>5

-----------------------------------------------------------------------------
(* Type correctness                                                         *)

(* Every reachable state is well typed; in particular the start of the      *)
(* window is always a time of the clock.                                    *)
THEOREM TypeCorrect == Spec => []TypeOK
<1> USE DEF Time, Ids, NoTick, NoItem, Sample
<1>1. Init => TypeOK
  <2> SUFFICES ASSUME Init PROVE TypeOK
    OBVIOUS
  <2>1. clock \in Time /\ clock \in Nat
    BY WindowAssumption, BoundsAssumption DEF Init
  <2>2. winStart \in Time
    <3>1. winStart = trunc(clock)
      BY DEF Init
    <3> QED
      BY <2>1, <3>1, TruncInTime
  <2> QED
    BY <2>1, <2>2, BoundsAssumption DEF Init, TypeOK, EmptyState
<1>2. TypeOK /\ [Next]_vars => TypeOK'
  <2> SUFFICES ASSUME TypeOK, [Next]_vars PROVE TypeOK'
    OBVIOUS
  <2> USE DEF TypeOK
  <2>1. CASE Advance
    BY <2>1, BoundsAssumption DEF Advance, loop, history
  <2>2. CASE TickerFires
    BY <2>2 DEF TickerFires, loop, history
  <2>3. ASSUME NEW svcs \in SUBSET Services, ConsumeMetrics(svcs)
        PROVE  TypeOK'
    <3>1. state' \in [Services -> SUBSET Ids]
      BY <2>3 DEF ConsumeMetrics
    <3>2. accepted' \in SUBSET Sample
      BY <2>3 DEF ConsumeMetrics
    <3>3. nextId' \in 1 .. MaxItems + 1 /\ readAt' \in [Ids -> Time]
      BY <2>3, BoundsAssumption DEF ConsumeMetrics
    <3> QED
      BY <3>1, <3>2, <3>3, <2>3 DEF ConsumeMetrics
  <2>4. CASE TakeOther
    BY <2>4, BoundsAssumption DEF TakeOther
  <2>5. CASE PassAlong
    BY <2>5 DEF PassAlong, history
  <2>6. CASE TickTooEarly
    BY <2>6 DEF TickTooEarly, loop, history
  <2>7. CASE TickClosesWindow
    BY <2>7, WindowAssumption DEF TickClosesWindow, history
  <2>8. ASSUME NEW s \in Services, EmitAggregate(s)
        PROVE  TypeOK'
    <3> DEFINE agg == [svc |-> s, start |-> winStart, end |-> winStart + WindowSec,
                       items |-> state[s], at |-> clock]
    <3>1. agg \in Aggregate
      BY WindowAssumption DEF Aggregate
    <3>2. emitted' \in Seq(Aggregate)
      BY <2>8, <3>1 DEF EmitAggregate
    <3> QED
      BY <2>8, <3>2 DEF EmitAggregate
  <2>9. CASE FinishFlush
    <3>1. trunc(flushedAt) \in Time
      BY TruncInTime
    <3> QED
      BY <2>9, <3>1, BoundsAssumption DEF FinishFlush, history, EmptyState
  <2>10. CASE Stop \/ Crash
    <3>1. Unsent \subseteq Sample
      BY DEF Unsent, Open
    <3> QED
      BY <2>10, <3>1, BoundsAssumption DEF Stop, Crash, Forget, EmptyState
  <2>11. CASE Restart
    <3>1. trunc(clock) \in Time
      BY TruncInTime
    <3> QED
      BY <2>11, <3>1, BoundsAssumption DEF Restart, history
  <2>12. CASE UNCHANGED vars
    BY <2>12 DEF vars
  <2> QED
    BY <2>1, <2>2, <2>3, <2>4, <2>5, <2>6, <2>7, <2>8, <2>9, <2>10, <2>11, <2>12
       DEF Next, Loop
<1> QED
  BY <1>1, <1>2, PTL DEF Spec

-----------------------------------------------------------------------------
(* Windows                                                                  *)

Aligned == \E k \in Nat : winStart = WindowSec * k

LoopFacts ==
  /\ winStart <= clock
  /\ tick <= clock
  /\ pc # "flush" => toEmit = {}
  /\ pc = "flush" => flushedAt >= winStart + WindowSec /\ flushedAt <= clock
  /\ pc = "down" => state = EmptyState

(* What has been reported ends where some window ends.                      *)
EndsAligned == \A i \in DOMAIN emitted : \E k \in Nat : emitted[i].end = WindowSec * k

(* What has been reported lies behind the window the loop is in, or would   *)
(* be in if it were started now; while flush runs, the services already     *)
(* sent have this very window.                                              *)
ReportedBehind ==
  \A i \in DOMAIN emitted :
    /\ emitted[i].end <= clock
    /\ pc # "down" => \/ emitted[i].end <= winStart
                      \/ /\ pc = "flush"
                         /\ emitted[i].svc \notin toEmit
                         /\ emitted[i].end <= winStart + WindowSec

WindowInv ==
  /\ Aligned
  /\ LoopFacts
  /\ EndsAligned
  /\ ReportedBehind
  /\ WindowsDisjoint
  /\ ReportedAfterWindow

(* Replacing winStart by a later aligned start keeps what was reported      *)
(* behind it: this is the step at the end of a flush.                       *)
LEMMA FinishAdvances ==
  ASSUME TypeOK, WindowInv, pc = "flush"
  PROVE  /\ trunc(flushedAt) >= winStart + WindowSec
         /\ trunc(flushedAt) <= clock
         /\ \E k \in Nat : trunc(flushedAt) = WindowSec * k
<1>1. flushedAt \in Nat /\ clock \in Nat /\ winStart \in Nat /\ flushedAt \in Time
  BY DEF TypeOK, Time
<1>2. PICK k \in Nat : winStart = WindowSec * k
  BY DEF WindowInv, Aligned
<1>3. flushedAt >= WindowSec * k + WindowSec /\ flushedAt <= clock
  BY <1>2 DEF WindowInv, LoopFacts
<1>4. trunc(flushedAt) >= WindowSec * k + WindowSec
  <2>1. k + 1 \in Nat /\ WindowSec * (k + 1) = WindowSec * k + WindowSec
    BY WindowAssumption
  <2> QED
    BY <1>1, <1>3, <2>1, TruncPastStart
<1>5. trunc(flushedAt) <= flushedAt /\ trunc(flushedAt) \in Nat
  BY <1>1, TruncFacts
<1>6. trunc(flushedAt) = WindowSec * (flushedAt \div WindowSec)
  BY <1>1, TruncFacts
<1>7. flushedAt \div WindowSec \in Nat
  BY <1>1, WindowAssumption
<1> QED
  BY <1>1, <1>2, <1>3, <1>4, <1>5, <1>6, <1>7

(* A truncated time is a whole number of windows after zero.                *)
LEMMA StartAligned ==
  ASSUME NEW t \in Time
  PROVE  \E k \in Nat : trunc(t) = WindowSec * k
<1>1. t \in Nat
  BY DEF Time
<1>2. trunc(t) = WindowSec * (t \div WindowSec)
  BY <1>1, TruncFacts
<1>3. t \div WindowSec \in Nat
  BY <1>1, WindowAssumption
<1> QED
  BY <1>2, <1>3

(* The first window starts at the truncated start time, with nothing sent.  *)
LEMMA WindowInit == Init => WindowInv
<1> SUFFICES ASSUME Init PROVE WindowInv
  OBVIOUS
<1>1. clock \in Time /\ clock \in Nat
  BY WindowAssumption, BoundsAssumption DEF Init, Time
<1>2. Aligned
  BY <1>1, StartAligned DEF Init, Aligned
<1>3. winStart <= clock
  BY <1>1, TruncInTime DEF Init
<1>4. LoopFacts
  BY <1>1, <1>3 DEF Init, LoopFacts, NoTick
<1> QED
  BY <1>2, <1>4 DEF Init, WindowInv, EndsAligned, ReportedBehind, WindowsDisjoint,
                       ReportedAfterWindow

(* Every step keeps the window aligned and behind the clock, and what has   *)
(* been reported behind the start of the window.                            *)
LEMMA WindowStep == TypeOK /\ WindowInv /\ [Next]_vars => WindowInv'
<1> SUFFICES ASSUME TypeOK, WindowInv, [Next]_vars PROVE WindowInv'
  OBVIOUS
<1>a. /\ winStart \in Nat /\ clock \in Nat /\ WindowSec \in Nat /\ WindowSec > 0
      /\ tick \in Int /\ flushedAt \in Nat /\ clock \in Time
      /\ emitted \in Seq(Aggregate)
  BY WindowAssumption, BoundsAssumption DEF TypeOK, Time, NoTick
<1>b. \A i \in DOMAIN emitted : /\ emitted[i] \in Aggregate
                                /\ emitted[i].end \in Nat
                                /\ emitted[i].start \in Nat
                                /\ emitted[i].at \in Nat
  <2> SUFFICES ASSUME NEW i \in DOMAIN emitted
               PROVE  /\ emitted[i] \in Aggregate
                      /\ emitted[i].end \in Nat
                      /\ emitted[i].start \in Nat /\ emitted[i].at \in Nat
    OBVIOUS
  <2>1. emitted[i] \in Aggregate
    BY <1>a
  <2> QED
    BY <2>1, BoundsAssumption DEF Aggregate, Time
<1> USE DEF WindowInv
<1>1. CASE /\ UNCHANGED <<pc, winStart, toEmit, flushedAt, emitted>>
           /\ pc = "down" => UNCHANGED state
           /\ clock' \in Nat /\ clock' >= clock
           /\ tick' \in {tick, clock, NoTick}
  <2>1. Aligned'
    BY <1>1 DEF Aligned
  <2>2. LoopFacts'
    BY <1>1, <1>a DEF LoopFacts, NoTick, EmptyState
  <2>3. ReportedBehind'
    BY <1>1, <1>a, <1>b DEF ReportedBehind
  <2>4. EndsAligned' /\ WindowsDisjoint' /\ ReportedAfterWindow'
    BY <1>1 DEF EndsAligned, WindowsDisjoint, ReportedAfterWindow
  <2> QED
    BY <2>1, <2>2, <2>3, <2>4
<1>2. CASE TakeOther \/ PassAlong
  <2>1. /\ UNCHANGED <<winStart, toEmit, emitted, clock, tick, flushedAt>>
        /\ pc \in {"select", "pass"} /\ pc' \in {"select", "pass"}
    BY <1>2 DEF TakeOther, PassAlong, history
  <2>2. Aligned'
    BY <2>1 DEF Aligned
  <2>3. LoopFacts'
    BY <2>1 DEF LoopFacts
  <2>4. ReportedBehind'
    BY <2>1 DEF ReportedBehind
  <2>5. EndsAligned' /\ WindowsDisjoint' /\ ReportedAfterWindow'
    BY <2>1 DEF EndsAligned, WindowsDisjoint, ReportedAfterWindow
  <2> QED
    BY <2>2, <2>3, <2>4, <2>5
<1>3. CASE TickClosesWindow
  <2>1. /\ UNCHANGED <<winStart, emitted, clock>>
        /\ pc = "select" /\ pc' = "flush" /\ flushedAt' = tick /\ tick' = NoTick
        /\ tick >= winStart + WindowSec
    BY <1>3 DEF TickClosesWindow, history
  <2>2. Aligned'
    BY <2>1 DEF Aligned
  <2>3. LoopFacts'
    BY <2>1, <1>a DEF LoopFacts, NoTick
  <2>4. ReportedBehind'
    BY <2>1, <1>a, <1>b DEF ReportedBehind
  <2>5. EndsAligned' /\ WindowsDisjoint' /\ ReportedAfterWindow'
    BY <2>1 DEF EndsAligned, WindowsDisjoint, ReportedAfterWindow
  <2> QED
    BY <2>2, <2>3, <2>4, <2>5
<1>4. ASSUME NEW s \in Services, EmitAggregate(s)
      PROVE  WindowInv'
  <2> DEFINE agg == [svc |-> s, start |-> winStart, end |-> winStart + WindowSec,
                     items |-> state[s], at |-> clock]
  <2>1. /\ UNCHANGED <<winStart, clock, tick, flushedAt, pc, state>>
        /\ pc = "flush" /\ s \in toEmit /\ toEmit' = toEmit \ {s}
        /\ emitted' = Append(emitted, agg)
    BY <1>4 DEF EmitAggregate
  <2>2. /\ DOMAIN emitted' = 1 .. Len(emitted) + 1
        /\ DOMAIN emitted = 1 .. Len(emitted)
        /\ \A i \in DOMAIN emitted : emitted'[i] = emitted[i]
        /\ emitted'[Len(emitted) + 1] = agg
        /\ Len(emitted) \in Nat
    BY <2>1, <1>a
  <2>3. Aligned' /\ LoopFacts'
    BY <2>1 DEF Aligned, LoopFacts
  <2>a. EndsAligned'
    <3>1. PICK k \in Nat : winStart = WindowSec * k
      BY DEF Aligned
    <3>2. agg.end = WindowSec * (k + 1) /\ k + 1 \in Nat
      BY <3>1, <1>a
    <3> QED
      BY <2>2, <3>2 DEF EndsAligned
  <2>4. ReportedBehind'
    <3>1. agg.end <= clock /\ agg.end = winStart + WindowSec /\ agg.svc = s
      BY <2>1, <1>a DEF LoopFacts
    <3> QED
      BY <2>1, <2>2, <3>1, <1>a, <1>b DEF ReportedBehind
  <2>5. \A i \in DOMAIN emitted : emitted[i].svc = s => emitted[i].end <= winStart
    BY <2>1, <1>b DEF ReportedBehind
  <2>6. WindowsDisjoint'
    BY <2>1, <2>2, <2>5, <1>a DEF WindowsDisjoint
  <2>7. ReportedAfterWindow'
    <3>1. clock >= winStart + WindowSec
      BY <2>1, <1>a DEF LoopFacts
    <3> QED
      BY <2>1, <2>2, <3>1 DEF ReportedAfterWindow
  <2> QED
    BY <2>3, <2>a, <2>4, <2>6, <2>7
<1>5. CASE FinishFlush
  <2>1. /\ UNCHANGED <<clock, tick, emitted, toEmit>>
        /\ pc = "flush" /\ pc' = "select" /\ winStart' = trunc(flushedAt) /\ toEmit = {}
    BY <1>5 DEF FinishFlush, history
  <2>2. /\ winStart' >= winStart + WindowSec /\ winStart' <= clock
        /\ Aligned'
    BY <2>1, FinishAdvances DEF Aligned
  <2>a. winStart' \in Nat
    BY <2>1, <1>a, TruncFacts
  <2>3. LoopFacts'
    BY <2>1, <2>2 DEF LoopFacts
  <2>4. ReportedBehind'
    BY <2>1, <2>2, <2>a, <1>a, <1>b DEF ReportedBehind
  <2>5. EndsAligned' /\ WindowsDisjoint' /\ ReportedAfterWindow'
    BY <2>1 DEF EndsAligned, WindowsDisjoint, ReportedAfterWindow
  <2> QED
    BY <2>2, <2>3, <2>4, <2>5
<1>6. CASE Stop \/ Crash
  <2>1. /\ UNCHANGED <<clock, emitted>>
        /\ pc' = "down" /\ winStart' = 0 /\ tick' = NoTick /\ toEmit' = {}
        /\ state' = EmptyState
    BY <1>6 DEF Stop, Crash, Forget
  <2>2. Aligned'
    BY <2>1, <1>a DEF Aligned
  <2>3. LoopFacts'
    BY <2>1, <1>a DEF LoopFacts, NoTick, EmptyState
  <2>4. ReportedBehind'
    BY <2>1 DEF ReportedBehind
  <2>5. EndsAligned' /\ WindowsDisjoint' /\ ReportedAfterWindow'
    BY <2>1 DEF EndsAligned, WindowsDisjoint, ReportedAfterWindow
  <2> QED
    BY <2>2, <2>3, <2>4, <2>5
<1>7. CASE Restart
  <2>1. /\ UNCHANGED <<clock, tick, emitted, toEmit, state>>
        /\ pc = "down" /\ pc' = "select" /\ winStart' = trunc(clock)
    BY <1>7 DEF Restart, history
  <2>2. Aligned'
    BY <2>1, <1>a, StartAligned DEF Aligned
  <2>3. LoopFacts'
    BY <2>1, <1>a, TruncInTime DEF LoopFacts
  <2>4. ReportedBehind'
    <3> SUFFICES ASSUME NEW i \in DOMAIN emitted
                 PROVE  emitted[i].end <= trunc(clock)
      BY <2>1 DEF ReportedBehind
    <3>1. PICK k \in Nat : emitted[i].end = WindowSec * k
      BY DEF EndsAligned
    <3>2. clock >= WindowSec * k
      BY <3>1 DEF ReportedBehind
    <3> QED
      BY <3>1, <3>2, <1>a, TruncPastStart
  <2>5. EndsAligned' /\ WindowsDisjoint' /\ ReportedAfterWindow'
    BY <2>1 DEF EndsAligned, WindowsDisjoint, ReportedAfterWindow
  <2> QED
    BY <2>2, <2>3, <2>4, <2>5
<1>8. ASSUME Advance \/ TickerFires \/ TickTooEarly \/ UNCHANGED vars
              \/ \E svcs \in SUBSET Services : ConsumeMetrics(svcs)
      PROVE  WindowInv'
  BY <1>8, <1>1, <1>a DEF Advance, TickerFires, TickTooEarly, ConsumeMetrics, loop, history, vars
<1> QED
  BY <1>2, <1>3, <1>4, <1>5, <1>6, <1>7, <1>8 DEF Next, Loop

(* Whatever the ticks, the stops and the restarts, the windows reported for *)
(* a service do not overlap and come in order.                              *)
THEOREM WindowsNeverOverlap == Spec => []WindowsDisjoint
<1>1. Spec => []WindowInv
  BY WindowInit, WindowStep, TypeCorrect, PTL DEF Spec
<1>2. WindowInv => WindowsDisjoint
  BY DEF WindowInv
<1> QED
  BY <1>1, <1>2, PTL

(* No Aggregate leaves before the end of the window it describes.           *)
THEOREM NeverReportedEarly == Spec => []ReportedAfterWindow
<1>1. Spec => []WindowInv
  BY WindowInit, WindowStep, TypeCorrect, PTL DEF Spec
<1>2. WindowInv => ReportedAfterWindow
  BY DEF WindowInv
<1> QED
  BY <1>1, <1>2, PTL

-----------------------------------------------------------------------------
(* Samples                                                                  *)

Batch(s) == {x \in Sample : x[1] = s /\ x[2] \in state[s]}

QuietStep ==
  /\ Unsent' = Unsent
  /\ Reported' = Reported
  /\ lost' = lost
  /\ accepted' = accepted

(* Contributions known to the loop come from envelopes already taken.       *)
SampleInv ==
  /\ EachSampleCountedOnce
  /\ Open \subseteq accepted
  /\ \A x \in accepted : x[2] < nextId

(* Closing a window and ending a flush move nothing: before flush every     *)
(* entry is unsent, after it the entries dropped with p.state are all sent. *)
LEMMA QuietSteps ==
  ASSUME TypeOK, LoopFacts,
         \/ Advance \/ TickerFires \/ TakeOther \/ PassAlong \/ TickTooEarly
         \/ TickClosesWindow \/ FinishFlush \/ Restart \/ UNCHANGED vars
  PROVE  QuietStep /\ nextId' \in {nextId, nextId + 1}
<1>1. UNCHANGED <<emitted, lost, accepted>> /\ nextId' \in {nextId, nextId + 1}
  BY DEF Advance, TickerFires, TakeOther, PassAlong, TickTooEarly, TickClosesWindow,
         FinishFlush, Restart, vars, loop, history
<1>2. Reported' = Reported
  BY <1>1 DEF Reported
<1>3. Unsent' = Unsent
  <2>1. CASE /\ UNCHANGED state
             /\ \/ pc # "flush" /\ pc' # "flush"
                \/ UNCHANGED <<pc, toEmit>>
    BY <2>1 DEF Unsent, Open
  <2>2. CASE TickClosesWindow
    <3>1. UNCHANGED state /\ pc = "select" /\ pc' = "flush"
          /\ toEmit' = {s \in Services : state[s] # {}}
      BY <2>2 DEF TickClosesWindow
    <3> QED
      BY <3>1 DEF Unsent, Open, Sample
  <2>3. CASE FinishFlush
    <3>1. pc = "flush" /\ toEmit = {} /\ pc' = "select" /\ state' = EmptyState
      BY <2>3 DEF FinishFlush
    <3>2. Unsent = {}
      BY <3>1 DEF Unsent
    <3>3. Unsent' = {}
      BY <3>1 DEF Unsent, Open, Sample, EmptyState
    <3> QED
      BY <3>2, <3>3
  <2>4. CASE Advance \/ TickerFires \/ TickTooEarly \/ UNCHANGED vars
    BY <2>1, <2>4 DEF Advance, TickerFires, TickTooEarly, vars, loop
  <2>5. CASE TakeOther \/ PassAlong \/ Restart
    BY <2>1, <2>5 DEF TakeOther, PassAlong, Restart
  <2> QED
    BY <2>2, <2>3, <2>4, <2>5
<1> QED
  BY <1>1, <1>2, <1>3 DEF QuietStep

(* Taking an envelope opens one fresh contribution per service, no more.    *)
LEMMA ConsumeEffect ==
  ASSUME TypeOK, NEW svcs \in SUBSET Services, ConsumeMetrics(svcs)
  PROVE  /\ Open' = Open \cup (svcs \X {nextId})
         /\ Unsent' = Unsent \cup (svcs \X {nextId})
         /\ accepted' = accepted \cup (svcs \X {nextId})
         /\ Reported' = Reported /\ lost' = lost /\ nextId' = nextId + 1
         /\ nextId \in Ids
<1>1. /\ pc = "select" /\ pc' = "select" /\ nextId \in Ids
      /\ UNCHANGED <<emitted, lost>>
      /\ nextId' = nextId + 1
      /\ accepted' = accepted \cup (svcs \X {nextId})
      /\ state' = [s \in Services |-> IF s \in svcs THEN state[s] \cup {nextId} ELSE state[s]]
  BY DEF ConsumeMetrics
<1>2. Open' = Open \cup (svcs \X {nextId})
  <2>1. ASSUME NEW s \in Services, NEW i \in Ids
        PROVE  <<s, i>> \in Open' <=> <<s, i>> \in Open \cup (svcs \X {nextId})
    BY <1>1 DEF Open, Sample, TypeOK
  <2>2. Open' \subseteq Sample /\ Open \cup (svcs \X {nextId}) \subseteq Sample
    BY <1>1 DEF Open, Sample
  <2>3. \A x \in Sample : \E s \in Services, i \in Ids : x = <<s, i>>
    BY DEF Sample
  <2> QED
    BY <2>1, <2>2, <2>3
<1>3. Unsent = Open /\ Unsent' = Open'
  BY <1>1 DEF Unsent, Open
<1>4. Reported' = Reported
  BY <1>1 DEF Reported
<1> QED
  BY <1>1, <1>2, <1>3, <1>4

(* Sending one Aggregate moves exactly the batch of its service from unsent *)
(* to reported, and appends it behind those sent before.                    *)
LEMMA EmitEffect ==
  ASSUME TypeOK, NEW s \in Services, EmitAggregate(s)
  PROVE  /\ Batch(s) \subseteq Unsent
         /\ Unsent' = Unsent \ Batch(s)
         /\ Reported' = Reported \cup Batch(s)
         /\ Open' = Open /\ lost' = lost /\ accepted' = accepted /\ nextId' = nextId
         /\ DOMAIN emitted' = 1 .. Len(emitted) + 1
         /\ DOMAIN emitted = 1 .. Len(emitted)
         /\ Len(emitted) \in Nat
         /\ \A i \in DOMAIN emitted : emitted'[i] = emitted[i]
         /\ emitted'[Len(emitted) + 1].svc = s
         /\ emitted'[Len(emitted) + 1].items = state[s]
         /\ emitted'[Len(emitted) + 1].start = winStart
<1> DEFINE agg == [svc |-> s, start |-> winStart, end |-> winStart + WindowSec,
                   items |-> state[s], at |-> clock]
<1>1. /\ pc = "flush" /\ s \in toEmit /\ toEmit' = toEmit \ {s}
      /\ emitted' = Append(emitted, agg)
      /\ UNCHANGED <<pc, state, lost, accepted, nextId>>
  BY DEF EmitAggregate
<1>2. emitted \in Seq(Aggregate)
  BY DEF TypeOK
<1>3. /\ DOMAIN emitted' = 1 .. Len(emitted) + 1
      /\ DOMAIN emitted = 1 .. Len(emitted)
      /\ Len(emitted) \in Nat
      /\ \A i \in DOMAIN emitted : emitted'[i] = emitted[i]
      /\ emitted'[Len(emitted) + 1] = agg
  BY <1>1, <1>2
<1>4. Open' = Open
  BY <1>1 DEF Open
<1>5. Batch(s) \subseteq Unsent /\ Unsent' = Unsent \ Batch(s)
  BY <1>1 DEF Batch, Unsent, Open, Sample
<1>6. Reported' = Reported \cup Batch(s)
  BY <1>3 DEF Reported, Batch, Sample
<1> QED
  BY <1>1, <1>3, <1>4, <1>5, <1>6

(* When the loop ends, all that is unsent is lost, and only that.           *)
LEMMA ForgetEffect ==
  ASSUME TypeOK, Forget
  PROVE  /\ Unsent' = {} /\ Open' = {}
         /\ lost' = lost \cup Unsent
         /\ Reported' = Reported /\ accepted' = accepted /\ nextId' = nextId
<1>1. /\ state' = EmptyState /\ lost' = lost \cup Unsent
      /\ UNCHANGED <<emitted, accepted, nextId>>
  BY DEF Forget
<1>2. Open' = {}
  BY <1>1 DEF Open, Sample, EmptyState
<1>3. Unsent' = {}
  BY <1>2 DEF Unsent
<1>4. Reported' = Reported
  BY <1>1 DEF Reported
<1> QED
  BY <1>1, <1>2, <1>3, <1>4

(* No contribution exists at the start.                                     *)
LEMMA SampleInit == Init => SampleInv
  BY DEF Init, SampleInv, EachSampleCountedOnce, Open, Unsent, Reported, EmptyState, Sample

(* Every step keeps each contribution in exactly one place, and in at most  *)
(* one Aggregate.                                                           *)
LEMMA SampleStep == TypeOK /\ LoopFacts /\ SampleInv /\ [Next]_vars => SampleInv'
<1> SUFFICES ASSUME TypeOK, LoopFacts, SampleInv, [Next]_vars PROVE SampleInv'
  OBVIOUS
<1>a. nextId \in Nat
  BY BoundsAssumption DEF TypeOK
<1>1. CASE \/ Advance \/ TickerFires \/ TakeOther \/ PassAlong \/ TickTooEarly
           \/ TickClosesWindow \/ FinishFlush \/ Restart \/ UNCHANGED vars
  <2>1. QuietStep /\ nextId' \in {nextId, nextId + 1}
    BY <1>1, QuietSteps
  <2>2. UNCHANGED emitted /\ (UNCHANGED state \/ state' = EmptyState)
    BY <1>1 DEF Advance, TickerFires, TakeOther, PassAlong, TickTooEarly, TickClosesWindow,
                FinishFlush, Restart, vars, loop, history
  <2>3. EachSampleCountedOnce'
    BY <2>1, <2>2 DEF SampleInv, EachSampleCountedOnce, QuietStep
  <2>4. Open' \subseteq accepted'
    BY <2>1, <2>2 DEF SampleInv, QuietStep, Open, Sample, EmptyState
  <2>5. \A x \in accepted' : x[2] < nextId'
    <3> SUFFICES ASSUME NEW x \in accepted' PROVE x[2] < nextId'
      OBVIOUS
    <3>1. x \in Sample /\ x[2] < nextId
      BY <2>1 DEF SampleInv, QuietStep, TypeOK
    <3>2. x[2] \in Int
      BY <3>1 DEF Sample, Ids
    <3> QED
      BY <2>1, <3>1, <3>2, <1>a
  <2> QED
    BY <2>3, <2>4, <2>5 DEF SampleInv
<1>2. ASSUME NEW svcs \in SUBSET Services, ConsumeMetrics(svcs)
      PROVE  SampleInv'
  <2> DEFINE new == svcs \X {nextId}
  <2>1. /\ Open' = Open \cup new /\ Unsent' = Unsent \cup new
        /\ accepted' = accepted \cup new
        /\ Reported' = Reported /\ lost' = lost /\ nextId' = nextId + 1
    BY <1>2, ConsumeEffect
  <2>2. UNCHANGED emitted
    BY <1>2 DEF ConsumeMetrics
  <2>3. \A x \in new : x[2] = nextId
    OBVIOUS
  <2>4. \A x \in accepted : x[2] < nextId /\ x[2] \in Nat
    BY DEF SampleInv, TypeOK, Sample, Ids
  <2>5. new \cap accepted = {}
    BY <2>3, <2>4, <1>a
  <2>6. EachSampleCountedOnce'
    BY <2>1, <2>2, <2>5 DEF SampleInv, EachSampleCountedOnce
  <2>7. \A x \in accepted' : x[2] < nextId'
    BY <2>1, <2>3, <2>4, <1>a
  <2> QED
    BY <2>1, <2>6, <2>7 DEF SampleInv
<1>3. ASSUME NEW s \in Services, EmitAggregate(s)
      PROVE  SampleInv'
  <2>1. /\ Batch(s) \subseteq Unsent /\ Unsent' = Unsent \ Batch(s)
        /\ Reported' = Reported \cup Batch(s)
        /\ Open' = Open /\ lost' = lost /\ accepted' = accepted /\ nextId' = nextId
    BY <1>3, EmitEffect
  <2>2. /\ DOMAIN emitted' = 1 .. Len(emitted) + 1
        /\ DOMAIN emitted = 1 .. Len(emitted) /\ Len(emitted) \in Nat
        /\ \A i \in DOMAIN emitted : emitted'[i] = emitted[i]
        /\ emitted'[Len(emitted) + 1].svc = s
        /\ emitted'[Len(emitted) + 1].items = state[s]
    BY <1>3, EmitEffect
  <2>3. \A i \in DOMAIN emitted : emitted[i].svc = s => emitted[i].items \cap state[s] = {}
    <3> SUFFICES ASSUME NEW i \in DOMAIN emitted, emitted[i].svc = s,
                        NEW k \in emitted[i].items, k \in state[s]
                 PROVE  FALSE
      OBVIOUS
    <3>1. k \in Ids
      BY DEF TypeOK
    <3>2. <<s, k>> \in Reported
      BY <3>1 DEF Reported, Sample
    <3>3. <<s, k>> \in Unsent
      BY <3>1, <2>1 DEF Batch, Sample
    <3> QED
      BY <3>2, <3>3 DEF SampleInv, EachSampleCountedOnce
  <2>4. \A i, j \in DOMAIN emitted' :
          (i # j /\ emitted'[i].svc = emitted'[j].svc)
            => emitted'[i].items \cap emitted'[j].items = {}
    <3> SUFFICES ASSUME NEW i \in DOMAIN emitted', NEW j \in DOMAIN emitted',
                        i # j, emitted'[i].svc = emitted'[j].svc
                 PROVE  emitted'[i].items \cap emitted'[j].items = {}
      OBVIOUS
    <3>1. CASE i \in DOMAIN emitted /\ j \in DOMAIN emitted
      BY <3>1, <2>2 DEF SampleInv, EachSampleCountedOnce
    <3>2. CASE i \in DOMAIN emitted /\ j = Len(emitted) + 1
      BY <3>2, <2>2, <2>3
    <3>3. CASE j \in DOMAIN emitted /\ i = Len(emitted) + 1
      BY <3>3, <2>2, <2>3
    <3> QED
      BY <3>1, <3>2, <3>3, <2>2
  <2>5. /\ accepted' = Unsent' \cup Reported' \cup lost'
        /\ Unsent' \cap Reported' = {} /\ Unsent' \cap lost' = {} /\ Reported' \cap lost' = {}
    BY <2>1 DEF SampleInv, EachSampleCountedOnce
  <2> QED
    BY <2>1, <2>4, <2>5 DEF SampleInv, EachSampleCountedOnce
<1>4. CASE Stop \/ Crash
  <2>1. /\ Unsent' = {} /\ Open' = {} /\ lost' = lost \cup Unsent
        /\ Reported' = Reported /\ accepted' = accepted /\ nextId' = nextId
    BY <1>4, ForgetEffect DEF Stop, Crash
  <2>2. UNCHANGED emitted
    BY <1>4 DEF Stop, Crash, Forget
  <2> QED
    BY <2>1, <2>2 DEF SampleInv, EachSampleCountedOnce
<1> QED
  BY <1>1, <1>2, <1>3, <1>4 DEF Next, Loop

(* What the loop knows of its own position holds in every reachable state.  *)
LEMMA LoopFactsHold == Spec => []LoopFacts
<1>1. Spec => []WindowInv
  BY WindowInit, WindowStep, TypeCorrect, PTL DEF Spec
<1>2. WindowInv => LoopFacts
  BY DEF WindowInv
<1> QED
  BY <1>1, <1>2, PTL

(* Every contribution is open, reported or lost, and is reported at most    *)
(* once.                                                                    *)
THEOREM SamplesCountedOnce == Spec => []EachSampleCountedOnce
<1>1. Spec => []SampleInv
  BY SampleInit, SampleStep, TypeCorrect, LoopFactsHold, PTL DEF Spec
<1>2. SampleInv => EachSampleCountedOnce
  BY DEF SampleInv
<1> QED
  BY <1>1, <1>2, PTL

-----------------------------------------------------------------------------
(* Samples and windows together                                             *)

ReadInv ==
  /\ \A x \in Open : readAt[x[2]] >= winStart
  /\ SampleNotBeforeWindow

(* Every step keeps open samples no older than the window, so that what is  *)
(* sent is not older than the window it claims.                             *)
LEMMA ReadStep ==
  TypeOK /\ LoopFacts /\ SampleInv /\ ReadInv /\ [Next]_vars => ReadInv'
<1> SUFFICES ASSUME TypeOK, LoopFacts, SampleInv, ReadInv, [Next]_vars PROVE ReadInv'
  OBVIOUS
<1>a. /\ nextId \in Nat /\ clock \in Nat /\ winStart \in Nat
      /\ winStart <= clock /\ emitted \in Seq(Aggregate)
  BY BoundsAssumption DEF TypeOK, Time, LoopFacts
<1>b. \A i \in DOMAIN emitted : emitted[i].items \subseteq Ids /\ emitted[i].svc \in Services
  <2> SUFFICES ASSUME NEW i \in DOMAIN emitted
               PROVE  emitted[i].items \subseteq Ids /\ emitted[i].svc \in Services
    OBVIOUS
  <2>1. emitted[i] \in Aggregate
    BY <1>a
  <2> QED
    BY <2>1 DEF Aggregate
<1>1. CASE /\ UNCHANGED <<readAt, emitted>>
           /\ UNCHANGED <<state, winStart>> \/ state' = EmptyState
  <2>1. SampleNotBeforeWindow'
    BY <1>1 DEF ReadInv, SampleNotBeforeWindow
  <2>2. \A x \in Open' : readAt'[x[2]] >= winStart'
    BY <1>1 DEF ReadInv, Open, EmptyState, Sample
  <2> QED
    BY <2>1, <2>2 DEF ReadInv
<1>2. ASSUME NEW svcs \in SUBSET Services, ConsumeMetrics(svcs)
      PROVE  ReadInv'
  <2>1. /\ Open' = Open \cup (svcs \X {nextId}) /\ nextId \in Ids
        /\ readAt' = [readAt EXCEPT ![nextId] = clock]
        /\ UNCHANGED <<winStart, emitted>>
    BY <1>2, ConsumeEffect DEF ConsumeMetrics
  <2>2. readAt'[nextId] = clock /\ \A k \in Ids : k # nextId => readAt'[k] = readAt[k]
    BY <2>1 DEF TypeOK
  <2>3. \A x \in accepted : x[2] # nextId /\ x[2] \in Ids
    BY <1>a DEF SampleInv, TypeOK, Sample, Ids
  <2>4. \A x \in Open' : readAt'[x[2]] >= winStart'
    <3>1. \A x \in Open : readAt'[x[2]] >= winStart'
      BY <2>1, <2>2, <2>3 DEF ReadInv, SampleInv
    <3>2. \A x \in svcs \X {nextId} : readAt'[x[2]] >= winStart'
      BY <2>1, <2>2, <1>a
    <3> QED
      BY <2>1, <3>1, <3>2
  <2>5. \A i \in DOMAIN emitted : \A k \in emitted[i].items : k # nextId /\ k \in Ids
    <3> SUFFICES ASSUME NEW i \in DOMAIN emitted, NEW k \in emitted[i].items
                 PROVE  k # nextId /\ k \in Ids
      OBVIOUS
    <3>1. <<emitted[i].svc, k>> \in Reported
      BY <1>b DEF Reported, Sample
    <3>2. <<emitted[i].svc, k>> \in accepted
      BY <3>1 DEF SampleInv, EachSampleCountedOnce
    <3> QED
      BY <3>2, <2>3
  <2>6. SampleNotBeforeWindow'
    BY <2>1, <2>2, <2>5 DEF ReadInv, SampleNotBeforeWindow
  <2> QED
    BY <2>4, <2>6 DEF ReadInv
<1>3. ASSUME NEW s \in Services, EmitAggregate(s)
      PROVE  ReadInv'
  <2>1. /\ Open' = Open
        /\ DOMAIN emitted' = 1 .. Len(emitted) + 1
        /\ DOMAIN emitted = 1 .. Len(emitted) /\ Len(emitted) \in Nat
        /\ \A i \in DOMAIN emitted : emitted'[i] = emitted[i]
        /\ emitted'[Len(emitted) + 1].items = state[s]
        /\ emitted'[Len(emitted) + 1].start = winStart
    BY <1>3, EmitEffect
  <2>2. UNCHANGED <<readAt, winStart>>
    BY <1>3 DEF EmitAggregate
  <2>3. \A k \in state[s] : readAt[k] >= winStart
    <3> SUFFICES ASSUME NEW k \in state[s] PROVE readAt[k] >= winStart
      OBVIOUS
    <3>1. <<s, k>> \in Open
      BY DEF Open, Sample, TypeOK
    <3> QED
      BY <3>1 DEF ReadInv
  <2>4. SampleNotBeforeWindow'
    BY <2>1, <2>2, <2>3 DEF ReadInv, SampleNotBeforeWindow
  <2> QED
    BY <2>1, <2>2, <2>4 DEF ReadInv
<1>4. CASE Restart
  <2>1. UNCHANGED <<readAt, emitted, state>> /\ state = EmptyState
    BY <1>4 DEF Restart, history, LoopFacts
  <2> QED
    BY <2>1, <1>1
<1>5. CASE \/ Advance \/ TickerFires \/ TakeOther \/ PassAlong \/ TickTooEarly
           \/ TickClosesWindow \/ FinishFlush \/ Stop \/ Crash \/ UNCHANGED vars
  BY <1>5, <1>1 DEF Advance, TickerFires, TakeOther, PassAlong, TickTooEarly,
     TickClosesWindow, FinishFlush, Stop, Crash, Forget, vars, loop, history
<1> QED
  BY <1>2, <1>3, <1>4, <1>5 DEF Next, Loop

(* A window never claims a sample taken before it began: every sample that  *)
(* is open was taken after the start of the current window.                 *)
THEOREM SamplesFollowWindowStart == Spec => []SampleNotBeforeWindow
<1>1. Init => ReadInv
  BY DEF Init, ReadInv, SampleNotBeforeWindow, Open, EmptyState, Sample
<1>2. Spec => []SampleInv
  BY SampleInit, SampleStep, TypeCorrect, LoopFactsHold, PTL DEF Spec
<1>3. Spec => []ReadInv
  BY <1>1, <1>2, ReadStep, TypeCorrect, LoopFactsHold, PTL DEF Spec
<1>4. ReadInv => SampleNotBeforeWindow
  BY DEF ReadInv
<1> QED
  BY <1>3, <1>4, PTL

-----------------------------------------------------------------------------
(* Refinement                                                               *)

(* Every step of the loop is a step of the ledger or leaves it alone.       *)
LEMMA LedgerStep ==
  TypeOK /\ LoopFacts /\ SampleInv /\ [Next]_vars => [Ledger!Next]_(Ledger!ledger)
<1> SUFFICES ASSUME TypeOK, LoopFacts, SampleInv, [Next]_vars
             PROVE  [Ledger!Next]_(Ledger!ledger)
  OBVIOUS
<1>a. nextId \in Nat
  BY BoundsAssumption DEF TypeOK
<1>1. CASE \/ Advance \/ TickerFires \/ TakeOther \/ PassAlong \/ TickTooEarly
           \/ TickClosesWindow \/ FinishFlush \/ Restart \/ UNCHANGED vars
  BY <1>1, QuietSteps DEF QuietStep, Ledger!ledger
<1>2. ASSUME NEW svcs \in SUBSET Services, ConsumeMetrics(svcs)
      PROVE  Ledger!Next
  <2> DEFINE new == svcs \X {nextId}
  <2>1. /\ Unsent' = Unsent \cup new /\ Reported' = Reported /\ lost' = lost
        /\ nextId \in Ids
    BY <1>2, ConsumeEffect
  <2>2. new \in SUBSET Sample
    BY <2>1 DEF Sample
  <2>3. \A x \in accepted : x[2] < nextId /\ x[2] \in Nat
    BY DEF SampleInv, TypeOK, Sample, Ids
  <2>4. new \cap accepted = {}
    BY <2>3, <1>a
  <2>5. Ledger!Fresh(new)
    BY <2>4 DEF Ledger!Fresh, SampleInv, EachSampleCountedOnce
  <2>6. Ledger!Take(new)
    BY <2>1, <2>5 DEF Ledger!Take
  <2> QED
    BY <2>2, <2>6 DEF Ledger!Next
<1>3. ASSUME NEW s \in Services, EmitAggregate(s)
      PROVE  Ledger!Next
  <2>1. /\ Batch(s) \subseteq Unsent /\ Unsent' = Unsent \ Batch(s)
        /\ Reported' = Reported \cup Batch(s) /\ lost' = lost
    BY <1>3, EmitEffect
  <2>2. Ledger!Report(Batch(s))
    BY <2>1 DEF Ledger!Report
  <2> QED
    BY <2>1, <2>2 DEF Ledger!Next
<1>4. CASE Stop \/ Crash
  <2>1. Unsent' = {} /\ lost' = lost \cup Unsent /\ Reported' = Reported
    BY <1>4, ForgetEffect DEF Stop, Crash
  <2> QED
    BY <2>1 DEF Ledger!Next, Ledger!GiveUp
<1> QED
  BY <1>1, <1>2, <1>3, <1>4 DEF Next, Loop

(* The window loop implements the ledger: each of its steps takes fresh     *)
(* samples, reports open ones, gives them up, or leaves the ledger alone.   *)
THEOREM SummarizerImplementsLedger == Spec => ImplementsLedger
<1>1. Init => Ledger!Init
  BY DEF Init, Ledger!Init, Unsent, Open, Reported, EmptyState, Sample
<1>2. Spec => []SampleInv
  BY SampleInit, SampleStep, TypeCorrect, LoopFactsHold, PTL DEF Spec
<1> QED
  BY <1>1, <1>2, LedgerStep, TypeCorrect, LoopFactsHold, PTL
     DEF Spec, ImplementsLedger, Ledger!Spec
=============================================================================
