-------------------------- MODULE LifecycleProofs ---------------------------
(***************************************************************************)
(* Proofs about Lifecycle for every finite set of pipelines.                *)
(***************************************************************************)
EXTENDS Lifecycle, FiniteSetTheorems, SequenceTheorems, TLAPS

(* The errors in the channel come from distinct pipelines, each of which    *)
(* has failed.                                                              *)
ErrInv ==
  /\ \A i \in 1..Len(errCh) : pl[errCh[i]] \in {"failing", "done"}
  /\ \A i, j \in 1..Len(errCh) : errCh[i] = errCh[j] => i = j

(* What main and BuildAndRun have done before they are where they are.      *)
OrderInv ==
  /\ pc = "failed" => cfgBad
  /\ pc = "returned" => \A p \in Pipelines : pl[p] = "done"
  /\ exited => watcher /\ pc \in {"failed", "returned"}
  /\ watcher => signalled
  /\ pc # "init" => ready

-----------------------------------------------------------------------------
(* Sequences                                                                *)

(* What appending does to the elements of a sequence.                       *)
LEMMA AppendToSet ==
  ASSUME NEW S, NEW s \in Seq(S), NEW x \in S
  PROVE  ToSet(Append(s, x)) = ToSet(s) \cup {x}
<1>1. Len(Append(s, x)) = Len(s) + 1 /\ Append(s, x)[Len(s) + 1] = x
      /\ \A i \in 1..Len(s) : Append(s, x)[i] = s[i]
  BY AppendProperties
<1>2. Len(s) \in Nat
  BY LenProperties
<1>3. 1..(Len(s) + 1) = 1..Len(s) \cup {Len(s) + 1}
  BY <1>2
<1> DEFINE t == Append(s, x)
<1>4. \A y \in ToSet(t) : y \in ToSet(s) \cup {x}
  BY <1>1, <1>2, <1>3 DEF ToSet
<1>5. \A y \in ToSet(s) \cup {x} : y \in ToSet(t)
  BY <1>1, <1>2, <1>3 DEF ToSet
<1> QED
  BY <1>4, <1>5

(* A sequence of distinct members of a finite set that misses one of them   *)
(* is shorter than the set is large.                                        *)
LEMMA DistinctIsShort ==
  ASSUME NEW S, IsFiniteSet(S), NEW s \in Seq(S), NEW x \in S,
         \A i, j \in 1..Len(s) : s[i] = s[j] => i = j,
         \A i \in 1..Len(s) : s[i] # x
  PROVE  Len(s) < Cardinality(S)
<1> DEFINE T == S \ {x}
<1>1. Len(s) \in Nat /\ s \in [1..Len(s) -> S]
  BY LenProperties
<1>2. IsFiniteSet(T) /\ Cardinality(T) = Cardinality(S) - 1
  BY FS_RemoveElement
<1>3. Cardinality(S) \in Nat /\ Cardinality(T) \in Nat
  BY <1>2, FS_CardinalityType
<1>4. IsFiniteSet(1..Len(s)) /\ Cardinality(1..Len(s)) = Len(s)
  <2>1. /\ IsFiniteSet(1..Len(s))
        /\ Cardinality(1..Len(s)) = IF 1 > Len(s) THEN 0 ELSE Len(s) - 1 + 1
    BY <1>1, FS_Interval
  <2> QED
    BY <1>1, <2>1
<1>5. s \in [1..Len(s) -> T]
  BY <1>1
<1>6. ~(Cardinality(T) < Cardinality(1..Len(s)))
  <2> SUFFICES ASSUME Cardinality(T) < Cardinality(1..Len(s)) PROVE FALSE
    OBVIOUS
  <2>1. \E i, j \in 1..Len(s) : i # j /\ s[i] = s[j]
    BY <1>2, <1>4, <1>5, FS_PigeonHole
  <2> QED
    BY <2>1
<1> QED
  BY <1>1, <1>2, <1>3, <1>4, <1>6

-----------------------------------------------------------------------------
(* Types                                                                    *)

(* Lifecycle's type invariant holds: only misconfigured pipelines report.   *)
THEOREM LifecycleTypes == Spec => []TypeOK
<1>1. Init => TypeOK
  <2> SUFFICES ASSUME Init PROVE TypeOK
    OBVIOUS
  <2>1. pl \in [Pipelines -> {"off", "running", "failing", "done"}]
    BY DEF Init
  <2>2. errCh \in Seq(bad) /\ errs \in Seq(bad)
    BY EmptySeq DEF Init
  <2> QED
    BY <2>1, <2>2 DEF Init, TypeOK
<1>2. TypeOK /\ [Next]_vars => TypeOK'
  <2> SUFFICES ASSUME TypeOK, [Next]_vars PROVE TypeOK'
    OBVIOUS
  <2> USE DEF TypeOK, config, process
  <2>1. CASE Enter
    BY <2>1 DEF Enter
  <2>2. CASE BuildFails
    BY <2>2 DEF BuildFails
  <2>3. CASE Built
    BY <2>3 DEF Built
  <2>4. CASE SelectDone
    BY <2>4 DEF SelectDone
  <2>5. CASE SelectErr
    <3>1. Head(errCh) \in bad /\ Tail(errCh) \in Seq(bad)
      BY <2>5, HeadTailProperties DEF SelectErr
    <3> QED
      BY <2>5, <3>1 DEF SelectErr
  <2>6. CASE Return
    BY <2>6 DEF Return
  <2>7. ASSUME NEW p \in Pipelines, StartPipeline(p) PROVE TypeOK'
    BY <2>7 DEF StartPipeline
  <2>8. ASSUME NEW p \in Pipelines, Fails(p) PROVE TypeOK'
    <3>1. p \in bad /\ Append(errCh, p) \in Seq(bad) /\ Append(errs, p) \in Seq(bad)
      BY <2>8, AppendProperties DEF Fails
    <3>2. errCh' \in Seq(bad) /\ errs' \in Seq(bad)
      BY <2>8, <3>1 DEF Fails
    <3> QED
      BY <2>8, <3>2 DEF Fails
  <2>9. ASSUME NEW p \in Pipelines, Stops(p) PROVE TypeOK'
    BY <2>9 DEF Stops
  <2>10. ASSUME NEW p \in Pipelines, Done(p) PROVE TypeOK'
    BY <2>10 DEF Done
  <2>11. CASE Signal
    BY <2>11 DEF Signal
  <2>12. CASE Watch
    BY <2>12 DEF Watch
  <2>13. CASE ShutMetrics
    BY <2>13 DEF ShutMetrics
  <2>14. CASE Exit
    BY <2>14 DEF Exit
  <2>15. CASE UNCHANGED vars
    BY <2>15 DEF vars
  <2> QED
    BY <2>1, <2>2, <2>3, <2>4, <2>5, <2>6, <2>7, <2>8, <2>9, <2>10, <2>11, <2>12, <2>13,
       <2>14, <2>15 DEF Next, BuildAndRun, Pipeline
<1> QED
  BY <1>1, <1>2, PTL DEF Spec

-----------------------------------------------------------------------------
(* Errors                                                                   *)

(* The channel and its history stay, and no misconfigured pipeline starts   *)
(* or ceases to have failed.                                                *)
QuietStep ==
  /\ UNCHANGED <<bad, errCh, errs>>
  /\ \A p \in bad : pl'[p] \in {"failing", "done"} <=> pl[p] \in {"failing", "done"}

(* Every step but a failure and a receive is of that kind.                  *)
LEMMA QuietSteps ==
  ASSUME TypeOK, [Next]_vars, ~SelectErr, \A p \in Pipelines : ~Fails(p)
  PROVE  QuietStep
<1> USE DEF TypeOK, QuietStep, config, process
<1>1. CASE Enter \/ BuildFails \/ Built \/ SelectDone \/ Return
  BY <1>1 DEF Enter, BuildFails, Built, SelectDone, Return
<1>2. ASSUME NEW p \in Pipelines, StartPipeline(p) PROVE QuietStep
  BY <1>2 DEF StartPipeline
<1>3. ASSUME NEW p \in Pipelines, Stops(p) PROVE QuietStep
  BY <1>3 DEF Stops
<1>4. ASSUME NEW p \in Pipelines, Done(p) PROVE QuietStep
  BY <1>4 DEF Done
<1>5. CASE Signal \/ Watch \/ ShutMetrics \/ Exit \/ UNCHANGED vars
  BY <1>5 DEF Signal, Watch, ShutMetrics, Exit, vars
<1> QED
  BY <1>1, <1>2, <1>3, <1>4, <1>5 DEF Next, BuildAndRun, Pipeline

(* A pipeline that fails finds room in the channel.                         *)
LEMMA RoomForError ==
  ASSUME TypeOK, ErrInv, NEW p \in Pipelines, pl[p] = "running"
  PROVE  Len(errCh) < Capacity
<1>1. errCh \in Seq(Pipelines)
  BY DEF TypeOK
<1>2. \A i \in 1..Len(errCh) : errCh[i] # p
  BY DEF ErrInv
<1> QED
  BY <1>1, <1>2, DistinctIsShort, LifecycleAssumption DEF ErrInv, Capacity

(* A failure adds the pipeline to the channel and to the history.           *)
LEMMA FailKeepsErrors ==
  ASSUME TypeOK, ErrInv, NoErrorDropped, NEW p \in Pipelines, Fails(p)
  PROVE  ErrInv' /\ NoErrorDropped'
<1>1. Len(errCh) < Capacity
  BY RoomForError DEF Fails
<1>2. p \in bad /\ bad' = bad /\ pl[p] = "running" /\ pl' = [pl EXCEPT ![p] = "failing"]
      /\ errCh' = Append(errCh, p) /\ errs' = Append(errs, p)
  BY <1>1 DEF Fails, config
<1>3. /\ errCh' \in Seq(bad) /\ Len(errCh') = Len(errCh) + 1
      /\ \A i \in 1..Len(errCh) : errCh'[i] = errCh[i]
      /\ errCh'[Len(errCh) + 1] = p
  BY <1>2, AppendProperties DEF TypeOK
<1>4. Len(errCh) \in Nat /\ \A i \in 1..Len(errCh) : errCh[i] \in bad
  BY LenProperties DEF TypeOK
<1>5. \A i \in 1..Len(errCh') : i \in 1..Len(errCh) \/ i = Len(errCh) + 1
  BY <1>3, <1>4
<1>6. \A q \in Pipelines : pl'[q] = IF q = p THEN "failing" ELSE pl[q]
  BY <1>2 DEF TypeOK
<1>7. \A i \in 1..Len(errCh) : errCh[i] # p
  BY <1>2 DEF ErrInv
<1>8. \A i \in 1..Len(errCh') : pl'[errCh'[i]] \in {"failing", "done"}
  BY <1>3, <1>4, <1>5, <1>6 DEF ErrInv, TypeOK
<1>9. ASSUME NEW i \in 1..Len(errCh'), NEW j \in 1..Len(errCh'), errCh'[i] = errCh'[j]
      PROVE  i = j
  BY <1>3, <1>5, <1>7, <1>9 DEF ErrInv
<1>10. ToSet(errs') = ToSet(errs) \cup {p}
  BY <1>2, AppendToSet DEF TypeOK
<1>11. NoErrorDropped'
  BY <1>2, <1>6, <1>10 DEF NoErrorDropped, TypeOK
<1> QED
  BY <1>8, <1>9, <1>11 DEF ErrInv

(* Receiving an error leaves the others where they were.                    *)
LEMMA ReceiveKeepsErrors ==
  ASSUME TypeOK, ErrInv, NoErrorDropped, SelectErr
  PROVE  ErrInv' /\ NoErrorDropped'
<1>1. errCh # <<>> /\ errCh' = Tail(errCh) /\ UNCHANGED <<pl, errs, bad>>
  BY DEF SelectErr, config
<1>2. Len(errCh) \in Nat /\ Len(errCh') = Len(errCh) - 1
      /\ \A i \in 1..Len(errCh') : errCh'[i] = errCh[i + 1]
  BY <1>1, HeadTailProperties, LenProperties DEF TypeOK
<1>3. \A i \in 1..Len(errCh') : i + 1 \in 1..Len(errCh)
  BY <1>2
<1>4. \A i \in 1..Len(errCh') : pl'[errCh'[i]] \in {"failing", "done"}
  BY <1>1, <1>2, <1>3 DEF ErrInv
<1>5. ASSUME NEW i \in 1..Len(errCh'), NEW j \in 1..Len(errCh'), errCh'[i] = errCh'[j]
      PROVE  i = j
  <2>1. i + 1 \in 1..Len(errCh) /\ j + 1 \in 1..Len(errCh)
        /\ errCh[i + 1] = errCh[j + 1]
    BY <1>2, <1>3, <1>5
  <2>2. i + 1 = j + 1
    BY <2>1, Zenon DEF ErrInv
  <2> QED
    BY <2>2
<1> QED
  BY <1>1, <1>4, <1>5 DEF ErrInv, NoErrorDropped

(* The default that drops an error is never taken.                          *)
THEOREM NoErrorIsDropped == Spec => []NoErrorDropped
<1>1. Init => ErrInv /\ NoErrorDropped
  BY DEF Init, ErrInv, NoErrorDropped
<1>2. TypeOK /\ ErrInv /\ NoErrorDropped /\ [Next]_vars => (ErrInv /\ NoErrorDropped)'
  <2> SUFFICES ASSUME TypeOK, ErrInv, NoErrorDropped, [Next]_vars
               PROVE  (ErrInv /\ NoErrorDropped)'
    OBVIOUS
  <2>1. CASE SelectErr
    BY <2>1, ReceiveKeepsErrors
  <2>2. ASSUME NEW p \in Pipelines, Fails(p) PROVE (ErrInv /\ NoErrorDropped)'
    BY <2>2, FailKeepsErrors
  <2>3. CASE QuietStep
    <3>1. \A i \in 1..Len(errCh) : errCh[i] \in bad
      BY DEF TypeOK
    <3>2. ErrInv'
      BY <2>3, <3>1 DEF QuietStep, ErrInv
    <3>3. NoErrorDropped'
      BY <2>3 DEF QuietStep, NoErrorDropped
    <3> QED
      BY <3>2, <3>3
  <2> QED
    BY <2>1, <2>2, <2>3, QuietSteps
<1> QED
  BY <1>1, <1>2, LifecycleTypes, PTL DEF Spec

-----------------------------------------------------------------------------
(* Order of the end                                                         *)

(* OrderInv holds, and with it what it says of the end of the process.      *)
LEMMA OrderHolds == Spec => []OrderInv
<1>1. Init => OrderInv
  BY DEF Init, OrderInv
<1>2. TypeOK /\ OrderInv /\ [Next]_vars => OrderInv'
  <2> SUFFICES ASSUME TypeOK, OrderInv, [Next]_vars PROVE OrderInv'
    OBVIOUS
  <2> USE DEF TypeOK, OrderInv, config, process
  <2>1. CASE Enter \/ BuildFails \/ Built \/ SelectDone \/ SelectErr \/ Return
    BY <2>1 DEF Enter, BuildFails, Built, SelectDone, SelectErr, Return, Next
  <2>2. ASSUME NEW p \in Pipelines, StartPipeline(p) PROVE OrderInv'
    BY <2>2 DEF StartPipeline
  <2>3. ASSUME NEW p \in Pipelines, Pipeline(p) PROVE OrderInv'
    BY <2>3 DEF Pipeline, Fails, Stops, Done
  <2>4. CASE Signal \/ Watch \/ ShutMetrics \/ Exit
    BY <2>4 DEF Signal, Watch, ShutMetrics, Exit
  <2>5. CASE UNCHANGED vars
    BY <2>5 DEF vars
  <2> QED
    BY <2>1, <2>2, <2>3, <2>4, <2>5 DEF Next, BuildAndRun
<1> QED
  BY <1>1, <1>2, LifecycleTypes, PTL DEF Spec

(* BuildAndRun returns, and main ends, after every pipeline has returned.   *)
THEOREM PipelinesReturnFirst == Spec => []ReturnsAfterPipelines
<1>1. OrderInv => ReturnsAfterPipelines
  BY DEF OrderInv, ReturnsAfterPipelines
<1> QED
  BY <1>1, OrderHolds, PTL

(* The process ends on a signal only, whatever fails.                       *)
THEOREM OnlySignalsEnd == Spec => []ExitsOnlyOnSignal
<1>1. OrderInv => ExitsOnlyOnSignal
  BY DEF OrderInv, ExitsOnlyOnSignal
<1> QED
  BY <1>1, OrderHolds, PTL
=============================================================================
