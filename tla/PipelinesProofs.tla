--------------------------- MODULE PipelinesProofs ---------------------------
(***************************************************************************)
(* Proofs about Pipelines for any receivers, pipelines, subscriptions,      *)
(* exporters, faults and capacities.                                        *)
(***************************************************************************)
EXTENDS Pipelines, SequenceTheorems, FiniteSetTheorems, TLAPS

(* What the functions are over, and what a dispatcher with an Aggregate in  *)
(* hand is at.                                                              *)
Shape ==
  /\ DOMAIN shared = Receivers /\ DOMAIN fan = Receivers /\ DOMAIN fanAt = Receivers
  /\ DOMAIN log = Receivers
  /\ DOMAIN rx = Pipelines /\ DOMAIN conv = Pipelines /\ DOMAIN proc = Pipelines
  /\ DOMAIN bridge = Pipelines /\ DOMAIN disp = Pipelines /\ DOMAIN dispAt = Pipelines
  /\ DOMAIN exp = Pipelines /\ DOMAIN entered = Pipelines /\ DOMAIN handed = Pipelines

TypeInv == TypeOK /\ Shape

LEMMA Constants ==
  /\ MaxMsgs \in Nat /\ SharedCap \in Nat \ {0} /\ RxCap \in Nat \ {0}
  /\ \A r \in Receivers : /\ Len(Subs[r]) \in Nat \ {0}
                          /\ \A j \in 1 .. Len(Subs[r]) : Subs[r][j] \in Pipelines
  /\ \A p \in Pipelines : ExportersOf[p] \in Nat
<1>1. ASSUME NEW r \in Receivers
      PROVE  /\ Len(Subs[r]) \in Nat \ {0}
             /\ \A j \in 1 .. Len(Subs[r]) : Subs[r][j] \in Pipelines
  <2>1. Subs[r] \in Seq(Pipelines) /\ Subs[r] # <<>>
    BY PipelinesAssumption
  <2>2. QED
    BY <2>1, EmptySeq, LenProperties, ElementOfSeq
<1>2. QED
  BY <1>1, PipelinesAssumption

(* A goroutine's hand and the channel it sends to keep their types.         *)
LEMMA Appending ==
  ASSUME NEW q \in Seq(Msgs), NEW m \in Msgs
  PROVE  Append(q, m) \in Seq(Msgs) /\ Len(Append(q, m)) = Len(q) + 1 /\ Len(q) \in Nat
  BY AppendProperties, LenProperties

LEMMA Taking ==
  ASSUME NEW q \in Seq(Msgs), q # <<>>
  PROVE  /\ Head(q) \in Msgs /\ Tail(q) \in Seq(Msgs) /\ Len(Tail(q)) = Len(q) - 1
         /\ Len(q) \in Nat
  BY HeadTailProperties, LenProperties

(* One statement per variable that is typed as one, per receiver or per     *)
(* pipeline: what has to be shown of a step.                                *)
SharedOK == \A r \in Receivers : shared[r] \in Seq(Msgs) /\ Len(shared[r]) <= SharedCap
FanOK == \A r \in Receivers : fan[r] \in Hand /\ fanAt[r] \in 1 .. Len(Subs[r])
LogOK == \A r \in Receivers : log[r] \in Seq(Msgs)
RxOK == \A p \in Pipelines : rx[p] \in Seq(Msgs) /\ Len(rx[p]) <= RxCap
ChainOK == \A p \in Pipelines : conv[p] \in Hand /\ proc[p] \in Hand /\ bridge[p] \in Hand
DispOK == \A p \in Pipelines : disp[p] \in Hand /\ dispAt[p] \in Nat
ExpOK == \A p \in Pipelines : exp[p] \in [Exporters(p) -> Hand]
EnteredOK == \A p \in Pipelines : entered[p] \in Seq(Msgs)
HandedOK == \A p \in Pipelines : handed[p] \in [Exporters(p) -> Seq(Msgs)]
OthersOK ==
  /\ fault \in [Pipelines -> Kinds] /\ ctxDone \in BOOLEAN /\ nextMsg \in 1 .. MaxMsgs + 1
  /\ running \subseteq Started /\ dropped \subseteq Msgs

LEMMA TypeParts ==
  TypeInv <=> /\ SharedOK /\ FanOK /\ LogOK /\ RxOK /\ ChainOK /\ DispOK /\ ExpOK
              /\ EnteredOK /\ HandedOK /\ OthersOK /\ Shape
  BY DEF TypeInv, TypeOK, SharedOK, FanOK, LogOK, RxOK, ChainOK, DispOK, ExpOK, EnteredOK,
     HandedOK, OthersOK

LEMMA TypeInit == Init => TypeInv
<1> SUFFICES ASSUME Init PROVE TypeInv
  OBVIOUS
<1>1. <<>> \in Seq(Msgs) /\ Len(<<>>) = 0
  BY EmptySeq
<1>2. None \in Hand /\ 1 \in 1 .. MaxMsgs + 1
  BY Constants DEF Hand, None
<1>3. \A r \in Receivers : 1 \in 1 .. Len(Subs[r]) /\ 0 <= SharedCap
  BY Constants
<1>4. 0 <= RxCap
  BY Constants
<1>5. SharedOK /\ FanOK /\ LogOK
  BY <1>1, <1>2, <1>3 DEF Init, SharedOK, FanOK, LogOK
<1>6. RxOK /\ ChainOK /\ DispOK /\ ExpOK /\ EnteredOK /\ HandedOK
  BY <1>1, <1>2, <1>4 DEF Init, RxOK, ChainOK, DispOK, ExpOK, EnteredOK, HandedOK
<1>7. OthersOK /\ Shape
  BY <1>2 DEF Init, OthersOK, Shape
<1>8. QED
  BY <1>5, <1>6, <1>7, TypeParts

LEMMA TypeStep ==
  ASSUME TypeInv, [Next]_vars
  PROVE  TypeInv'
<1>a. /\ SharedOK /\ FanOK /\ LogOK /\ RxOK /\ ChainOK /\ DispOK /\ ExpOK
      /\ EnteredOK /\ HandedOK /\ OthersOK /\ Shape
  BY TypeParts
<1>b. SUFFICES /\ SharedOK' /\ FanOK' /\ LogOK' /\ RxOK' /\ ChainOK' /\ DispOK' /\ ExpOK'
               /\ EnteredOK' /\ HandedOK' /\ OthersOK' /\ Shape'
  BY DEF TypeInv, TypeOK, SharedOK, FanOK, LogOK, RxOK, ChainOK, DispOK, ExpOK, EnteredOK,
     HandedOK, OthersOK
<1>c. None \in Hand /\ Msgs \subseteq Hand /\ Hand \ {None} \subseteq Msgs
  BY Constants DEF None, Hand, Msgs
<1>d. fault' = fault /\ Started' = Started
  <2>1. fault' = fault
    BY DEF Next, Cancel, Accept, Drop, FanStep, FanTake, FanSend, FanQuit, ConvTake, ProcTake,
       ProcQuit, BridgeTake, BridgeQuit, DispStep, DispTake, DispSend, DispQuit, Export,
       ExpQuit, vars
  <2>2. QED
    BY <2>1 DEF Started
<1> DEFINE All == /\ SharedOK' /\ FanOK' /\ LogOK' /\ RxOK' /\ ChainOK' /\ DispOK' /\ ExpOK'
                  /\ EnteredOK' /\ HandedOK' /\ OthersOK' /\ Shape'
<1> USE DEF SharedOK, FanOK, LogOK, RxOK, ChainOK, DispOK, ExpOK, EnteredOK, HandedOK,
            OthersOK, Shape
<1>1. CASE Cancel
  BY <1>1, <1>a, <1>d DEF Cancel
<1>2. ASSUME NEW r \in Receivers, Accept(r) PROVE All
  <2>1. nextMsg \in Msgs /\ nextMsg' \in 1 .. MaxMsgs + 1
    BY <1>2, Constants DEF Accept, Msgs
  <2>2. /\ Append(shared[r], nextMsg) \in Seq(Msgs) /\ Len(Append(shared[r], nextMsg)) <= SharedCap
        /\ Append(log[r], nextMsg) \in Seq(Msgs)
    BY <1>2, <1>a, <1>d, <2>1, Appending, Constants DEF Accept
  <2>3. QED
    BY <1>2, <1>a, <1>d, <2>1, <2>2 DEF Accept
<1>3. ASSUME NEW r \in Receivers, Drop(r) PROVE All
  <2>1. nextMsg \in Msgs /\ nextMsg' \in 1 .. MaxMsgs + 1
    BY <1>3, Constants DEF Drop, Msgs
  <2>2. QED
    BY <1>3, <1>a, <1>d, <2>1 DEF Drop
<1>4. ASSUME NEW r \in Receivers, FanTake(r) PROVE All
  <2>1. /\ Head(shared[r]) \in Hand /\ Tail(shared[r]) \in Seq(Msgs)
        /\ Len(Tail(shared[r])) <= SharedCap
    BY <1>4, <1>a, <1>d, <1>c, Taking, Constants DEF FanTake
  <2>2. 1 \in 1 .. Len(Subs[r])
    BY Constants
  <2>3. QED
    BY <1>4, <1>a, <1>d, <2>1, <2>2 DEF FanTake
<1>5. ASSUME NEW r \in Receivers, FanSend(r) PROVE All
  <2> DEFINE p == Subs[r][fanAt[r]]
             last == fanAt[r] = Len(Subs[r])
  <2>1. p \in Pipelines /\ fan[r] \in Msgs
    BY <1>5, <1>a, <1>d, <1>c, Constants DEF FanSend
  <2>2. /\ Append(rx[p], fan[r]) \in Seq(Msgs) /\ Len(Append(rx[p], fan[r])) <= RxCap
        /\ Append(entered[p], fan[r]) \in Seq(Msgs)
    BY <1>5, <1>a, <1>d, <2>1, Appending, Constants DEF FanSend
  <2>3. (IF last THEN 1 ELSE fanAt[r] + 1) \in 1 .. Len(Subs[r])
    BY <1>a, <1>d, Constants
  <2>4. /\ rx' = [rx EXCEPT ![p] = Append(@, fan[r])]
        /\ entered' = [entered EXCEPT ![p] = Append(@, fan[r])]
        /\ fan' = [fan EXCEPT ![r] = IF last THEN None ELSE @]
        /\ fanAt' = [fanAt EXCEPT ![r] = IF last THEN 1 ELSE @ + 1]
        /\ UNCHANGED <<fault, ctxDone, nextMsg, shared, conv, proc, bridge, disp, dispAt, exp,
                       running, log, dropped, handed>>
    BY <1>5 DEF FanSend
  <2>5. QED
    BY <1>a, <1>d, <1>c, <2>1, <2>2, <2>3, <2>4
<1>6. ASSUME NEW r \in Receivers, FanQuit(r) PROVE All
  BY <1>6, <1>a, <1>d, <1>c, Constants DEF FanQuit, Return
<1>7. ASSUME NEW p \in Pipelines, ConvTake(p) PROVE All
  <2>1. Head(rx[p]) \in Hand /\ Tail(rx[p]) \in Seq(Msgs) /\ Len(Tail(rx[p])) <= RxCap
    BY <1>7, <1>a, <1>d, <1>c, Taking, Constants DEF ConvTake
  <2>2. QED
    BY <1>7, <1>a, <1>d, <2>1 DEF ConvTake
<1>8. ASSUME NEW p \in Pipelines, ProcTake(p) PROVE All
  BY <1>8, <1>a, <1>d, <1>c DEF ProcTake
<1>9. ASSUME NEW p \in Pipelines, ProcQuit(p) \/ BridgeQuit(p) PROVE All
  BY <1>9, <1>a, <1>d DEF ProcQuit, BridgeQuit, Return
<1>10. ASSUME NEW p \in Pipelines, BridgeTake(p) PROVE All
  BY <1>10, <1>a, <1>d, <1>c DEF BridgeTake
<1>11. ASSUME NEW p \in Pipelines, DispTake(p) PROVE All
  BY <1>11, <1>a, <1>d, <1>c DEF DispTake
<1>12. ASSUME NEW p \in Pipelines, DispSend(p) PROVE All
  <2> DEFINE i == dispAt[p]
             last == i = ExportersOf[p]
  <2>1. exp' = [exp EXCEPT ![p][i] = disp[p]]
    BY <1>12 DEF DispSend
  <2>2. ExpOK'
    BY <1>a, <1>d, <2>1
  <2>3. (IF last THEN 1 ELSE i + 1) \in Nat
    BY <1>a, <1>d
  <2>4. QED
    BY <1>12, <1>a, <1>d, <1>c, <2>2, <2>3 DEF DispSend
<1>13. ASSUME NEW p \in Pipelines, DispQuit(p) PROVE All
  BY <1>13, <1>a, <1>d, <1>c DEF DispQuit, Return
<1>14. ASSUME NEW p \in Pipelines, NEW i \in Exporters(p), Export(p, i) PROVE All
  <2>1. exp[p][i] \in Msgs /\ handed[p][i] \in Seq(Msgs)
    BY <1>14, <1>a, <1>d, <1>c DEF Export
  <2>2. Append(handed[p][i], exp[p][i]) \in Seq(Msgs)
    BY <2>1, Appending
  <2>3. handed' = [handed EXCEPT ![p][i] = Append(@, exp[p][i])]
        /\ exp' = [exp EXCEPT ![p][i] = None]
    BY <1>14 DEF Export
  <2>4. HandedOK' /\ DOMAIN handed' = Pipelines
    BY <1>a, <1>d, <2>2, <2>3
  <2>5. ExpOK' /\ DOMAIN exp' = Pipelines
    BY <1>a, <1>d, <1>c, <2>3
  <2>6. QED
    BY <1>14, <1>a, <1>d, <2>4, <2>5 DEF Export
<1>15. ASSUME NEW p \in Pipelines, NEW i \in Exporters(p), ExpQuit(p, i) PROVE All
  BY <1>15, <1>a, <1>d DEF ExpQuit, Return
<1>16. CASE UNCHANGED vars
  BY <1>16, <1>a, <1>d DEF vars
<1>17. QED
  BY <1>1, <1>2, <1>3, <1>4, <1>5, <1>6, <1>7, <1>8, <1>9, <1>10, <1>11, <1>12, <1>13, <1>14,
     <1>15, <1>16 DEF Next, FanStep, DispStep

(* Every variable of the data plane keeps its shape and every channel its   *)
(* capacity, for any pipelines that share receivers (pipeline.go).          *)
THEOREM PipelinesTypes == Spec => []TypeOK
<1>1. TypeInv /\ [Next]_vars => TypeInv'
  BY TypeStep
<1>2. TypeInv => TypeOK
  BY DEF TypeInv
<1>3. QED
  BY TypeInit, <1>1, <1>2, PTL DEF Spec

-----------------------------------------------------------------------------
(* Exporters.  A dispatcher with an Aggregate in hand has given it to those *)
(* before dispAt, one with an empty hand has given all of them the same     *)
(* number, and one that returned gives no more.                             *)
Given(p, i) == IF i < dispAt[p] THEN 1 ELSE 0

DispInv ==
  \A p \in Pipelines :
    /\ disp[p] # None =>
         /\ Running(Go("disp", p))
         /\ \A i, k \in Exporters(p) :
              Received(p, i) - Given(p, i) = Received(p, k) - Given(p, k)
    /\ disp[p] = None /\ Running(Go("disp", p)) =>
         \A i, k \in Exporters(p) : Received(p, i) = Received(p, k)
    /\ \A i, k \in Exporters(p) : i < k => Received(p, i) - Received(p, k) \in {0, 1}

LEMMA ReceivedTyped ==
  ASSUME TypeInv, NEW p \in Pipelines, NEW i \in Exporters(p)
  PROVE  Received(p, i) \in Nat /\ i \in Nat
<1>1. handed[p][i] \in Seq(Msgs)
  BY DEF TypeInv, TypeOK
<1>2. Len(handed[p][i]) \in Nat
  BY <1>1, LenProperties
<1>3. Received(p, i) = Len(handed[p][i]) + 0 \/ Received(p, i) = Len(handed[p][i]) + 1
  BY DEF Received
<1>4. Received(p, i) \in Nat
  BY <1>2, <1>3
<1>5. i \in Nat
  BY Constants DEF Exporters
<1>6. QED
  BY <1>4, <1>5

(* Who has received how many changes only when the dispatcher gives.        *)
LEMMA ReceivedStays ==
  ASSUME TypeInv, [Next]_vars, \A p \in Pipelines : ~DispSend(p)
  PROVE  \A p \in Pipelines : \A i \in Exporters(p) : Received(p, i)' = Received(p, i)
<1>1. CASE UNCHANGED <<handed, exp>>
  BY <1>1 DEF Received
<1>2. ASSUME NEW q \in Pipelines, NEW j \in Exporters(q), Export(q, j)
      PROVE  \A p \in Pipelines : \A i \in Exporters(p) : Received(p, i)' = Received(p, i)
  <2>1. /\ exp[q][j] # None /\ exp[q][j] \in Hand /\ handed[q][j] \in Seq(Msgs)
        /\ DOMAIN exp = Pipelines /\ DOMAIN exp[q] = Exporters(q)
        /\ DOMAIN handed = Pipelines /\ DOMAIN handed[q] = Exporters(q)
    BY <1>2 DEF Export, TypeInv, TypeOK, Shape
  <2>2. exp[q][j] \in Msgs
    BY <2>1, Constants DEF Hand, None, Msgs
  <2>3. /\ Len(Append(handed[q][j], exp[q][j])) = Len(handed[q][j]) + 1
        /\ Len(handed[q][j]) \in Nat
    BY <2>1, <2>2, Appending
  <2>4. ASSUME NEW p \in Pipelines, NEW i \in Exporters(p)
        PROVE  Received(p, i)' = Received(p, i)
    <3>1. CASE p = q /\ i = j
      <4>1. /\ exp'[q][j] = None
            /\ handed'[q][j] = Append(handed[q][j], exp[q][j])
        BY <1>2, <2>1 DEF Export
      <4>2. QED
        BY <3>1, <4>1, <2>1, <2>3 DEF Received
    <3>2. CASE p # q \/ i # j
      <4>1. exp'[p][i] = exp[p][i] /\ handed'[p][i] = handed[p][i]
        BY <1>2, <2>1, <3>2 DEF Export
      <4>2. QED
        BY <4>1 DEF Received
    <3>3. QED
      BY <3>1, <3>2
  <2>5. QED
    BY <2>4
<1>3. UNCHANGED <<handed, exp>> \/ \E q \in Pipelines : \E j \in Exporters(q) : Export(q, j)
  BY DEF Next, Cancel, Accept, Drop, FanStep, FanTake, FanSend, FanQuit, ConvTake, ProcTake,
     ProcQuit, BridgeTake, BridgeQuit, DispStep, DispTake, DispQuit, ExpQuit, vars
<1>4. QED
  BY <1>1, <1>2, <1>3

(* Steps of other goroutines leave a dispatcher alone.                      *)
LEMMA DispStays ==
  ASSUME [Next]_vars, NEW p \in Pipelines, ~DispStep(p), TypeInv
  PROVE  /\ disp'[p] = disp[p] /\ dispAt'[p] = dispAt[p]
         /\ Running(Go("disp", p))' <=> Running(Go("disp", p))
<1> USE DEF Running, Return
<1>a. DOMAIN disp = Pipelines /\ DOMAIN dispAt = Pipelines
  BY DEF TypeInv, Shape
<1>1. ASSUME NEW q \in Pipelines, DispStep(q) PROVE q # p
  BY <1>1
<1>2. \A q : /\ Go("fan", q) # Go("disp", p) /\ Go("proc", q) # Go("disp", p)
             /\ Go("bridge", q) # Go("disp", p)
             /\ \A i : GoExp(q, i) # Go("disp", p)
             /\ q # p => Go("disp", q) # Go("disp", p)
  BY DEF Go, GoExp
<1>3. CASE \E q \in Pipelines : DispStep(q)
  BY <1>a, <1>1, <1>2, <1>3 DEF DispStep, DispTake, DispSend, DispQuit
<1>4. CASE \E q \in Pipelines :
              ProcQuit(q) \/ BridgeQuit(q) \/ \E i \in Exporters(q) : ExpQuit(q, i)
  BY <1>2, <1>4 DEF ProcQuit, BridgeQuit, ExpQuit
<1>5. CASE \E r \in Receivers : FanQuit(r)
  BY <1>2, <1>5 DEF FanQuit
<1>6. CASE UNCHANGED <<disp, dispAt, running>>
  BY <1>6
<1>7. QED
  BY <1>3, <1>4, <1>5, <1>6 DEF Next, Cancel, Accept, Drop, FanStep, FanTake, FanSend, ConvTake,
     ProcTake, BridgeTake, Export, vars

LEMMA DispStayed ==
  ASSUME TypeInv, DispInv, NEW p \in Pipelines,
         disp'[p] = disp[p], dispAt'[p] = dispAt[p],
         Running(Go("disp", p))' <=> Running(Go("disp", p)),
         \A i \in Exporters(p) : Received(p, i)' = Received(p, i)
  PROVE  /\ disp'[p] # None =>
              /\ Running(Go("disp", p))'
              /\ \A i, k \in Exporters(p) :
                   Received(p, i)' - Given(p, i)' = Received(p, k)' - Given(p, k)'
         /\ disp'[p] = None /\ Running(Go("disp", p))' =>
              \A i, k \in Exporters(p) : Received(p, i)' = Received(p, k)'
         /\ \A i, k \in Exporters(p) : i < k => Received(p, i)' - Received(p, k)' \in {0, 1}
<1>1. \A i : Given(p, i)' = Given(p, i)
  BY DEF Given
<1>2. QED
  BY <1>1 DEF DispInv

LEMMA DispStepInv ==
  ASSUME TypeInv, DispInv, [Next]_vars
  PROVE  DispInv'
<1> SUFFICES ASSUME NEW p \in Pipelines
             PROVE  /\ disp'[p] # None =>
                         /\ Running(Go("disp", p))'
                         /\ \A i, k \in Exporters(p) :
                              Received(p, i)' - Given(p, i)' = Received(p, k)' - Given(p, k)'
                    /\ disp'[p] = None /\ Running(Go("disp", p))' =>
                         \A i, k \in Exporters(p) : Received(p, i)' = Received(p, k)'
                    /\ \A i, k \in Exporters(p) :
                         i < k => Received(p, i)' - Received(p, k)' \in {0, 1}
  BY DEF DispInv
<1>a. /\ DOMAIN disp = Pipelines /\ DOMAIN dispAt = Pipelines /\ DOMAIN exp = Pipelines
      /\ DOMAIN exp[p] = Exporters(p) /\ dispAt[p] \in Nat
  BY DEF TypeInv, TypeOK, Shape
<1>b. \A i \in Exporters(p) : Received(p, i) \in Nat /\ i \in Nat /\ i >= 1
  BY ReceivedTyped, Constants DEF Exporters
<1>1. CASE DispSend(p)
  <2>1. /\ disp[p] # None /\ exp[p][dispAt[p]] = None
        /\ exp' = [exp EXCEPT ![p][dispAt[p]] = disp[p]]
        /\ handed' = handed /\ running' = running
        /\ \/ dispAt[p] = ExportersOf[p] /\ disp'[p] = None
           \/ disp'[p] = disp[p] /\ dispAt'[p] = dispAt[p] + 1
    BY <1>1, <1>a DEF DispSend
  <2>2. \A i, k \in Exporters(p) : Received(p, i) - Given(p, i) = Received(p, k) - Given(p, k)
    BY <2>1 DEF DispInv
  <2>3. ASSUME NEW i \in Exporters(p)
        PROVE  Received(p, i)' = Received(p, i) + IF i = dispAt[p] THEN 1 ELSE 0
    <3>1. CASE i = dispAt[p]
      <4>1. exp'[p][i] = disp[p] /\ exp[p][i] = None
        BY <1>a, <2>1, <3>1
      <4>2. Received(p, i)' = Len(handed[p][i]) + 1 /\ Received(p, i) = Len(handed[p][i]) + 0
        BY <2>1, <4>1 DEF Received
      <4>3. Len(handed[p][i]) \in Nat
        BY LenProperties DEF TypeInv, TypeOK
      <4>4. QED
        BY <3>1, <4>2, <4>3
    <3>2. CASE i # dispAt[p]
      <4>1. exp'[p][i] = exp[p][i]
        BY <1>a, <2>1, <3>2
      <4>2. Received(p, i)' = Received(p, i)
        BY <2>1, <4>1 DEF Received
      <4>3. QED
        BY <3>2, <4>2, <1>b
    <3>3. QED
      BY <3>1, <3>2
  <2> DEFINE new(i) == IF i <= dispAt[p] THEN 1 ELSE 0
  <2>4. \A i, k \in Exporters(p) : Received(p, i)' - new(i) = Received(p, k)' - new(k)
    BY <1>a, <1>b, <2>2, <2>3 DEF Given
  <2>5. \A i \in Exporters(p) : Received(p, i)' \in Nat
    BY <1>b, <2>3
  <2>6. CASE dispAt[p] = ExportersOf[p] /\ disp'[p] = None
    <3>1. \A i \in Exporters(p) : new(i) = 1
      BY <2>6, <1>b, Constants DEF Exporters
    <3>2. \A i, k \in Exporters(p) : Received(p, i)' = Received(p, k)'
      BY <2>4, <2>5, <3>1
    <3>3. QED
      BY <2>5, <2>6, <3>2
  <2>7. CASE disp'[p] = disp[p] /\ dispAt'[p] = dispAt[p] + 1
    <3>1. \A i \in Exporters(p) : Given(p, i)' = new(i)
      BY <2>7, <1>a, <1>b DEF Given
    <3>2. Running(Go("disp", p))'
      BY <2>1 DEF DispInv, Running
    <3>3. \A i, k \in Exporters(p) : i < k => Received(p, i)' - Received(p, k)' \in {0, 1}
      BY <1>a, <1>b, <2>4, <2>5
    <3>4. QED
      BY <2>1, <2>4, <2>7, <3>1, <3>2, <3>3
  <2>8. QED
    BY <2>1, <2>6, <2>7
<1>2. ASSUME ~DispSend(p)
      PROVE  \A i \in Exporters(p) : Received(p, i)' = Received(p, i)
  <2>1. CASE \E q \in Pipelines : DispSend(q)
    <3>1. PICK q \in Pipelines : DispSend(q)
      BY <2>1
    <3>2. q # p
      BY <1>2, <3>1
    <3>3. exp'[p] = exp[p] /\ handed' = handed
      BY <3>1, <3>2, <1>a DEF DispSend
    <3>4. QED
      BY <3>3 DEF Received
  <2>2. CASE ~\E q \in Pipelines : DispSend(q)
    BY <2>2, ReceivedStays
  <2>3. QED
    BY <2>1, <2>2
<1>3. CASE DispTake(p)
  <2>1. ~DispSend(p)
    BY <1>3 DEF DispTake, DispSend
  <2>2. /\ disp[p] = None /\ disp'[p] # None /\ dispAt'[p] = 1
        /\ Running(Go("disp", p)) /\ running' = running
    BY <1>3, <1>a DEF DispTake
  <2>3. \A i, k \in Exporters(p) : Received(p, i) = Received(p, k)
    BY <2>2 DEF DispInv
  <2>4. \A i \in Exporters(p) : Given(p, i)' = 0
    BY <2>2, <1>b DEF Given
  <2>5. QED
    BY <1>2, <1>b, <2>1, <2>2, <2>3, <2>4 DEF Running
<1>4. CASE DispQuit(p)
  <2>1. disp'[p] = None /\ ~Running(Go("disp", p))' /\ UNCHANGED <<exp, handed>>
    BY <1>4, <1>a DEF DispQuit, Return, Running
  <2>2. \A i \in Exporters(p) : Received(p, i)' = Received(p, i)
    BY <2>1 DEF Received
  <2>3. QED
    BY <2>1, <2>2 DEF DispInv
<1>5. CASE ~DispStep(p)
  <2>1. \A i \in Exporters(p) : Received(p, i)' = Received(p, i)
    BY <1>2, <1>5 DEF DispStep
  <2>2. QED
    BY <1>5, <2>1, DispStays, DispStayed
<1>6. QED
  BY <1>1, <1>3, <1>4, <1>5 DEF DispStep

LEMMA DispInit == Init => DispInv
  BY LenProperties, EmptySeq DEF Init, DispInv, Received

(* The dispatcher waits for a slow upsert before it offers the next         *)
(* Aggregate to anyone (pipeline.go:230-238): of any number of exporters no *)
(* one has received more than one Aggregate more than a later one, and none *)
(* fewer, whenever the context is cancelled.                                *)
THEOREM ExportersInStep == Spec => []DispatchLockstep
<1>1. TypeInv /\ DispInv /\ [Next]_vars => (TypeInv /\ DispInv)'
  BY TypeStep, DispStepInv
<1>2. DispInv => DispatchLockstep
  BY DEF DispInv, DispatchLockstep
<1>3. QED
  BY TypeInit, DispInit, <1>1, <1>2, PTL DEF Spec
-----------------------------------------------------------------------------
(* Order.  L is what each receiver has accepted; x follows S when it was    *)
(* received after everything in S that is of the same receiver.             *)
Follows(L, x, S) ==
  \A r \in Receivers : \A n \in S : x \in ToSet(L[r]) /\ n \in ToSet(L[r]) => n < x
Rising(L, q) == \A a, b \in DOMAIN q : a < b => Follows(L, q[b], {q[a]})
NoneLogged(L) == \A r \in Receivers : None \notin ToSet(L[r])

(* What a send adds to the contents of a channel or a history, and what a   *)
(* receive takes from it.                                                   *)
LEMMA ToSetAppended ==
  ASSUME NEW q \in Seq(Msgs), NEW m \in Msgs
  PROVE  ToSet(Append(q, m)) = ToSet(q) \cup {m}
<1>1. /\ Append(q, m) \in Seq(Msgs) /\ Len(Append(q, m)) = Len(q) + 1
      /\ \A i \in 1 .. Len(q) : Append(q, m)[i] = q[i]
      /\ Append(q, m)[Len(q) + 1] = m /\ Len(q) \in Nat
  BY AppendProperties, LenProperties
<1>2. DOMAIN q = 1 .. Len(q) /\ DOMAIN Append(q, m) = 1 .. Len(q) + 1
  BY <1>1, LenProperties
<1>3. QED
  BY <1>1, <1>2 DEF ToSet

LEMMA ToSetTaken ==
  ASSUME NEW q \in Seq(Msgs), q # <<>>
  PROVE  /\ ToSet(q) = {Head(q)} \cup ToSet(Tail(q))
         /\ \A i \in 1 .. Len(Tail(q)) : Tail(q)[i] = q[i + 1]
         /\ Head(q) = q[1] /\ DOMAIN Tail(q) = 1 .. Len(Tail(q))
         /\ DOMAIN q = 1 .. Len(Tail(q)) + 1 /\ Len(Tail(q)) \in Nat
<1>1. /\ Tail(q) \in Seq(Msgs) /\ Len(Tail(q)) = Len(q) - 1
      /\ \A i \in 1 .. Len(Tail(q)) : Tail(q)[i] = q[i + 1]
  BY HeadTailProperties
<1>2. DOMAIN q = 1 .. Len(q) /\ DOMAIN Tail(q) = 1 .. Len(q) - 1 /\ Len(q) \in Nat \ {0}
  BY <1>1, LenProperties, EmptySeq
<1>3. Head(q) = q[1]
  BY <1>2
<1>4. ToSet(q) = {Head(q)} \cup ToSet(Tail(q))
  <2>1. ASSUME NEW i \in 1 .. Len(q) PROVE q[i] \in {Head(q)} \cup ToSet(Tail(q))
    <3>1. CASE i = 1
      BY <3>1, <1>3
    <3>2. CASE i # 1
      <4>1. i - 1 \in 1 .. Len(q) - 1 /\ (i - 1) + 1 = i
        BY <3>2, <1>2
      <4>2. Tail(q)[i - 1] = q[i]
        BY <4>1, <1>1
      <4>3. QED
        BY <4>1, <4>2, <1>2 DEF ToSet
    <3>3. QED
      BY <3>1, <3>2
  <2>2. ASSUME NEW i \in 1 .. Len(q) - 1 PROVE Tail(q)[i] \in ToSet(q)
    <3>1. i + 1 \in 1 .. Len(q)
      BY <1>2
    <3>2. QED
      BY <3>1, <1>1, <1>2 DEF ToSet
  <2>3. Head(q) \in ToSet(q)
    BY <1>2, <1>3 DEF ToSet
  <2>4. QED
    BY <2>1, <2>2, <2>3, <1>2 DEF ToSet
<1>5. QED
  BY <1>1, <1>2, <1>3, <1>4

(* Follows over fewer envelopes, over two sets, and of an empty hand.       *)
LEMMA FollowsLess ==
  ASSUME NEW L, NoneLogged(L), NEW x, NEW S, Follows(L, x, S),
         NEW T, T \subseteq S \cup {None}
  PROVE  Follows(L, x, T)
  BY DEF Follows, NoneLogged

LEMMA FollowsMore ==
  ASSUME NEW L, NEW x, NEW S, NEW T, Follows(L, x, S), Follows(L, x, T)
  PROVE  Follows(L, x, S \cup T)
  BY DEF Follows

LEMMA NoneFollows ==
  ASSUME NEW L, NoneLogged(L), NEW S
  PROVE  Follows(L, None, S)
  BY DEF Follows, NoneLogged

(* A queue stays in order when what is added follows it, and when its head  *)
(* is taken, which all the rest follows.                                    *)
LEMMA RisingAppended ==
  ASSUME NEW L, NEW q \in Seq(Msgs), NEW m \in Msgs, Rising(L, q), Follows(L, m, ToSet(q))
  PROVE  Rising(L, Append(q, m))
<1>1. /\ \A i \in 1 .. Len(q) : Append(q, m)[i] = q[i]
      /\ Append(q, m)[Len(q) + 1] = m /\ Len(q) \in Nat
      /\ DOMAIN q = 1 .. Len(q) /\ DOMAIN Append(q, m) = 1 .. Len(q) + 1
  BY AppendProperties, LenProperties
<1>2. ASSUME NEW a \in 1 .. Len(q) + 1, NEW b \in 1 .. Len(q) + 1, a < b
      PROVE  Follows(L, Append(q, m)[b], {Append(q, m)[a]})
  <2>1. a \in 1 .. Len(q) /\ Append(q, m)[a] = q[a]
    BY <1>1, <1>2
  <2>2. CASE b = Len(q) + 1
    BY <1>1, <2>1, <2>2 DEF Follows, ToSet
  <2>3. CASE b # Len(q) + 1
    <3>1. b \in 1 .. Len(q) /\ Append(q, m)[b] = q[b]
      BY <1>1, <2>3
    <3>2. QED
      BY <1>1, <1>2, <2>1, <3>1 DEF Rising
  <2>4. QED
    BY <2>2, <2>3
<1>3. QED
  BY <1>1, <1>2 DEF Rising

LEMMA RisingTaken ==
  ASSUME NEW L, NEW q \in Seq(Msgs), q # <<>>, Rising(L, q)
  PROVE  /\ Rising(L, Tail(q))
         /\ \A m \in ToSet(Tail(q)) : Follows(L, m, {Head(q)})
<1>1. /\ \A i \in 1 .. Len(Tail(q)) : Tail(q)[i] = q[i + 1]
      /\ Head(q) = q[1] /\ DOMAIN Tail(q) = 1 .. Len(Tail(q))
      /\ DOMAIN q = 1 .. Len(Tail(q)) + 1 /\ Len(Tail(q)) \in Nat
  BY ToSetTaken
<1>2. ASSUME NEW a \in DOMAIN Tail(q), NEW b \in DOMAIN Tail(q), a < b
      PROVE  Follows(L, Tail(q)[b], {Tail(q)[a]})
  <2>1. a + 1 \in DOMAIN q /\ b + 1 \in DOMAIN q /\ a + 1 < b + 1
    BY <1>1, <1>2
  <2>2. QED
    BY <1>1, <2>1 DEF Rising
<1>3. ASSUME NEW b \in DOMAIN Tail(q) PROVE Follows(L, Tail(q)[b], {Head(q)})
  <2>1. 1 \in DOMAIN q /\ b + 1 \in DOMAIN q /\ 1 < b + 1
    BY <1>1
  <2>2. QED
    BY <1>1, <2>1 DEF Rising
<1>4. QED
  BY <1>2, <1>3 DEF Rising, ToSet

(* One more envelope is received: it is no reason for anything else.        *)
LEMMA FollowsLogged ==
  ASSUME NEW L, NEW M, NEW n, NEW x, NEW S, Follows(L, x, S), x # n, n \notin S,
         \A r \in Receivers : ToSet(M[r]) \subseteq ToSet(L[r]) \cup {n}
  PROVE  Follows(M, x, S)
  BY DEF Follows
-----------------------------------------------------------------------------
(* Receivers and the fan-out.                                               *)
NumInv ==
  /\ \A r \in Receivers : \A m \in ToSet(log[r]) : m < nextMsg
  /\ \A p \in Pipelines : \A m \in ToSet(entered[p]) : m < nextMsg
  /\ \A r \in Receivers : ToSet(shared[r]) \cup {fan[r]} \subseteq ToSet(log[r]) \cup {None}
  /\ \A q, r \in Receivers : q # r => ToSet(log[q]) \cap ToSet(log[r]) = {}

(* What was accepted and not yet sent comes after what was sent, in order;  *)
(* an envelope is missing only after the fan-out has returned, and then so  *)
(* is all that came after it.                                               *)
SentOK(r, j) ==
  LET p == Subs[r][j] IN
  /\ fanAt[r] <= j => Follows(log, fan[r], ToSet(entered[p]))
  /\ j < fanAt[r] => fan[r] \in ToSet(entered[p]) \cup {None}
  /\ \A m \in ToSet(shared[r]) : Follows(log, m, ToSet(entered[p]) \cup {fan[r]})
  /\ \A m \in ToSet(log[r]) :
       \/ m \in ToSet(entered[p]) \cup {fan[r]} \cup ToSet(shared[r])
       \/ ~Running(Go("fan", r)) /\ Follows(log, m, ToSet(entered[p]))

FanInv ==
  /\ \A r \in Receivers : Rising(log, shared[r])
  /\ \A r \in Receivers : fan[r] # None => Running(Go("fan", r))
  /\ \A r \in Receivers : \A j \in DOMAIN Subs[r] : SentOK(r, j)
  /\ \A p \in Pipelines : Rising(log, entered[p])

(* A pipeline lists a receiver at most once.  BuildAndRun subscribes it once *)
(* for every time it is listed (pipeline.go:67-69), so a configuration that  *)
(* repeats one gives that pipeline every envelope twice.                     *)
OncePerReceiver ==
  \A r \in Receivers : \A j, k \in DOMAIN Subs[r] : Subs[r][j] = Subs[r][k] => j = k

(* The subscribers of a receiver, and that an empty hand is in no log.      *)
LEMMA SubscriberFacts ==
  ASSUME NEW r \in Receivers
  PROVE  /\ DOMAIN Subs[r] = 1 .. Len(Subs[r]) /\ Len(Subs[r]) \in Nat \ {0}
         /\ \A j \in DOMAIN Subs[r] : Subs[r][j] \in Pipelines /\ j \in Nat
<1>1. Subs[r] \in Seq(Pipelines)
  BY PipelinesAssumption
<1>2. DOMAIN Subs[r] = 1 .. Len(Subs[r])
  BY <1>1, LenProperties
<1>3. QED
  BY <1>2, Constants

LEMMA NoneIsNotLogged ==
  ASSUME TypeInv
  PROVE  NoneLogged(log) /\ \A q \in Seq(Msgs) : ToSet(q) \subseteq Msgs
<1>1. ASSUME NEW q \in Seq(Msgs) PROVE ToSet(q) \subseteq Msgs
  BY LenProperties, ElementOfSeq DEF ToSet
<1>2. None \notin Msgs
  BY DEF None, Msgs
<1>3. \A r \in Receivers : log[r] \in Seq(Msgs)
  BY DEF TypeInv, TypeOK
<1>4. QED
  BY <1>1, <1>2, <1>3 DEF NoneLogged

(* Init establishes both.                                                   *)
LEMMA NumbersInit == Init => NumInv /\ FanInv
<1> SUFFICES ASSUME Init PROVE NumInv /\ FanInv
  OBVIOUS
<1>1. ToSet(<<>>) = {} /\ DOMAIN <<>> = {}
  BY DEF ToSet
<1>2. NumInv
  BY <1>1 DEF Init, NumInv
<1>3. FanInv
  BY <1>1 DEF Init, FanInv, SentOK, Rising, Follows
<1>4. QED
  BY <1>2, <1>3

(* Only Accept, FanTake, FanSend and FanQuit touch what FanInv speaks of.   *)
LEMMA FanSideStays ==
  ASSUME TypeInv, [Next]_vars
  PROVE  \/ \E r \in Receivers : Accept(r) \/ FanTake(r) \/ FanSend(r) \/ FanQuit(r)
         \/ /\ UNCHANGED <<shared, fan, fanAt, log, entered>>
            /\ nextMsg' \in {nextMsg, nextMsg + 1}
            /\ \A r : Running(Go("fan", r))' <=> Running(Go("fan", r))
<1> USE DEF Running, Return
<1>1. \A p, r : /\ Go("proc", p) # Go("fan", r) /\ Go("bridge", p) # Go("fan", r)
                /\ Go("disp", p) # Go("fan", r) /\ \A i : GoExp(p, i) # Go("fan", r)
  BY DEF Go, GoExp
<1>2. CASE \E p \in Pipelines : ProcQuit(p) \/ BridgeQuit(p) \/ DispQuit(p)
                                \/ \E i \in Exporters(p) : ExpQuit(p, i)
  BY <1>1, <1>2 DEF ProcQuit, BridgeQuit, DispQuit, ExpQuit
<1>3. CASE Cancel \/ \E r \in Receivers : Drop(r)
  BY <1>3 DEF Cancel, Drop
<1>4. CASE \E p \in Pipelines : ConvTake(p) \/ ProcTake(p) \/ BridgeTake(p) \/ DispTake(p)
                                \/ DispSend(p) \/ \E i \in Exporters(p) : Export(p, i)
  BY <1>4 DEF ConvTake, ProcTake, BridgeTake, DispTake, DispSend, Export
<1>5. CASE UNCHANGED vars
  BY <1>5 DEF vars
<1>6. QED
  BY <1>2, <1>3, <1>4, <1>5 DEF Next, FanStep, DispStep

(* Numbers are given out once: no step puts an envelope anywhere before it  *)
(* was received.                                                            *)
LEMMA NumbersStep ==
  ASSUME TypeInv, NumInv, [Next]_vars
  PROVE  NumInv'
<1>a. /\ \A q \in Seq(Msgs) : ToSet(q) \subseteq Msgs
      /\ \A r \in Receivers : log[r] \in Seq(Msgs) /\ shared[r] \in Seq(Msgs)
      /\ \A p \in Pipelines : entered[p] \in Seq(Msgs)
      /\ nextMsg \in Nat /\ Shape
  BY NoneIsNotLogged, Constants DEF TypeInv, TypeOK
<1>b. /\ \A r \in Receivers : ToSet(log[r]) \subseteq Nat
      /\ \A p \in Pipelines : ToSet(entered[p]) \subseteq Nat
      /\ nextMsg \in Nat
  BY <1>a, Constants DEF Msgs
<1>1. ASSUME NEW r \in Receivers, Accept(r) PROVE NumInv'
  <2>1. /\ log' = [log EXCEPT ![r] = Append(log[r], nextMsg)] /\ nextMsg \in Msgs
        /\ shared' = [shared EXCEPT ![r] = Append(shared[r], nextMsg)]
        /\ nextMsg' = nextMsg + 1 /\ UNCHANGED <<fan, entered>>
    BY <1>1 DEF Accept
  <2>2. /\ ToSet(log'[r]) = ToSet(log[r]) \cup {nextMsg}
        /\ ToSet(shared'[r]) = ToSet(shared[r]) \cup {nextMsg}
    BY <1>a, <2>1, ToSetAppended DEF Shape
  <2>3. \A q \in Receivers : q # r => log'[q] = log[q] /\ shared'[q] = shared[q]
    BY <2>1, <1>a DEF Shape
  <2>4. \A q \in Receivers : nextMsg \notin ToSet(log[q])
    BY <1>b DEF NumInv
  <2>5. \A q \in Receivers : \A m \in ToSet(log'[q]) : m < nextMsg'
    BY <1>b, <2>1, <2>2, <2>3 DEF NumInv
  <2>6. \A p \in Pipelines : \A m \in ToSet(entered'[p]) : m < nextMsg'
    BY <1>b, <2>1 DEF NumInv
  <2>7. \A q \in Receivers :
          ToSet(shared'[q]) \cup {fan'[q]} \subseteq ToSet(log'[q]) \cup {None}
    BY <2>1, <2>2, <2>3 DEF NumInv
  <2>8. \A q, s \in Receivers : q # s => ToSet(log'[q]) \cap ToSet(log'[s]) = {}
    BY <2>2, <2>3, <2>4 DEF NumInv
  <2>9. QED
    BY <2>5, <2>6, <2>7, <2>8 DEF NumInv
<1>2. ASSUME NEW r \in Receivers, FanTake(r) PROVE NumInv'
  <2>1. /\ shared[r] # <<>> /\ fan' = [fan EXCEPT ![r] = Head(shared[r])]
        /\ shared' = [shared EXCEPT ![r] = Tail(shared[r])] /\ UNCHANGED <<log, entered, nextMsg>>
    BY <1>2 DEF FanTake
  <2>2. ToSet(shared[r]) = {fan'[r]} \cup ToSet(shared'[r])
    BY <1>a, <2>1, ToSetTaken DEF Shape
  <2>3. \A q \in Receivers : q # r => fan'[q] = fan[q] /\ shared'[q] = shared[q]
    BY <2>1, <1>a DEF Shape
  <2>4. QED
    BY <2>1, <2>2, <2>3 DEF NumInv
<1>3. ASSUME NEW r \in Receivers, FanSend(r) PROVE NumInv'
  <2> DEFINE p == Subs[r][fanAt[r]]
  <2>1. /\ fan[r] # None /\ entered' = [entered EXCEPT ![p] = Append(entered[p], fan[r])]
        /\ \A q \in Receivers : fan'[q] \in {fan[q], None}
        /\ UNCHANGED <<log, shared, nextMsg>>
    BY <1>3, <1>a DEF FanSend, Shape
  <2>2. fan[r] \in Msgs /\ fan[r] < nextMsg
    BY <1>a, <2>1 DEF NumInv
  <2>3. \A q \in Pipelines : ToSet(entered'[q]) \subseteq ToSet(entered[q]) \cup {fan[r]}
    BY <1>a, <2>1, <2>2, ToSetAppended DEF Shape
  <2>4. QED
    BY <2>1, <2>2, <2>3 DEF NumInv
<1>4. ASSUME NEW r \in Receivers, FanQuit(r) PROVE NumInv'
  BY <1>4, <1>a DEF FanQuit, NumInv, Shape
<1>5. CASE UNCHANGED <<shared, fan, log, entered>> /\ nextMsg' \in {nextMsg, nextMsg + 1}
  <2>1. \A m \in Nat : m < nextMsg => m < nextMsg'
    BY <1>5, <1>b
  <2>2. log' = log /\ shared' = shared /\ fan' = fan /\ entered' = entered
    BY <1>5
  <2>3. QED
    BY <1>b, <2>1, <2>2 DEF NumInv
<1>6. QED
  BY <1>1, <1>2, <1>3, <1>4, <1>5, FanSideStays

(* The parts of FanInv, as they are shown of a step.                        *)
LEMMA FanTyped ==
  ASSUME TypeInv
  PROVE  /\ \A r \in Receivers : log[r] \in Seq(Msgs) /\ shared[r] \in Seq(Msgs)
         /\ \A r \in Receivers : fanAt[r] \in 1 .. Len(Subs[r]) /\ fanAt[r] \in Nat
         /\ \A p \in Pipelines : entered[p] \in Seq(Msgs)
         /\ \A r \in Receivers : ToSet(log[r]) \subseteq Nat
         /\ nextMsg \in Nat /\ NoneLogged(log)
         /\ DOMAIN log = Receivers /\ DOMAIN shared = Receivers /\ DOMAIN fan = Receivers
         /\ DOMAIN fanAt = Receivers /\ DOMAIN entered = Pipelines
<1>1. \A q \in Seq(Msgs) : ToSet(q) \subseteq Nat
  BY NoneIsNotLogged, Constants DEF Msgs
<1>2. \A r \in Receivers : log[r] \in Seq(Msgs) /\ fanAt[r] \in 1 .. Len(Subs[r])
  BY DEF TypeInv, TypeOK
<1>3. \A r \in Receivers : ToSet(log[r]) \subseteq Nat /\ fanAt[r] \in Nat
  BY <1>1, <1>2, SubscriberFacts
<1>4. nextMsg \in Nat
  BY Constants DEF TypeInv, TypeOK
<1>5. QED
  BY <1>2, <1>3, <1>4, NoneIsNotLogged DEF TypeInv, TypeOK, Shape

(* A new envelope is last in the channel; no subscriber has it.             *)
LEMMA FanAccept ==
  ASSUME TypeInv, NumInv, FanInv, NEW r \in Receivers, Accept(r)
  PROVE  FanInv'
<1> DEFINE n == nextMsg
<1>1. /\ log' = [log EXCEPT ![r] = Append(log[r], n)] /\ n \in Msgs
      /\ shared' = [shared EXCEPT ![r] = Append(shared[r], n)]
      /\ UNCHANGED <<fan, fanAt, entered, running>>
  BY DEF Accept
<1>2. /\ \A q \in Receivers : /\ ToSet(log'[q]) = ToSet(log[q]) \cup IF q = r THEN {n} ELSE {}
                              /\ ToSet(shared'[q]) = ToSet(shared[q]) \cup IF q = r THEN {n} ELSE {}
  BY <1>1, ToSetAppended, FanTyped
<1>3. /\ \A q \in Receivers : n \notin ToSet(log[q]) /\ \A m \in ToSet(log[q]) : m < n
      /\ \A p \in Pipelines : n \notin ToSet(entered[p])
  <2>1. /\ \A q \in Receivers : \A m \in ToSet(log[q]) : m < n
        /\ \A p \in Pipelines : \A m \in ToSet(entered[p]) : m < n
    BY DEF NumInv
  <2>2. ~(n < n)
    BY FanTyped
  <2>3. QED
    BY <2>1, <2>2
<1>4. n # None
  BY <1>1 DEF Msgs, None
<1>5. \A q \in Receivers : n \notin ToSet(shared[q]) /\ fan[q] # n
  BY <1>3, <1>4 DEF NumInv
<1>6. ASSUME NEW x, NEW S, Follows(log, x, S), x # n, n \notin S
      PROVE  Follows(log', x, S)
  <2>1. \A q \in Receivers : ToSet(log'[q]) \subseteq ToSet(log[q]) \cup {n}
    BY <1>2
  <2>2. QED
    BY <1>6, <2>1, FollowsLogged
<1>7. ASSUME NEW S, n \notin S
      PROVE  Follows(log', n, S)
  BY <1>2, <1>3, <1>7 DEF Follows
<1>8. ASSUME NEW q, Rising(log, q), n \notin ToSet(q)
      PROVE  Rising(log', q)
  <2>1. \A a \in DOMAIN q : q[a] # n
    BY <1>8 DEF ToSet
  <2>2. QED
    BY <1>6, <1>8, <2>1 DEF Rising
<1>9. ASSUME NEW q \in Receivers PROVE Rising(log', shared'[q])
  <2>1. Rising(log', shared[q])
    BY <1>5, <1>8 DEF FanInv
  <2>2. CASE q # r
    BY <1>1, <2>1, <2>2, FanTyped
  <2>3. CASE q = r
    <3>1. shared[r] \in Seq(Msgs) /\ shared'[r] = Append(shared[r], n)
      BY <1>1, FanTyped
    <3>2. Follows(log', n, ToSet(shared[r]))
      BY <1>5, <1>7
    <3>3. QED
      BY <1>1, <2>1, <2>3, <3>1, <3>2, RisingAppended
  <2>4. QED
    BY <2>2, <2>3
<1>10. ASSUME NEW q \in Receivers, NEW j \in DOMAIN Subs[q] PROVE SentOK(q, j)'
  <2> DEFINE p == Subs[q][j]
  <2>1. SentOK(q, j) /\ p \in Pipelines
    BY SubscriberFacts DEF FanInv
  <2>2. fan' = fan /\ fanAt' = fanAt /\ entered' = entered /\ running' = running
    BY <1>1
  <2>3. fanAt[q] <= j => Follows(log', fan[q], ToSet(entered[p]))
    BY <1>3, <1>5, <1>6, <2>1 DEF SentOK
  <2>4. ASSUME NEW m \in ToSet(shared'[q])
        PROVE  Follows(log', m, ToSet(entered[p]) \cup {fan[q]})
    <3>1. n \notin ToSet(entered[p]) \cup {fan[q]}
      BY <1>3, <1>5, <2>1
    <3>2. CASE m = n
      BY <1>7, <3>1, <3>2
    <3>3. CASE m # n
      <4>1. m \in ToSet(shared[q])
        BY <1>2, <2>4, <3>3
      <4>2. QED
        BY <1>6, <2>1, <3>1, <3>3, <4>1 DEF SentOK
    <3>4. QED
      BY <3>2, <3>3
  <2>5. ASSUME NEW m \in ToSet(log'[q])
        PROVE  \/ m \in ToSet(entered[p]) \cup {fan[q]} \cup ToSet(shared'[q])
               \/ ~Running(Go("fan", q)) /\ Follows(log', m, ToSet(entered[p]))
    <3>1. CASE m = n
      BY <1>2, <1>3, <2>5, <3>1
    <3>2. CASE m # n
      <4>1. m \in ToSet(log[q])
        BY <1>2, <2>5, <3>2
      <4>2. Follows(log, m, ToSet(entered[p])) => Follows(log', m, ToSet(entered[p]))
        BY <1>3, <1>6, <2>1, <3>2
      <4>3. ToSet(shared[q]) \subseteq ToSet(shared'[q])
        BY <1>2
      <4>4. QED
        BY <2>1, <4>1, <4>2, <4>3 DEF SentOK
    <3>3. QED
      BY <3>1, <3>2
  <2>6. QED
    BY <2>1, <2>2, <2>3, <2>4, <2>5 DEF SentOK, Running
<1>11. \A p \in Pipelines : Rising(log', entered'[p])
  BY <1>1, <1>3, <1>8 DEF FanInv
<1>12. QED
  BY <1>1, <1>9, <1>10, <1>11 DEF FanInv, Running

(* Nothing changes for a receiver and a subscriber.                         *)
LEMMA SentStays ==
  ASSUME NEW q \in Receivers, NEW j \in DOMAIN Subs[q], SentOK(q, j),
         log' = log, fan'[q] = fan[q], fanAt'[q] = fanAt[q], shared'[q] = shared[q],
         entered'[Subs[q][j]] = entered[Subs[q][j]],
         Running(Go("fan", q))' <=> Running(Go("fan", q))
  PROVE  SentOK(q, j)'
  BY DEF SentOK

(* The fan-out takes the oldest envelope of the channel in hand.            *)
LEMMA FanTaken ==
  ASSUME TypeInv, NumInv, FanInv, NEW r \in Receivers, FanTake(r)
  PROVE  FanInv'
<1>1. /\ shared[r] # <<>> /\ fan[r] = None /\ Running(Go("fan", r))
      /\ fan' = [fan EXCEPT ![r] = Head(shared[r])] /\ fanAt' = [fanAt EXCEPT ![r] = 1]
      /\ shared' = [shared EXCEPT ![r] = Tail(shared[r])]
      /\ UNCHANGED <<log, entered, running>>
  BY DEF FanTake
<1>2. /\ fan'[r] = Head(shared[r]) /\ fanAt'[r] = 1 /\ shared'[r] = Tail(shared[r])
      /\ \A q \in Receivers : q # r => /\ fan'[q] = fan[q] /\ fanAt'[q] = fanAt[q]
                                       /\ shared'[q] = shared[q]
  BY <1>1, FanTyped
<1>3. /\ ToSet(shared[r]) = {fan'[r]} \cup ToSet(shared'[r])
      /\ Rising(log, shared'[r])
      /\ \A m \in ToSet(shared'[r]) : Follows(log, m, {fan'[r]})
  <2>1. shared[r] \in Seq(Msgs) /\ Rising(log, shared[r])
    BY FanTyped DEF FanInv
  <2>2. ToSet(shared[r]) = {Head(shared[r])} \cup ToSet(Tail(shared[r]))
    BY <1>1, <2>1, ToSetTaken
  <2>3. /\ Rising(log, Tail(shared[r]))
        /\ \A m \in ToSet(Tail(shared[r])) : Follows(log, m, {Head(shared[r])})
    BY <1>1, <2>1, RisingTaken
  <2>4. QED
    BY <1>2, <2>2, <2>3
<1>4. ASSUME NEW j \in DOMAIN Subs[r] PROVE SentOK(r, j)'
  <2> DEFINE p == Subs[r][j]
  <2>1. SentOK(r, j) /\ j >= 1
    BY SubscriberFacts DEF FanInv
  <2>2. ASSUME NEW m \in ToSet(shared[r]) PROVE Follows(log, m, ToSet(entered[p]))
    <3>1. Follows(log, m, ToSet(entered[p]) \cup {fan[r]})
      BY <2>1 DEF SentOK
    <3>2. QED
      BY <3>1, FollowsLess, FanTyped
  <2>3. Follows(log, fan'[r], ToSet(entered[p]))
    BY <1>3, <2>2
  <2>4. \A m \in ToSet(shared'[r]) : Follows(log, m, ToSet(entered[p]) \cup {fan'[r]})
    BY <1>3, <2>2, FollowsMore
  <2>5. \A m \in ToSet(log[r]) : m # None
    BY FanTyped DEF NoneLogged
  <2>6. ASSUME NEW m \in ToSet(log[r])
        PROVE  \/ m \in ToSet(entered[p]) \cup {fan'[r]} \cup ToSet(shared'[r])
               \/ ~Running(Go("fan", r)) /\ Follows(log, m, ToSet(entered[p]))
    BY <1>1, <1>3, <2>1, <2>5 DEF SentOK
  <2>7. UNCHANGED <<log, entered, running>> /\ fanAt'[r] = 1 /\ ~(j < 1)
    BY <1>1, <1>2, <2>1, SubscriberFacts
  <2>8. QED
    BY <2>3, <2>4, <2>6, <2>7 DEF SentOK, Running
<1>5. ASSUME NEW q \in Receivers, NEW j \in DOMAIN Subs[q], q # r PROVE SentOK(q, j)'
  BY <1>1, <1>2, <1>5, SentStays DEF FanInv, Running
<1>6. QED
  BY <1>1, <1>2, <1>3, <1>4, <1>5 DEF FanInv, Running

(* The fan-out returns: what it held and what waits comes after all that    *)
(* was sent.                                                                *)
LEMMA FanQuits ==
  ASSUME TypeInv, NumInv, FanInv, NEW r \in Receivers, FanQuit(r)
  PROVE  FanInv'
<1>1. /\ fan' = [fan EXCEPT ![r] = None] /\ fanAt' = [fanAt EXCEPT ![r] = 1]
      /\ running' = running \ {Go("fan", r)} /\ UNCHANGED <<log, shared, entered>>
  BY DEF FanQuit, Return
<1>2. /\ fan'[r] = None /\ fanAt'[r] = 1 /\ ~Running(Go("fan", r))'
      /\ \A q \in Receivers : q # r => /\ fan'[q] = fan[q] /\ fanAt'[q] = fanAt[q]
                                       /\ Running(Go("fan", q))' <=> Running(Go("fan", q))
  <2>1. \A q : q # r => Go("fan", q) # Go("fan", r)
    BY DEF Go
  <2>2. QED
    BY <1>1, <2>1, FanTyped DEF Running
<1>3. ASSUME NEW j \in DOMAIN Subs[r] PROVE SentOK(r, j)'
  <2> DEFINE p == Subs[r][j]
  <2>1. SentOK(r, j) /\ j >= 1 /\ j \in Nat
    BY SubscriberFacts DEF FanInv
  <2>2. Follows(log, None, ToSet(entered[p]))
    BY NoneFollows, FanTyped
  <2>3. ASSUME NEW m \in ToSet(shared[r]) PROVE Follows(log, m, ToSet(entered[p]) \cup {None})
    <3>1. Follows(log, m, ToSet(entered[p]) \cup {fan[r]})
      BY <2>1 DEF SentOK
    <3>2. QED
      BY <3>1, FollowsLess, FanTyped
  <2>4. \A m \in ToSet(log[r]) : m # None
    BY FanTyped DEF NoneLogged
  <2>5. j < fanAt[r] \/ fanAt[r] <= j
    BY <2>1, FanTyped
  <2>6. ASSUME NEW m \in ToSet(log[r])
        PROVE  m \in ToSet(entered[p]) \cup ToSet(shared[r]) \/ Follows(log, m, ToSet(entered[p]))
    BY <2>1, <2>4, <2>5 DEF SentOK
  <2>7. QED
    BY <1>1, <1>2, <2>1, <2>2, <2>3, <2>6 DEF SentOK
<1>4. ASSUME NEW q \in Receivers, NEW j \in DOMAIN Subs[q], q # r PROVE SentOK(q, j)'
  BY <1>1, <1>2, <1>4, SentStays DEF FanInv
<1>5. QED
  BY <1>1, <1>2, <1>3, <1>4 DEF FanInv

(* The fan-out sends to the subscriber whose turn it is. The others of the  *)
(* receiver, and a subscriber that shares the pipeline with another         *)
(* receiver, keep their order.                                              *)
LEMMA FanSends ==
  ASSUME TypeInv, NumInv, FanInv, OncePerReceiver, NEW r \in Receivers, FanSend(r)
  PROVE  FanInv'
<1> DEFINE at == fanAt[r]
           to == Subs[r][at]
           e == fan[r]
           last == at = Len(Subs[r])
<1>1. /\ e # None /\ UNCHANGED <<log, shared, running>>
      /\ entered' = [entered EXCEPT ![to] = Append(entered[to], e)]
      /\ fan' = [fan EXCEPT ![r] = IF last THEN None ELSE fan[r]]
      /\ fanAt' = [fanAt EXCEPT ![r] = IF last THEN 1 ELSE fanAt[r] + 1]
  BY DEF FanSend
<1>2. /\ at \in DOMAIN Subs[r] /\ at \in Nat /\ to \in Pipelines /\ at <= Len(Subs[r])
  BY FanTyped, SubscriberFacts
<1>3. /\ e \in ToSet(log[r]) /\ e \in Msgs
  <2>1. e \in ToSet(log[r])
    BY <1>1 DEF NumInv
  <2>2. QED
    BY <2>1, FanTyped, NoneIsNotLogged
<1>4. /\ \A q \in Receivers : q # r => fan'[q] = fan[q] /\ fanAt'[q] = fanAt[q]
      /\ fan'[r] = (IF last THEN None ELSE e) /\ fanAt'[r] = (IF last THEN 1 ELSE at + 1)
  BY <1>1, FanTyped
<1>5. /\ entered'[to] = Append(entered[to], e)
      /\ ToSet(entered'[to]) = ToSet(entered[to]) \cup {e}
      /\ \A p \in Pipelines : p # to => entered'[p] = entered[p]
  BY <1>1, <1>2, <1>3, ToSetAppended, FanTyped
<1>6. Follows(log, e, ToSet(entered[to]))
  <2>1. SentOK(r, at) /\ at <= at
    BY <1>2 DEF FanInv
  <2>2. QED
    BY <2>1 DEF SentOK
<1>7. ASSUME NEW p \in Pipelines PROVE Rising(log, entered'[p])
  <2>1. Rising(log, entered[p]) /\ entered[p] \in Seq(Msgs)
    BY FanTyped DEF FanInv
  <2>2. CASE p # to
    BY <1>5, <2>1, <2>2
  <2>3. CASE p = to
    BY <1>3, <1>5, <1>6, <2>1, <2>3, RisingAppended
  <2>4. QED
    BY <2>2, <2>3
<1>8. ASSUME NEW j \in DOMAIN Subs[r] PROVE SentOK(r, j)'
  <2> DEFINE p == Subs[r][j]
  <2>1. SentOK(r, j) /\ p \in Pipelines /\ j \in Nat /\ j >= 1
    BY SubscriberFacts DEF FanInv
  <2>2. \A m \in ToSet(log[r]) : m # None
    BY FanTyped DEF NoneLogged
  <2>3. Running(Go("fan", r))
    BY <1>1 DEF FanInv
  <2>4. CASE j = at
    <3>1. ToSet(entered'[p]) = ToSet(entered[p]) \cup {e}
      BY <1>5, <2>4
    <3>2. fanAt'[r] <= j => Follows(log, fan'[r], ToSet(entered'[p]))
      <4>1. Follows(log, None, ToSet(entered'[p]))
        BY NoneFollows, FanTyped
      <4>2. fanAt'[r] <= j => last
        BY <1>2, <1>4, <2>4
      <4>3. QED
        BY <1>4, <4>1, <4>2
    <3>3. j < fanAt'[r] => fan'[r] \in ToSet(entered'[p]) \cup {None}
      BY <1>4, <3>1
    <3>4. ASSUME NEW m \in ToSet(shared[r])
          PROVE  Follows(log, m, ToSet(entered'[p]) \cup {fan'[r]})
      <4>1. Follows(log, m, ToSet(entered[p]) \cup {e})
        BY <2>1 DEF SentOK
      <4>2. ToSet(entered'[p]) \cup {fan'[r]} \subseteq (ToSet(entered[p]) \cup {e}) \cup {None}
        BY <1>4, <3>1
      <4>3. QED
        BY <4>1, <4>2, FollowsLess, FanTyped
    <3>5. \A m \in ToSet(log[r]) :
            m \in ToSet(entered'[p]) \cup {fan'[r]} \cup ToSet(shared[r])
      BY <2>1, <2>3, <3>1 DEF SentOK
    <3>6. QED
      BY <1>1, <3>2, <3>3, <3>4, <3>5 DEF SentOK
  <2>5. CASE j # at
    <3>1. p # to
      BY <1>2, <2>5 DEF OncePerReceiver
    <3>2. entered'[p] = entered[p]
      BY <1>5, <2>1, <3>1
    <3>3. fanAt'[r] <= j => Follows(log, fan'[r], ToSet(entered[p]))
      <4>1. Follows(log, None, ToSet(entered[p]))
        BY NoneFollows, FanTyped
      <4>2. fanAt'[r] <= j /\ ~last => fanAt[r] <= j
        BY <1>2, <1>4, <2>1
      <4>3. QED
        BY <1>4, <2>1, <4>1, <4>2 DEF SentOK
    <3>4. j < fanAt'[r] => fan'[r] \in ToSet(entered[p]) \cup {None}
      <4>1. j < fanAt'[r] /\ ~last => j < fanAt[r]
        BY <1>2, <1>4, <2>1, <2>5
      <4>2. QED
        BY <1>4, <2>1, <4>1 DEF SentOK
    <3>5. ASSUME NEW m \in ToSet(shared[r])
          PROVE  Follows(log, m, ToSet(entered[p]) \cup {fan'[r]})
      <4>1. Follows(log, m, ToSet(entered[p]) \cup {e})
        BY <2>1 DEF SentOK
      <4>2. QED
        BY <1>4, <4>1, FollowsLess, FanTyped
    <3>6. last => e \in ToSet(entered[p])
      <4>1. last => j < fanAt[r]
        BY <1>2, <2>1, <2>5, SubscriberFacts
      <4>2. QED
        BY <1>1, <2>1, <4>1 DEF SentOK
    <3>7. \A m \in ToSet(log[r]) : m \in ToSet(entered[p]) \cup {fan'[r]} \cup ToSet(shared[r])
      BY <1>4, <2>1, <2>3, <3>6 DEF SentOK
    <3>8. QED
      BY <1>1, <3>2, <3>3, <3>4, <3>5, <3>7 DEF SentOK
  <2>6. QED
    BY <2>4, <2>5
<1>9. ASSUME NEW q \in Receivers, NEW j \in DOMAIN Subs[q], q # r PROVE SentOK(q, j)'
  <2> DEFINE p == Subs[q][j]
  <2>1. SentOK(q, j) /\ p \in Pipelines
    BY SubscriberFacts DEF FanInv
  <2>2. ToSet(entered[p]) \subseteq ToSet(entered'[p])
        /\ ToSet(entered'[p]) \subseteq ToSet(entered[p]) \cup {e}
    BY <1>5, <2>1
  <2>3. \A m \in ToSet(log[q]) : Follows(log, m, {e})
    BY <1>3, <1>9 DEF NumInv, Follows
  <2>4. ASSUME NEW m, m \in ToSet(log[q]) \cup {None}, NEW S, Follows(log, m, S)
        PROVE  Follows(log, m, S \cup {e})
    BY <2>3, <2>4, FollowsMore, NoneFollows, FanTyped
  <2>5. fan[q] \in ToSet(log[q]) \cup {None} /\ ToSet(shared[q]) \subseteq ToSet(log[q]) \cup {None}
    BY DEF NumInv
  <2>6. fanAt[q] <= j => Follows(log, fan[q], ToSet(entered'[p]))
    <3>1. fanAt[q] <= j => Follows(log, fan[q], ToSet(entered[p]) \cup {e})
      BY <2>1, <2>4, <2>5 DEF SentOK
    <3>2. QED
      BY <2>2, <3>1, FollowsLess, FanTyped
  <2>7. ASSUME NEW m \in ToSet(shared[q])
        PROVE  Follows(log, m, ToSet(entered'[p]) \cup {fan[q]})
    <3>1. Follows(log, m, ToSet(entered[p]) \cup {fan[q]})
      BY <2>1 DEF SentOK
    <3>2. Follows(log, m, (ToSet(entered[p]) \cup {fan[q]}) \cup {e})
      BY <2>4, <2>5, <3>1
    <3>3. QED
      BY <2>2, <3>2, FollowsLess, FanTyped
  <2>8. ASSUME NEW m \in ToSet(log[q])
        PROVE  \/ m \in ToSet(entered'[p]) \cup {fan[q]} \cup ToSet(shared[q])
               \/ ~Running(Go("fan", q)) /\ Follows(log, m, ToSet(entered'[p]))
    <3>1. CASE m \in ToSet(entered[p]) \cup {fan[q]} \cup ToSet(shared[q])
      BY <2>2, <3>1
    <3>2. CASE ~Running(Go("fan", q)) /\ Follows(log, m, ToSet(entered[p]))
      <4>1. Follows(log, m, ToSet(entered[p]) \cup {e})
        BY <2>4, <3>2
      <4>2. QED
        BY <2>2, <3>2, <4>1, FollowsLess, FanTyped
    <3>3. QED
      BY <2>1, <3>1, <3>2 DEF SentOK
  <2>9. j < fanAt[q] => fan[q] \in ToSet(entered'[p]) \cup {None}
    BY <2>1, <2>2 DEF SentOK
  <2>10. QED
    BY <1>1, <1>4, <1>9, <2>6, <2>7, <2>8, <2>9 DEF SentOK, Running
<1>10. \A q \in Receivers : fan'[q] # None => Running(Go("fan", q))
  BY <1>4 DEF FanInv
<1>11. QED
  BY <1>1, <1>7, <1>8, <1>9, <1>10 DEF FanInv, Running

(* Every step keeps FanInv.                                                 *)
LEMMA FanStepInv ==
  ASSUME TypeInv, NumInv, FanInv, OncePerReceiver, [Next]_vars
  PROVE  FanInv'
<1>1. CASE /\ UNCHANGED <<shared, fan, fanAt, log, entered>>
           /\ \A r : Running(Go("fan", r))' <=> Running(Go("fan", r))
  BY <1>1, SentStays DEF FanInv
<1>2. QED
  BY <1>1, FanSideStays, FanAccept, FanTaken, FanSends, FanQuits

-----------------------------------------------------------------------------
\* what is known of a receiver's envelopes at its subscribers, in a state
LEMMA SentBegins ==
  ASSUME TypeInv, FanInv, NEW r \in Receivers, NEW j \in DOMAIN Subs[r]
  PROVE  /\ Begins(entered[Subs[r][j]], r, Msgs)
         /\ \A m, n \in ToSet(log[r]) :
              m \in ToSet(entered[Subs[r][j]]) /\ n < m => n \in ToSet(entered[Subs[r][j]])
<1> DEFINE p == Subs[r][j]
           L == ToSet(log[r])
<1>1. SentOK(r, j) /\ p \in Pipelines /\ Rising(log, entered[p])
  BY SubscriberFacts DEF FanInv
<1>2. L \subseteq Nat /\ L \subseteq Msgs
  BY FanTyped, NoneIsNotLogged
<1>3. ASSUME NEW a \in DOMAIN entered[p], NEW b \in DOMAIN entered[p], a < b,
             {entered[p][a], entered[p][b]} \subseteq L
      PROVE  entered[p][a] < entered[p][b]
  BY <1>1, <1>3 DEF Rising, Follows
<1>4. ASSUME NEW m \in L, NEW n \in L, m \in ToSet(entered[p]), n < m
      PROVE  n \in ToSet(entered[p])
  <2>1. ~(m < n)
    BY <1>2, <1>4
  <2>2. CASE n \in ToSet(shared[r])
    BY <1>1, <1>4, <2>1, <2>2 DEF SentOK, Follows
  <2>3. CASE n = fan[r]
    <3>1. j < fanAt[r] \/ fanAt[r] <= j
      BY FanTyped, SubscriberFacts
    <3>2. n # None
      BY FanTyped DEF NoneLogged
    <3>3. QED
      BY <1>1, <1>4, <2>1, <2>3, <3>1, <3>2 DEF SentOK, Follows
  <2>4. CASE Follows(log, n, ToSet(entered[p]))
    BY <1>4, <2>1, <2>4 DEF Follows
  <2>5. QED
    BY <1>1, <2>2, <2>3, <2>4 DEF SentOK
<1>5. QED
  BY <1>2, <1>3, <1>4 DEF Begins
-----------------------------------------------------------------------------
(* One pipeline: what an exporter has, and what is with each stage before   *)
(* it, up to the input channel.                                             *)
Got(p, i) == ToSet(handed[p][i]) \cup {exp[p][i]}
ToDispatcher(p, i) == Got(p, i) \cup {disp[p]}
ToBridge(p, i) == ToDispatcher(p, i) \cup {bridge[p]}
ToProcessor(p, i) == ToBridge(p, i) \cup {proc[p]}
ToConv(p, i) == ToProcessor(p, i) \cup {conv[p]}
ToInput(p, i) == ToConv(p, i) \cup ToSet(rx[p])

(* Each stage holds what was received after all that is with the stages     *)
(* after it; an Aggregate is missing only after the dispatcher has          *)
(* returned, and then it comes after all the exporter got.                  *)
LineOK(p, i) ==
  /\ Rising(log, handed[p][i])
  /\ Follows(log, exp[p][i], ToSet(handed[p][i]))
  /\ dispAt[p] <= i => Follows(log, disp[p], Got(p, i))
  /\ i < dispAt[p] => disp[p] \in Got(p, i) \cup {None}
  /\ Follows(log, bridge[p], ToDispatcher(p, i))
  /\ Follows(log, proc[p], ToBridge(p, i))
  /\ Follows(log, conv[p], ToProcessor(p, i))
  /\ \A m \in ToSet(rx[p]) : Follows(log, m, ToConv(p, i))
  /\ ToInput(p, i) \subseteq ToSet(entered[p]) \cup {None}
  /\ ToBridge(p, i) \subseteq Summarised \cup {None}
  /\ \A m \in Summarised \cap ToSet(entered[p]) :
       \/ m \in ToInput(p, i)
       \/ ~Running(Go("disp", p)) /\ Follows(log, m, Got(p, i))

LineInv ==
  /\ \A p \in Pipelines : Rising(log, rx[p]) /\ ToSet(rx[p]) \subseteq ToSet(entered[p])
  /\ \A p \in Pipelines : disp[p] # None => Running(Go("disp", p))
  /\ \A p \in Pipelines : \A i \in Exporters(p) : LineOK(p, i)

(* The types of one pipeline's variables.                                   *)
LEMMA LineTyped ==
  ASSUME TypeInv, NEW p \in Pipelines
  PROVE  /\ rx[p] \in Seq(Msgs) /\ entered[p] \in Seq(Msgs)
         /\ conv[p] \in Hand /\ proc[p] \in Hand /\ bridge[p] \in Hand /\ disp[p] \in Hand
         /\ dispAt[p] \in Nat /\ Exporters(p) \subseteq Nat
         /\ \A i \in Exporters(p) : handed[p][i] \in Seq(Msgs) /\ exp[p][i] \in Hand
         /\ DOMAIN rx = Pipelines /\ DOMAIN conv = Pipelines /\ DOMAIN proc = Pipelines
         /\ DOMAIN bridge = Pipelines /\ DOMAIN disp = Pipelines /\ DOMAIN dispAt = Pipelines
         /\ DOMAIN exp = Pipelines /\ DOMAIN entered = Pipelines /\ DOMAIN handed = Pipelines
         /\ DOMAIN exp[p] = Exporters(p) /\ DOMAIN handed[p] = Exporters(p)
         /\ NoneLogged(log) /\ \A m \in Hand : m # None => m \in Msgs
<1>1. \A m \in Hand : m # None => m \in Msgs
  BY Constants DEF Hand, None, Msgs
<1>2. Exporters(p) \subseteq Nat
  BY Constants DEF Exporters
<1>3. QED
  BY <1>1, <1>2, NoneIsNotLogged DEF TypeInv, TypeOK, Shape

(* Init establishes LineInv.                                                *)
LEMMA LineInit == Init => LineInv
<1> SUFFICES ASSUME Init PROVE LineInv
  OBVIOUS
<1>1. ToSet(<<>>) = {} /\ DOMAIN <<>> = {}
  BY DEF ToSet
<1>2. \A q \in Receivers : log[q] = <<>>
  BY DEF Init
<1>3. \A x, S : Follows(log, x, S)
  BY <1>1, <1>2 DEF Follows
<1>4. Rising(log, <<>>)
  BY <1>1 DEF Rising
<1>5. ASSUME NEW p \in Pipelines, NEW i \in Exporters(p) PROVE LineOK(p, i)
  <2>1. /\ handed[p][i] = <<>> /\ exp[p][i] = None /\ disp[p] = None /\ bridge[p] = None
        /\ proc[p] = None /\ conv[p] = None /\ rx[p] = <<>> /\ entered[p] = <<>>
    BY DEF Init
  <2>2. ToBridge(p, i) = {None} /\ ToInput(p, i) = {None}
    BY <1>1, <2>1 DEF ToInput, ToConv, ToProcessor, ToBridge, ToDispatcher, Got
  <2>3. QED
    BY <1>1, <1>3, <1>4, <2>1, <2>2 DEF LineOK
<1>6. QED
  BY <1>4, <1>5 DEF Init, LineInv

(* Where nothing changes for a pipeline and an exporter.                    *)
LEMMA LineStays ==
  ASSUME NEW p \in Pipelines, NEW i \in Exporters(p), LineOK(p, i),
         log' = log, entered'[p] = entered[p], rx'[p] = rx[p], conv'[p] = conv[p],
         proc'[p] = proc[p], bridge'[p] = bridge[p], disp'[p] = disp[p],
         dispAt'[p] = dispAt[p], exp'[p][i] = exp[p][i], handed'[p][i] = handed[p][i],
         Running(Go("disp", p))' <=> Running(Go("disp", p))
  PROVE  LineOK(p, i)'
  BY DEF LineOK, ToInput, ToConv, ToProcessor, ToBridge, ToDispatcher, Got

(* A new envelope is in no pipeline yet.                                    *)
LEMMA LineAccept ==
  ASSUME TypeInv, NumInv, LineInv, NEW r \in Receivers, Accept(r)
  PROVE  LineInv'
<1> DEFINE n == nextMsg
<1>1. /\ log' = [log EXCEPT ![r] = Append(log[r], n)] /\ n \in Msgs
      /\ UNCHANGED <<rx, conv, proc, bridge, disp, dispAt, exp, running, entered, handed>>
  BY DEF Accept
<1>2. \A q \in Receivers : ToSet(log'[q]) \subseteq ToSet(log[q]) \cup {n}
  BY <1>1, ToSetAppended, FanTyped
<1>3. \A p \in Pipelines : n \notin ToSet(entered[p]) \cup {None}
  <2>1. n # None /\ ~(n < n)
    BY <1>1, FanTyped DEF Msgs, None
  <2>2. QED
    BY <2>1 DEF NumInv
<1>4. ASSUME NEW x, NEW S, Follows(log, x, S), x # n, n \notin S
      PROVE  Follows(log', x, S)
  BY <1>2, <1>4, FollowsLogged
<1>5. ASSUME NEW q, Rising(log, q), n \notin ToSet(q)
      PROVE  Rising(log', q)
  <2>1. \A a \in DOMAIN q : q[a] # n
    BY <1>5 DEF ToSet
  <2>2. QED
    BY <1>4, <1>5, <2>1 DEF Rising
<1>6. ASSUME NEW p \in Pipelines, NEW i \in Exporters(p) PROVE LineOK(p, i)'
  <2>1. LineOK(p, i)
    BY DEF LineInv
  <2>2. n \notin ToInput(p, i) /\ n \notin ToSet(entered[p])
    BY <1>3, <2>1 DEF LineOK
  <2> USE DEF ToInput, ToConv, ToProcessor, ToBridge, ToDispatcher, Got
  <2>3. /\ Rising(log', handed[p][i])
        /\ Follows(log', exp[p][i], ToSet(handed[p][i]))
        /\ dispAt[p] <= i => Follows(log', disp[p], Got(p, i))
        /\ Follows(log', bridge[p], ToDispatcher(p, i))
    BY <1>4, <1>5, <2>1, <2>2 DEF LineOK
  <2>4. /\ Follows(log', proc[p], ToBridge(p, i))
        /\ Follows(log', conv[p], ToProcessor(p, i))
        /\ \A m \in ToSet(rx[p]) : Follows(log', m, ToConv(p, i))
    BY <1>4, <2>1, <2>2 DEF LineOK
  <2>5. \A m \in Summarised \cap ToSet(entered[p]) :
          \/ m \in ToInput(p, i)
          \/ ~Running(Go("disp", p)) /\ Follows(log', m, Got(p, i))
    BY <1>4, <2>1, <2>2 DEF LineOK
  <2>6. QED
    BY <1>1, <2>1, <2>3, <2>4, <2>5 DEF LineOK, Running
<1>7. ASSUME NEW p \in Pipelines PROVE Rising(log', rx[p])
  BY <1>3, <1>5 DEF LineInv
<1>8. QED
  BY <1>1, <1>6, <1>7 DEF LineInv, Running
-----------------------------------------------------------------------------
(* A step of one pipeline leaves the others as they are.                    *)
LEMMA LineOthers ==
  ASSUME LineInv, log' = log, NEW p \in Pipelines,
         \A q \in Pipelines : q # p =>
           /\ entered'[q] = entered[q] /\ rx'[q] = rx[q] /\ conv'[q] = conv[q]
           /\ proc'[q] = proc[q] /\ bridge'[q] = bridge[q] /\ disp'[q] = disp[q]
           /\ dispAt'[q] = dispAt[q] /\ exp'[q] = exp[q] /\ handed'[q] = handed[q]
           /\ Running(Go("disp", q))' <=> Running(Go("disp", q)),
         Rising(log, rx'[p]), ToSet(rx'[p]) \subseteq ToSet(entered'[p]),
         disp'[p] # None => Running(Go("disp", p))',
         \A i \in Exporters(p) : LineOK(p, i)'
  PROVE  LineInv'
<1>1. ASSUME NEW q \in Pipelines, NEW i \in Exporters(q) PROVE LineOK(q, i)'
  <2>1. CASE q = p
    BY <2>1
  <2>2. CASE q # p
    <3>1. LineOK(q, i)
      BY DEF LineInv
    <3>2. QED
      BY <2>2, <3>1, LineStays
  <2>3. QED
    BY <2>1, <2>2
<1>2. \A q \in Pipelines : Rising(log', rx'[q]) /\ ToSet(rx'[q]) \subseteq ToSet(entered'[q])
  BY DEF LineInv
<1>3. \A q \in Pipelines : disp'[q] # None => Running(Go("disp", q))'
  BY DEF LineInv
<1>4. QED
  BY <1>1, <1>2, <1>3 DEF LineInv

(* An envelope enters a pipeline after all that is in it.                   *)
LEMMA LineSent ==
  ASSUME TypeInv, NumInv, FanInv, LineInv, NEW r \in Receivers, FanSend(r)
  PROVE  LineInv'
<1>a. PICK p : p = Subs[r][fanAt[r]]
  OBVIOUS
<1>b. PICK at : at = fanAt[r]
  OBVIOUS
<1>c. PICK e : e = fan[r]
  OBVIOUS
<1>1. /\ e # None
      /\ UNCHANGED <<log, running, conv, proc, bridge, disp, dispAt, exp, handed>>
      /\ entered' = [entered EXCEPT ![p] = Append(entered[p], e)]
      /\ rx' = [rx EXCEPT ![p] = Append(rx[p], e)]
  BY <1>a, <1>c DEF FanSend
<1>2. at \in DOMAIN Subs[r] /\ at \in Nat /\ p \in Pipelines
  BY <1>a, <1>b, FanTyped, SubscriberFacts
<1>3. e \in Msgs
  <2>1. e \in ToSet(log[r])
    BY <1>1, <1>c DEF NumInv
  <2>2. QED
    BY <2>1, FanTyped, NoneIsNotLogged
<1>4. rx[p] \in Seq(Msgs) /\ entered[p] \in Seq(Msgs) /\ p \in DOMAIN rx /\ p \in DOMAIN entered
  BY <1>2, LineTyped
<1>5. /\ rx'[p] = Append(rx[p], e) /\ ToSet(rx'[p]) = ToSet(rx[p]) \cup {e}
      /\ ToSet(entered'[p]) = ToSet(entered[p]) \cup {e}
  BY <1>1, <1>3, <1>4, ToSetAppended
<1>6. Follows(log, e, ToSet(entered[p]))
  <2>1. SentOK(r, at) /\ at <= at
    BY <1>2 DEF FanInv
  <2>2. QED
    BY <1>a, <1>b, <1>c, <2>1 DEF SentOK
<1>7. NoneLogged(log) /\ ToSet(rx[p]) \subseteq ToSet(entered[p]) /\ Rising(log, rx[p])
  BY <1>2, FanTyped DEF LineInv
<1>8. Rising(log, rx'[p])
  <2>1. Follows(log, e, ToSet(rx[p]))
    BY <1>6, <1>7, FollowsLess
  <2>2. QED
    BY <1>3, <1>4, <1>5, <1>7, <2>1, RisingAppended
<1>9. ASSUME NEW i \in Exporters(p) PROVE LineOK(p, i)'
  <2>1. LineOK(p, i)
    BY <1>2 DEF LineInv
  <2>2. /\ ToInput(p, i) \subseteq ToSet(entered[p]) \cup {None}
        /\ ToConv(p, i) \subseteq ToInput(p, i) /\ ToConv(p, i)' = ToConv(p, i)
        /\ ToInput(p, i)' = ToInput(p, i) \cup {e}
    BY <1>1, <1>5, <2>1 DEF LineOK, ToInput, ToConv, ToProcessor, ToBridge, ToDispatcher, Got
  <2>3. Follows(log, e, ToConv(p, i))
    BY <1>6, <1>7, <2>2, FollowsLess
  <2>4. \A m \in ToSet(rx'[p]) : Follows(log, m, ToConv(p, i))
    BY <1>5, <2>1, <2>3 DEF LineOK
  <2>5. \A m \in Summarised \cap ToSet(entered'[p]) :
          \/ m \in ToInput(p, i)'
          \/ ~Running(Go("disp", p)) /\ Follows(log, m, Got(p, i))
    BY <1>5, <2>1, <2>2 DEF LineOK
  <2>6. ToInput(p, i)' \subseteq ToSet(entered'[p]) \cup {None}
    BY <1>5, <2>2
  <2>7. /\ Got(p, i)' = Got(p, i) /\ ToDispatcher(p, i)' = ToDispatcher(p, i)
        /\ ToBridge(p, i)' = ToBridge(p, i) /\ ToProcessor(p, i)' = ToProcessor(p, i)
    BY <1>1 DEF ToProcessor, ToBridge, ToDispatcher, Got
  <2>8. QED
    BY <1>1, <2>1, <2>2, <2>4, <2>5, <2>6, <2>7 DEF LineOK, Running
<1>10. \A q \in Pipelines : q # p =>
        /\ entered'[q] = entered[q] /\ rx'[q] = rx[q] /\ conv'[q] = conv[q]
        /\ proc'[q] = proc[q] /\ bridge'[q] = bridge[q] /\ disp'[q] = disp[q]
        /\ dispAt'[q] = dispAt[q] /\ exp'[q] = exp[q] /\ handed'[q] = handed[q]
        /\ Running(Go("disp", q))' <=> Running(Go("disp", q))
  BY <1>1, LineTyped DEF Running
<1>11. disp'[p] # None => Running(Go("disp", p))'
  BY <1>1, <1>2 DEF LineInv, Running
<1>12. ToSet(rx'[p]) \subseteq ToSet(entered'[p])
  BY <1>5, <1>7
<1>13. QED
  BY <1>1, <1>2, <1>8, <1>9, <1>10, <1>11, <1>12, LineOthers

(* envelopeToAny and the processor take from the stage before them.         *)
LEMMA LineConv ==
  ASSUME TypeInv, LineInv, NEW p \in Pipelines, ConvTake(p)
  PROVE  LineInv'
<1>1. /\ conv[p] = None /\ rx[p] # <<>>
      /\ conv' = [conv EXCEPT ![p] = Head(rx[p])] /\ rx' = [rx EXCEPT ![p] = Tail(rx[p])]
      /\ UNCHANGED <<log, running, entered, proc, bridge, disp, dispAt, exp, handed>>
  BY DEF ConvTake
<1>2. rx[p] \in Seq(Msgs) /\ p \in DOMAIN rx /\ p \in DOMAIN conv /\ NoneLogged(log)
  BY LineTyped
<1>3. /\ conv'[p] = Head(rx[p]) /\ rx'[p] = Tail(rx[p])
      /\ ToSet(rx[p]) = {Head(rx[p])} \cup ToSet(Tail(rx[p]))
  BY <1>1, <1>2, ToSetTaken
<1>4. Rising(log, rx[p]) /\ ToSet(rx[p]) \subseteq ToSet(entered[p])
  BY DEF LineInv
<1>5. Rising(log, rx'[p]) /\ \A m \in ToSet(rx'[p]) : Follows(log, m, {conv'[p]})
  BY <1>1, <1>2, <1>3, <1>4, RisingTaken
<1>6. ASSUME NEW i \in Exporters(p) PROVE LineOK(p, i)'
  <2>1. LineOK(p, i)
    BY DEF LineInv
  <2>2. /\ Got(p, i)' = Got(p, i) /\ ToDispatcher(p, i)' = ToDispatcher(p, i)
        /\ ToBridge(p, i)' = ToBridge(p, i) /\ ToProcessor(p, i)' = ToProcessor(p, i)
        /\ ToConv(p, i) = ToProcessor(p, i) \cup {None}
        /\ ToConv(p, i)' = ToProcessor(p, i) \cup {conv'[p]}
        /\ ToInput(p, i) = ToConv(p, i) \cup ToSet(rx[p])
        /\ ToInput(p, i)' = ToConv(p, i)' \cup ToSet(rx'[p])
    BY <1>1 DEF ToInput, ToConv, ToProcessor, ToBridge, ToDispatcher, Got
  <2>3. \A m \in ToSet(rx[p]) : Follows(log, m, ToProcessor(p, i))
    <3>1. \A m \in ToSet(rx[p]) : Follows(log, m, ToConv(p, i))
      BY <2>1 DEF LineOK
    <3>2. QED
      BY <1>2, <2>2, <3>1, FollowsLess
  <2>4. Follows(log, conv'[p], ToProcessor(p, i))
    BY <1>3, <2>3
  <2>5. \A m \in ToSet(rx'[p]) : Follows(log, m, ToConv(p, i)')
    BY <1>3, <1>5, <2>2, <2>3, FollowsMore
  <2>6. ToInput(p, i) = ToInput(p, i)' \cup {None}
    BY <1>3, <2>2
  <2>7. \A m \in Summarised : m # None
    BY PipelinesAssumption DEF None
  <2>8. \A m \in Summarised \cap ToSet(entered[p]) :
          \/ m \in ToInput(p, i)'
          \/ ~Running(Go("disp", p)) /\ Follows(log, m, Got(p, i))
    BY <2>1, <2>6, <2>7 DEF LineOK
  <2>9. ToInput(p, i)' \subseteq ToSet(entered[p]) \cup {None}
    BY <2>1, <2>6 DEF LineOK
  <2>10. /\ Rising(log, handed[p][i])
         /\ Follows(log, exp[p][i], ToSet(handed[p][i]))
         /\ dispAt[p] <= i => Follows(log, disp[p], Got(p, i))
         /\ i < dispAt[p] => disp[p] \in Got(p, i) \cup {None}
         /\ Follows(log, bridge[p], ToDispatcher(p, i))
         /\ Follows(log, proc[p], ToBridge(p, i))
         /\ ToBridge(p, i) \subseteq Summarised \cup {None}
    BY <2>1 DEF LineOK
  <2>11. /\ log' = log /\ running' = running /\ handed' = handed /\ exp' = exp
         /\ disp' = disp /\ dispAt' = dispAt /\ bridge' = bridge /\ proc' = proc
         /\ entered' = entered
    BY <1>1
  <2>12. QED
    BY <2>2, <2>4, <2>5, <2>8, <2>9, <2>10, <2>11 DEF LineOK, Running
<1>7. \A q \in Pipelines : q # p =>
        /\ entered'[q] = entered[q] /\ rx'[q] = rx[q] /\ conv'[q] = conv[q]
        /\ proc'[q] = proc[q] /\ bridge'[q] = bridge[q] /\ disp'[q] = disp[q]
        /\ dispAt'[q] = dispAt[q] /\ exp'[q] = exp[q] /\ handed'[q] = handed[q]
        /\ Running(Go("disp", q))' <=> Running(Go("disp", q))
  BY <1>1, LineTyped DEF Running
<1>8. disp'[p] # None => Running(Go("disp", p))'
  BY <1>1 DEF LineInv, Running
<1>9. ToSet(rx'[p]) \subseteq ToSet(entered'[p])
  BY <1>1, <1>3, <1>4
<1>10. QED
  BY <1>1, <1>5, <1>6, <1>7, <1>8, <1>9, LineOthers

LEMMA LineProc ==
  ASSUME TypeInv, LineInv, NEW p \in Pipelines, ProcTake(p)
  PROVE  LineInv'
<1>1. /\ proc[p] = None
      /\ proc' = [proc EXCEPT ![p] = conv[p]] /\ conv' = [conv EXCEPT ![p] = None]
      /\ UNCHANGED <<log, running, entered, rx, bridge, disp, dispAt, exp, handed>>
  BY DEF ProcTake
<1>2. p \in DOMAIN proc /\ p \in DOMAIN conv /\ NoneLogged(log)
  BY LineTyped
<1>3. proc'[p] = conv[p] /\ conv'[p] = None
  BY <1>1, <1>2
<1>4. ASSUME NEW i \in Exporters(p) PROVE LineOK(p, i)'
  <2>1. LineOK(p, i)
    BY DEF LineInv
  <2>2. /\ Got(p, i)' = Got(p, i) /\ ToDispatcher(p, i)' = ToDispatcher(p, i)
        /\ ToBridge(p, i)' = ToBridge(p, i)
        /\ ToProcessor(p, i) = ToBridge(p, i) \cup {None}
        /\ ToProcessor(p, i)' = ToBridge(p, i) \cup {conv[p]}
        /\ ToConv(p, i)' = ToConv(p, i) /\ ToInput(p, i)' = ToInput(p, i)
    BY <1>1, <1>3 DEF ToInput, ToConv, ToProcessor, ToBridge, ToDispatcher, Got
  <2>3. Follows(log, conv[p], ToBridge(p, i))
    <3>1. Follows(log, conv[p], ToProcessor(p, i))
      BY <2>1 DEF LineOK
    <3>2. QED
      BY <1>2, <2>2, <3>1, FollowsLess
  <2>4. Follows(log, None, ToProcessor(p, i)')
    BY <1>2, NoneFollows
  <2>5. QED
    BY <1>1, <1>3, <2>1, <2>2, <2>3, <2>4 DEF LineOK, Running
<1>5. \A q \in Pipelines : q # p =>
        /\ entered'[q] = entered[q] /\ rx'[q] = rx[q] /\ conv'[q] = conv[q]
        /\ proc'[q] = proc[q] /\ bridge'[q] = bridge[q] /\ disp'[q] = disp[q]
        /\ dispAt'[q] = dispAt[q] /\ exp'[q] = exp[q] /\ handed'[q] = handed[q]
        /\ Running(Go("disp", q))' <=> Running(Go("disp", q))
  BY <1>1, LineTyped DEF Running
<1>6. disp'[p] # None => Running(Go("disp", p))'
  BY <1>1 DEF LineInv, Running
<1>7. Rising(log, rx'[p]) /\ ToSet(rx'[p]) \subseteq ToSet(entered'[p])
  BY <1>1 DEF LineInv
<1>8. QED
  BY <1>1, <1>4, <1>5, <1>6, <1>7, LineOthers

(* The bridge keeps an Aggregate and discards anything else.                *)
LEMMA LineBridge ==
  ASSUME TypeInv, LineInv, NEW p \in Pipelines, BridgeTake(p)
  PROVE  LineInv'
<1>1. /\ bridge[p] = None
      /\ bridge' = [bridge EXCEPT ![p] = IF proc[p] \in Summarised THEN proc[p] ELSE None]
      /\ proc' = [proc EXCEPT ![p] = None]
      /\ UNCHANGED <<log, running, entered, rx, conv, disp, dispAt, exp, handed>>
  BY DEF BridgeTake
<1>2. p \in DOMAIN proc /\ p \in DOMAIN bridge /\ NoneLogged(log)
  BY LineTyped
<1>3. proc'[p] = None /\ bridge'[p] = IF proc[p] \in Summarised THEN proc[p] ELSE None
  BY <1>1, <1>2
<1>4. ASSUME NEW i \in Exporters(p) PROVE LineOK(p, i)'
  <2>1. LineOK(p, i)
    BY DEF LineInv
  <2>2. /\ Got(p, i)' = Got(p, i) /\ ToDispatcher(p, i)' = ToDispatcher(p, i)
        /\ ToBridge(p, i) = ToDispatcher(p, i) \cup {None}
        /\ ToBridge(p, i)' = ToDispatcher(p, i) \cup {bridge'[p]}
        /\ ToProcessor(p, i) = ToBridge(p, i) \cup {proc[p]}
        /\ ToProcessor(p, i)' = ToBridge(p, i)' \cup {None}
        /\ ToConv(p, i) = ToProcessor(p, i) \cup {conv[p]}
        /\ ToConv(p, i)' = ToProcessor(p, i)' \cup {conv[p]}
        /\ ToInput(p, i) = ToConv(p, i) \cup ToSet(rx[p])
        /\ ToInput(p, i)' = ToConv(p, i)' \cup ToSet(rx[p])
    BY <1>1, <1>3 DEF ToInput, ToConv, ToProcessor, ToBridge, ToDispatcher, Got
  <2>3. bridge'[p] \in {proc[p], None} /\ bridge'[p] \in Summarised \cup {None}
    BY <1>3
  <2>4. /\ ToProcessor(p, i)' \subseteq ToProcessor(p, i) \cup {None}
        /\ ToConv(p, i)' \subseteq ToConv(p, i) \cup {None}
        /\ ToInput(p, i)' \subseteq ToInput(p, i) \cup {None}
    BY <2>2, <2>3
  <2>5. Follows(log, bridge'[p], ToDispatcher(p, i))
    <3>1. Follows(log, proc[p], ToBridge(p, i))
      BY <2>1 DEF LineOK
    <3>2. Follows(log, proc[p], ToDispatcher(p, i))
      BY <1>2, <2>2, <3>1, FollowsLess
    <3>3. QED
      BY <1>2, <2>3, <3>2, NoneFollows
  <2>6. Follows(log, None, ToBridge(p, i)')
    BY <1>2, NoneFollows
  <2>7. Follows(log, conv[p], ToProcessor(p, i)')
    <3>1. Follows(log, conv[p], ToProcessor(p, i))
      BY <2>1 DEF LineOK
    <3>2. QED
      BY <1>2, <2>4, <3>1, FollowsLess
  <2>8. \A m \in ToSet(rx[p]) : Follows(log, m, ToConv(p, i)')
    <3>1. \A m \in ToSet(rx[p]) : Follows(log, m, ToConv(p, i))
      BY <2>1 DEF LineOK
    <3>2. QED
      BY <1>2, <2>4, <3>1, FollowsLess
  <2>9. ToInput(p, i)' \subseteq ToSet(entered[p]) \cup {None}
    BY <2>1, <2>4 DEF LineOK
  <2>10. ToBridge(p, i)' \subseteq Summarised \cup {None}
    BY <2>1, <2>2, <2>3 DEF LineOK
  <2>11. \A m \in Summarised \cap ToSet(entered[p]) :
          \/ m \in ToInput(p, i)'
          \/ ~Running(Go("disp", p)) /\ Follows(log, m, Got(p, i))
    <3>1. \A m \in Summarised : m # None
      BY PipelinesAssumption DEF None
    <3>2. \A m \in Summarised : m \in ToInput(p, i) => m \in ToInput(p, i)'
      BY <1>3, <2>2, <3>1
    <3>3. QED
      BY <2>1, <3>2 DEF LineOK
  <2>12. /\ Rising(log, handed[p][i])
         /\ Follows(log, exp[p][i], ToSet(handed[p][i]))
         /\ dispAt[p] <= i => Follows(log, disp[p], Got(p, i))
         /\ i < dispAt[p] => disp[p] \in Got(p, i) \cup {None}
    BY <2>1 DEF LineOK
  <2>13. /\ log' = log /\ running' = running /\ handed' = handed /\ exp' = exp
         /\ disp' = disp /\ dispAt' = dispAt /\ conv' = conv /\ rx' = rx
         /\ entered' = entered
    BY <1>1
  <2>14. /\ Rising(log, handed[p][i])'
         /\ Follows(log, exp[p][i], ToSet(handed[p][i]))'
         /\ (dispAt[p] <= i => Follows(log, disp[p], Got(p, i)))'
         /\ (i < dispAt[p] => disp[p] \in Got(p, i) \cup {None})'
    BY <2>2, <2>12, <2>13
  <2>15. /\ Follows(log, bridge[p], ToDispatcher(p, i))'
         /\ Follows(log, proc[p], ToBridge(p, i))'
         /\ Follows(log, conv[p], ToProcessor(p, i))'
         /\ (\A m \in ToSet(rx[p]) : Follows(log, m, ToConv(p, i)))'
    BY <1>3, <2>2, <2>5, <2>6, <2>7, <2>8, <2>13
  <2>16. (\A m \in Summarised \cap ToSet(entered[p]) :
           \/ m \in ToInput(p, i)
           \/ ~Running(Go("disp", p)) /\ Follows(log, m, Got(p, i)))'
    BY <2>2, <2>11, <2>13 DEF Running
  <2>17. QED
    BY <2>9, <2>10, <2>13, <2>14, <2>15, <2>16 DEF LineOK
<1>5. \A q \in Pipelines : q # p =>
        /\ entered'[q] = entered[q] /\ rx'[q] = rx[q] /\ conv'[q] = conv[q]
        /\ proc'[q] = proc[q] /\ bridge'[q] = bridge[q] /\ disp'[q] = disp[q]
        /\ dispAt'[q] = dispAt[q] /\ exp'[q] = exp[q] /\ handed'[q] = handed[q]
        /\ Running(Go("disp", q))' <=> Running(Go("disp", q))
  BY <1>1, LineTyped DEF Running
<1>6. disp'[p] # None => Running(Go("disp", p))'
  BY <1>1 DEF LineInv, Running
<1>7. Rising(log, rx'[p]) /\ ToSet(rx'[p]) \subseteq ToSet(entered'[p])
  BY <1>1 DEF LineInv
<1>8. QED
  BY <1>1, <1>4, <1>5, <1>6, <1>7, LineOthers

(* The dispatcher takes an Aggregate: every exporter's turn is still to     *)
(* come.                                                                    *)
LEMMA LineDispTake ==
  ASSUME TypeInv, LineInv, NEW p \in Pipelines, DispTake(p)
  PROVE  LineInv'
<1>1. /\ disp[p] = None /\ Running(Go("disp", p))
      /\ disp' = [disp EXCEPT ![p] = bridge[p]] /\ dispAt' = [dispAt EXCEPT ![p] = 1]
      /\ bridge' = [bridge EXCEPT ![p] = None]
      /\ UNCHANGED <<log, running, entered, rx, conv, proc, exp, handed>>
  BY DEF DispTake
<1>2. /\ p \in DOMAIN disp /\ p \in DOMAIN bridge /\ p \in DOMAIN dispAt /\ NoneLogged(log)
      /\ Exporters(p) \subseteq Nat
  BY LineTyped
<1>3. disp'[p] = bridge[p] /\ bridge'[p] = None /\ dispAt'[p] = 1
  BY <1>1, <1>2
<1>4. ASSUME NEW i \in Exporters(p) PROVE LineOK(p, i)'
  <2>1. LineOK(p, i)
    BY DEF LineInv
  <2>2. /\ Got(p, i)' = Got(p, i) /\ ToDispatcher(p, i) = Got(p, i) \cup {None}
        /\ ToBridge(p, i)' = ToBridge(p, i) /\ ToProcessor(p, i)' = ToProcessor(p, i)
        /\ ToConv(p, i)' = ToConv(p, i) /\ ToInput(p, i)' = ToInput(p, i)
    BY <1>1, <1>3 DEF ToInput, ToConv, ToProcessor, ToBridge, ToDispatcher, Got
  <2>3. Follows(log, bridge[p], Got(p, i))
    <3>1. Follows(log, bridge[p], ToDispatcher(p, i))
      BY <2>1 DEF LineOK
    <3>2. QED
      BY <1>2, <2>2, <3>1, FollowsLess
  <2>4. ~(i < 1)
    BY <1>2 DEF Exporters
  <2>5. Follows(log, None, ToDispatcher(p, i)')
    BY <1>2, NoneFollows
  <2>6. /\ Rising(log, handed[p][i])
        /\ Follows(log, exp[p][i], ToSet(handed[p][i]))
        /\ Follows(log, proc[p], ToBridge(p, i))
        /\ Follows(log, conv[p], ToProcessor(p, i))
        /\ \A m \in ToSet(rx[p]) : Follows(log, m, ToConv(p, i))
        /\ ToInput(p, i) \subseteq ToSet(entered[p]) \cup {None}
        /\ ToBridge(p, i) \subseteq Summarised \cup {None}
        /\ \A m \in Summarised \cap ToSet(entered[p]) :
             \/ m \in ToInput(p, i)
             \/ ~Running(Go("disp", p)) /\ Follows(log, m, Got(p, i))
    BY <2>1 DEF LineOK
  <2>7. /\ log' = log /\ running' = running /\ handed' = handed /\ exp' = exp
        /\ proc' = proc /\ conv' = conv /\ rx' = rx /\ entered' = entered
    BY <1>1
  <2>8. QED
    BY <1>3, <2>2, <2>3, <2>4, <2>5, <2>6, <2>7 DEF LineOK, Running
<1>5. \A q \in Pipelines : q # p =>
        /\ entered'[q] = entered[q] /\ rx'[q] = rx[q] /\ conv'[q] = conv[q]
        /\ proc'[q] = proc[q] /\ bridge'[q] = bridge[q] /\ disp'[q] = disp[q]
        /\ dispAt'[q] = dispAt[q] /\ exp'[q] = exp[q] /\ handed'[q] = handed[q]
        /\ Running(Go("disp", q))' <=> Running(Go("disp", q))
  BY <1>1, LineTyped DEF Running
<1>6. disp'[p] # None => Running(Go("disp", p))'
  BY <1>1 DEF Running
<1>7. Rising(log, rx'[p]) /\ ToSet(rx'[p]) \subseteq ToSet(entered'[p])
  BY <1>1 DEF LineInv
<1>8. QED
  BY <1>1, <1>4, <1>5, <1>6, <1>7, LineOthers

(* The dispatcher returns: each exporter that was offered the Aggregate in  *)
(* hand has it, for the others it is lost, after all they got.              *)
LEMMA LineDispQuit ==
  ASSUME TypeInv, LineInv, NEW p \in Pipelines, DispQuit(p)
  PROVE  LineInv'
<1>1. /\ Running(Go("disp", p)) /\ running' = running \ {Go("disp", p)}
      /\ disp' = [disp EXCEPT ![p] = None] /\ dispAt' = [dispAt EXCEPT ![p] = 1]
      /\ UNCHANGED <<log, entered, rx, conv, proc, bridge, exp, handed>>
  BY DEF DispQuit, Return
<1>2. /\ p \in DOMAIN disp /\ p \in DOMAIN dispAt /\ NoneLogged(log)
      /\ Exporters(p) \subseteq Nat /\ dispAt[p] \in Nat
  BY LineTyped
<1>3. disp'[p] = None /\ dispAt'[p] = 1 /\ ~Running(Go("disp", p))'
  BY <1>1, <1>2 DEF Running
<1>4. ASSUME NEW i \in Exporters(p) PROVE LineOK(p, i)'
  <2>1. LineOK(p, i)
    BY DEF LineInv
  <2>2. /\ Got(p, i)' = Got(p, i) /\ ToDispatcher(p, i)' = Got(p, i) \cup {None}
        /\ ToDispatcher(p, i) = Got(p, i) \cup {disp[p]}
        /\ ToBridge(p, i) = ToDispatcher(p, i) \cup {bridge[p]}
        /\ ToBridge(p, i)' = ToDispatcher(p, i)' \cup {bridge[p]}
        /\ ToProcessor(p, i) = ToBridge(p, i) \cup {proc[p]}
        /\ ToProcessor(p, i)' = ToBridge(p, i)' \cup {proc[p]}
        /\ ToConv(p, i) = ToProcessor(p, i) \cup {conv[p]}
        /\ ToConv(p, i)' = ToProcessor(p, i)' \cup {conv[p]}
        /\ ToInput(p, i) = ToConv(p, i) \cup ToSet(rx[p])
        /\ ToInput(p, i)' = ToConv(p, i)' \cup ToSet(rx[p])
    BY <1>1, <1>3 DEF ToInput, ToConv, ToProcessor, ToBridge, ToDispatcher, Got
  <2>4. /\ ToDispatcher(p, i)' \subseteq ToDispatcher(p, i) \cup {None}
        /\ ToBridge(p, i)' \subseteq ToBridge(p, i) \cup {None}
        /\ ToProcessor(p, i)' \subseteq ToProcessor(p, i) \cup {None}
        /\ ToConv(p, i)' \subseteq ToConv(p, i) \cup {None}
        /\ ToInput(p, i)' \subseteq ToInput(p, i) \cup {None}
        /\ ToInput(p, i) \subseteq ToInput(p, i)' \cup {disp[p]}
    BY <2>2
  <2>5. /\ Follows(log, bridge[p], ToDispatcher(p, i)')
        /\ Follows(log, proc[p], ToBridge(p, i)')
        /\ Follows(log, conv[p], ToProcessor(p, i)')
    <3>1. /\ Follows(log, bridge[p], ToDispatcher(p, i))
          /\ Follows(log, proc[p], ToBridge(p, i))
          /\ Follows(log, conv[p], ToProcessor(p, i))
      BY <2>1 DEF LineOK
    <3>2. QED
      BY <1>2, <2>4, <3>1, FollowsLess
  <2>6. \A m \in ToSet(rx[p]) : Follows(log, m, ToConv(p, i)')
    <3>1. \A m \in ToSet(rx[p]) : Follows(log, m, ToConv(p, i))
      BY <2>1 DEF LineOK
    <3>2. QED
      BY <1>2, <2>4, <3>1, FollowsLess
  <2>7. ToInput(p, i)' \subseteq ToSet(entered[p]) \cup {None}
    BY <2>1, <2>4 DEF LineOK
  <2>8. ToBridge(p, i)' \subseteq Summarised \cup {None}
    BY <2>1, <2>4 DEF LineOK
  <2>9. disp[p] \in Got(p, i) \cup {None} \/ Follows(log, disp[p], Got(p, i))
    BY <1>2, <2>1 DEF LineOK
  <2>10. \A m \in Summarised \cap ToSet(entered[p]) :
           m \in ToInput(p, i)' \/ Follows(log, m, Got(p, i))
    <3>1. \A m \in Summarised : m # None
      BY PipelinesAssumption DEF None
    <3>2. \A m \in Summarised \cap ToSet(entered[p]) : m \in ToInput(p, i)
      BY <1>1, <2>1 DEF LineOK
    <3>3. Got(p, i) \subseteq ToInput(p, i)'
      BY <2>2
    <3>4. QED
      BY <2>4, <2>9, <3>1, <3>2, <3>3
  <2>11. ~(i < 1) /\ Follows(log, None, Got(p, i))
    BY <1>2, NoneFollows DEF Exporters
  <2>12. Rising(log, handed[p][i]) /\ Follows(log, exp[p][i], ToSet(handed[p][i]))
    BY <2>1 DEF LineOK
  <2>13. /\ log' = log /\ handed' = handed /\ exp' = exp /\ bridge' = bridge
         /\ proc' = proc /\ conv' = conv /\ rx' = rx /\ entered' = entered
    BY <1>1
  <2>14. /\ Rising(log, handed[p][i])'
         /\ Follows(log, exp[p][i], ToSet(handed[p][i]))'
         /\ (dispAt[p] <= i => Follows(log, disp[p], Got(p, i)))'
         /\ (i < dispAt[p] => disp[p] \in Got(p, i) \cup {None})'
    BY <1>3, <2>2, <2>11, <2>12, <2>13
  <2>15. /\ Follows(log, bridge[p], ToDispatcher(p, i))'
         /\ Follows(log, proc[p], ToBridge(p, i))'
         /\ Follows(log, conv[p], ToProcessor(p, i))'
         /\ (\A m \in ToSet(rx[p]) : Follows(log, m, ToConv(p, i)))'
    BY <2>5, <2>6, <2>13
  <2>16. (\A m \in Summarised \cap ToSet(entered[p]) :
           \/ m \in ToInput(p, i)
           \/ ~Running(Go("disp", p)) /\ Follows(log, m, Got(p, i)))'
    BY <1>3, <2>2, <2>10, <2>13
  <2>17. QED
    BY <2>7, <2>8, <2>13, <2>14, <2>15, <2>16 DEF LineOK
<1>5. \A q \in Pipelines : q # p => (Running(Go("disp", q))' <=> Running(Go("disp", q)))
  <2>1. \A q \in Pipelines : q # p => Go("disp", q) # Go("disp", p)
    BY DEF Go
  <2>2. QED
    BY <1>1, <2>1 DEF Running
<1>6. \A q \in Pipelines : q # p =>
        /\ entered'[q] = entered[q] /\ rx'[q] = rx[q] /\ conv'[q] = conv[q]
        /\ proc'[q] = proc[q] /\ bridge'[q] = bridge[q] /\ disp'[q] = disp[q]
        /\ dispAt'[q] = dispAt[q] /\ exp'[q] = exp[q] /\ handed'[q] = handed[q]
        /\ Running(Go("disp", q))' <=> Running(Go("disp", q))
  BY <1>1, <1>5, LineTyped
<1>7. Rising(log, rx'[p]) /\ ToSet(rx'[p]) \subseteq ToSet(entered'[p])
  BY <1>1 DEF LineInv
<1>8. QED
  BY <1>1, <1>3, <1>4, <1>6, <1>7, LineOthers

(* Where an exporter's side changes hands and the rest of the pipeline      *)
(* stays: it is enough that the same is with the dispatcher or after it.    *)
LEMMA LineBehind ==
  ASSUME TypeInv, NEW p \in Pipelines, NEW i \in Exporters(p), LineOK(p, i),
         UNCHANGED <<log, running, entered, rx, conv, proc, bridge>>,
         ToDispatcher(p, i)' \subseteq ToDispatcher(p, i) \cup {None},
         ToDispatcher(p, i) \subseteq ToDispatcher(p, i)' \cup {None},
         Got(p, i)' \subseteq Got(p, i) \cup {None}
            \/ Running(Go("disp", p)),
         Rising(log, handed[p][i])',
         Follows(log, exp[p][i], ToSet(handed[p][i]))',
         (dispAt[p] <= i => Follows(log, disp[p], Got(p, i)))',
         (i < dispAt[p] => disp[p] \in Got(p, i) \cup {None})'
  PROVE  LineOK(p, i)'
<1>1. /\ ToBridge(p, i) = ToDispatcher(p, i) \cup {bridge[p]}
      /\ ToBridge(p, i)' = ToDispatcher(p, i)' \cup {bridge[p]}
      /\ ToProcessor(p, i) = ToBridge(p, i) \cup {proc[p]}
      /\ ToProcessor(p, i)' = ToBridge(p, i)' \cup {proc[p]}
      /\ ToConv(p, i) = ToProcessor(p, i) \cup {conv[p]}
      /\ ToConv(p, i)' = ToProcessor(p, i)' \cup {conv[p]}
      /\ ToInput(p, i) = ToConv(p, i) \cup ToSet(rx[p])
      /\ ToInput(p, i)' = ToConv(p, i)' \cup ToSet(rx[p])
  BY DEF ToInput, ToConv, ToProcessor, ToBridge
<1>2. NoneLogged(log)
  BY LineTyped
<1>3. /\ ToBridge(p, i)' \subseteq ToBridge(p, i) \cup {None}
      /\ ToProcessor(p, i)' \subseteq ToProcessor(p, i) \cup {None}
      /\ ToConv(p, i)' \subseteq ToConv(p, i) \cup {None}
      /\ ToInput(p, i)' \subseteq ToInput(p, i) \cup {None}
      /\ ToInput(p, i) \subseteq ToInput(p, i)' \cup {None}
  BY <1>1
<1>4. /\ Follows(log, bridge[p], ToDispatcher(p, i)')
      /\ Follows(log, proc[p], ToBridge(p, i)')
      /\ Follows(log, conv[p], ToProcessor(p, i)')
  <2>1. /\ Follows(log, bridge[p], ToDispatcher(p, i))
        /\ Follows(log, proc[p], ToBridge(p, i))
        /\ Follows(log, conv[p], ToProcessor(p, i))
    BY DEF LineOK
  <2>2. QED
    BY <1>2, <1>3, <2>1, FollowsLess
<1>5. \A m \in ToSet(rx[p]) : Follows(log, m, ToConv(p, i)')
  <2>1. \A m \in ToSet(rx[p]) : Follows(log, m, ToConv(p, i))
    BY DEF LineOK
  <2>2. QED
    BY <1>2, <1>3, <2>1, FollowsLess
<1>6. ToInput(p, i)' \subseteq ToSet(entered[p]) \cup {None}
  BY <1>3 DEF LineOK
<1>7. ToBridge(p, i)' \subseteq Summarised \cup {None}
  BY <1>3 DEF LineOK
<1>8. \A m \in Summarised \cap ToSet(entered[p]) :
         \/ m \in ToInput(p, i)'
         \/ ~Running(Go("disp", p)) /\ Follows(log, m, Got(p, i)')
  <2>1. \A m \in Summarised : m # None
    BY PipelinesAssumption DEF None
  <2>2. \A m : ~Running(Go("disp", p)) /\ Follows(log, m, Got(p, i)) => Follows(log, m, Got(p, i)')
    BY <1>2, FollowsLess
  <2>3. QED
    BY <1>3, <2>1, <2>2 DEF LineOK
<1>9. (\A m \in Summarised \cap ToSet(entered[p]) :
         \/ m \in ToInput(p, i)
         \/ ~Running(Go("disp", p)) /\ Follows(log, m, Got(p, i)))'
  BY <1>8 DEF Running
<1>10. /\ Follows(log, bridge[p], ToDispatcher(p, i))'
       /\ Follows(log, proc[p], ToBridge(p, i))'
       /\ Follows(log, conv[p], ToProcessor(p, i))'
       /\ (\A m \in ToSet(rx[p]) : Follows(log, m, ToConv(p, i)))'
  BY <1>4, <1>5
<1>11. QED
  BY <1>6, <1>7, <1>9, <1>10 DEF LineOK

(* The dispatcher hands the Aggregate to the exporter whose turn it is.     *)
LEMMA LineDispSend ==
  ASSUME TypeInv, LineInv, NEW p \in Pipelines, DispSend(p)
  PROVE  LineInv'
<1>a. PICK at : at = dispAt[p]
  OBVIOUS
<1>b. PICK d : d = disp[p]
  OBVIOUS
<1> DEFINE last == at = ExportersOf[p]
<1>1. /\ d # None /\ Running(GoExp(p, at)) /\ exp[p][at] = None
      /\ exp' = [exp EXCEPT ![p] = [exp[p] EXCEPT ![at] = d]]
      /\ disp' = [disp EXCEPT ![p] = IF last THEN None ELSE d]
      /\ dispAt' = [dispAt EXCEPT ![p] = IF last THEN 1 ELSE at + 1]
      /\ UNCHANGED <<log, running, entered, rx, conv, proc, bridge, handed>>
  BY <1>a, <1>b DEF DispSend
<1>2. /\ p \in DOMAIN disp /\ p \in DOMAIN dispAt /\ p \in DOMAIN exp /\ NoneLogged(log)
      /\ Exporters(p) \subseteq Nat /\ at \in Nat /\ DOMAIN exp[p] = Exporters(p)
  BY <1>a, LineTyped
<1>3. at \in Exporters(p)
  <2>1. GoExp(p, at) \in Goroutine
    BY <1>1 DEF Running, TypeInv, TypeOK, Started
  <2>2. \E q \in Pipelines : GoExp(p, at) \in [kind : {"exp"}, of : {q}, at : Exporters(q)]
    BY <2>1 DEF Goroutine, GoExp
  <2>3. QED
    BY <2>2 DEF GoExp
<1>4. /\ disp'[p] = (IF last THEN None ELSE d) /\ dispAt'[p] = IF last THEN 1 ELSE at + 1
      /\ exp'[p][at] = d /\ \A i \in Exporters(p) : i # at => exp'[p][i] = exp[p][i]
  BY <1>1, <1>2, <1>3
<1>5. ASSUME NEW i \in Exporters(p) PROVE LineOK(p, i)'
  <2>1. LineOK(p, i)
    BY DEF LineInv
  <2>2. /\ ToDispatcher(p, i) = ToSet(handed[p][i]) \cup {exp[p][i], d}
        /\ ToDispatcher(p, i)' = ToSet(handed[p][i]) \cup {exp'[p][i], disp'[p]}
        /\ Got(p, i) = ToSet(handed[p][i]) \cup {exp[p][i]}
        /\ Got(p, i)' = ToSet(handed[p][i]) \cup {exp'[p][i]}
    BY <1>1, <1>b DEF ToDispatcher, Got
  <2>3. Running(Go("disp", p))
    BY <1>1, <1>b DEF LineInv
  <2>4. /\ Rising(log, handed[p][i]) /\ Follows(log, exp[p][i], ToSet(handed[p][i]))
        /\ at <= i => Follows(log, d, Got(p, i))
        /\ i < at => d \in Got(p, i) \cup {None}
    BY <1>a, <1>b, <2>1 DEF LineOK
  <2>5. i \in Nat /\ i >= 1 /\ (last => i <= at)
    BY <1>2 DEF Exporters
  <2>6. CASE i = at
    <3>1. exp[p][i] = None /\ exp'[p][i] = d
      BY <1>1, <1>4, <2>6
    <3>2. Follows(log, d, ToSet(handed[p][i]))
      <4>1. Follows(log, d, Got(p, i))
        BY <2>4, <2>5, <2>6
      <4>2. QED
        BY <1>2, <2>2, <4>1, FollowsLess
    <3>3. /\ ToDispatcher(p, i)' \subseteq ToDispatcher(p, i) \cup {None}
          /\ ToDispatcher(p, i) \subseteq ToDispatcher(p, i)' \cup {None}
      BY <1>4, <2>2, <3>1
    <3>4. (dispAt[p] <= i => Follows(log, disp[p], Got(p, i)))'
      <4>1. dispAt'[p] <= i => last
        BY <1>2, <1>4, <2>6
      <4>2. Follows(log, None, Got(p, i)')
        BY <1>2, NoneFollows
      <4>3. QED
        BY <1>1, <1>4, <4>1, <4>2
    <3>5. (i < dispAt[p] => disp[p] \in Got(p, i) \cup {None})'
      BY <1>4, <2>2, <3>1
    <3>6. Rising(log, handed[p][i])' /\ Follows(log, exp[p][i], ToSet(handed[p][i]))'
      BY <1>1, <2>4, <3>1, <3>2
    <3>7. QED
      BY <1>1, <2>1, <2>3, <3>3, <3>4, <3>5, <3>6, LineBehind
  <2>7. CASE i # at
    <3>1. exp'[p][i] = exp[p][i] /\ Got(p, i)' = Got(p, i)
      BY <1>4, <2>2, <2>7
    <3>2. last => d \in Got(p, i) \cup {None}
      BY <1>2, <2>4, <2>5, <2>7
    <3>3. /\ ToDispatcher(p, i)' \subseteq ToDispatcher(p, i) \cup {None}
          /\ ToDispatcher(p, i) \subseteq ToDispatcher(p, i)' \cup {None}
      BY <1>4, <2>2, <3>1, <3>2
    <3>4. (dispAt[p] <= i => Follows(log, disp[p], Got(p, i)))'
      <4>1. dispAt'[p] <= i /\ ~last => at <= i
        BY <1>2, <1>4, <2>5
      <4>2. Follows(log, None, Got(p, i))
        BY <1>2, NoneFollows
      <4>3. QED
        BY <1>1, <1>4, <2>4, <3>1, <4>1, <4>2
    <3>5. (i < dispAt[p] => disp[p] \in Got(p, i) \cup {None})'
      <4>1. i < dispAt'[p] /\ ~last => i < at
        BY <1>2, <1>4, <2>5, <2>7
      <4>2. QED
        BY <1>4, <2>4, <3>1, <4>1
    <3>6. Rising(log, handed[p][i])' /\ Follows(log, exp[p][i], ToSet(handed[p][i]))'
      BY <1>1, <2>4, <3>1
    <3>7. QED
      BY <1>1, <2>1, <2>3, <3>3, <3>4, <3>5, <3>6, LineBehind
  <2>8. QED
    BY <2>6, <2>7
<1>6. \A q \in Pipelines : q # p =>
        /\ entered'[q] = entered[q] /\ rx'[q] = rx[q] /\ conv'[q] = conv[q]
        /\ proc'[q] = proc[q] /\ bridge'[q] = bridge[q] /\ disp'[q] = disp[q]
        /\ dispAt'[q] = dispAt[q] /\ exp'[q] = exp[q] /\ handed'[q] = handed[q]
        /\ Running(Go("disp", q))' <=> Running(Go("disp", q))
  BY <1>1, LineTyped DEF Running
<1>7. disp'[p] # None => Running(Go("disp", p))'
  BY <1>1, <1>b DEF LineInv, Running
<1>8. Rising(log, rx'[p]) /\ ToSet(rx'[p]) \subseteq ToSet(entered'[p])
  BY <1>1 DEF LineInv
<1>9. QED
  BY <1>1, <1>5, <1>6, <1>7, <1>8, LineOthers

(* An upsert returns.                                                       *)
LEMMA LineExport ==
  ASSUME TypeInv, LineInv, NEW p \in Pipelines, NEW k \in Exporters(p), Export(p, k)
  PROVE  LineInv'
<1>a. PICK x : x = exp[p][k]
  OBVIOUS
<1>1. /\ x # None
      /\ exp' = [exp EXCEPT ![p] = [exp[p] EXCEPT ![k] = None]]
      /\ handed' =
           [handed EXCEPT ![p] = [handed[p] EXCEPT ![k] = Append(handed[p][k], x)]]
      /\ UNCHANGED <<log, running, entered, rx, conv, proc, bridge, disp, dispAt>>
  BY <1>a DEF Export
<1>2. /\ p \in DOMAIN handed /\ p \in DOMAIN exp /\ NoneLogged(log)
      /\ DOMAIN exp[p] = Exporters(p) /\ DOMAIN handed[p] = Exporters(p)
      /\ \A i \in Exporters(p) : handed[p][i] \in Seq(Msgs)
      /\ x \in Msgs
  BY <1>a, <1>1, LineTyped
<1>3. /\ exp'[p][k] = None /\ handed'[p][k] = Append(handed[p][k], x)
      /\ \A i \in Exporters(p) : i # k => /\ exp'[p][i] = exp[p][i]
                                          /\ handed'[p][i] = handed[p][i]
  BY <1>1, <1>2
<1>4. ASSUME NEW i \in Exporters(p) PROVE LineOK(p, i)'
  <2>1. LineOK(p, i)
    BY DEF LineInv
  <2>2. /\ Rising(log, handed[p][i]) /\ Follows(log, exp[p][i], ToSet(handed[p][i]))
        /\ dispAt[p] <= i => Follows(log, disp[p], Got(p, i))
        /\ i < dispAt[p] => disp[p] \in Got(p, i) \cup {None}
    BY <2>1 DEF LineOK
  <2>3. CASE i # k
    <3>1. Running(Go("disp", p))' <=> Running(Go("disp", p))
      BY <1>1 DEF Running
    <3>2. QED
      BY <1>1, <1>3, <2>1, <2>3, <3>1, LineStays
  <2>4. CASE i = k
    <3>1. ToSet(handed'[p][i]) = ToSet(handed[p][i]) \cup {x}
      BY <1>2, <1>3, <2>4, ToSetAppended
    <3>2. /\ Got(p, i)' = Got(p, i) \cup {None} /\ ToDispatcher(p, i)' = Got(p, i)' \cup {disp[p]}
          /\ ToDispatcher(p, i) = Got(p, i) \cup {disp[p]}
      BY <1>1, <1>3, <1>a, <2>4, <3>1 DEF Got, ToDispatcher
    <3>3. Rising(log, handed'[p][i])
      BY <1>2, <1>3, <1>a, <2>2, <2>4, RisingAppended
    <3>4. Follows(log, None, ToSet(handed'[p][i]))
      BY <1>2, NoneFollows
    <3>5. dispAt[p] <= i => Follows(log, disp[p], Got(p, i)')
      BY <1>2, <2>2, <3>2, FollowsLess
    <3>6. /\ Rising(log, handed[p][i])' /\ Follows(log, exp[p][i], ToSet(handed[p][i]))'
          /\ (dispAt[p] <= i => Follows(log, disp[p], Got(p, i)))'
          /\ (i < dispAt[p] => disp[p] \in Got(p, i) \cup {None})'
      BY <1>1, <1>3, <2>2, <2>4, <3>2, <3>3, <3>4, <3>5
    <3>7. QED
      BY <1>1, <2>1, <3>2, <3>6, LineBehind
  <2>5. QED
    BY <2>3, <2>4
<1>5. \A q \in Pipelines : q # p =>
        /\ entered'[q] = entered[q] /\ rx'[q] = rx[q] /\ conv'[q] = conv[q]
        /\ proc'[q] = proc[q] /\ bridge'[q] = bridge[q] /\ disp'[q] = disp[q]
        /\ dispAt'[q] = dispAt[q] /\ exp'[q] = exp[q] /\ handed'[q] = handed[q]
        /\ Running(Go("disp", q))' <=> Running(Go("disp", q))
  BY <1>1, LineTyped DEF Running
<1>6. disp'[p] # None => Running(Go("disp", p))'
  BY <1>1 DEF LineInv, Running
<1>7. Rising(log, rx'[p]) /\ ToSet(rx'[p]) \subseteq ToSet(entered'[p])
  BY <1>1 DEF LineInv
<1>8. QED
  BY <1>1, <1>4, <1>5, <1>6, <1>7, LineOthers

(* The other steps touch nothing LineInv speaks of.                         *)
LEMMA LineUntouched ==
  ASSUME LineInv,
         UNCHANGED <<log, entered, rx, conv, proc, bridge, disp, dispAt, exp, handed>>,
         \A p \in Pipelines : Running(Go("disp", p))' <=> Running(Go("disp", p))
  PROVE  LineInv'
<1>1. ASSUME NEW p \in Pipelines, NEW i \in Exporters(p) PROVE LineOK(p, i)'
  <2>1. LineOK(p, i)
    BY DEF LineInv
  <2>2. QED
    BY <2>1, LineStays
<1>2. QED
  BY <1>1 DEF LineInv

(* Every step keeps LineInv.                                                *)
LEMMA LineStep ==
  ASSUME TypeInv, NumInv, FanInv, LineInv, [Next]_vars
  PROVE  LineInv'
<1>1. \A p, q : /\ Go("fan", q) # Go("disp", p) /\ Go("proc", q) # Go("disp", p)
                /\ Go("bridge", q) # Go("disp", p) /\ \A i : GoExp(q, i) # Go("disp", p)
  BY DEF Go, GoExp
<1>2. ASSUME NEW p \in Pipelines,
             ProcQuit(p) \/ BridgeQuit(p) \/ \E i \in Exporters(p) : ExpQuit(p, i)
      PROVE  LineInv'
  <2>1. /\ UNCHANGED <<log, entered, rx, conv, proc, bridge, disp, dispAt, exp, handed>>
        /\ \E g : g \in {Go("proc", p), Go("bridge", p)} \cup {GoExp(p, i) : i \in Exporters(p)}
                  /\ running' = running \ {g}
    BY <1>2 DEF ProcQuit, BridgeQuit, ExpQuit, Return
  <2>2. \A q \in Pipelines : Running(Go("disp", q))' <=> Running(Go("disp", q))
    BY <1>1, <2>1 DEF Running
  <2>3. QED
    BY <2>1, <2>2, LineUntouched
<1>3. ASSUME NEW r \in Receivers, FanQuit(r) PROVE LineInv'
  <2>1. /\ UNCHANGED <<log, entered, rx, conv, proc, bridge, disp, dispAt, exp, handed>>
        /\ running' = running \ {Go("fan", r)}
    BY <1>3 DEF FanQuit, Return
  <2>2. \A q \in Pipelines : Running(Go("disp", q))' <=> Running(Go("disp", q))
    BY <1>1, <2>1 DEF Running
  <2>3. QED
    BY <2>1, <2>2, LineUntouched
<1>4. ASSUME UNCHANGED vars \/ Cancel \/ \E r \in Receivers : Drop(r) \/ FanTake(r)
      PROVE  LineInv'
  <2>1. UNCHANGED <<log, entered, rx, conv, proc, bridge, disp, dispAt, exp, handed, running>>
    BY <1>4 DEF vars, Cancel, Drop, FanTake
  <2>2. QED
    BY <2>1, LineUntouched DEF Running
<1>5. QED
  BY <1>2, <1>3, <1>4, LineAccept, LineSent, LineConv, LineProc, LineBridge, LineDispTake,
     LineDispSend, LineDispQuit, LineExport DEF Next, FanStep, DispStep
-----------------------------------------------------------------------------
(* The order of the hand-over: what an exporter was handed of a receiver    *)
(* and is done with are the first of its Aggregates.                        *)
LEMMA HandedBegins ==
  ASSUME TypeInv, FanInv, LineInv,
         NEW r \in Receivers, NEW j \in DOMAIN Subs[r], NEW i \in Exporters(Subs[r][j])
  PROVE  Begins(handed[Subs[r][j]][i], r, Summarised)
<1>p. PICK p : p = Subs[r][j]
  OBVIOUS
<1> DEFINE L == ToSet(log[r])
           D == ToSet(handed[p][i])
<1>1. p \in Pipelines /\ i \in Exporters(p) /\ L \subseteq Nat
  BY <1>p, SubscriberFacts, FanTyped
<1>2. LineOK(p, i) /\ i \in Nat /\ dispAt[p] \in Nat
  BY <1>1, LineTyped DEF LineInv
<1>3. \A m \in L : m # None
  BY FanTyped DEF NoneLogged
<1>4. ASSUME NEW a \in DOMAIN handed[p][i], NEW b \in DOMAIN handed[p][i], a < b,
             {handed[p][i][a], handed[p][i][b]} \subseteq L
      PROVE  handed[p][i][a] < handed[p][i][b]
  BY <1>2, <1>4 DEF LineOK, Rising, Follows
<1>5. ASSUME NEW m \in D, m \in L
      PROVE  m \in Summarised /\ \A n \in L \cap Summarised : n < m => n \in D
  <2>1. m \in ToInput(p, i) /\ m \in ToBridge(p, i)
    BY DEF ToInput, ToConv, ToProcessor, ToBridge, ToDispatcher, Got
  <2>2. m \in Summarised /\ m \in ToSet(entered[p])
    BY <1>2, <1>3, <1>5, <2>1 DEF LineOK
  <2>3. ASSUME NEW n \in L \cap Summarised, n < m PROVE n \in D
    <3>1. n \in ToSet(entered[p])
      BY <1>5, <1>p, <2>2, <2>3, SentBegins
    <3>2. ASSUME NEW S, m \in S, Follows(log, n, S) PROVE FALSE
      <4>1. m < n
        BY <1>5, <3>2 DEF Follows
      <4>2. QED
        BY <1>1, <1>5, <2>3, <4>1
    <3>3. /\ m \in Got(p, i) /\ m \in ToDispatcher(p, i) /\ m \in ToBridge(p, i)
          /\ m \in ToProcessor(p, i) /\ m \in ToConv(p, i)
      BY DEF ToConv, ToProcessor, ToBridge, ToDispatcher, Got
    <3>4. n \in ToInput(p, i)
      BY <1>2, <3>1, <3>2, <3>3 DEF LineOK
    <3>5. n \notin ToSet(rx[p]) /\ n # conv[p] /\ n # proc[p] /\ n # bridge[p] /\ n # exp[p][i]
      BY <1>2, <3>2, <3>3 DEF LineOK
    <3>6. n \in ToDispatcher(p, i)
      BY <3>4, <3>5 DEF ToInput, ToConv, ToProcessor, ToBridge
    <3>7. n \in Got(p, i)
      <4>1. CASE dispAt[p] <= i
        BY <1>2, <3>2, <3>3, <3>6, <4>1 DEF LineOK, ToDispatcher
      <4>2. CASE i < dispAt[p]
        BY <1>2, <1>3, <3>6, <4>2 DEF LineOK, ToDispatcher
      <4>3. QED
        BY <1>2, <4>1, <4>2
    <3>8. QED
      BY <3>5, <3>7 DEF Got
  <2>4. QED
    BY <2>2, <2>3
<1>6. QED
  BY <1>4, <1>5, <1>p DEF Begins

FlowInv == TypeInv /\ NumInv /\ FanInv /\ LineInv

(* The inductive invariant of the way from a receiver to an exporter.       *)
LEMMA FlowInvariant == ASSUME OncePerReceiver PROVE Spec => []FlowInv
<1>1. Init => FlowInv
  BY TypeInit, NumbersInit, LineInit DEF FlowInv
<1>2. FlowInv /\ [Next]_vars => FlowInv'
  BY TypeStep, NumbersStep, FanStepInv, LineStep DEF FlowInv
<1>3. QED
  BY <1>1, <1>2, PTL DEF Spec

(* What was handed to an exporter and tried, with an error or not, is of    *)
(* each receiver the first Aggregates made from what that receiver          *)
(* accepted, each once and in order (pipeline.go:88-105, 160-253), for any  *)
(* number of receivers, pipelines and exporters, any capacities, any broken *)
(* pipelines and a cancellation at any time.                                *)
THEOREM HandedOverInOrder == ASSUME OncePerReceiver PROVE Spec => []HandedInOrder
<1>1. FlowInv => HandedInOrder
  BY SentBegins, HandedBegins DEF FlowInv, HandedInOrder
<1>2. QED
  BY <1>1, FlowInvariant, PTL
-----------------------------------------------------------------------------
(* The fan-out in step.                                                     *)
StepOK(r, j, k) ==
  SentTo(r, k) \subseteq SentTo(r, j) /\ \E m \in Hand : SentTo(r, j) \ SentTo(r, k) \subseteq {m}

StepInv == \A r \in Receivers : \A j, k \in DOMAIN Subs[r] : j < k => StepOK(r, j, k)

(* While the fan-out runs, a subscriber has all that was accepted but what  *)
(* is in the channel, and what is in hand when its turn is still to come.   *)
LEMMA SentWhileRunning ==
  ASSUME TypeInv, FanInv, NEW r \in Receivers, Running(Go("fan", r)), NEW j \in DOMAIN Subs[r]
  PROVE  SentTo(r, j) = ToSet(log[r]) \ (ToSet(shared[r])
                                           \cup IF fanAt[r] <= j THEN {fan[r]} ELSE {})
<1> DEFINE E == ToSet(entered[Subs[r][j]])
           L == ToSet(log[r])
<1>1. SentOK(r, j) /\ j \in Nat /\ fanAt[r] \in Nat /\ L \subseteq Nat /\ \A m \in L : m # None
  BY SubscriberFacts, FanTyped DEF FanInv, NoneLogged
<1>2. ASSUME NEW m \in L, NEW S, m \in S PROVE ~Follows(log, m, S)
  BY <1>1, <1>2 DEF Follows
<1>3. ASSUME NEW m \in L, m \in E PROVE m \notin ToSet(shared[r]) /\ (fanAt[r] <= j => m # fan[r])
  <2>1. m \in E \cup {fan[r]}
    BY <1>3
  <2>2. QED
    BY <1>1, <1>2, <1>3, <2>1 DEF SentOK
<1>4. ASSUME NEW m \in L, m \notin ToSet(shared[r]), fanAt[r] <= j => m # fan[r]
      PROVE  m \in E
  BY <1>1, <1>4 DEF SentOK
<1>5. QED
  BY <1>3, <1>4 DEF SentTo

(* So two subscribers differ by the envelope in hand at most.               *)
LEMMA StepRunning ==
  ASSUME TypeInv, FanInv, NEW r \in Receivers, Running(Go("fan", r)),
         NEW j \in DOMAIN Subs[r], NEW k \in DOMAIN Subs[r], j < k
  PROVE  StepOK(r, j, k)
<1>1. j \in Nat /\ k \in Nat /\ fanAt[r] \in Nat
  BY SubscriberFacts, FanTyped
<1>2. fanAt[r] <= j => fanAt[r] <= k
  BY <1>1
<1>3. fan[r] \in Hand
  BY DEF TypeInv, TypeOK
<1>4. SentTo(r, k) \subseteq SentTo(r, j) /\ SentTo(r, j) \ SentTo(r, k) \subseteq {fan[r]}
  BY <1>2, SentWhileRunning
<1>5. QED
  BY <1>3, <1>4 DEF StepOK

RunningInStep ==
  \A r \in Receivers : Running(Go("fan", r)) =>
    \A j, k \in DOMAIN Subs[r] : j < k => StepOK(r, j, k)

(* The same of the state after a step.                                      *)
LEMMA StepRunningNext == (TypeInv /\ FanInv => RunningInStep)'
<1>1. TypeInv /\ FanInv => RunningInStep
  BY StepRunning DEF RunningInStep
<1>2. QED
  BY <1>1, PTL

(* Once the fan-out has returned, nothing of its receiver is sent any more: *)
(* a new envelope is in no pipeline, and what another receiver sends is not *)
(* its own.                                                                 *)
LEMMA StepStep ==
  ASSUME TypeInv, NumInv, FanInv, OncePerReceiver, StepInv, [Next]_vars
  PROVE  StepInv'
<1> SUFFICES ASSUME NEW r \in Receivers, NEW j \in DOMAIN Subs[r], NEW k \in DOMAIN Subs[r], j < k
             PROVE  StepOK(r, j, k)'
  BY DEF StepInv
<1>1. CASE Running(Go("fan", r))'
  <2>1. TypeInv' /\ FanInv'
    BY TypeStep, FanStepInv
  <2>2. QED
    BY <1>1, <2>1, StepRunningNext DEF RunningInStep
<1>2. CASE ~Running(Go("fan", r))'
  <2>1. \A i \in DOMAIN Subs[r] : SentTo(r, i)' = SentTo(r, i)
    <3> SUFFICES ASSUME NEW i \in DOMAIN Subs[r] PROVE SentTo(r, i)' = SentTo(r, i)
      OBVIOUS
    <3>p. PICK p \in Pipelines : p = Subs[r][i]
      BY SubscriberFacts
    <3>1. CASE UNCHANGED <<log, entered>>
      BY <3>1 DEF SentTo
    <3>2. ASSUME NEW q \in Receivers, Accept(q) PROVE SentTo(r, i)' = SentTo(r, i)
      <4>1. /\ log' = [log EXCEPT ![q] = Append(log[q], nextMsg)] /\ nextMsg \in Msgs
            /\ entered' = entered
        BY <3>2 DEF Accept
      <4>2. ToSet(log'[q]) = ToSet(log[q]) \cup {nextMsg}
        BY <4>1, FanTyped, ToSetAppended
      <4>3. nextMsg \notin ToSet(entered[p])
        BY FanTyped DEF NumInv
      <4>4. CASE q = r
        BY <3>p, <4>1, <4>2, <4>3, <4>4 DEF SentTo
      <4>5. CASE q # r
        BY <4>1, <4>5, FanTyped DEF SentTo
      <4>6. QED
        BY <4>4, <4>5
    <3>3. ASSUME NEW q \in Receivers, FanSend(q) PROVE SentTo(r, i)' = SentTo(r, i)
      <4>p. PICK t \in Pipelines : t = Subs[q][fanAt[q]]
        BY FanTyped, SubscriberFacts
      <4>1. /\ fan[q] # None /\ log' = log /\ running' = running
            /\ entered' = [entered EXCEPT ![t] = Append(entered[t], fan[q])]
        BY <3>3, <4>p DEF FanSend
      <4>2. q # r
        BY <1>2, <4>1 DEF FanInv, Running
      <4>3. fan[q] \in ToSet(log[q]) /\ fan[q] \notin ToSet(log[r]) /\ fan[q] \in Msgs
        <5>1. fan[q] \in ToSet(log[q])
          BY <4>1 DEF NumInv
        <5>2. QED
          BY <4>2, <5>1, FanTyped, NoneIsNotLogged DEF NumInv
      <4>4. ToSet(entered'[t]) = ToSet(entered[t]) \cup {fan[q]}
        BY <4>1, <4>3, FanTyped, ToSetAppended
      <4>5. CASE p = t
        BY <3>p, <4>1, <4>3, <4>4, <4>5 DEF SentTo
      <4>6. CASE p # t
        BY <3>p, <4>1, <4>6, FanTyped DEF SentTo
      <4>7. QED
        BY <4>5, <4>6
    <3>4. ASSUME NEW q \in Receivers, FanTake(q) \/ FanQuit(q) PROVE UNCHANGED <<log, entered>>
      BY <3>4 DEF FanTake, FanQuit
    <3>5. QED
      BY <3>1, <3>2, <3>3, <3>4, FanSideStays
  <2>2. StepOK(r, j, k)
    BY DEF StepInv
  <2>3. QED
    BY <2>1, <2>2 DEF StepOK
<1>3. QED
  BY <1>1, <1>2

(* Init establishes StepInv, and every step keeps it.                       *)
LEMMA StepInit == Init => StepInv
<1> SUFFICES ASSUME Init, NEW r \in Receivers, NEW j \in DOMAIN Subs[r], NEW k \in DOMAIN Subs[r]
             PROVE  StepOK(r, j, k)
  BY DEF StepInv
<1>1. log[r] = <<>>
  BY DEF Init
<1>2. SentTo(r, j) = {} /\ SentTo(r, k) = {}
  BY <1>1 DEF SentTo, ToSet
<1>3. None \in Hand
  BY Constants DEF None, Hand
<1>4. QED
  BY <1>2, <1>3 DEF StepOK

LEMMA StepInvariant == ASSUME OncePerReceiver PROVE Spec => [](FlowInv /\ StepInv)
<1>1. FlowInv /\ StepInv /\ [Next]_vars => StepInv'
  BY StepStep DEF FlowInv
<1>2. QED
  BY <1>1, StepInit, FlowInvariant, PTL DEF Spec

(* Of two subscribers of a receiver the earlier one was sent all that the   *)
(* later one was, and one envelope more at most (pipeline.go:88-105).       *)
THEOREM FanOutInStep == ASSUME OncePerReceiver PROVE Spec => []FanOutLockstep
<1>1. StepInv => FanOutLockstep
  <2> SUFFICES ASSUME StepInv, NEW r \in Receivers, NEW j \in DOMAIN Subs[r],
                      NEW k \in DOMAIN Subs[r], j < k
               PROVE  /\ SentTo(r, k) \subseteq SentTo(r, j)
                      /\ Cardinality(SentTo(r, j) \ SentTo(r, k)) <= 1
    BY DEF FanOutLockstep
  <2>1. StepOK(r, j, k)
    BY DEF StepInv
  <2>2. PICK m \in Hand : SentTo(r, j) \ SentTo(r, k) \subseteq {m}
    BY <2>1 DEF StepOK
  <2>3. IsFiniteSet({m}) /\ Cardinality({m}) = 1 /\ SentTo(r, j) \ SentTo(r, k) \in SUBSET {m}
    BY <2>2, FS_Singleton
  <2>4. Cardinality(SentTo(r, j) \ SentTo(r, k)) <= 1
    BY <2>3, FS_Subset
  <2>5. QED
    BY <2>1, <2>4 DEF StepOK
<1>2. QED
  BY <1>1, StepInvariant, PTL
-----------------------------------------------------------------------------
(* A broken pipeline: the envelopes that would become Aggregates stay where *)
(* the stages that did start can put them.                                  *)
StuckOK(p) ==
  /\ Summarised \cap ToSet(entered[p]) \subseteq ToSet(rx[p]) \cup {conv[p], proc[p], bridge[p]}
  /\ fault[p] = "processor" => proc[p] = None /\ bridge[p] = None

StuckInv == \A p \in broken : StuckOK(p)

(* Init establishes StuckInv.                                               *)
LEMMA StuckInit == Init => StuckInv
<1> SUFFICES ASSUME Init, NEW p \in Pipelines PROVE StuckOK(p)
  BY DEF StuckInv, broken
<1>1. entered[p] = <<>> /\ proc[p] = None /\ bridge[p] = None
  BY DEF Init
<1>2. QED
  BY <1>1 DEF StuckOK, ToSet

(* The stages that runSinglePipeline did not get to (pipeline.go:160-211).  *)
LEMMA NotStarted ==
  ASSUME TypeInv, NEW p \in broken
  PROVE  /\ ~Running(Go("disp", p))
         /\ fault[p] = "processor" => ~Running(Go("proc", p)) /\ ~Running(Go("bridge", p))
  BY DEF TypeInv, TypeOK, Started, Running, Go, broken

(* An envelope leaves the input channel only for envelopeToAny, and goes on *)
(* only to stages that run.                                                 *)
LEMMA StuckStep ==
  ASSUME TypeInv, NumInv, StuckInv, [Next]_vars
  PROVE  StuckInv'
<1>1. fault' = fault
  BY DEF Next, vars, Cancel, Accept, Drop, FanStep, FanTake, FanSend, FanQuit, ConvTake, ProcTake,
     ProcQuit, BridgeTake, BridgeQuit, DispStep, DispTake, DispSend, DispQuit, Export, ExpQuit
<1> SUFFICES ASSUME NEW p \in broken PROVE StuckOK(p)'
  BY <1>1 DEF StuckInv, broken
<1>2. /\ StuckOK(p) /\ p \in Pipelines /\ rx[p] \in Seq(Msgs)
      /\ p \in DOMAIN rx /\ p \in DOMAIN conv /\ p \in DOMAIN proc /\ p \in DOMAIN bridge
      /\ p \in DOMAIN entered /\ entered[p] \in Seq(Msgs)
  BY LineTyped DEF StuckInv, broken
<1>3. None \notin Summarised
  BY PipelinesAssumption DEF None
<1>4. CASE entered'[p] = entered[p] /\ rx'[p] = rx[p] /\ conv'[p] = conv[p]
           /\ proc'[p] = proc[p] /\ bridge'[p] = bridge[p]
  BY <1>1, <1>2, <1>4 DEF StuckOK
<1>5. ASSUME NEW r \in Receivers, FanSend(r) PROVE StuckOK(p)'
  <2>p. PICK t \in Pipelines : t = Subs[r][fanAt[r]]
    BY FanTyped, SubscriberFacts
  <2>1. /\ fan[r] # None /\ UNCHANGED <<conv, proc, bridge>>
        /\ entered' = [entered EXCEPT ![t] = Append(entered[t], fan[r])]
        /\ rx' = [rx EXCEPT ![t] = Append(rx[t], fan[r])]
    BY <1>5, <2>p DEF FanSend
  <2>2. CASE t # p
    BY <1>4, <2>1, <2>2
  <2>3. CASE t = p
    <3>1. fan[r] \in Msgs
      BY <2>1 DEF TypeInv, TypeOK, Hand, None, Msgs
    <3>2. /\ ToSet(entered'[p]) = ToSet(entered[p]) \cup {fan[r]}
          /\ ToSet(rx'[p]) = ToSet(rx[p]) \cup {fan[r]}
      BY <1>2, <2>1, <2>3, <3>1, ToSetAppended
    <3>3. QED
      BY <1>1, <1>2, <2>1, <3>2 DEF StuckOK
  <2>4. QED
    BY <2>2, <2>3
<1>6. ASSUME NEW q \in Pipelines, ConvTake(q) PROVE StuckOK(p)'
  <2>1. /\ conv[q] = None /\ rx[q] # <<>> /\ UNCHANGED <<entered, proc, bridge>>
        /\ conv' = [conv EXCEPT ![q] = Head(rx[q])] /\ rx' = [rx EXCEPT ![q] = Tail(rx[q])]
    BY <1>6 DEF ConvTake
  <2>2. CASE q # p
    BY <1>4, <2>1, <2>2
  <2>3. CASE q = p
    <3>1. ToSet(rx[p]) = {conv'[p]} \cup ToSet(rx'[p])
      BY <1>2, <2>1, <2>3, ToSetTaken
    <3>2. QED
      BY <1>1, <1>2, <1>3, <2>1, <2>3, <3>1 DEF StuckOK
  <2>4. QED
    BY <2>2, <2>3
<1>7. ASSUME NEW q \in Pipelines, ProcTake(q) PROVE StuckOK(p)'
  <2>1. /\ proc[q] = None /\ Running(Go("proc", q)) /\ UNCHANGED <<entered, rx, bridge>>
        /\ proc' = [proc EXCEPT ![q] = conv[q]] /\ conv' = [conv EXCEPT ![q] = None]
    BY <1>7 DEF ProcTake
  <2>2. CASE q # p
    BY <1>4, <2>1, <2>2
  <2>3. CASE q = p
    BY <1>1, <1>2, <1>3, <2>1, <2>3, NotStarted DEF StuckOK
  <2>4. QED
    BY <2>2, <2>3
<1>8. ASSUME NEW q \in Pipelines, BridgeTake(q) PROVE StuckOK(p)'
  <2>1. /\ bridge[q] = None /\ Running(Go("bridge", q)) /\ UNCHANGED <<entered, rx, conv>>
        /\ bridge' = [bridge EXCEPT ![q] = IF proc[q] \in Summarised THEN proc[q] ELSE None]
        /\ proc' = [proc EXCEPT ![q] = None]
    BY <1>8 DEF BridgeTake
  <2>2. CASE q # p
    BY <1>4, <2>1, <2>2
  <2>3. CASE q = p
    BY <1>1, <1>2, <1>3, <2>1, <2>3, NotStarted DEF StuckOK
  <2>4. QED
    BY <2>2, <2>3
<1>9. ASSUME NEW q \in Pipelines, DispTake(q) PROVE StuckOK(p)'
  <2>1. /\ Running(Go("disp", q)) /\ UNCHANGED <<entered, rx, conv, proc>>
        /\ bridge' = [bridge EXCEPT ![q] = None]
    BY <1>9 DEF DispTake
  <2>2. q # p
    BY <2>1, NotStarted
  <2>3. QED
    BY <1>4, <2>1, <2>2
<1>10. CASE UNCHANGED <<entered, rx, conv, proc, bridge>>
  BY <1>4, <1>10
<1>11. ASSUME NEW r \in Receivers, Accept(r) \/ Drop(r) \/ FanTake(r) \/ FanQuit(r)
       PROVE  UNCHANGED <<entered, rx, conv, proc, bridge>>
  BY <1>11 DEF Accept, Drop, FanTake, FanQuit
<1>12. ASSUME NEW q \in Pipelines, \/ ProcQuit(q) \/ BridgeQuit(q) \/ DispSend(q) \/ DispQuit(q)
                                   \/ \E i \in Exporters(q) : Export(q, i) \/ ExpQuit(q, i)
       PROVE  UNCHANGED <<entered, rx, conv, proc, bridge>>
  BY <1>12 DEF ProcQuit, BridgeQuit, DispSend, DispQuit, Export, ExpQuit
<1>13. CASE UNCHANGED vars \/ Cancel
  BY <1>10, <1>13 DEF vars, Cancel
<1>14. QED
  BY <1>5, <1>6, <1>7, <1>8, <1>9, <1>10, <1>11, <1>12, <1>13 DEF Next, FanStep, DispStep

(* As many elements as a channel has room for, and one for each hand.       *)
LEMMA Elements ==
  ASSUME NEW q \in Seq(Msgs)
  PROVE  IsFiniteSet(ToSet(q)) /\ Cardinality(ToSet(q)) <= Len(q)
<1>1. Len(q) \in Nat /\ DOMAIN q = 1 .. Len(q) /\ q \in [1 .. Len(q) -> ToSet(q)]
  BY LenProperties DEF ToSet
<1>2. q \in Surjection(1 .. Len(q), ToSet(q))
  BY <1>1 DEF Surjection, ToSet
<1>3. IsFiniteSet(1 .. Len(q)) /\ Cardinality(1 .. Len(q)) = Len(q)
  BY <1>1, FS_Interval
<1>4. QED
  BY <1>2, <1>3, FS_Surjection

(* A set with one more element.                                             *)
LEMMA OneMore ==
  ASSUME NEW S, IsFiniteSet(S), NEW n \in Nat, Cardinality(S) <= n, NEW x
  PROVE  IsFiniteSet(S \cup {x}) /\ Cardinality(S \cup {x}) <= n + 1
<1>1. Cardinality(S) \in Nat
  BY FS_CardinalityType
<1>2. QED
  BY <1>1, FS_AddElement

(* An earlier or later subscriber got one envelope more than the broken one *)
(* at most, and that one holds what its places hold.                        *)
LEMMA StuckBounds ==
  ASSUME TypeInv, StepInv, StuckInv, NEW r \in Receivers, NEW j \in DOMAIN Subs[r],
         NEW k \in DOMAIN Subs[r], Subs[r][k] \in broken
  PROVE  Cardinality(SentTo(r, j) \cap Summarised) <= Held(Subs[r][k])
<1>p. PICK p \in broken : p = Subs[r][k]
  OBVIOUS
<1>1. /\ rx[p] \in Seq(Msgs) /\ Len(rx[p]) <= RxCap /\ Len(rx[p]) \in Nat
      /\ StuckOK(p) /\ RxCap \in Nat /\ fault[p] \in {"processor", "exporter"}
  BY Constants, LenProperties DEF TypeInv, TypeOK, StuckInv, broken, Kinds
<1>2. \E m \in Hand : SentTo(r, j) \subseteq SentTo(r, k) \cup {m}
  <2>1. None \in Hand
    BY Constants DEF None, Hand
  <2>2. j < k \/ j = k \/ k < j
    BY SubscriberFacts
  <2>3. QED
    BY <2>1, <2>2 DEF StepInv, StepOK
<1>3. PICK m \in Hand : SentTo(r, j) \subseteq SentTo(r, k) \cup {m}
  BY <1>2
<1>4. SentTo(r, k) \cap Summarised \subseteq ToSet(rx[p]) \cup {conv[p], proc[p], bridge[p]}
  BY <1>1, <1>p DEF SentTo, StuckOK
<1>n. RxCap + 1 \in Nat /\ RxCap + 2 \in Nat /\ (RxCap + 2) + 1 \in Nat
  BY <1>1
<1> DEFINE A == (ToSet(rx[p]) \cup {conv[p]}) \cup {m}
           B == (A \cup {proc[p]}) \cup {bridge[p]}
           T == SentTo(r, j) \cap Summarised
<1>5. IsFiniteSet(ToSet(rx[p])) /\ Cardinality(ToSet(rx[p])) <= RxCap
  <2>1. IsFiniteSet(ToSet(rx[p])) /\ Cardinality(ToSet(rx[p])) <= Len(rx[p])
    BY <1>1, Elements
  <2>2. Cardinality(ToSet(rx[p])) \in Nat
    BY <2>1, FS_CardinalityType
  <2>3. QED
    BY <1>1, <2>1, <2>2
<1>6. IsFiniteSet(A) /\ Cardinality(A) <= RxCap + 2
  <2>1. /\ IsFiniteSet(ToSet(rx[p]) \cup {conv[p]})
        /\ Cardinality(ToSet(rx[p]) \cup {conv[p]}) <= RxCap + 1
    BY <1>1, <1>5, OneMore
  <2>2. IsFiniteSet(A) /\ Cardinality(A) <= (RxCap + 1) + 1
    BY <1>n, <2>1, OneMore
  <2>3. (RxCap + 1) + 1 = RxCap + 2
    BY <1>1
  <2>4. QED
    BY <2>2, <2>3
<1>7. IsFiniteSet(B) /\ Cardinality(B) <= RxCap + 4
  <2>1. IsFiniteSet(A \cup {proc[p]}) /\ Cardinality(A \cup {proc[p]}) <= (RxCap + 2) + 1
    BY <1>n, <1>6, OneMore
  <2>2. IsFiniteSet(B) /\ Cardinality(B) <= ((RxCap + 2) + 1) + 1
    BY <1>n, <2>1, OneMore
  <2>3. ((RxCap + 2) + 1) + 1 = RxCap + 4
    BY <1>1
  <2>4. QED
    BY <2>2, <2>3
<1>8. CASE fault[p] = "exporter"
  <2>1. T \in SUBSET B
    BY <1>3, <1>4
  <2>2. Cardinality(T) <= Cardinality(B) /\ IsFiniteSet(T)
    BY <1>7, <2>1, FS_Subset
  <2>3. Cardinality(T) \in Nat /\ Cardinality(B) \in Nat
    BY <1>7, <2>2, FS_CardinalityType
  <2>4. Held(p) = RxCap + 4
    BY <1>1, <1>8 DEF Held
  <2>5. QED
    BY <1>1, <1>7, <1>p, <2>2, <2>3, <2>4
<1>9. CASE fault[p] = "processor"
  <2>1. proc[p] \notin Summarised /\ bridge[p] \notin Summarised
    BY <1>1, <1>9, PipelinesAssumption DEF StuckOK, None
  <2>2. T \in SUBSET A
    BY <1>3, <1>4, <2>1
  <2>3. Cardinality(T) <= Cardinality(A) /\ IsFiniteSet(T)
    BY <1>6, <2>2, FS_Subset
  <2>4. Cardinality(T) \in Nat /\ Cardinality(A) \in Nat
    BY <1>6, <2>3, FS_CardinalityType
  <2>5. Held(p) = RxCap + 2
    BY <1>1, <1>9 DEF Held
  <2>6. QED
    BY <1>1, <1>6, <1>p, <2>3, <2>4, <2>5
<1>10. QED
  BY <1>1, <1>8, <1>9

(* With a pipeline that failed to start among its subscribers, a receiver   *)
(* gets no more Aggregates' worth to any pipeline than the broken one has   *)
(* places for (pipeline.go:88-105, 160-211).                                *)
THEOREM BrokenPipelineStops ==
  ASSUME OncePerReceiver PROVE Spec => []BrokenPipelineStopsReceiver
<1>1. FlowInv /\ StuckInv /\ [Next]_vars => StuckInv'
  BY StuckStep DEF FlowInv
<1>2. FlowInv /\ StepInv /\ StuckInv => BrokenPipelineStopsReceiver
  BY StuckBounds DEF FlowInv, BrokenPipelineStopsReceiver
<1>3. QED
  BY <1>1, <1>2, StuckInit, StepInvariant, PTL DEF Spec
=============================================================================
