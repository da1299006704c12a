--------------------------- MODULE DeliveryProofs ---------------------------
(***************************************************************************)
(* Proofs about Delivery for every choice of kinds, capacity and bounds.    *)
(***************************************************************************)
EXTENDS Delivery, SequenceTheorems, FiniteSetTheorems, TLAPS

(* The part of the types that the proofs need; the bounds on the counters   *)
(* play no role in them.                                                    *)
Shape ==
  /\ kind \in {"kafka", "pulsar", "drop", "wait"}
  /\ committed \in 1 .. MaxMsgs + 1
  /\ pos \in 1 .. MaxMsgs + 1
  /\ told \in SUBSET Msgs
  /\ puts \in [Msgs -> Nat] /\ due \in [Msgs -> Nat] /\ again \in [Msgs -> Nat]
  /\ order \in Seq(Msgs)
  /\ \A h \in hands : /\ h = [msg |-> h.msg, try |-> h.try, next |-> h.next]
                      /\ h.msg \in Msgs

(* Kafka: the messages that may still be forwarded, whatever crashes, fails *)
(* or is rebalanced.                                                        *)
Comes(m) ==
  \/ m >= pos \/ m >= committed
  \/ \E h \in hands : h.msg = m \/ (h.next = "commit" /\ m > h.msg)

(* The reader holds one message at most, committed or to be committed, and  *)
(* what lies before it comes again only by a rebalance.  All that may still *)
(* come lies behind what was forwarded, but for what a rebalance brings     *)
(* again.                                                                   *)
KafkaInv ==
  kind = "kafka" =>
    /\ ~up => hands = {}
    /\ \A g, h \in hands : g = h
    /\ \A h \in hands :
         /\ h.next \in {"commit", "send"}
         /\ h.next = "send" => committed = h.msg + 1
         /\ \A m \in Msgs : pos <= m /\ m <= h.msg => again[m] > 0
    /\ \A m \in Msgs : Comes(m) => again[m] > 0 \/ \A i \in 1 .. Len(order) : order[i] < m

(* What comes after the hand-over finds the message in the channel or       *)
(* dropped, and only offers drop.                                           *)
ToldInv ==
  /\ ToldIsAccounted
  /\ \A h \in hands :
       /\ h.next = "tell" => puts[h.msg] > 0 \/ (h.msg \in dropped /\ kind # "wait")
       /\ h.next = "offer" => kind # "wait"

-----------------------------------------------------------------------------
(* Shape holds in every reachable state.                                    *)
LEMMA AgainGrows ==
  ASSUME again \in [Msgs -> Nat], NEW ms, Again(ms)
  PROVE  /\ again' \in [Msgs -> Nat]
         /\ \A m \in Msgs : /\ again'[m] \in {again[m], again[m] + 1} /\ again'[m] >= again[m]
                            /\ m \in ms => again'[m] = again[m] + 1
<1>1. \A m \in Msgs : again'[m] = IF m \in ms THEN again[m] + 1 ELSE again[m]
  BY DEF Again
<1>2. \A m \in Msgs : again[m] \in Nat
  OBVIOUS
<1>3. again' = [m \in Msgs |-> IF m \in ms THEN again[m] + 1 ELSE again[m]]
  BY DEF Again
<1>4. again' \in [Msgs -> Nat]
  BY <1>2, <1>3
<1> QED
  BY <1>1, <1>2, <1>4

(* Pulsar: every message comes once more at most than before.               *)
LEMMA DueGrows ==
  ASSUME due \in [Msgs -> Nat], Reconnect
  PROVE  /\ due' \in [Msgs -> Nat]
         /\ \A m \in Msgs : due'[m] <= IF m \in told THEN due[m] ELSE due[m] + 1
<1>0. /\ Unacked \in [Msgs -> {0, 1}]
      /\ \A m \in Msgs : m \in told => Unacked[m] = 0
  BY DEF Unacked
<1>1. PICK u \in [Msgs -> {0, 1}] : u = Unacked /\ \A m \in Msgs : m \in told => u[m] = 0
  BY <1>0
<1>2. PICK kept \in SUBSET Msgs :
        due' = [m \in Msgs |-> (IF m \in kept THEN due[m] ELSE 0) + u[m]]
  BY <1>1 DEF Reconnect
<1>3. ASSUME NEW m \in Msgs
      PROVE  /\ (IF m \in kept THEN due[m] ELSE 0) + u[m] \in Nat
             /\ (IF m \in kept THEN due[m] ELSE 0) + u[m] <= (IF m \in told THEN due[m] ELSE due[m] + 1)
  <2>1. due[m] \in Nat /\ u[m] \in {0, 1} /\ (m \in told => u[m] = 0)
    BY <1>1
  <2>2. CASE m \in kept
    BY <2>1, <2>2
  <2>3. CASE m \notin kept
    BY <2>1, <2>3
  <2> QED
    BY <2>2, <2>3
<1>4. due' \in [Msgs -> Nat]
  BY <1>2, <1>3
<1> QED
  BY <1>2, <1>3, <1>4

LEMMA ShapeHolds == Spec => []Shape
<1>1. Init => Shape
  <2> SUFFICES ASSUME Init PROVE Shape
    OBVIOUS
  <2>1. due \in [Msgs -> Nat]
    BY DEF Init, Unacked
  <2> QED
    BY <2>1, DeliveryAssumption, EmptySeq DEF Init, Shape, Msgs
<1>2. Shape /\ [Next]_vars => Shape'
  <2> SUFFICES ASSUME Shape, [Next]_vars PROVE Shape'
    OBVIOUS
  <2>a. MaxMsgs \in Nat
    BY DeliveryAssumption
  <2>b. \A m \in Msgs : Append(order, m) \in Seq(Msgs)
    BY AppendProperties DEF Shape
  <2> USE DEF Shape, source, receiver, line, sink, process
  <2>1. CASE Fetch
    BY <2>1, <2>a DEF Fetch, Msgs
  <2>2. ASSUME NEW m \in Msgs, Receive(m) PROVE Shape'
    <3>1. due[m] \in Nat /\ due[m] > 0 /\ due' = [due EXCEPT ![m] = @ - 1]
      BY <2>2 DEF Receive
    <3>2. due' \in [Msgs -> Nat]
      BY <3>1
    <3> QED
      BY <2>2, <3>2 DEF Receive
  <2>3. ASSUME NEW m \in Msgs, Arrive(m) PROVE Shape'
    BY <2>3 DEF Arrive
  <2>4. ASSUME NEW m \in Msgs, GiveUp(m) PROVE Shape'
    <3>1. again' \in [Msgs -> Nat]
      BY <2>4, AgainGrows DEF GiveUp
    <3> QED
      BY <2>4, <3>1 DEF GiveUp, Fault
  <2>9. CASE Rebalance
    <3>1. again' \in [Msgs -> Nat]
      BY <2>9, AgainGrows DEF Rebalance
    <3> QED
      BY <2>9, <3>1 DEF Rebalance, Fault
  <2>10. CASE Reconnect
    <3>1. again' \in [Msgs -> Nat]
      BY <2>10, AgainGrows DEF Reconnect
    <3>2. due' \in [Msgs -> Nat]
      BY <2>10, DueGrows
    <3> QED
      BY <2>10, <3>1, <3>2 DEF Reconnect, Fault
  <2>5. ASSUME NEW h \in hands, Receiver(h) PROVE Shape'
    <3>a. h.msg \in Msgs
      OBVIOUS
    <3>2. CASE CommitFails(h)
      BY <3>2, <3>a, <2>a DEF CommitFails, At, LetGo, Fault, Msgs
    <3>b. ASSUME hands' = hands \ {h} \/ \E step : GoOn(h, step)
          PROVE  \A g \in hands' : /\ g = [msg |-> g.msg, try |-> g.try, next |-> g.next]
                                   /\ g.msg \in Msgs
      <4>1. ASSUME NEW m, NEW k, NEW n, NEW step
            PROVE  [[msg |-> m, try |-> k, next |-> n] EXCEPT !.next = step]
                     = [msg |-> m, try |-> k, next |-> step]
        OBVIOUS
      <4>2. ASSUME NEW step
            PROVE  [h EXCEPT !.next = step] = [msg |-> h.msg, try |-> h.try, next |-> step]
        <5>1. h = [msg |-> h.msg, try |-> h.try, next |-> h.next]
          OBVIOUS
        <5>2. PICK m, k, n : h = [msg |-> m, try |-> k, next |-> n] /\ m = h.msg /\ k = h.try
          BY <5>1
        <5> QED
          BY <4>1, <5>2
      <4>3. ASSUME NEW step, GoOn(h, step)
            PROVE  \A g \in hands' : g \in hands
                                 \/ g = [msg |-> h.msg, try |-> h.try, next |-> step]
        BY <4>2, <4>3 DEF GoOn
      <4> QED
        BY <3>b, <3>a, <4>3
    <3>c. ASSUME Put(h.msg) \/ UNCHANGED <<puts, order>>
          PROVE  puts' \in [Msgs -> Nat] /\ order' \in Seq(Msgs)
      <4>1. puts[h.msg] + 1 \in Nat
        BY <3>a
      <4> QED
        BY <3>c, <3>a, <4>1, <2>b DEF Put
    <3>1. CASE Commit(h)
      <4>1. h.msg + 1 \in 1 .. MaxMsgs + 1
        BY <3>a, <2>a DEF Msgs
      <4> QED
        BY <3>1, <3>b, <4>1 DEF Commit
    <3>3. CASE Send(h)
      BY <3>3, <3>b, <3>c DEF Send, LetGo
    <3>4. CASE Offer(h)
      BY <3>4, <3>b, <3>c DEF Offer, PutOrDrop
    <3>5. CASE Ack(h)
      BY <3>5, <3>a DEF Ack, At, LetGo, Fault
    <3>6. CASE Answer(h)
      BY <3>6, <3>a DEF Answer, At, LetGo
    <3>7. CASE Refuse(h)
      <4>1. again' \in [Msgs -> Nat]
        BY <3>7, AgainGrows DEF Refuse
      <4> QED
        BY <3>7, <4>1 DEF Refuse, LetGo, Fault
    <3> QED
      BY <2>5, <3>1, <3>2, <3>3, <3>4, <3>5, <3>6, <3>7 DEF Receiver
  <2>6. CASE Take \/ Close \/ HandOver \/ Upsert
    BY <2>6 DEF Take, Close, HandOver, Upsert
  <2>7. CASE Crash \/ Restart
    <3>1. Unacked \in [Msgs -> Nat]
      BY DEF Unacked
    <3> QED
      BY <2>7, <3>1 DEF Crash, Restart
  <2>8. CASE UNCHANGED vars
    BY <2>8 DEF vars
  <2> QED
    BY <2>1, <2>2, <2>3, <2>4, <2>5, <2>6, <2>7, <2>8, <2>9, <2>10 DEF Next
<1> QED
  BY <1>1, <1>2, PTL DEF Spec

(* Steps behind the channel, of clients and of other kinds of receivers     *)
(* leave a Kafka reader and its topic alone.                                *)
LEMMA KafkaElsewhere ==
  ASSUME Shape, kind = "kafka",
         \/ \E m \in Msgs : Receive(m) \/ Arrive(m) \/ GiveUp(m)
         \/ \E h \in hands : Ack(h) \/ Answer(h) \/ Refuse(h)
         \/ Take \/ Close \/ HandOver \/ Upsert \/ Reconnect
         \/ UNCHANGED vars
  PROVE  /\ UNCHANGED <<kind, up, committed, pos, hands, order>>
         /\ \A m \in Msgs : again'[m] \in {again[m], again[m] + 1} /\ again'[m] >= again[m]
<1>1. UNCHANGED <<kind, up, committed, pos, hands, order>>
  BY DEF Receive, Arrive, GiveUp, Ack, Answer, Refuse, Take, Close, HandOver, Upsert, Reconnect,
         Fault, vars, source, receiver, line, sink, process
<1>2. again' = again \/ \E ms : Again(ms)
  BY DEF Receive, Arrive, GiveUp, Ack, Answer, Refuse, Take, Close, HandOver, Upsert, Reconnect,
         vars, source, receiver, line, sink, process
<1>3. again \in [Msgs -> Nat] /\ \A m \in Msgs : again[m] \in Nat
  BY DEF Shape
<1>4. CASE again' = again
  BY <1>1, <1>3, <1>4
<1>5. ASSUME NEW ms, Again(ms)
      PROVE  \A m \in Msgs : again'[m] \in {again[m], again[m] + 1} /\ again'[m] >= again[m]
  BY <1>3, <1>5, AgainGrows
<1> QED
  BY <1>1, <1>2, <1>4, <1>5

(* A step after which nothing more may come than before, and nothing more   *)
(* was forwarded.                                                           *)
LEMMA ComesLess ==
  ASSUME Shape, KafkaInv, kind = "kafka", order' = order,
         \A m \in Msgs : again'[m] >= again[m] /\ again'[m] \in Nat,
         \A m \in Msgs : Comes(m)' => Comes(m)
  PROVE  \A m \in Msgs :
           Comes(m)' => again'[m] > 0 \/ \A i \in 1 .. Len(order') : order'[i] < m
<1> SUFFICES ASSUME NEW m \in Msgs, Comes(m)', ~(again'[m] > 0)
             PROVE  \A i \in 1 .. Len(order') : order'[i] < m
  OBVIOUS
<1>1. again[m] \in Nat /\ again'[m] \in Nat /\ again'[m] >= again[m]
  BY DEF Shape
<1>2. ~(again[m] > 0)
  BY <1>1
<1> QED
  BY <1>2 DEF KafkaInv

(* Each step of the reader, a rebalance and a restart keep what was         *)
(* forwarded behind what is in hand and what is still to come.              *)
LEMMA KafkaStep ==
  ASSUME Shape, Shape', KafkaInv, KafkaOnceInOrder, [Next]_vars
  PROVE  KafkaInv' /\ KafkaOnceInOrder'
<1>a. kind' = kind
  BY DEF Next, Receiver, Fetch, Receive, Arrive, GiveUp, Commit, CommitFails, Send, Offer, Refuse,
         Rebalance, Reconnect, Ack, Answer, Take, Close, HandOver, Upsert, Crash, Restart, Fault,
         vars, process
<1> SUFFICES ASSUME kind = "kafka"
             PROVE  KafkaInv' /\ KafkaOnceInOrder'
  BY <1>a DEF KafkaInv, KafkaOnceInOrder
<1>b. /\ committed \in Nat /\ pos \in Nat /\ order \in Seq(Msgs) /\ Len(order) \in Nat
      /\ \A m \in Msgs : m \in Nat /\ again[m] \in Nat
      /\ \A h \in hands : h.msg \in Msgs
      /\ \A g, h \in hands : g = h
      /\ \A h \in hands : /\ h.next \in {"commit", "send"}
                          /\ h.next = "send" => committed = h.msg + 1
                          /\ \A m \in Msgs : pos <= m /\ m <= h.msg => again[m] > 0
      /\ ~up => hands = {}
  BY LenProperties, DeliveryAssumption DEF Shape, Msgs, KafkaInv
<1>c. \A i \in 1 .. Len(order) : order[i] \in Nat
  BY <1>b, ElementOfSeq
<1>d. ASSUME UNCHANGED <<order, again>>, \A m \in Msgs : Comes(m)' => Comes(m),
             ~up' => hands' = {}, \A g, h \in hands' : g = h,
             \A h \in hands' : /\ h.next \in {"commit", "send"}
                               /\ h.next = "send" => committed' = h.msg + 1
                               /\ \A m \in Msgs : pos' <= m /\ m <= h.msg => again[m] > 0
      PROVE  KafkaInv' /\ KafkaOnceInOrder'
  <2>1. \A m \in Msgs : again'[m] >= again[m] /\ again'[m] \in Nat
    BY <1>b, <1>d
  <2>2. \A m \in Msgs : Comes(m)' => again'[m] > 0 \/ \A i \in 1 .. Len(order') : order'[i] < m
    BY <1>d, <2>1, ComesLess
  <2> QED
    BY <1>a, <1>d, <2>2 DEF KafkaInv, KafkaOnceInOrder
<1>1. CASE Fetch
  <2>1. /\ hands' = {[msg |-> pos, try |-> 1, next |-> "commit"]}
        /\ pos' = pos + 1 /\ pos \in Msgs
        /\ up /\ UNCHANGED <<up, committed, order, again>>
    BY <1>1 DEF Fetch, source, line, process
  <2>2. \A m \in Msgs : Comes(m)' => Comes(m)
    BY <1>b, <2>1 DEF Comes
  <2> QED
    BY <1>b, <1>d, <2>1, <2>2
<1>2. ASSUME NEW h \in hands, Commit(h) PROVE KafkaInv' /\ KafkaOnceInOrder'
  <2>1. /\ h.next = "commit" /\ committed' = h.msg + 1
        /\ hands = {h}
        /\ hands' = {[h EXCEPT !.next = "send"]}
        /\ up /\ UNCHANGED <<up, pos, order, again>>
    BY <1>2, <1>b DEF Commit, At, GoOn, line, process
  <2>2. [h EXCEPT !.next = "send"].msg = h.msg /\ [h EXCEPT !.next = "send"].next = "send"
    BY DEF Shape
  <2>3. \A m \in Msgs : Comes(m)' => Comes(m)
    BY <1>b, <2>1, <2>2 DEF Comes
  <2> QED
    BY <1>b, <1>d, <2>1, <2>2, <2>3
<1>3. ASSUME NEW h \in hands, CommitFails(h) PROVE KafkaInv' /\ KafkaOnceInOrder'
  <2>1. /\ h.next = "commit" /\ committed' \in {committed, h.msg + 1}
        /\ hands' = {} /\ hands = {h}
        /\ UNCHANGED <<pos, order, again>>
    BY <1>3, <1>b DEF CommitFails, At, LetGo, Fault, line
  <2>2. \A m \in Msgs : Comes(m)' => Comes(m)
    BY <1>b, <2>1 DEF Comes
  <2> QED
    BY <1>b, <1>d, <2>1, <2>2
<1>4. ASSUME NEW h \in hands, Send(h) PROVE KafkaInv' /\ KafkaOnceInOrder'
  <2>1. /\ h.next = "send" /\ order' = Append(order, h.msg)
        /\ hands' = {}
        /\ UNCHANGED <<pos, committed, again>>
    BY <1>4, <1>b DEF Send, At, LetGo, Put, source, process
  <2>2. /\ Len(order') = Len(order) + 1
        /\ \A i \in 1 .. Len(order) : order'[i] = order[i]
        /\ order'[Len(order) + 1] = h.msg
        /\ order' \in Seq(Msgs)
    BY <2>1, <1>b, AppendProperties
  <2>3. committed = h.msg + 1 /\ h.msg \in Nat /\ h.msg \in Msgs
    BY <1>b, <2>1
  <2>4. \A i \in 1 .. Len(order') : i \in 1 .. Len(order) \/ i = Len(order) + 1
    BY <2>2, <1>b
  <2>5. ASSUME NEW m \in Msgs, Comes(m)', ~(again[m] > 0)
        PROVE  \A i \in 1 .. Len(order') : order'[i] < m
    <3>1. m >= pos \/ m >= committed
      BY <2>1, <2>5 DEF Comes
    <3>2. h.msg < m
      BY <1>b, <2>3, <2>5, <3>1
    <3>3. \A i \in 1 .. Len(order) : order[i] < m
      BY <2>5, <3>1 DEF KafkaInv, Comes
    <3> QED
      BY <2>2, <2>4, <3>2, <3>3
  <2>6. ASSUME NEW i \in DOMAIN order', NEW j \in DOMAIN order', i < j
        PROVE  order'[i] < order'[j] \/ again'[order'[j]] > 0
    <3>1. DOMAIN order' = 1 .. Len(order') /\ DOMAIN order = 1 .. Len(order)
      BY <2>2, <1>b
    <3>2. i \in 1 .. Len(order) /\ (j \in 1 .. Len(order) \/ j = Len(order) + 1)
      BY <3>1, <2>2, <2>4, <2>6, <1>b
    <3>3. CASE j \in 1 .. Len(order)
      BY <2>1, <2>2, <2>6, <3>1, <3>2, <3>3 DEF KafkaOnceInOrder
    <3>4. CASE j = Len(order) + 1
      <4>1. Comes(h.msg)
        BY DEF Comes
      <4>2. again[h.msg] > 0 \/ \A k \in 1 .. Len(order) : order[k] < h.msg
        BY <2>3, <4>1 DEF KafkaInv
      <4> QED
        BY <2>1, <2>2, <3>2, <3>4, <4>2
    <3> QED
      BY <3>2, <3>3, <3>4
  <2> QED
    BY <2>1, <2>5, <2>6, <1>a DEF KafkaOnceInOrder, KafkaInv
<1>5. ASSUME NEW h \in hands PROVE ~Offer(h)
  BY <1>b DEF Offer, At
<1>6. CASE Crash
  <2>1. hands' = {} /\ UNCHANGED <<pos, committed, order, again>>
    BY <1>6 DEF Crash
  <2>2. \A m \in Msgs : Comes(m)' => Comes(m)
    BY <2>1 DEF Comes
  <2> QED
    BY <1>d, <2>1, <2>2
<1>7. CASE Restart
  <2>1. hands = {} /\ hands' = {} /\ pos' = committed /\ UNCHANGED <<committed, order, again>>
    BY <1>7, <1>b DEF Restart, source, line
  <2>2. \A m \in Msgs : Comes(m)' => Comes(m)
    BY <2>1 DEF Comes
  <2> QED
    BY <1>d, <2>1, <2>2
<1>8. CASE Rebalance
  <2>1. /\ up /\ pos' = committed /\ Again(committed .. pos - 1)
        /\ UNCHANGED <<up, committed, hands, order>>
    BY <1>8 DEF Rebalance, Fault, source, line
  <2>2. /\ \A m \in Msgs : again'[m] >= again[m] /\ again'[m] \in Nat
        /\ \A m \in Msgs : committed <= m /\ m < pos => again'[m] = again[m] + 1
    <3>1. again \in [Msgs -> Nat] /\ again' \in [Msgs -> Nat]
      BY DEF Shape
    <3>2. \A m \in Msgs : committed <= m /\ m < pos => m \in committed .. pos - 1
      BY <1>b
    <3>3. \A m \in Msgs : /\ again'[m] >= again[m]
                          /\ m \in committed .. pos - 1 => again'[m] = again[m] + 1
      BY <2>1, <3>1, AgainGrows
    <3> QED
      BY <3>1, <3>2, <3>3
  <2>3. \A m \in Msgs : Comes(m)' => Comes(m)
    BY <2>1 DEF Comes
  <2>4. \A m \in Msgs : Comes(m)' => again'[m] > 0 \/ \A i \in 1 .. Len(order') : order'[i] < m
    BY <2>1, <2>2, <2>3, ComesLess
  <2>5. ASSUME NEW h \in hands, NEW m \in Msgs, committed <= m, m <= h.msg
        PROVE  again'[m] > 0
    <3>1. CASE m < pos
      BY <1>b, <2>2, <2>5, <3>1
    <3>2. CASE pos <= m
      BY <1>b, <2>2, <2>5, <3>2
    <3> QED
      BY <1>b, <3>1, <3>2
  <2>6. ASSUME NEW i \in DOMAIN order, NEW j \in DOMAIN order, i < j
        PROVE  order[i] < order[j] \/ again'[order[j]] > 0
    <3>1. order[j] \in Msgs
      BY <1>b, ElementOfSeq
    <3>2. order[i] < order[j] \/ again[order[j]] > 0
      BY <2>6 DEF KafkaOnceInOrder
    <3> QED
      BY <1>b, <2>2, <3>1, <3>2
  <2> QED
    BY <1>a, <1>b, <2>1, <2>4, <2>5, <2>6 DEF KafkaInv, KafkaOnceInOrder
<1>9. ASSUME UNCHANGED <<kind, up, committed, pos, hands, order>>,
             \A m \in Msgs : again'[m] \in {again[m], again[m] + 1} /\ again'[m] >= again[m]
      PROVE  KafkaInv' /\ KafkaOnceInOrder'
  <2>1. \A m \in Msgs : Comes(m)' => Comes(m)
    BY <1>9 DEF Comes
  <2>2. \A m \in Msgs : again'[m] >= again[m] /\ again'[m] \in Nat
    BY <1>b, <1>9
  <2>3. \A m \in Msgs : Comes(m)' => again'[m] > 0 \/ \A i \in 1 .. Len(order') : order'[i] < m
    BY <1>9, <2>1, <2>2, ComesLess
  <2>4. \A m \in Msgs : again[m] > 0 => again'[m] > 0
    BY <1>b, <1>9
  <2>5. ASSUME NEW i \in DOMAIN order, NEW j \in DOMAIN order, i < j
        PROVE  order[i] < order[j] \/ again'[order[j]] > 0
    <3>1. order[j] \in Msgs
      BY <1>b, ElementOfSeq
    <3> QED
      BY <2>4, <2>5, <3>1 DEF KafkaOnceInOrder
  <2> QED
    BY <1>b, <1>9, <2>3, <2>4, <2>5 DEF KafkaInv, KafkaOnceInOrder
<1> QED
  BY <1>1, <1>2, <1>3, <1>4, <1>5, <1>6, <1>7, <1>8, <1>9, KafkaElsewhere DEF Next, Receiver

(* Kafka messages enter in topic order and at most once, whatever crashes   *)
(* and commits do, but for those a rebalance has fetched again              *)
(* (kafka.go:69-155).                                                       *)
THEOREM KafkaAtMostOnce == Spec => []KafkaOnceInOrder
<1>1. Init => KafkaInv /\ KafkaOnceInOrder
  BY EmptySeq DEF Init, KafkaInv, KafkaOnceInOrder
<1>2. Shape /\ Shape' /\ KafkaInv /\ KafkaOnceInOrder /\ [Next]_vars
        => (KafkaInv /\ KafkaOnceInOrder)'
  BY KafkaStep
<1> QED
  BY <1>1, <1>2, ShapeHolds, PTL DEF Spec

-----------------------------------------------------------------------------
(* What sources are told                                                    *)

(* A step that tells nobody and moves no hand to its last step keeps what   *)
(* has been told true, since messages stay put or dropped.                  *)
LEMMA ToldKept ==
  ASSUME Shape, ToldInv, kind' = kind, told' = told, hands' \subseteq hands,
         \A m \in Msgs : puts[m] > 0 => puts'[m] > 0, dropped \subseteq dropped'
  PROVE  ToldInv'
<1>1. \A h \in hands' : h \in hands /\ h.msg \in Msgs
  BY DEF Shape
<1>2. told \subseteq Msgs
  BY DEF Shape
<1>3. ToldIsAccounted'
  BY <1>2 DEF ToldInv, ToldIsAccounted
<1> QED
  BY <1>1, <1>3 DEF ToldInv

(* A hand-over makes its message accounted for.                             *)
LEMMA HandOverAccounts ==
  ASSUME Shape, ToldInv, NEW h \in hands, Send(h) \/ Offer(h)
  PROVE  ToldInv'
<1>1. h.msg \in Msgs /\ told \in SUBSET Msgs /\ puts[h.msg] \in Nat
  BY DEF Shape
<1>2. UNCHANGED <<kind, told>>
  BY DEF Send, Offer, source, process
<1>3. \A m \in Msgs : puts[m] > 0 => puts'[m] > 0
  <2>1. puts' = [puts EXCEPT ![h.msg] = @ + 1] \/ puts' = puts
    BY DEF Send, Offer, Put, PutOrDrop
  <2>2. puts \in [Msgs -> Nat]
    BY DEF Shape
  <2> QED
    BY <1>1, <2>1, <2>2
<1>4. dropped \subseteq dropped'
  BY DEF Send, Offer, Put, PutOrDrop
<1>5. puts'[h.msg] > 0 \/ (h.msg \in dropped' /\ kind # "wait")
  <2>1. CASE Put(h.msg)
    BY <2>1, <1>1 DEF Put, Shape
  <2>2. CASE Offer(h) /\ ~Put(h.msg)
    BY <2>2 DEF Offer, PutOrDrop, At, ToldInv
  <2> QED
    BY <2>1, <2>2 DEF Send
<1>6. \A g \in hands' : g \in hands \/ (g.msg = h.msg /\ g.next = "tell")
  <2>1. [h EXCEPT !.next = "tell"].msg = h.msg /\ [h EXCEPT !.next = "tell"].next = "tell"
    BY DEF Shape
  <2> QED
    BY <2>1 DEF Send, Offer, GoOn, LetGo
<1>7. ToldIsAccounted'
  BY <1>1, <1>2, <1>3, <1>4 DEF ToldInv, ToldIsAccounted, Shape
<1>8. ASSUME NEW g \in hands'
      PROVE  /\ g.next = "tell" => puts'[g.msg] > 0 \/ (g.msg \in dropped' /\ kind' # "wait")
             /\ g.next = "offer" => kind' # "wait"
  <2>1. CASE g \in hands
    BY <2>1, <1>2, <1>3, <1>4 DEF ToldInv, Shape
  <2>2. CASE g.msg = h.msg /\ g.next = "tell"
    BY <2>2, <1>2, <1>5
  <2> QED
    BY <2>1, <2>2, <1>6
<1> QED
  BY <1>7, <1>8 DEF ToldInv

(* No source is told of a message that has vanished.                        *)
THEOREM ToldMessagesAccounted == Spec => []ToldIsAccounted
<1>1. Init => ToldInv
  BY DEF Init, ToldInv, ToldIsAccounted
<1>2. Shape /\ ToldInv /\ [Next]_vars => ToldInv'
  <2> SUFFICES ASSUME Shape, ToldInv, [Next]_vars PROVE ToldInv'
    OBVIOUS
  <2> USE DEF source, receiver, line, sink, process
  <2>1. CASE Fetch
    <3>1. kind = "kafka" /\ told' = told /\ puts' = puts /\ dropped' = dropped /\ kind' = kind
          /\ \A h \in hands' : h.next = "commit"
      BY <2>1 DEF Fetch
    <3> QED
      BY <3>1 DEF ToldInv, ToldIsAccounted
  <2>2. ASSUME NEW m \in Msgs, Receive(m) PROVE ToldInv'
    <3>1. kind = "pulsar" /\ told' = told /\ puts' = puts /\ dropped' = dropped /\ kind' = kind
          /\ \A h \in hands' : h.next = "offer"
      BY <2>2 DEF Receive
    <3> QED
      BY <3>1 DEF ToldInv, ToldIsAccounted
  <2>3. ASSUME NEW m \in Msgs, Arrive(m) PROVE ToldInv'
    <3>1. told' = told /\ puts' = puts /\ dropped' = dropped /\ kind' = kind
          /\ \A h \in hands' : h \in hands \/ h.next = "send" \/ (h.next = "offer" /\ kind = "drop")
      BY <2>3 DEF Arrive
    <3> QED
      BY <3>1 DEF ToldInv, ToldIsAccounted
  <2>4. ASSUME NEW h \in hands, Commit(h) PROVE ToldInv'
    <3>1. told' = told /\ puts' = puts /\ dropped' = dropped /\ kind' = kind
      BY <2>4 DEF Commit
    <3>2. \A g \in hands' : g \in hands \/ g.next = "send"
      <4>1. [h EXCEPT !.next = "send"].next = "send"
        BY DEF Shape
      <4> QED
        BY <2>4, <4>1 DEF Commit, GoOn
    <3> QED
      BY <3>1, <3>2 DEF ToldInv, ToldIsAccounted
  <2>5. ASSUME NEW h \in hands, Ack(h) \/ Answer(h) PROVE ToldInv'
    <3>1. h.next = "tell" /\ hands' \subseteq hands /\ told' \in {told, told \cup {h.msg}}
          /\ UNCHANGED <<puts, dropped, kind>>
      BY <2>5 DEF Ack, Answer, At, LetGo, Fault
    <3> QED
      BY <3>1 DEF ToldInv, ToldIsAccounted
  <2>6. CASE (\E m \in Msgs : GiveUp(m)) \/ (\E h \in hands : CommitFails(h) \/ Refuse(h))
             \/ Rebalance \/ Reconnect \/ Take \/ Close \/ HandOver \/ Upsert \/ Crash \/ Restart \/ UNCHANGED vars
    <3>1. kind' = kind /\ told' = told /\ hands' \subseteq hands /\ puts' = puts
          /\ dropped' = dropped
      BY <2>6 DEF GiveUp, CommitFails, Refuse, Rebalance, Reconnect, LetGo, Fault, Take, Close,
                  HandOver, Upsert, Crash, Restart, vars
    <3> QED
      BY <3>1, ToldKept
  <2> QED
    BY <2>1, <2>2, <2>3, <2>4, <2>5, <2>6, HandOverAccounts DEF Next, Receiver
<1>3. ToldInv => ToldIsAccounted
  BY DEF ToldInv
<1> QED
  BY <1>1, <1>2, <1>3, ShapeHolds, PTL DEF Spec

-----------------------------------------------------------------------------
(* How often a message is counted, skipped and stored.                      *)

(* What holds m and has yet to hand it over.                                *)
Pending(m) == {h \in hands : h.msg = m /\ h.next \in {"offer", "send"}}

(* A client that has its answer, or waits for it, does not send again.      *)
Known(m) == m \in told \/ \E k \in Tries : <<m, k>> \in waiting

(* How often m may have been handed over, or be about to be: of what the    *)
(* source had reason for, the copies that are still to come are left.       *)
Limit(m) ==
  IF kind = "pulsar" THEN 1 + crashes + again[m] - (IF up THEN due[m] ELSE 1) ELSE tries[m]

CountInv ==
  /\ IsFiniteSet(hands) /\ tries \in [Msgs -> Nat]
  /\ crashes \in 0 .. MaxCrashes /\ faults \in 0 .. MaxFaults
  /\ ~up => hands = {}
  /\ \A m \in Msgs : again[m] <= faults /\ due[m] <= 1 + again[m]
  /\ kind # "kafka" =>
       /\ \A h \in hands : h.next # "commit"
       /\ \A m \in Msgs : puts[m] + Cardinality(Pending(m)) <= Limit(m)
  /\ kind \in {"drop", "wait"} =>
       \A m \in Msgs : tries[m] <= crashes + again[m] + (IF Known(m) THEN 1 ELSE 0)

(* Kafka: a message is forwarded once, and once more for each rebalance     *)
(* that has it fetched again; what may still come is not yet counted.       *)
KafkaCount ==
  kind = "kafka" =>
    /\ \A m \in Msgs : puts[m] <= 1 + again[m] /\ (Comes(m) => puts[m] <= again[m])
    /\ \A h \in hands : h.msg >= pos => puts[h.msg] + 1 <= again[h.msg]

LEMMA PendingFinite ==
  ASSUME IsFiniteSet(hands)
  PROVE  \A m : IsFiniteSet(Pending(m)) /\ Cardinality(Pending(m)) \in Nat
  BY FS_Subset, FS_CardinalityType DEF Pending

(* Hands that come by without anything to hand over.                        *)
LEMMA PendingFewer ==
  ASSUME IsFiniteSet(hands), IsFiniteSet(hands'),
         \A g \in hands' : g \in hands \/ g.next \notin {"offer", "send"}
  PROVE  \A m : Cardinality(Pending(m))' <= Cardinality(Pending(m))
<1>1. \A m : Pending(m)' \subseteq Pending(m)
  BY DEF Pending
<1>2. QED
  BY <1>1, PendingFinite, FS_Subset

(* The hand-over itself.                                                    *)
LEMMA PendingLess ==
  ASSUME IsFiniteSet(hands), IsFiniteSet(hands'),
         \A g \in hands' : g \in hands \/ g.next \notin {"offer", "send"},
         NEW h \in hands, h.next \in {"offer", "send"}, h \notin hands'
  PROVE  Cardinality(Pending(h.msg))' <= Cardinality(Pending(h.msg)) - 1
<1> DEFINE P == Pending(h.msg)
<1>1. h \in P /\ Pending(h.msg)' \subseteq P \ {h}
  BY DEF Pending
<1>2. IsFiniteSet(P) /\ Cardinality(P) \in Nat
  BY PendingFinite
<1> HIDE DEF P
<1>3. IsFiniteSet(P \ {h}) /\ Cardinality(P \ {h}) = Cardinality(P) - 1
  BY <1>1, <1>2, FS_RemoveElement
<1>4. Cardinality(Pending(h.msg)') <= Cardinality(P \ {h})
  BY <1>1, <1>3, FS_Subset
<1>5. QED
  BY <1>3, <1>4 DEF P

(* A hand that is taken up.                                                 *)
LEMMA PendingMore ==
  ASSUME IsFiniteSet(hands), NEW g, hands' = hands \cup {g}
  PROVE  /\ IsFiniteSet(hands')
         /\ Cardinality(Pending(g.msg))' <= Cardinality(Pending(g.msg)) + 1
         /\ \A m : m # g.msg => Cardinality(Pending(m))' = Cardinality(Pending(m))
<1>1. IsFiniteSet(hands')
  BY FS_AddElement
<1> DEFINE P == Pending(g.msg)
<1>2. Pending(g.msg)' \subseteq P \cup {g} /\ \A m : m # g.msg => Pending(m)' = Pending(m)
  BY DEF Pending
<1>3. IsFiniteSet(P) /\ Cardinality(P) \in Nat
  BY PendingFinite
<1> HIDE DEF P
<1>4. IsFiniteSet(P \cup {g}) /\ Cardinality(P \cup {g}) <= Cardinality(P) + 1
  <2>1. /\ IsFiniteSet(P \cup {g})
        /\ Cardinality(P \cup {g}) = IF g \in P THEN Cardinality(P) ELSE Cardinality(P) + 1
    BY <1>3, FS_AddElement
  <2>2. QED
    BY <1>3, <2>1
<1>5. Cardinality(Pending(g.msg)') <= Cardinality(P \cup {g}) /\ Cardinality(Pending(g.msg)') \in Nat
  BY <1>2, <1>4, FS_Subset, FS_CardinalityType
<1>6. Cardinality(P \cup {g}) \in Nat
  BY <1>4, FS_CardinalityType
<1>7. Cardinality(Pending(g.msg)') <= Cardinality(P) + 1
  BY <1>3, <1>4, <1>5, <1>6
<1>8. QED
  BY <1>1, <1>2, <1>7 DEF P

LEMMA FewHands ==
  ASSUME IsFiniteSet(hands), NEW h \in hands,
         LetGo(h) \/ \E step : GoOn(h, step)
  PROVE  IsFiniteSet(hands')
<1>1. IsFiniteSet(hands \ {h})
  BY FS_RemoveElement
<1>2. ASSUME NEW step, GoOn(h, step) PROVE IsFiniteSet(hands')
  BY <1>1, <1>2, FS_AddElement DEF GoOn
<1>3. QED
  BY <1>1, <1>2 DEF LetGo

-----------------------------------------------------------------------------
(* A hand-over puts a message once, or drops it.                            *)
LEMMA PutOnce ==
  ASSUME Shape, NEW h \in hands, Send(h) \/ Offer(h)
  PROVE  /\ h.msg \in Msgs /\ puts'[h.msg] \in {puts[h.msg], puts[h.msg] + 1}
         /\ \A m \in Msgs \ {h.msg} : puts'[m] = puts[m]
         /\ h.next \in {"offer", "send"} /\ h \notin hands'
         /\ \A g \in hands' : g \in hands \/ g.next \notin {"offer", "send"}
         /\ LetGo(h) \/ \E step : GoOn(h, step)
<1>1. /\ h = [msg |-> h.msg, try |-> h.try, next |-> h.next] /\ h.msg \in Msgs
      /\ puts \in [Msgs -> Nat]
  BY DEF Shape
<1>2. [h EXCEPT !.next = "tell"] = [msg |-> h.msg, try |-> h.try, next |-> "tell"]
  BY <1>1
<1>3. h.next \in {"offer", "send"} /\ (LetGo(h) \/ GoOn(h, "tell"))
  BY DEF Send, Offer, At
<1>4. puts' = puts \/ puts' = [puts EXCEPT ![h.msg] = @ + 1]
  BY DEF Send, Offer, Put, PutOrDrop
<1>5. /\ h \notin hands' /\ \A g \in hands' : g \in hands \/ g.next \notin {"offer", "send"}
  <2>1. [h EXCEPT !.next = "tell"].next = "tell"
    BY <1>2
  <2>2. [h EXCEPT !.next = "tell"] # h
    BY <1>3, <2>1
  <2>3. QED
    BY <1>3, <2>1, <2>2 DEF LetGo, GoOn
<1>6. QED
  BY <1>1, <1>3, <1>4, <1>5

LEMMA CountStep ==
  ASSUME Shape, Shape', CountInv, [Next]_vars
  PROVE  CountInv'
<1> USE DEF source, receiver, line, sink, process
<1>a. /\ IsFiniteSet(hands) /\ tries \in [Msgs -> Nat] /\ puts \in [Msgs -> Nat]
      /\ crashes \in 0 .. MaxCrashes /\ faults \in 0 .. MaxFaults /\ crashes \in Nat /\ faults \in Nat
      /\ MaxCrashes \in Nat /\ MaxFaults \in Nat
      /\ due \in [Msgs -> Nat] /\ again \in [Msgs -> Nat]
      /\ due' \in [Msgs -> Nat] /\ again' \in [Msgs -> Nat]
      /\ \A m : IsFiniteSet(Pending(m)) /\ Cardinality(Pending(m)) \in Nat
      /\ ~up => hands = {}
      /\ \A m \in Msgs : again[m] <= faults /\ due[m] <= 1 + again[m]
      /\ kind # "kafka" => \A h \in hands : h.next # "commit"
      /\ kind # "kafka" => \A m \in Msgs : puts[m] + Cardinality(Pending(m)) <= Limit(m)
      /\ kind \in {"drop", "wait"} =>
           \A m \in Msgs : tries[m] <= crashes + again[m] + (IF Known(m) THEN 1 ELSE 0)
  <2>1. /\ puts \in [Msgs -> Nat]
        /\ due \in [Msgs -> Nat] /\ again \in [Msgs -> Nat]
        /\ due' \in [Msgs -> Nat] /\ again' \in [Msgs -> Nat]
    BY DEF Shape
  <2>2. MaxCrashes \in Nat /\ MaxFaults \in Nat
    BY DeliveryAssumption
  <2>3. crashes \in 0 .. MaxCrashes /\ faults \in 0 .. MaxFaults
    BY DEF CountInv
  <2>4. crashes \in Nat /\ faults \in Nat
    BY <2>2, <2>3
  <2>5. \A m : IsFiniteSet(Pending(m)) /\ Cardinality(Pending(m)) \in Nat
    BY PendingFinite DEF CountInv
  <2>6. QED
    BY <2>1, <2>2, <2>3, <2>4, <2>5, Zenon DEF CountInv
<1>b. Fault => faults' \in 0 .. MaxFaults /\ faults' = faults + 1 /\ UNCHANGED <<kind, up, crashes>>
  BY <1>a DEF Fault
<1>l. ASSUME NEW m \in Msgs
      PROVE  /\ Limit(m) \in Int
             /\ kind # "pulsar" => Limit(m) = tries[m]
             /\ kind = "pulsar" /\ up => Limit(m) = 1 + crashes + again[m] - due[m]
             /\ kind = "pulsar" /\ ~up => Limit(m) = crashes + again[m]
  <2>1. tries[m] \in Nat /\ crashes \in Nat /\ again[m] \in Nat /\ due[m] \in Nat
    BY <1>a
  <2>2. CASE kind # "pulsar"
    BY <2>1, <2>2 DEF Limit
  <2>3. CASE kind = "pulsar"
    BY <2>1, <2>3 DEF Limit
  <2>4. QED
    BY <2>2, <2>3
<1>m. ASSUME crashes' \in Nat, tries' \in [Msgs -> Nat], NEW m \in Msgs
      PROVE  /\ Limit(m)' \in Int
             /\ kind' # "pulsar" => Limit(m)' = tries'[m]
             /\ kind' = "pulsar" /\ up' => Limit(m)' = 1 + crashes' + again'[m] - due'[m]
             /\ kind' = "pulsar" /\ ~up' => Limit(m)' = crashes' + again'[m]
  <2>1. tries'[m] \in Nat /\ crashes' \in Nat /\ again'[m] \in Nat /\ due'[m] \in Nat
    BY <1>a, <1>m
  <2>2. CASE kind' # "pulsar"
    BY <2>1, <2>2 DEF Limit
  <2>3. CASE kind' = "pulsar"
    BY <2>1, <2>3 DEF Limit
  <2>4. QED
    BY <2>2, <2>3
\* a message may come again only by a fault
<1>n. ASSUME \/ faults' = faults /\ again' = again
             \/ faults' = faults + 1 /\ \E ms : Again(ms)
      PROVE  \A m \in Msgs : /\ again'[m] \in {again[m], again[m] + 1}
                             /\ again'[m] >= again[m] /\ again'[m] <= faults'
  <2>1. \A m \in Msgs : again[m] \in Nat /\ again[m] <= faults
    BY <1>a
  <2>2. CASE faults' = faults /\ again' = again
    BY <2>1, <2>2
  <2>3. ASSUME faults' = faults + 1, NEW ms, Again(ms)
        PROVE  \A m \in Msgs : /\ again'[m] \in {again[m], again[m] + 1}
                               /\ again'[m] >= again[m] /\ again'[m] <= faults'
    <3>1. \A m \in Msgs : again'[m] \in {again[m], again[m] + 1} /\ again'[m] >= again[m]
      BY <1>a, <2>3, AgainGrows
    <3>2. QED
      BY <1>a, <2>1, <2>3, <3>1
  <2>4. QED
    BY <1>n, <2>2, <2>3
\* nothing is handed over, taken up or sent
<1>c. ASSUME UNCHANGED <<kind, up, crashes, due, puts, tries, hands>>, faults' \in 0 .. MaxFaults,
             \/ faults' = faults /\ again' = again
             \/ faults' = faults + 1 /\ \E ms : Again(ms),
             \A m \in Msgs : again'[m] = again[m] /\ Known(m) => Known(m)'
      PROVE  CountInv'
  <2>1. \A m : Pending(m)' = Pending(m)
    BY <1>c DEF Pending
  <2>2. ASSUME NEW m \in Msgs
        PROVE  /\ again[m] \in Nat /\ again'[m] \in {again[m], again[m] + 1}
               /\ again'[m] >= again[m] /\ again'[m] <= faults'
    BY <1>a, <1>c, <1>n
  <2>3. ASSUME NEW m \in Msgs PROVE Limit(m) <= Limit(m)' /\ Limit(m) \in Int /\ Limit(m)' \in Int
    <3>1. crashes' \in Nat /\ tries' \in [Msgs -> Nat] /\ tries[m] \in Nat /\ due[m] \in Nat
      BY <1>a, <1>c
    <3>2. CASE kind # "pulsar"
      BY <1>c, <1>l, <1>m, <3>1, <3>2
    <3>3. CASE kind = "pulsar" /\ up
      BY <1>a, <1>c, <1>l, <1>m, <2>2, <3>1, <3>3
    <3>4. CASE kind = "pulsar" /\ ~up
      BY <1>a, <1>c, <1>l, <1>m, <2>2, <3>1, <3>4
    <3>5. QED
      BY <3>2, <3>3, <3>4
  <2>4. ASSUME kind \in {"drop", "wait"}, NEW m \in Msgs
        PROVE  tries[m] <= crashes + again'[m] + (IF Known(m)' THEN 1 ELSE 0)
    <3>1. tries[m] <= crashes + again[m] + (IF Known(m) THEN 1 ELSE 0) /\ tries[m] \in Nat
      BY <1>a, <2>4
    <3>2. CASE again'[m] = again[m] + 1
      BY <1>a, <2>2, <3>1, <3>2
    <3>3. CASE again'[m] = again[m]
      <4>1. Known(m) => Known(m)'
        BY <1>c, <3>3
      <4>2. QED
        BY <1>a, <3>1, <3>3, <4>1
    <3>4. QED
      BY <2>2, <3>2, <3>3
  <2>5. ASSUME kind # "kafka", NEW m \in Msgs PROVE puts[m] + Cardinality(Pending(m)') <= Limit(m)'
    <3>1. puts[m] + Cardinality(Pending(m)) <= Limit(m) /\ puts[m] \in Nat
      BY <1>a, <2>5
    <3>2. QED
      BY <1>a, <2>1, <2>3, <3>1
  <2>6. \A m \in Msgs : again'[m] <= faults' /\ due'[m] <= 1 + again'[m]
    <3>1. ASSUME NEW m \in Msgs PROVE due'[m] <= 1 + again'[m]
      <4>1. due[m] \in Nat /\ due[m] <= 1 + again[m] /\ due'[m] = due[m]
        BY <1>a, <1>c
      <4>2. QED
        BY <2>2, <4>1
    <3>2. QED
      BY <2>2, <3>1
  <2>7. QED
    BY <1>a, <1>c, <2>1, <2>4, <2>5, <2>6 DEF CountInv
<1>1. CASE Fetch
  <2>1. kind' = "kafka" /\ up' /\ IsFiniteSet(hands') /\ UNCHANGED <<due, again, faults>>
    BY <1>1, FS_Singleton DEF Fetch
  <2>2. QED
    BY <1>1, <1>a, <2>1 DEF Fetch, CountInv
<1>2. ASSUME NEW m \in Msgs, GiveUp(m) PROVE CountInv'
  <2>1. /\ UNCHANGED <<kind, up, crashes, due, puts, tries, hands, told>> /\ Again({m})
        /\ faults' = faults + 1 /\ faults' \in 0 .. MaxFaults
        /\ \E k \in Tries : waiting' = waiting \ {<<m, k>>}
    BY <1>2, <1>b DEF GiveUp
  <2>2. ASSUME NEW n \in Msgs, again'[n] = again[n], Known(n) PROVE Known(n)'
    <3>1. n # m
      <4>1. again'[m] = again[m] + 1 /\ again[m] \in Nat
        <5>1. m \in {m} /\ again \in [Msgs -> Nat]
          BY <1>a
        <5>2. QED
          BY <2>1, <5>1, AgainGrows
      <4>2. QED
        BY <2>2, <4>1
    <3>2. QED
      BY <2>1, <2>2, <3>1 DEF Known
  <2>3. QED
    BY <1>c, <2>1, <2>2
<1>3. CASE Take \/ Close \/ HandOver \/ Upsert \/ UNCHANGED vars
  <2>1. UNCHANGED <<kind, up, crashes, faults, due, puts, tries, hands, told, waiting, again>>
    BY <1>3 DEF Take, Close, HandOver, Upsert, vars
  <2>2. \A m \in Msgs : Known(m)' = Known(m)
    BY <2>1 DEF Known
  <2>3. /\ UNCHANGED <<kind, up, crashes, due, puts, tries, hands>> /\ faults' \in 0 .. MaxFaults
        /\ faults' = faults /\ again' = again
    BY <1>a, <2>1
  <2>4. QED
    BY <1>c, <2>2, <2>3
<1>12. CASE Rebalance
  <2>1. /\ UNCHANGED <<kind, up, crashes, due, puts, tries, hands, told, waiting>>
        /\ faults' = faults + 1 /\ faults' \in 0 .. MaxFaults /\ \E ms : Again(ms)
    BY <1>12, <1>b DEF Rebalance
  <2>2. \A m \in Msgs : Known(m)' = Known(m)
    BY <2>1 DEF Known
  <2>3. QED
    BY <1>c, <2>1, <2>2
<1>13. CASE Reconnect
  <2>1. /\ kind = "pulsar" /\ up /\ UNCHANGED <<kind, up, crashes, puts, tries, hands>>
        /\ faults' = faults + 1 /\ faults' \in 0 .. MaxFaults /\ Again(Msgs \ told)
    BY <1>13, <1>b DEF Reconnect
  <2>2. \A m : Pending(m)' = Pending(m)
    BY <2>1 DEF Pending
  <2>3. ASSUME NEW m \in Msgs
        PROVE  /\ again'[m] <= faults' /\ again'[m] >= again[m]
               /\ due'[m] - due[m] <= again'[m] - again[m]
    <3>1. again[m] \in Nat /\ due[m] \in Nat /\ again'[m] \in Nat /\ due'[m] \in Nat
      BY <1>a
    <3>2. again'[m] \in {again[m], again[m] + 1} /\ again'[m] >= again[m] /\ again'[m] <= faults'
      BY <1>n, <2>1
    <3>3. CASE m \in told
      <4>1. due'[m] <= due[m]
        BY <1>13, <1>a, <3>3, DueGrows
      <4>2. QED
        BY <3>1, <3>2, <4>1
    <3>4. CASE m \notin told
      <4>1. due'[m] <= due[m] + 1
        BY <1>13, <1>a, <3>4, DueGrows
      <4>2. again'[m] = again[m] + 1
        <5>1. m \in Msgs \ told /\ again \in [Msgs -> Nat]
          BY <1>a, <3>4
        <5>2. QED
          BY <2>1, <5>1, AgainGrows
      <4>3. QED
        BY <3>1, <3>2, <4>1, <4>2
    <3>5. QED
      BY <3>3, <3>4
  <2>4. ASSUME NEW m \in Msgs
        PROVE  puts[m] + Cardinality(Pending(m)') <= Limit(m)' /\ due'[m] <= 1 + again'[m]
    <3>1. /\ puts[m] + Cardinality(Pending(m)) <= 1 + crashes + again[m] - due[m]
          /\ puts[m] \in Nat /\ due[m] <= 1 + again[m]
      BY <1>a, <1>l, <2>1
    <3>2. Limit(m)' = 1 + crashes + again'[m] - due'[m]
      BY <1>a, <1>m, <2>1
    <3>3. again[m] \in Nat /\ due[m] \in Nat /\ again'[m] \in Nat /\ due'[m] \in Nat
      BY <1>a
    <3>4. QED
      BY <1>a, <2>2, <2>3, <3>1, <3>2, <3>3
  <2>5. QED
    BY <1>a, <2>1, <2>3, <2>4 DEF CountInv
<1>4. ASSUME NEW m \in Msgs, Receive(m) PROVE CountInv'
  <2> DEFINE g == [msg |-> m, try |-> 1, next |-> "offer"]
  <2>1. /\ kind = "pulsar" /\ up /\ hands = {} /\ due[m] > 0 /\ due' = [due EXCEPT ![m] = @ - 1]
        /\ hands' = {g} /\ UNCHANGED <<kind, up, crashes, faults, puts, tries, again>>
    BY <1>4 DEF Receive
  <2>2. /\ IsFiniteSet(hands') /\ Cardinality(Pending(m))' <= Cardinality(Pending(m)) + 1
        /\ Cardinality(Pending(m)') \in Nat
        /\ \A n : n # m => Cardinality(Pending(n))' = Cardinality(Pending(n))
    <3>1. hands' = hands \cup {g} /\ g.msg = m
      BY <2>1
    <3>2. IsFiniteSet(hands')
      BY <2>1, FS_Singleton
    <3>3. IsFiniteSet(Pending(m)') /\ Cardinality(Pending(m)') \in Nat
      BY <3>2, FS_Subset, FS_CardinalityType DEF Pending
    <3>4. QED
      BY <1>a, <3>1, <3>2, <3>3, PendingMore
  <2>3. ASSUME NEW n \in Msgs
        PROVE  puts[n] + Cardinality(Pending(n)') <= Limit(n)' /\ due'[n] <= 1 + again[n]
    <3>1. /\ puts[n] + Cardinality(Pending(n)) <= 1 + crashes + again[n] - due[n]
          /\ puts[n] \in Nat /\ due[n] <= 1 + again[n] /\ due[n] \in Nat /\ again[n] \in Nat
      BY <1>a, <1>l, <2>1
    <3>2. Limit(n)' = 1 + crashes + again[n] - due'[n]
      BY <1>a, <1>m, <2>1
    <3>3. CASE n = m
      <4>1. due'[n] = due[n] - 1
        BY <1>a, <2>1, <3>3
      <4>2. QED
        BY <1>a, <2>2, <3>1, <3>2, <3>3, <4>1
    <3>4. CASE n # m
      <4>1. due'[n] = due[n]
        BY <1>a, <2>1, <3>4
      <4>2. QED
        BY <2>2, <3>1, <3>2, <3>4, <4>1
    <3>5. QED
      BY <3>3, <3>4
  <2>4. QED
    BY <1>a, <2>1, <2>2, <2>3 DEF CountInv
<1>5. ASSUME NEW m \in Msgs, Arrive(m) PROVE CountInv'
  <2> DEFINE g == [msg |-> m, try |-> tries'[m], next |-> IF kind = "drop" THEN "offer" ELSE "send"]
  <2>1. /\ kind \in {"drop", "wait"} /\ up /\ ~Known(m)
        /\ tries' = [tries EXCEPT ![m] = @ + 1] /\ waiting' = waiting \cup {<<m, tries'[m]>>}
        /\ hands' = hands \cup {g}
        /\ UNCHANGED <<kind, up, crashes, faults, puts, due, told, again>>
    BY <1>5 DEF Arrive, Known
  <2>2. tries[m] \in Nat /\ tries'[m] = tries[m] + 1 /\ \A n \in Msgs \ {m} : tries'[n] = tries[n]
    BY <1>a, <2>1
  <2>3. tries[m] <= crashes + again[m] /\ again[m] \in Nat /\ again[m] <= faults
    BY <1>a, <2>1, <2>2
  <2>4. tries'[m] \in Tries
    <3>1. tries[m] <= MaxCrashes + MaxFaults
      BY <1>a, <2>2, <2>3
    <3>2. QED
      BY <1>a, <2>2, <3>1 DEF Tries
  <2>5. /\ IsFiniteSet(hands') /\ Cardinality(Pending(m))' <= Cardinality(Pending(m)) + 1
        /\ Cardinality(Pending(m)') \in Nat
        /\ \A n : n # m => Cardinality(Pending(n))' = Cardinality(Pending(n))
    <3>1. g.msg = m
      OBVIOUS
    <3>2. IsFiniteSet(hands')
      BY <1>a, <2>1, FS_AddElement
    <3>3. IsFiniteSet(Pending(m)') /\ Cardinality(Pending(m)') \in Nat
      BY <3>2, FS_Subset, FS_CardinalityType DEF Pending
    <3>4. QED
      BY <1>a, <2>1, <3>1, <3>2, <3>3, PendingMore
  <2>9. tries' \in [Msgs -> Nat]
    BY <1>a, <2>1, <2>2
  <2>6. ASSUME NEW n \in Msgs PROVE puts[n] + Cardinality(Pending(n)') <= Limit(n)'
    <3>1. puts[n] + Cardinality(Pending(n)) <= tries[n] /\ puts[n] \in Nat /\ Limit(n)' = tries'[n]
      BY <1>a, <1>l, <1>m, <2>1, <2>9
    <3>2. QED
      BY <1>a, <2>2, <2>5, <3>1
  <2>7. ASSUME NEW n \in Msgs
        PROVE  tries'[n] <= crashes + again[n] + (IF Known(n)' THEN 1 ELSE 0)
    <3>1. CASE n = m
      <4>1. Known(m)'
        BY <2>1, <2>4 DEF Known
      <4>2. QED
        BY <1>a, <2>2, <2>3, <3>1, <4>1
    <3>2. CASE n # m
      <4>1. Known(n) => Known(n)'
        BY <2>1 DEF Known
      <4>2. /\ tries[n] <= crashes + again[n] + (IF Known(n) THEN 1 ELSE 0)
            /\ tries[n] \in Nat /\ again[n] \in Nat
        BY <1>a, <2>1
      <4>3. QED
        BY <1>a, <2>2, <3>2, <4>1, <4>2
    <3>3. QED
      BY <3>1, <3>2
  <2>8. \A h \in hands' : h.next # "commit"
    BY <1>a, <2>1
  <2>10. QED
    BY <1>a, <2>1, <2>5, <2>6, <2>7, <2>8, <2>9 DEF CountInv
<1>6. ASSUME NEW h \in hands, Commit(h) \/ CommitFails(h) PROVE CountInv'
  <2>1. h.next = "commit" /\ (LetGo(h) \/ GoOn(h, "send"))
        /\ UNCHANGED <<kind, up, crashes, tries, due, again>> /\ faults' \in 0 .. MaxFaults
        /\ faults' \in {faults, faults + 1}
    BY <1>6, <1>a, <1>b DEF Commit, CommitFails, At
  <2>2. kind = "kafka" /\ up /\ IsFiniteSet(hands')
    BY <1>a, <2>1, FewHands
  <2>3. \A m \in Msgs : again[m] <= faults'
    BY <1>a, <2>1
  <2>4. QED
    BY <1>a, <2>1, <2>2, <2>3 DEF CountInv
<1>7. ASSUME NEW h \in hands, Send(h) \/ Offer(h) PROVE CountInv'
  <2>1. UNCHANGED <<kind, up, crashes, faults, due, tries, told, waiting, again>>
    BY <1>7 DEF Send, Offer
  <2>2. /\ h.msg \in Msgs /\ puts'[h.msg] \in {puts[h.msg], puts[h.msg] + 1}
        /\ \A m \in Msgs \ {h.msg} : puts'[m] = puts[m]
        /\ h.next \in {"offer", "send"} /\ h \notin hands'
        /\ \A g \in hands' : g \in hands \/ g.next \notin {"offer", "send"}
        /\ IsFiniteSet(hands')
    BY <1>7, <1>a, PutOnce, FewHands
  <2>3. /\ Cardinality(Pending(h.msg))' <= Cardinality(Pending(h.msg)) - 1
        /\ \A m : Cardinality(Pending(m))' <= Cardinality(Pending(m))
    BY <1>a, <2>2, PendingLess, PendingFewer
  <2>4. \A m : IsFiniteSet(Pending(m)') /\ Cardinality(Pending(m)') \in Nat
    BY <2>2, FS_Subset, FS_CardinalityType DEF Pending
  <2>5. ASSUME kind # "kafka", NEW m \in Msgs
        PROVE  puts'[m] + Cardinality(Pending(m)') <= Limit(m)'
    <3>1. Limit(m)' = Limit(m) /\ Limit(m) \in Int
      <4>1. Limit(m)' = Limit(m)
        BY <2>1 DEF Limit
      <4>2. QED
        BY <1>l, <4>1
    <3>2. puts[m] + Cardinality(Pending(m)) <= Limit(m) /\ puts[m] \in Nat
      BY <1>a, <2>5
    <3>3. QED
      BY <1>a, <2>2, <2>3, <2>4, <3>1, <3>2
  <2>6. \A m : Known(m)' = Known(m)
    BY <2>1 DEF Known
  <2>7. kind # "kafka" => \A g \in hands' : g.next # "commit"
    <3>1. ASSUME NEW g \in hands', g \notin hands PROVE g.next = "tell"
      <4>1. [h EXCEPT !.next = "tell"].next = "tell"
        BY DEF Shape
      <4>2. QED
        BY <1>7, <3>1, <4>1 DEF Send, Offer, LetGo, GoOn
    <3>2. QED
      BY <1>a, <3>1
  <2>8. up
    BY <1>a
  <2>9. QED
    BY <1>a, <2>1, <2>2, <2>5, <2>6, <2>7, <2>8 DEF CountInv
<1>8. ASSUME NEW h \in hands, Ack(h) \/ Answer(h) \/ Refuse(h) PROVE CountInv'
  <2>1. /\ LetGo(h) /\ UNCHANGED <<kind, up, crashes, puts, tries, due>>
        /\ faults' \in 0 .. MaxFaults /\ kind # "kafka" /\ up
        /\ \/ faults' = faults /\ again' = again
           \/ faults' = faults + 1 /\ again' = again
           \/ faults' = faults + 1 /\ \E ms : Again(ms)
    BY <1>8, <1>a, <1>b DEF Ack, Answer, Refuse
  <2>2. IsFiniteSet(hands') /\ hands' \subseteq hands
    BY <1>a, <2>1, FewHands DEF LetGo
  <2>3. \A m : /\ IsFiniteSet(Pending(m)') /\ Cardinality(Pending(m)') \in Nat
               /\ Cardinality(Pending(m)') <= Cardinality(Pending(m))
    BY <1>a, <2>2, PendingFewer, FS_Subset, FS_CardinalityType DEF Pending
  <2>7. ASSUME NEW m \in Msgs
        PROVE  /\ again[m] \in Nat /\ again'[m] \in {again[m], again[m] + 1}
               /\ again'[m] >= again[m] /\ again'[m] <= faults' /\ due'[m] <= 1 + again'[m]
    <3>1. again[m] \in Nat /\ again[m] <= faults /\ due[m] <= 1 + again[m] /\ due[m] \in Nat
      BY <1>a
    <3>2. CASE again' = again
      BY <1>a, <2>1, <3>1, <3>2
    <3>3. CASE faults' = faults + 1 /\ \E ms : Again(ms)
      <4>1. again'[m] \in {again[m], again[m] + 1} /\ again'[m] >= again[m] /\ again'[m] <= faults'
        BY <1>n, <3>3
      <4>2. QED
        BY <2>1, <3>1, <4>1
    <3>4. QED
      BY <2>1, <3>2, <3>3
  <2>4. ASSUME NEW m \in Msgs PROVE puts[m] + Cardinality(Pending(m)') <= Limit(m)'
    <3>1. Limit(m)' >= Limit(m) /\ Limit(m) \in Int /\ Limit(m)' \in Int
      <4>1. due[m] \in Nat /\ tries[m] \in Nat
        BY <1>a
      <4>2. CASE kind # "pulsar"
        BY <1>a, <1>l, <1>m, <2>1, <4>1, <4>2
      <4>3. CASE kind = "pulsar"
        BY <1>a, <1>l, <1>m, <2>1, <2>7, <4>1, <4>3
      <4>4. QED
        BY <4>2, <4>3
    <3>2. puts[m] + Cardinality(Pending(m)) <= Limit(m) /\ puts[m] \in Nat
      BY <1>a, <2>1
    <3>3. QED
      BY <1>a, <2>3, <3>1, <3>2
  <2>5. ASSUME kind \in {"drop", "wait"}, NEW m \in Msgs
        PROVE  tries[m] <= crashes + again'[m] + (IF Known(m)' THEN 1 ELSE 0)
    <3>1. tries[m] <= crashes + again[m] + (IF Known(m) THEN 1 ELSE 0) /\ tries[m] \in Nat
      BY <1>a, <2>5
    <3>2. CASE again'[m] = again[m] + 1
      BY <1>a, <2>7, <3>1, <3>2
    <3>3. CASE again'[m] = again[m] /\ ~Refuse(h)
      <4>1. Known(m) => Known(m)'
        BY <1>8, <2>5, <3>3 DEF Ack, Answer, Known
      <4>2. QED
        BY <1>a, <3>1, <3>3, <4>1
    <3>4. CASE again'[m] = again[m] /\ Refuse(h)
      <4>1. m # h.msg \/ <<h.msg, h.try>> \notin waiting
        <5>1. SUFFICES ASSUME m = h.msg, <<h.msg, h.try>> \in waiting PROVE FALSE
          OBVIOUS
        <5>2. again'[m] = again[m] + 1
          BY <1>a, <3>4, <5>1, AgainGrows DEF Refuse
        <5>3. QED
          BY <2>7, <3>4, <5>2
      <4>2. Known(m) => Known(m)'
        BY <3>4, <4>1 DEF Refuse, Known
      <4>3. QED
        BY <1>a, <3>1, <3>4, <4>2
    <3>5. QED
      BY <2>7, <3>2, <3>3, <3>4
  <2>6. QED
    BY <1>a, <2>1, <2>2, <2>4, <2>5, <2>7 DEF CountInv
<1>9. CASE Crash
  <2>1. /\ up /\ ~up' /\ crashes' = crashes + 1 /\ crashes' \in 0 .. MaxCrashes /\ hands' = {}
        /\ UNCHANGED <<kind, faults, puts, tries, due, told, again>>
    BY <1>9, <1>a DEF Crash
  <2>2. IsFiniteSet(hands') /\ \A m : Cardinality(Pending(m)') = 0
    <3>1. \A m : Pending(m)' = {}
      BY <2>1 DEF Pending
    <3>2. QED
      BY <2>1, <3>1, FS_EmptySet
  <2>3. ASSUME kind # "kafka", NEW m \in Msgs PROVE puts[m] + 0 <= Limit(m)'
    <3>1. puts[m] + Cardinality(Pending(m)) <= Limit(m) /\ puts[m] \in Nat
      BY <1>a, <2>3
    <3>2. Limit(m) <= Limit(m)' /\ Limit(m) \in Int /\ Limit(m)' \in Int
      <4>1. due[m] \in Nat /\ tries[m] \in Nat /\ again[m] \in Nat
        BY <1>a
      <4>2. CASE kind # "pulsar"
        BY <1>a, <1>l, <1>m, <2>1, <4>1, <4>2
      <4>3. CASE kind = "pulsar"
        BY <1>a, <1>l, <1>m, <2>1, <4>1, <4>3
      <4>4. QED
        BY <4>2, <4>3
    <3>3. QED
      BY <1>a, <3>1, <3>2
  <2>4. ASSUME kind \in {"drop", "wait"}, NEW m \in Msgs
        PROVE  tries[m] <= crashes' + again[m] + (IF Known(m)' THEN 1 ELSE 0)
    <3>1. /\ tries[m] <= crashes + again[m] + (IF Known(m) THEN 1 ELSE 0)
          /\ tries[m] \in Nat /\ again[m] \in Nat
      BY <1>a, <2>4
    <3>2. QED
      BY <1>a, <2>1, <3>1
  <2>5. QED
    BY <1>a, <2>1, <2>2, <2>3, <2>4 DEF CountInv
<1>10. CASE Restart
  <2>1. /\ ~up /\ up' /\ due' = Unacked /\ hands = {}
        /\ UNCHANGED <<kind, crashes, faults, hands, puts, tries, told, waiting, again>>
    BY <1>10, <1>a DEF Restart
  <2>2. \A m : Pending(m)' = Pending(m) /\ (Known(m)' <=> Known(m))
    BY <2>1 DEF Pending, Known
  <2>3. ASSUME NEW m \in Msgs PROVE due'[m] <= 1 + again[m] /\ Limit(m)' >= Limit(m)
    <3>1. due'[m] \in {0, 1} /\ again[m] \in Nat /\ tries[m] \in Nat
      BY <1>a, <2>1 DEF Unacked
    <3>2. CASE kind # "pulsar"
      BY <1>a, <1>l, <1>m, <2>1, <3>1, <3>2
    <3>3. CASE kind = "pulsar"
      BY <1>a, <1>l, <1>m, <2>1, <3>1, <3>3
    <3>4. QED
      BY <3>2, <3>3
  <2>4. ASSUME kind # "kafka", NEW m \in Msgs PROVE puts[m] + Cardinality(Pending(m)') <= Limit(m)'
    <3>1. puts[m] + Cardinality(Pending(m)) <= Limit(m) /\ puts[m] \in Nat
      BY <1>a, <2>4
    <3>2. Limit(m) \in Int /\ Limit(m)' \in Int
      BY <1>a, <1>l, <1>m, <2>1
    <3>3. QED
      BY <1>a, <2>2, <2>3, <3>1, <3>2
  <2>5. QED
    BY <1>a, <2>1, <2>2, <2>3, <2>4 DEF CountInv
<1>11. QED
  BY <1>1, <1>2, <1>3, <1>4, <1>5, <1>6, <1>7, <1>8, <1>9, <1>10, <1>12, <1>13 DEF Next, Receiver

LEMMA CountInit == Init => CountInv
<1> SUFFICES ASSUME Init PROVE CountInv
  OBVIOUS
<1>1. hands = {} /\ IsFiniteSet(hands) /\ \A m : Cardinality(Pending(m)) = 0
  <2>1. hands = {} /\ \A m : Pending(m) = {}
    BY DEF Init, Pending
  <2>2. QED
    BY <2>1, FS_EmptySet
<1>2. \A m \in Msgs : due[m] \in {0, 1}
  BY DEF Init, Unacked
<1>3. ASSUME kind # "kafka", NEW m \in Msgs PROVE puts[m] + Cardinality(Pending(m)) <= Limit(m)
  BY <1>1, <1>2 DEF Init, Limit
<1>4. QED
  BY <1>1, <1>2, <1>3, DeliveryAssumption DEF Init, CountInv

-----------------------------------------------------------------------------
(* Kafka: what may come has been put less often than it was to come.        *)
LEMMA KafkaCountStep ==
  ASSUME Shape, Shape', KafkaInv, KafkaCount, CountInv, [Next]_vars
  PROVE  KafkaCount'
<1> USE DEF source, receiver, line, sink, process
<1>a. kind' = kind
  BY DEF Next, Receiver, Fetch, Receive, Arrive, GiveUp, Commit, CommitFails, Send, Offer, Refuse,
         Rebalance, Reconnect, Ack, Answer, Take, Close, HandOver, Upsert, Crash, Restart, Fault, vars
<1> SUFFICES ASSUME kind = "kafka" PROVE KafkaCount'
  BY <1>a DEF KafkaCount
<1>b. /\ committed \in Nat /\ pos \in Nat /\ puts \in [Msgs -> Nat] /\ again \in [Msgs -> Nat]
      /\ \A m \in Msgs : /\ m \in Nat /\ puts[m] \in Nat /\ again[m] \in Nat /\ again'[m] \in Nat
                         /\ puts[m] <= 1 + again[m] /\ (Comes(m) => puts[m] <= again[m])
      /\ \A h \in hands : /\ h.msg \in Msgs /\ h.next \in {"commit", "send"}
                          /\ h.next = "send" => committed = h.msg + 1
                          /\ h.msg >= pos => puts[h.msg] + 1 <= again[h.msg]
      /\ \A g, h \in hands : g = h
      /\ ~up => hands = {}
  BY DeliveryAssumption DEF Shape, KafkaInv, KafkaCount, Msgs
<1>c. ASSUME puts' = puts, \A m \in Msgs : again'[m] >= again[m] /\ (Comes(m)' => Comes(m)),
             \A h \in hands' : h.msg >= pos' => puts[h.msg] + 1 <= again'[h.msg]
      PROVE  KafkaCount'
  <2>1. \A m \in Msgs : puts'[m] <= 1 + again'[m] /\ (Comes(m)' => puts'[m] <= again'[m])
    BY <1>b, <1>c
  <2>2. QED
    BY <1>c, <2>1 DEF KafkaCount
<1>1. CASE Fetch
  <2>1. /\ hands' = {[msg |-> pos, try |-> 1, next |-> "commit"]} /\ pos' = pos + 1 /\ pos \in Msgs
        /\ UNCHANGED <<committed, puts, again>>
    BY <1>1 DEF Fetch
  <2>2. \A m \in Msgs : Comes(m)' => Comes(m)
    BY <1>b, <2>1 DEF Comes
  <2>3. QED
    BY <1>b, <1>c, <2>1, <2>2
<1>2. ASSUME NEW h \in hands, Commit(h) \/ CommitFails(h) PROVE KafkaCount'
  <2>1. /\ h.next = "commit" /\ committed' \in {committed, h.msg + 1} /\ hands = {h}
        /\ UNCHANGED <<puts, again, pos>>
    BY <1>2, <1>b DEF Commit, CommitFails, At
  <2>2. hands' = {} \/ hands' = {[h EXCEPT !.next = "send"]}
    BY <1>2, <2>1 DEF Commit, CommitFails, GoOn, LetGo
  <2>3. [h EXCEPT !.next = "send"].msg = h.msg /\ [h EXCEPT !.next = "send"].next = "send"
    BY DEF Shape
  <2>4. ASSUME NEW m \in Msgs, Comes(m)' PROVE Comes(m)
    <3>1. m \in Nat /\ h.msg \in Nat /\ committed \in Nat
      BY <1>b
    <3>2. m >= pos \/ m >= committed' \/ (hands' # {} /\ h.msg = m)
      BY <2>1, <2>2, <2>3, <2>4 DEF Comes
    <3>3. m >= pos \/ m >= committed \/ h.msg = m \/ m > h.msg
      BY <2>1, <3>1, <3>2
    <3>4. QED
      BY <2>1, <3>3 DEF Comes
  <2>5. \A g \in hands' : g.msg >= pos' => puts[g.msg] + 1 <= again'[g.msg]
    BY <1>b, <2>1, <2>2, <2>3
  <2>6. QED
    BY <1>b, <1>c, <2>1, <2>4, <2>5
<1>3. ASSUME NEW h \in hands, Send(h) PROVE KafkaCount'
  <2>1. /\ h.next = "send" /\ hands' = {} /\ hands = {h} /\ UNCHANGED <<committed, pos, again>>
        /\ puts' = [puts EXCEPT ![h.msg] = @ + 1]
    BY <1>3, <1>b DEF Send, At, LetGo, Put
  <2>2. h.msg \in Msgs /\ committed = h.msg + 1 /\ Comes(h.msg)
    BY <1>b, <2>1 DEF Comes
  <2>3. \A m \in Msgs : Comes(m)' => Comes(m) /\ (m >= pos \/ m >= committed)
    BY <2>1 DEF Comes
  <2>4. ASSUME NEW m \in Msgs PROVE puts'[m] <= 1 + again[m] /\ (Comes(m)' => puts'[m] <= again[m])
    <3>1. CASE m = h.msg
      <4>1. puts'[m] = puts[m] + 1 /\ puts[m] <= again[m]
        BY <1>b, <2>1, <2>2, <3>1
      <4>2. Comes(m)' => m >= pos
        BY <1>b, <2>2, <2>3, <3>1
      <4>3. QED
        BY <1>b, <3>1, <4>1, <4>2
    <3>2. CASE m # h.msg
      BY <1>b, <2>1, <2>3, <3>2
    <3>3. QED
      BY <3>1, <3>2
  <2>5. QED
    BY <2>1, <2>4 DEF KafkaCount
<1>4. ASSUME NEW h \in hands PROVE ~Offer(h)
  BY <1>b DEF Offer, At
<1>5. CASE Crash \/ Restart
  <2>1. /\ hands' = {} /\ pos' \in {pos, committed} /\ UNCHANGED <<committed, puts, again>>
    BY <1>5, <1>b DEF Crash, Restart
  <2>2. \A m \in Msgs : Comes(m)' => Comes(m)
    BY <2>1 DEF Comes
  <2>3. QED
    BY <1>b, <1>c, <2>1, <2>2
<1>6. CASE Rebalance
  <2>1. /\ pos' = committed /\ Again(committed .. pos - 1) /\ UNCHANGED <<committed, puts, hands>>
    BY <1>6 DEF Rebalance
  <2>2. /\ \A m \in Msgs : again'[m] >= again[m]
        /\ \A m \in Msgs : committed <= m /\ m < pos => again'[m] = again[m] + 1
    <3>1. \A m \in Msgs : committed <= m /\ m < pos => m \in committed .. pos - 1
      BY <1>b
    <3>2. \A m \in Msgs : /\ again'[m] >= again[m]
                          /\ m \in committed .. pos - 1 => again'[m] = again[m] + 1
      BY <1>b, <2>1, AgainGrows
    <3>3. QED
      BY <3>1, <3>2
  <2>3. \A m \in Msgs : Comes(m)' => Comes(m)
    BY <2>1 DEF Comes
  <2>4. ASSUME NEW h \in hands, h.msg >= committed PROVE puts[h.msg] + 1 <= again'[h.msg]
    <3>1. h.msg \in Msgs /\ Comes(h.msg)
      BY <1>b DEF Comes
    <3>2. CASE h.msg < pos
      BY <1>b, <2>2, <2>4, <3>1, <3>2
    <3>3. CASE h.msg >= pos
      BY <1>b, <2>2, <3>1, <3>3
    <3>4. QED
      BY <1>b, <3>1, <3>2, <3>3
  <2>5. QED
    BY <1>c, <2>1, <2>2, <2>3, <2>4
<1>8. ASSUME \/ \E m \in Msgs : Receive(m) \/ Arrive(m) \/ GiveUp(m)
             \/ \E h \in hands : Ack(h) \/ Answer(h) \/ Refuse(h)
             \/ Take \/ Close \/ HandOver \/ Upsert \/ Reconnect
             \/ UNCHANGED vars
      PROVE  KafkaCount'
  <2>1. /\ UNCHANGED <<kind, up, committed, pos, hands, order>>
        /\ \A m \in Msgs : again'[m] >= again[m]
    BY <1>8, KafkaElsewhere
  <2>2. puts' = puts
    BY <1>8 DEF Receive, Arrive, GiveUp, Ack, Answer, Refuse, Take, Close, HandOver, Upsert,
                Reconnect, vars
  <2>3. \A m \in Msgs : Comes(m)' => Comes(m)
    BY <2>1 DEF Comes
  <2>4. \A h \in hands : h.msg >= pos => puts[h.msg] + 1 <= again'[h.msg]
    BY <1>b, <2>1
  <2>5. QED
    BY <1>c, <2>1, <2>2, <2>3, <2>4
<1>9. QED
  BY <1>1, <1>2, <1>3, <1>4, <1>5, <1>6, <1>8 DEF Next, Receiver

LEMMA KafkaInvHolds == Spec => []KafkaInv
<1>1. Init => KafkaInv /\ KafkaOnceInOrder
  BY EmptySeq DEF Init, KafkaInv, KafkaOnceInOrder
<1>2. Shape /\ Shape' /\ KafkaInv /\ KafkaOnceInOrder /\ [Next]_vars
        => (KafkaInv /\ KafkaOnceInOrder)'
  BY KafkaStep
<1>3. QED
  BY <1>1, <1>2, ShapeHolds, PTL DEF Spec

LEMMA CountHolds == Spec => [](CountInv /\ KafkaCount)
<1>1. Init => KafkaCount
  BY DEF Init, KafkaCount
<1>2. Shape /\ Shape' /\ KafkaInv /\ CountInv /\ KafkaCount /\ [Next]_vars
        => (CountInv /\ KafkaCount)'
  BY CountStep, KafkaCountStep
<1>3. QED
  BY CountInit, <1>1, <1>2, ShapeHolds, KafkaInvHolds, PTL DEF Spec

(* A message is counted again only after a crash of the aggregator, or when *)
(* its source had a reason to send that message a second time, and no more  *)
(* often than that happened: a client that gave up or was answered 400, a   *)
(* lost Pulsar connection, a rebalance; a crash is no reason for Kafka (the *)
(* loops of kafka.go, pulsar.go and the handlers of otlphttp.go,            *)
(* otlpgrpc.go and jsonlogs.go).                                            *)
THEOREM RepeatsAreCaused == Spec => []RepeatsHaveACause
<1>1. Shape /\ CountInv /\ KafkaCount => RepeatsHaveACause
  <2> SUFFICES ASSUME Shape, CountInv, KafkaCount, NEW m \in Msgs
               PROVE  puts[m] <= 1 + (IF kind = "kafka" THEN 0 ELSE crashes) + again[m]
    BY DEF RepeatsHaveACause
  <2>1. /\ puts[m] \in Nat /\ tries[m] \in Nat /\ crashes \in Nat /\ again[m] \in Nat
        /\ due[m] \in Nat /\ Cardinality(Pending(m)) \in Nat
    BY PendingFinite, DeliveryAssumption DEF Shape, CountInv
  <2>2. CASE kind = "kafka"
    BY <2>1, <2>2 DEF KafkaCount
  <2>3. CASE kind = "pulsar"
    <3>1. puts[m] + Cardinality(Pending(m)) <= 1 + crashes + again[m] - (IF up THEN due[m] ELSE 1)
      BY <2>3 DEF CountInv, Limit
    <3>2. QED
      BY <2>1, <2>3, <3>1
  <2>4. CASE kind \in {"drop", "wait"}
    <3>1. /\ puts[m] + Cardinality(Pending(m)) <= tries[m]
          /\ tries[m] <= crashes + again[m] + (IF Known(m) THEN 1 ELSE 0)
      BY <2>4 DEF CountInv, Limit
    <3>2. QED
      BY <2>1, <2>4, <3>1
  <2>5. QED
    BY <2>2, <2>3, <2>4 DEF Shape
<1>2. QED
  BY <1>1, ShapeHolds, CountHolds, PTL

-----------------------------------------------------------------------------
(* What the reader or the group is past, was not forwarded and is not held. *)
Past(m) == m < pos \/ m < committed \/ \E h \in hands : m < h.msg
Skipped == {m \in Msgs : Past(m) /\ puts[m] = 0 /\ \A h \in hands : h.msg # m}

SkipInv == kind = "kafka" => Cardinality(Skipped) <= crashes + faults

(* Arithmetic: adding at most one on both sides.                            *)
LEMMA Sums ==
  ASSUME NEW a \in Nat, NEW b \in Nat, NEW c \in Nat, NEW d \in Nat
  PROVE  \A m, n \in Nat : /\ m <= n /\ n <= a + b /\ a + b <= c + d => m <= c + d
                           /\ m <= n + 1 /\ n <= a + b /\ c + d = a + b + 1 => m <= c + d
  OBVIOUS

LEMMA SkippedFinite == IsFiniteSet(Skipped) /\ Cardinality(Skipped) \in Nat
<1>1. IsFiniteSet(Msgs)
  BY FS_Interval, DeliveryAssumption DEF Msgs
<1>2. QED
  BY <1>1, FS_Subset, FS_CardinalityType DEF Skipped

(* A fault or a crash costs one message, every other step none.             *)
LEMMA SkipMoves ==
  ASSUME SkipInv, CountInv, kind = "kafka", crashes' \in Nat, faults' \in Nat,
         IsFiniteSet(Skipped'), Cardinality(Skipped') \in Nat,
         \/ Skipped' \subseteq Skipped /\ crashes + faults <= crashes' + faults'
         \/ \E x : Skipped' \subseteq Skipped \cup {x} /\ crashes' + faults' = crashes + faults + 1
  PROVE  SkipInv'
<1>1. /\ crashes \in Nat /\ faults \in Nat /\ Cardinality(Skipped) <= crashes + faults
      /\ IsFiniteSet(Skipped) /\ Cardinality(Skipped) \in Nat
  BY SkippedFinite, DeliveryAssumption DEF SkipInv, CountInv
<1>2. CASE Skipped' \subseteq Skipped /\ crashes + faults <= crashes' + faults'
  <2>1. Cardinality(Skipped') <= Cardinality(Skipped)
    BY <1>1, <1>2, FS_Subset
  <2>2. Cardinality(Skipped') <= crashes' + faults'
    BY <1>1, <1>2, <2>1, Sums
  <2>3. QED
    BY <2>2 DEF SkipInv
<1>3. ASSUME NEW x, Skipped' \subseteq Skipped \cup {x}, crashes' + faults' = crashes + faults + 1
      PROVE  SkipInv'
  <2>1. IsFiniteSet(Skipped \cup {x}) /\ Cardinality(Skipped \cup {x}) <= Cardinality(Skipped) + 1
    <3>1. /\ IsFiniteSet(Skipped \cup {x})
          /\ Cardinality(Skipped \cup {x})
               = IF x \in Skipped THEN Cardinality(Skipped) ELSE Cardinality(Skipped) + 1
      BY <1>1, FS_AddElement
    <3>2. QED
      BY <1>1, <3>1
  <2>2. Cardinality(Skipped') <= Cardinality(Skipped \cup {x})
    BY <1>3, <2>1, FS_Subset
  <2>3. Cardinality(Skipped \cup {x}) \in Nat
    BY <2>1, FS_CardinalityType
  <2>4. Cardinality(Skipped') <= crashes' + faults'
    <3>1. Cardinality(Skipped') <= Cardinality(Skipped) + 1
      BY <1>1, <2>1, <2>2, <2>3
    <3>2. QED
      BY <1>1, <1>3, <3>1, Sums
  <2>5. QED
    BY <2>4 DEF SkipInv
<1>4. QED
  BY <1>2, <1>3

LEMMA SkipStep ==
  ASSUME Shape, KafkaInv, CountInv, SkipInv, [Next]_vars
  PROVE  SkipInv'
<1> USE DEF source, receiver, line, sink, process
<1>a. kind' = kind
  BY DEF Next, Receiver, Fetch, Receive, Arrive, GiveUp, Commit, CommitFails, Send, Offer,
         Ack, Answer, Refuse, Rebalance, Reconnect, Take, Close, HandOver, Upsert, Crash, Restart,
         Fault, vars
<1> SUFFICES ASSUME kind = "kafka" PROVE SkipInv'
  BY <1>a DEF SkipInv
<1>b. /\ committed \in Nat /\ pos \in Nat /\ puts \in [Msgs -> Nat]
      /\ \A h \in hands : h.msg \in Msgs /\ h.next \in {"commit", "send"}
      /\ \A g, h \in hands : g = h
      /\ ~up => hands = {}
      /\ \A m \in Msgs : m \in Nat
      /\ crashes \in Nat /\ faults \in Nat
  BY DeliveryAssumption DEF Shape, KafkaInv, CountInv, Msgs
<1>c. IsFiniteSet(Skipped') /\ Cardinality(Skipped') \in Nat
  <2>1. IsFiniteSet(Msgs) /\ Skipped' \subseteq Msgs
    BY FS_Interval, DeliveryAssumption DEF Msgs, Skipped
  <2>2. QED
    BY <2>1, FS_Subset, FS_CardinalityType
<1>1. CASE Fetch
  <2>1. /\ hands' = {[msg |-> pos, try |-> 1, next |-> "commit"]} /\ pos' = pos + 1 /\ hands = {}
        /\ UNCHANGED <<committed, puts, crashes, faults>>
    BY <1>1 DEF Fetch
  <2>2. Skipped' \subseteq Skipped
    BY <1>b, <2>1 DEF Skipped, Past
  <2>3. QED
    BY <1>b, <1>c, <2>1, <2>2, SkipMoves
<1>2. ASSUME NEW h \in hands, Commit(h) PROVE SkipInv'
  <2>1. [h EXCEPT !.next = "send"].msg = h.msg
    BY DEF Shape
  <2>2. /\ UNCHANGED <<pos, puts, crashes, faults>> /\ hands' = {[h EXCEPT !.next = "send"]}
        /\ committed' = h.msg + 1
    BY <1>2, <1>b DEF Commit, GoOn
  <2>3. Skipped' \subseteq Skipped
    BY <1>b, <2>1, <2>2 DEF Skipped, Past
  <2>4. QED
    BY <1>b, <1>c, <2>2, <2>3, SkipMoves
<1>3. ASSUME NEW h \in hands, CommitFails(h) PROVE SkipInv'
  <2>1. /\ UNCHANGED <<pos, puts, crashes>> /\ hands' = hands \ {h} /\ faults' = faults + 1
        /\ committed' \in {committed, h.msg + 1}
    BY <1>3 DEF CommitFails, LetGo, Fault
  <2>2. Skipped' \subseteq Skipped \cup {h.msg}
    BY <1>b, <2>1 DEF Skipped, Past
  <2>3. QED
    BY <1>b, <1>c, <2>1, <2>2, SkipMoves
<1>4. ASSUME NEW h \in hands, Send(h) PROVE SkipInv'
  <2>1. /\ UNCHANGED <<pos, committed, crashes, faults>> /\ hands' = hands \ {h}
        /\ puts' = [puts EXCEPT ![h.msg] = @ + 1]
    BY <1>4 DEF Send, LetGo, Put
  <2>2. Skipped' \subseteq Skipped
    BY <1>b, <2>1 DEF Skipped, Past
  <2>3. QED
    BY <1>b, <1>c, <2>1, <2>2, SkipMoves
<1>5. ASSUME NEW h \in hands PROVE ~Offer(h)
  BY <1>b DEF Offer, At
<1>6. CASE Crash
  <2>1. UNCHANGED <<pos, committed, puts, faults>> /\ hands' = {} /\ crashes' = crashes + 1
    BY <1>6 DEF Crash
  <2>2. \E x : Skipped' \subseteq Skipped \cup {x}
    <3>1. CASE hands = {}
      BY <2>1, <3>1 DEF Skipped, Past
    <3>2. ASSUME NEW h \in hands PROVE Skipped' \subseteq Skipped \cup {h.msg}
      BY <1>b, <2>1, <3>2 DEF Skipped, Past
    <3>3. QED
      BY <3>1, <3>2
  <2>3. QED
    BY <1>b, <1>c, <2>1, <2>2, SkipMoves
<1>7. CASE Restart
  <2>1. UNCHANGED <<puts, crashes, faults, hands, committed>> /\ pos' = committed
    BY <1>7 DEF Restart
  <2>2. Skipped' \subseteq Skipped
    BY <1>b, <2>1 DEF Skipped, Past
  <2>3. QED
    BY <1>b, <1>c, <2>1, <2>2, SkipMoves
<1>8. ASSUME \/ \E m \in Msgs : Receive(m) \/ Arrive(m) \/ GiveUp(m)
             \/ \E h \in hands : Ack(h) \/ Answer(h) \/ Refuse(h)
             \/ Take \/ Close \/ HandOver \/ Upsert \/ Reconnect
             \/ UNCHANGED vars
      PROVE  SkipInv'
  <2>1. UNCHANGED <<committed, pos, hands>>
    BY <1>8, KafkaElsewhere
  <2>2. puts' = puts /\ crashes' = crashes /\ faults' \in {faults, faults + 1}
    BY <1>8 DEF Receive, Arrive, GiveUp, Ack, Answer, Refuse, Take, Close, HandOver, Upsert, Reconnect, vars, Fault
  <2>3. Skipped' \subseteq Skipped
    BY <2>1, <2>2 DEF Skipped, Past
  <2>4. crashes' \in Nat /\ faults' \in Nat /\ crashes + faults <= crashes' + faults'
    <3>1. crashes \in Nat /\ faults \in Nat
      BY <1>b
    <3>2. CASE faults' = faults
      BY <2>2, <3>1, <3>2
    <3>3. CASE faults' = faults + 1
      BY <2>2, <3>1, <3>3
    <3>4. QED
      BY <2>2, <3>2, <3>3
  <2>5. QED
    BY <1>c, <2>3, <2>4, SkipMoves
<1>9. CASE Rebalance
  <2>1. UNCHANGED <<puts, crashes, hands, committed>> /\ pos' = committed /\ faults' = faults + 1
    BY <1>9 DEF Rebalance, Fault
  <2>2. Skipped' \subseteq Skipped
    BY <1>b, <2>1 DEF Skipped, Past
  <2>3. crashes + faults <= crashes' + faults' /\ crashes' \in Nat /\ faults' \in Nat
    BY <1>b, <2>1
  <2>4. QED
    BY <1>c, <2>2, <2>3, SkipMoves
<1>10. QED
  BY <1>1, <1>2, <1>3, <1>4, <1>5, <1>6, <1>7, <1>8, <1>9 DEF Next, Receiver

(* Committing before forwarding costs at most one message per crash and per *)
(* failed commit, in a topic of any length and over any number of           *)
(* rebalances (kafka.go:68-150).                                            *)
THEOREM KafkaSkipsFew == Spec => []KafkaSkipsAtMostOnePerFault
<1>1. Init => SkipInv
  <2> SUFFICES ASSUME Init PROVE SkipInv
    OBVIOUS
  <2>1. Skipped = {}
    BY DEF Init, Skipped, Past, Msgs
  <2>2. QED
    BY <2>1, FS_EmptySet DEF Init, SkipInv
<1>2. Shape /\ KafkaInv /\ CountInv /\ SkipInv /\ [Next]_vars => SkipInv'
  BY SkipStep
<1>3. Shape /\ KafkaInv /\ CountInv /\ SkipInv => KafkaSkipsAtMostOnePerFault
  <2> SUFFICES ASSUME Shape, KafkaInv, CountInv, SkipInv, kind = "kafka"
               PROVE  KafkaSkipsAtMostOnePerFault
    BY DEF KafkaSkipsAtMostOnePerFault
  <2> DEFINE past == {m \in 1 .. committed - 1 : puts[m] = 0 /\ \A h \in hands : h.msg # m}
  <2>1. past \subseteq Skipped
    BY DeliveryAssumption DEF Shape, Skipped, Past, Msgs
  <2>2. Cardinality(past) <= Cardinality(Skipped) /\ Cardinality(past) \in Nat
    BY <2>1, SkippedFinite, FS_Subset, FS_CardinalityType
  <2>3. crashes \in Nat /\ faults \in Nat /\ Cardinality(Skipped) \in Nat
    BY SkippedFinite, DeliveryAssumption DEF CountInv
  <2>4. QED
    BY <2>2, <2>3 DEF SkipInv, KafkaSkipsAtMostOnePerFault
<1>4. QED
  BY <1>1, <1>2, <1>3, ShapeHolds, KafkaInvHolds, CountHolds, PTL DEF Spec

-----------------------------------------------------------------------------
(* Where a put item may be: in the channel once, in the window, in the      *)
(* exporter's hand or in stored objects, and in one of these places only.   *)
Stored == UNION store
Behind == window \cup post \cup Stored
Counted(x) == x \in Msgs \X (Nat \ {0}) /\ x[2] <= puts[x[1]]
StaysCounted(x) == x \in Msgs \X (Nat \ {0}) /\ x[2] <= puts'[x[1]]

ItemInv ==
  /\ chan \in Seq(Msgs \X (Nat \ {0}))
  /\ \A i, j \in DOMAIN chan : chan[i] = chan[j] => i = j
  /\ \A i \in DOMAIN chan : Counted(chan[i]) /\ chan[i] \notin Behind
  /\ \A x \in Behind : Counted(x)
  /\ window \cap post = {} /\ window \cap Stored = {} /\ post \cap Stored = {}
  /\ StoredOnce

(* Steps that put nothing and take nothing from the channel.                *)
LEMMA ItemsMove ==
  ASSUME ItemInv, puts' = puts, chan' = chan,
         Behind' \subseteq Behind,
         window' \cap post' = {}, window' \cap Stored' = {}, post' \cap Stored' = {}, StoredOnce'
  PROVE  ItemInv'
  BY DEF ItemInv, Counted

LEMMA ItemPut ==
  ASSUME Shape, ItemInv, NEW m \in Msgs, Put(m), UNCHANGED sink
  PROVE  ItemInv'
<1> DEFINE I == Msgs \X (Nat \ {0})
<1>0. PICK x : x = <<m, puts[m] + 1>>
  OBVIOUS
<1>1. /\ chan \in Seq(I) /\ x \in I /\ chan' = Append(chan, x) /\ Len(chan) \in Nat
      /\ puts \in [Msgs -> Nat] /\ puts' = [puts EXCEPT ![m] = @ + 1]
  <2>1. chan \in Seq(I) /\ puts \in [Msgs -> Nat] /\ chan' = Append(chan, x)
        /\ puts' = [puts EXCEPT ![m] = @ + 1]
    BY <1>0 DEF Put, Shape, ItemInv
  <2>2. puts[m] + 1 \in Nat \ {0}
    BY <2>1
  <2>3. QED
    BY <1>0, <2>1, <2>2, LenProperties
<1>2. x[1] = m /\ x[2] = puts[m] + 1 /\ ~Counted(x)
  BY <1>0, <1>1 DEF Counted
<1>3. ASSUME NEW y, Counted(y) PROVE StaysCounted(y)
  <2>1. y \in I /\ y[1] \in Msgs /\ y[2] \in Nat /\ y[2] <= puts[y[1]]
    BY <1>3 DEF Counted
  <2>2. puts[y[1]] <= puts'[y[1]] /\ puts[y[1]] \in Nat /\ puts'[y[1]] \in Nat
    BY <1>1, <2>1
  <2>3. QED
    BY <2>1, <2>2 DEF StaysCounted
<1>4. StaysCounted(x)
  BY <1>1, <1>2 DEF StaysCounted
<1>5. UNCHANGED <<window, post, store, Behind, Stored>>
  BY DEF sink, Behind, Stored
<1>6. /\ chan' \in Seq(I) /\ Len(chan') = Len(chan) + 1 /\ chan'[Len(chan) + 1] = x
      /\ \A i \in 1 .. Len(chan) : chan'[i] = chan[i]
  BY <1>1, AppendProperties
<1>7. DOMAIN chan = 1 .. Len(chan) /\ DOMAIN chan' = 1 .. Len(chan) + 1
  BY <1>1, <1>6
<1>8. ASSUME NEW i \in DOMAIN chan'
      PROVE  StaysCounted(chan'[i]) /\ chan'[i] \notin Behind
  <2>1. CASE i \in DOMAIN chan
    BY <2>1, <1>3, <1>6, <1>7 DEF ItemInv
  <2>2. CASE i = Len(chan) + 1
    BY <2>2, <1>2, <1>4, <1>6 DEF ItemInv
  <2>3. QED
    BY <2>1, <2>2, <1>1, <1>7
<1>9. ASSUME NEW i \in DOMAIN chan', NEW j \in DOMAIN chan', chan'[i] = chan'[j]
      PROVE  i = j
  <2>1. \A k \in 1 .. Len(chan) : chan[k] # x
    BY <1>2, <1>7 DEF ItemInv
  <2>2. CASE i \in 1 .. Len(chan) /\ j \in 1 .. Len(chan)
    BY <2>2, <1>6, <1>7, <1>9 DEF ItemInv
  <2>3. CASE i = Len(chan) + 1 \/ j = Len(chan) + 1
    BY <2>1, <2>3, <1>1, <1>6, <1>7, <1>9
  <2>4. QED
    BY <2>2, <2>3, <1>1, <1>7
<1>10. StoredOnce' /\ window' \cap post' = {} /\ window' \cap Stored' = {} /\ post' \cap Stored' = {}
  BY <1>5 DEF StoredOnce, ItemInv
<1>11. \A y \in Behind' : StaysCounted(y)
  BY <1>3, <1>5 DEF ItemInv
<1>12. QED
  BY <1>5, <1>6, <1>8, <1>9, <1>10, <1>11 DEF ItemInv, Counted, StaysCounted

LEMMA ItemTake ==
  ASSUME ItemInv, Take
  PROVE  ItemInv'
<1> DEFINE I == Msgs \X (Nat \ {0})
<1>0. PICK x : x = Head(chan)
  OBVIOUS
<1>1. /\ chan \in Seq(I) /\ chan # <<>> /\ chan' = Tail(chan) /\ window' = window \cup {x}
      /\ UNCHANGED <<post, store, puts>>
  BY <1>0 DEF Take, ItemInv
<1>2. /\ Len(chan) \in Nat \ {0} /\ x = chan[1] /\ chan' \in Seq(I) /\ Len(chan') = Len(chan) - 1
      /\ \A i \in 1 .. Len(chan') : chan'[i] = chan[i + 1]
  BY <1>0, <1>1, HeadTailProperties, LenProperties, EmptySeq
<1>3. DOMAIN chan = 1 .. Len(chan) /\ DOMAIN chan' = 1 .. Len(chan')
  BY <1>1, <1>2
<1>4. \A i \in DOMAIN chan' : i + 1 \in DOMAIN chan /\ chan'[i] = chan[i + 1] /\ i + 1 # 1
  BY <1>2, <1>3
<1>5. 1 \in DOMAIN chan /\ Counted(x) /\ x \notin Behind
  BY <1>2, <1>3 DEF ItemInv
<1>6. Behind' = Behind \cup {x} /\ Stored' = Stored
  BY <1>1 DEF Behind, Stored
<1>7. \A y : Counted(y) => StaysCounted(y)
  BY <1>1 DEF Counted, StaysCounted
<1>8. ASSUME NEW i \in DOMAIN chan' PROVE StaysCounted(chan'[i]) /\ chan'[i] \notin Behind'
  <2>1. Counted(chan[i + 1]) /\ chan[i + 1] \notin Behind /\ chan[i + 1] # x
    BY <1>2, <1>4, <1>5 DEF ItemInv
  <2>2. QED
    BY <1>4, <1>6, <1>7, <2>1
<1>9. ASSUME NEW i \in DOMAIN chan', NEW j \in DOMAIN chan', chan'[i] = chan'[j]
      PROVE  i = j
  <2>1. i + 1 = j + 1
    BY <1>4, <1>9 DEF ItemInv
  <2>2. QED
    BY <2>1, <1>2, <1>3
<1>10. window' \cap post' = {} /\ window' \cap Stored' = {} /\ post' \cap Stored' = {}
  BY <1>1, <1>5, <1>6 DEF ItemInv, Behind
<1>11. StoredOnce'
  BY <1>1 DEF ItemInv, StoredOnce
<1>12. \A y \in Behind' : StaysCounted(y)
  BY <1>5, <1>6, <1>7 DEF ItemInv
<1>13. QED
  BY <1>2, <1>8, <1>9, <1>10, <1>11, <1>12 DEF ItemInv, Counted, StaysCounted

(* The exporter's Aggregate is stored, or not, and leaves its hand.         *)
LEMMA ItemStored ==
  ASSUME ItemInv, store' \in {store, store \cup {post}} \/ store' = store \cup ({post} \ {{}})
  PROVE  /\ Stored \subseteq Stored' /\ Stored' \subseteq Stored \cup post
         /\ StoredOnce'
<1>1. Stored' \in {Stored, Stored \cup post}
  BY DEF Stored
<1>2. \A a \in store : a \cap post = {}
  BY DEF ItemInv, Stored
<1>3. StoredOnce'
  BY <1>2 DEF ItemInv, StoredOnce
<1>4. QED
  BY <1>1, <1>3

LEMMA ItemStep ==
  ASSUME Shape, ItemInv, [Next]_vars
  PROVE  ItemInv'
<1> USE DEF source, receiver, line, process
<1>1. ASSUME NEW h \in hands, Send(h) \/ Offer(h) PROVE ItemInv'
  <2>1. h.msg \in Msgs
    BY DEF Shape
  <2>2. UNCHANGED sink /\ (Put(h.msg) \/ UNCHANGED <<chan, puts>>)
    BY <1>1 DEF Send, Offer, PutOrDrop
  <2>3. CASE UNCHANGED <<chan, puts>>
    BY <2>2, <2>3, ItemsMove DEF sink, Behind, Stored, StoredOnce, ItemInv
  <2>4. QED
    BY <2>1, <2>2, <2>3, ItemPut
<1>2. CASE Take
  BY <1>2, ItemTake
<1>3. CASE HandOver
  <2>1. /\ post = {} /\ post' = window /\ window' = {} /\ UNCHANGED <<store, puts, chan>>
    BY <1>3 DEF HandOver
  <2>2. Behind' \subseteq Behind /\ Stored' = Stored /\ StoredOnce'
    BY <2>1 DEF Behind, Stored, StoredOnce, ItemInv
  <2>3. QED
    BY <2>1, <2>2, ItemsMove DEF ItemInv
<1>4. CASE Upsert
  <2>1. /\ post' = {} /\ store' \in {store, store \cup {post}}
        /\ UNCHANGED <<window, puts, chan>>
    BY <1>4 DEF Upsert
  <2>2. Stored' \subseteq Stored \cup post /\ StoredOnce'
    BY <2>1, ItemStored
  <2>3. Behind' \subseteq Behind
    BY <2>1, <2>2 DEF Behind
  <2>4. QED
    BY <2>1, <2>2, <2>3, ItemsMove DEF ItemInv
<1>5. CASE Crash
  <2>1. /\ post' = {} /\ window' = {} /\ chan' = <<>> /\ puts' = puts
        /\ store' \in {store, store \cup ({post} \ {{}})}
    BY <1>5 DEF Crash
  <2>2. Stored' \subseteq Stored \cup post /\ StoredOnce'
    BY <2>1, ItemStored
  <2>3. Behind' \subseteq Behind
    BY <2>1, <2>2 DEF Behind
  <2>4. chan' \in Seq(Msgs \X (Nat \ {0})) /\ DOMAIN chan' = {}
    BY <2>1, EmptySeq
  <2>5. \A x \in Behind' : Counted(x)'
    BY <2>1, <2>3 DEF ItemInv, Counted
  <2>6. QED
    BY <2>1, <2>2, <2>4, <2>5 DEF ItemInv
<1>6. CASE UNCHANGED <<window, post, store, puts, chan>>
  BY <1>6, ItemsMove DEF Behind, Stored, StoredOnce, ItemInv
<1>7. ASSUME \/ Fetch \/ Rebalance \/ Reconnect \/ Close \/ Restart \/ UNCHANGED vars
             \/ \E m \in Msgs : Receive(m) \/ Arrive(m) \/ GiveUp(m)
             \/ \E h \in hands : Commit(h) \/ CommitFails(h) \/ Ack(h) \/ Answer(h) \/ Refuse(h)
      PROVE  UNCHANGED <<window, post, store, puts, chan>>
  BY <1>7 DEF Fetch, Rebalance, Reconnect, Close, Restart, vars, Receive, Arrive, GiveUp, Commit,
     CommitFails, Ack, Answer, Refuse, sink
<1>8. QED
  BY <1>1, <1>2, <1>3, <1>4, <1>5, <1>6, <1>7 DEF Next, Receiver

LEMMA ItemsHold == Spec => []ItemInv
<1>1. Init => ItemInv
  <2> SUFFICES ASSUME Init PROVE ItemInv
    OBVIOUS
  <2>1. chan \in Seq(Msgs \X (Nat \ {0})) /\ DOMAIN chan = {} /\ Behind = {} /\ Stored = {}
    BY EmptySeq DEF Init, Behind, Stored
  <2>2. QED
    BY <2>1 DEF Init, ItemInv, StoredOnce
<1>2. Shape /\ ItemInv /\ [Next]_vars => ItemInv'
  BY ItemStep
<1>3. QED
  BY <1>1, <1>2, ShapeHolds, PTL DEF Spec

(* What was put into the channel once is in one stored object at most,      *)
(* though an upsert may be served after the exporter has given it up        *)
(* (weaviate.go:41-59) or the process has ended.                            *)
THEOREM EachStoredOnce == Spec => []StoredOnce
<1>1. ItemInv => StoredOnce
  BY DEF ItemInv
<1>2. QED
  BY <1>1, ItemsHold, PTL

-----------------------------------------------------------------------------
(* The rest of the types.                                                   *)
RestInv ==
  /\ kind \in Kinds /\ up \in BOOLEAN /\ flushing \in BOOLEAN
  /\ dropped \subseteq Msgs /\ waiting \subseteq Item
  /\ \A h \in hands : h.try \in Tries /\ h.next \in {"commit", "send", "offer", "tell"}
  /\ Len(chan) <= Cap
  /\ kind \notin {"drop", "wait"} => \A m \in Msgs : tries[m] = 0

LEMMA RestStep ==
  ASSUME Shape, CountInv, ItemInv, RestInv, CountInv', [Next]_vars
  PROVE  RestInv'
<1> USE DEF source, receiver, line, sink, process
<1>a. /\ kind \in Kinds /\ up \in BOOLEAN /\ flushing \in BOOLEAN
      /\ dropped \subseteq Msgs /\ waiting \subseteq Item
      /\ \A h \in hands : h.try \in Tries /\ h.next \in {"commit", "send", "offer", "tell"}
      /\ Len(chan) <= Cap /\ Len(chan) \in Nat /\ 1 \in Tries
      /\ kind \notin {"drop", "wait"} => \A m \in Msgs : tries[m] = 0
      /\ \A h \in hands : h = [msg |-> h.msg, try |-> h.try, next |-> h.next] /\ h.msg \in Msgs
  BY LenProperties, DeliveryAssumption DEF RestInv, Shape, Tries, ItemInv
<1>1. ASSUME NEW m \in Msgs, Arrive(m) PROVE RestInv'
  <2>1. kind \in {"drop", "wait"} /\ tries \in [Msgs -> Nat] /\ tries' = [tries EXCEPT ![m] = @ + 1]
        /\ waiting' = waiting \cup {<<m, tries'[m]>>}
        /\ hands' = hands \cup {[msg |-> m, try |-> tries'[m],
                                 next |-> IF kind = "drop" THEN "offer" ELSE "send"]}
        /\ UNCHANGED <<kind, up, flushing, dropped, chan, crashes, faults, again>>
    BY <1>1 DEF Arrive, CountInv
  <2>2. tries'[m] \in Tries
    <3>1. tries'[m] <= crashes' + faults' + 1 /\ tries'[m] = tries[m] + 1 /\ tries[m] \in Nat
      <4>1. tries'[m] <= crashes' + again'[m] + (IF Known(m)' THEN 1 ELSE 0)
        BY <2>1 DEF CountInv
      <4>2. crashes' \in Nat /\ faults' \in Nat /\ tries'[m] = tries[m] + 1 /\ tries[m] \in Nat
        BY <2>1, DeliveryAssumption DEF CountInv
      <4>3. again'[m] = again[m] /\ again[m] \in Nat /\ again[m] <= faults /\ faults' = faults
        BY <2>1 DEF CountInv, Shape
      <4>4. PICK a \in Nat, k \in {0, 1} : a = again'[m] /\ tries'[m] <= crashes' + a + k
        BY <4>1, <4>3
      <4>5. QED
        BY <4>2, <4>3, <4>4
    <3>2. /\ crashes' \in 0 .. MaxCrashes /\ faults' \in 0 .. MaxFaults
          /\ MaxCrashes \in Nat /\ MaxFaults \in Nat
      BY DeliveryAssumption DEF CountInv
    <3>3. QED
      BY <3>1, <3>2 DEF Tries
  <2>3. QED
    BY <1>a, <2>1, <2>2 DEF RestInv, Item
<1>2. ASSUME NEW h \in hands, NEW step \in {"send", "tell"}, GoOn(h, step)
      PROVE  \A g \in hands' : g.try \in Tries /\ g.next \in {"commit", "send", "offer", "tell"}
  <2>1. [h EXCEPT !.next = step].try = h.try /\ [h EXCEPT !.next = step].next = step
    BY <1>a
  <2>2. QED
    BY <1>2, <1>a, <2>1 DEF GoOn
<1>3. ASSUME NEW h \in hands, Send(h) \/ Offer(h) PROVE RestInv'
  <2>1. /\ LetGo(h) \/ GoOn(h, "tell")
        /\ UNCHANGED <<kind, up, flushing, waiting, tries>>
        /\ \/ Room /\ chan' = Append(chan, <<h.msg, puts[h.msg] + 1>>) /\ dropped' = dropped
           \/ chan' = chan /\ dropped' = dropped \cup {h.msg}
    BY <1>3 DEF Send, Offer, Put, PutOrDrop
  <2>2. \A g \in hands' : g.try \in Tries /\ g.next \in {"commit", "send", "offer", "tell"}
    BY <1>a, <1>2, <2>1 DEF LetGo
  <2>3. Len(chan') <= Cap
    <3>1. CASE Room /\ chan' = Append(chan, <<h.msg, puts[h.msg] + 1>>)
      <4>1. puts[h.msg] + 1 \in Nat \ {0}
        BY <1>a DEF Shape
      <4>2. chan \in Seq(Msgs \X (Nat \ {0})) /\ <<h.msg, puts[h.msg] + 1>> \in Msgs \X (Nat \ {0})
        BY <1>a, <4>1 DEF ItemInv
      <4>3. Len(chan') = Len(chan) + 1
        BY <3>1, <4>2, AppendProperties
      <4>4. QED
        BY <1>a, <3>1, <4>3, DeliveryAssumption DEF Room
    <3>2. QED
      BY <1>a, <2>1, <3>1
  <2>4. QED
    BY <1>a, <2>1, <2>2, <2>3 DEF RestInv
<1>4. ASSUME NEW h \in hands, Commit(h) PROVE RestInv'
  <2>1. \A g \in hands' : g.try \in Tries /\ g.next \in {"commit", "send", "offer", "tell"}
    BY <1>2, <1>4 DEF Commit
  <2>2. QED
    BY <1>a, <1>4, <2>1 DEF Commit, RestInv
<1>5. ASSUME NEW h \in hands, CommitFails(h) \/ Ack(h) \/ Answer(h) \/ Refuse(h)
      PROVE  RestInv'
  BY <1>a, <1>5 DEF CommitFails, Ack, Answer, Refuse, LetGo, Fault, RestInv
<1>6. CASE Fetch \/ \E m \in Msgs : Receive(m)
  BY <1>a, <1>6 DEF Fetch, Receive, RestInv
<1>7. CASE Take
  <2>1. Len(chan') = Len(chan) - 1
    BY <1>7, HeadTailProperties DEF Take, ItemInv
  <2>2. QED
    BY <1>a, <1>7, <2>1, DeliveryAssumption DEF Take, RestInv
<1>8. CASE \/ Close \/ HandOver \/ Upsert \/ Restart \/ Rebalance \/ Reconnect
           \/ UNCHANGED vars \/ \E m \in Msgs : GiveUp(m)
  BY <1>a, <1>8 DEF Close, HandOver, Upsert, Restart, Rebalance, Reconnect, vars, GiveUp, Fault,
                    RestInv
<1>9. CASE Crash
  <2>1. Len(chan') <= Cap
    BY <1>9, DeliveryAssumption DEF Crash
  <2>2. QED
    BY <1>a, <1>9, <2>1 DEF Crash, RestInv
<1>10. QED
  BY <1>1, <1>3, <1>4, <1>5, <1>6, <1>7, <1>8, <1>9 DEF Next, Receiver

LEMMA RestHolds == Spec => []RestInv
<1>1. Init => RestInv
  <2> SUFFICES ASSUME Init PROVE RestInv
    OBVIOUS
  <2>1. Len(chan) <= Cap
    BY DeliveryAssumption DEF Init
  <2>2. QED
    BY <2>1 DEF Init, RestInv
<1>2. Shape /\ CountInv /\ ItemInv /\ RestInv /\ CountInv' /\ [Next]_vars => RestInv'
  BY RestStep
<1>3. QED
  BY <1>1, <1>2, ShapeHolds, CountHolds, ItemsHold, PTL DEF Spec

LEMMA TypesFollow ==
  ASSUME Shape, CountInv, ItemInv, RestInv, RepeatsHaveACause
  PROVE  TypeOK
<1>a. /\ crashes \in 0 .. MaxCrashes /\ faults \in 0 .. MaxFaults /\ crashes \in Nat /\ faults \in Nat
      /\ MaxCrashes \in Nat /\ MaxFaults \in Nat
  BY DeliveryAssumption DEF CountInv
<1>1. ASSUME NEW m \in Msgs
      PROVE  /\ puts[m] \in 0 .. 1 + MaxCrashes + MaxFaults
             /\ tries[m] \in 0 .. 1 + MaxCrashes + MaxFaults
             /\ due[m] \in 0 .. 1 + MaxCrashes + MaxFaults
             /\ again[m] \in 0 .. MaxFaults
  <2>1. puts[m] \in Nat /\ tries[m] \in Nat /\ due[m] \in Nat
    BY DEF Shape, CountInv
  <2>2. PICK a \in Nat : a = again[m] /\ a <= faults
    BY DEF Shape, CountInv
  <2>3. a \in 0 .. MaxFaults
    BY <1>a, <2>2
  <2>4. puts[m] <= 1 + MaxCrashes + MaxFaults
    <3>1. PICK k \in {0, crashes} : puts[m] <= 1 + k + a
      BY <2>2 DEF RepeatsHaveACause
    <3> QED
      BY <1>a, <2>1, <2>3, <3>1
  <2>5. due[m] <= 1 + MaxCrashes + MaxFaults
    <3>1. due[m] <= 1 + a
      BY <2>2 DEF CountInv
    <3> QED
      BY <1>a, <2>1, <2>3, <3>1
  <2>6. CASE kind \in {"drop", "wait"}
    <3>1. PICK k \in {0, 1} : tries[m] <= crashes + a + k
      BY <2>2, <2>6 DEF CountInv
    <3>2. tries[m] <= 1 + MaxCrashes + MaxFaults
      BY <1>a, <2>1, <2>3, <3>1
    <3> QED
      BY <1>a, <2>1, <2>2, <2>3, <2>4, <2>5, <3>2
  <2>7. CASE kind \notin {"drop", "wait"}
    <3>1. tries[m] = 0
      BY <2>7 DEF RestInv
    <3> QED
      BY <1>a, <2>1, <2>2, <2>3, <2>4, <2>5, <3>1
  <2>8. QED
    BY <2>6, <2>7
<1>2. /\ tries \in [Msgs -> 0 .. 1 + MaxCrashes + MaxFaults]
      /\ puts \in [Msgs -> 0 .. 1 + MaxCrashes + MaxFaults]
      /\ due \in [Msgs -> 0 .. 1 + MaxCrashes + MaxFaults]
      /\ again \in [Msgs -> 0 .. MaxFaults]
  BY <1>1 DEF Shape, CountInv
<1>3. ASSUME NEW x, Counted(x) PROVE x \in Item
  <2>1. /\ x \in Msgs \X (Nat \ {0}) /\ x[2] <= puts[x[1]] /\ x[1] \in Msgs
        /\ puts[x[1]] \in 0 .. 1 + MaxCrashes + MaxFaults
    BY <1>1, <1>3 DEF Counted
  <2>2. x[2] \in Tries /\ x = <<x[1], x[2]>>
    BY <1>a, <2>1 DEF Tries
  <2>3. QED
    BY <2>1, <2>2 DEF Item
<1>4. chan \in Seq(Item)
  <2>1. chan \in Seq(Msgs \X (Nat \ {0})) /\ \A i \in 1 .. Len(chan) : chan[i] \in Item
    BY <1>3 DEF ItemInv
  <2>2. QED
    BY <2>1
<1>5. {window, post} \cup store \subseteq SUBSET Item
  BY <1>3 DEF ItemInv, Behind, Stored
<1>6. hands \subseteq Hand
  BY DEF Shape, RestInv, Hand
<1>7. /\ {up, flushing} \subseteq BOOLEAN /\ {committed, pos} \subseteq 1 .. MaxMsgs + 1
      /\ {told, dropped} \subseteq SUBSET Msgs
  BY DEF Shape, RestInv
<1>8. QED
  BY <1>a, <1>2, <1>4, <1>5, <1>6, <1>7 DEF TypeOK, Shape, RestInv

(* Every variable keeps its shape, a channel its capacity and every counter *)
(* its bound, whatever crashes, fails and is sent again.                    *)
THEOREM DeliveryTypes == Spec => []TypeOK
<1>1. Shape /\ CountInv /\ ItemInv /\ RestInv /\ RepeatsHaveACause => TypeOK
  BY TypesFollow
<1>2. QED
  BY <1>1, ShapeHolds, CountHolds, ItemsHold, RestHolds, RepeatsAreCaused, PTL
=============================================================================
