------------------------- MODULE RedCountersProofs --------------------------
(***************************************************************************)
(* Proofs about RedCounters for every set of services and counters, every   *)
(* assignment of series keys and every bound.                               *)
(***************************************************************************)
EXTENDS RedCounters, TLAPS

(* The actions that take a data point.                                      *)
Inputs ==
  \/ \E c \in Counters : \E k \in 1 .. Len(sent[c]) : TakeCounter(c, k)
  \/ \E s \in Services, errors \in BOOLEAN, code \in Codes, val \in -1 .. 1 :
       TakeDelta(s, errors, code, val)
  \/ \E s \in Services, sp \in Span : TakeSpan(s, sp)
  \/ \E s \in Services, errors \in BOOLEAN, code \in Codes, value \in -1 .. 1 :
       TakeProm(s, errors, code, value)

-----------------------------------------------------------------------------
(* Adding to a service                                                      *)

Svc == [req : Int, ok : Int, err : Int]
Mix == [errors : Nat, only : BOOLEAN, below : Nat]

Split(r) == r.req = r.ok + r.err
NonNegative(r) == r.req >= 0 /\ r.ok >= 0 /\ r.err >= 0

(* What a step that takes a data point may do to the record of a service.   *)
Fits(r, q, val) ==
  /\ q \in Svc
  /\ Split(r) => Split(q)
  /\ NonNegative(r) /\ val >= 0 => NonNegative(q)

(* A data point of either name keeps a service's requests the sum of its    *)
(* good and bad ones, and takes nothing away if it is not below zero.       *)
LEMMA AddFits ==
  ASSUME NEW r \in Svc, NEW val \in Int, NEW code
  PROVE  Fits(r, AddRequests(r, code, val), val) /\ Fits(r, AddErrors(r, val), val)
<1>1. r.req \in Int /\ r.ok \in Int /\ r.err \in Int
  BY DEF Svc
<1>2. Fits(r, AddErrors(r, val), val)
  BY <1>1 DEF AddErrors, Fits, Svc, Split, NonNegative
<1>3. CASE code # "" /\ ~isOKStatus(code)
  <2>1. AddRequests(r, code, val) = [req |-> r.req + val, ok |-> r.ok, err |-> r.err + val]
    BY <1>3, Zenon DEF AddRequests
  <2> QED
    BY <1>1, <1>2, <2>1 DEF Fits, Svc, Split, NonNegative
<1>4. CASE ~(code # "" /\ ~isOKStatus(code))
  <2>1. AddRequests(r, code, val) = [req |-> r.req + val, ok |-> r.ok + val, err |-> r.err]
    BY <1>4, Zenon DEF AddRequests
  <2> QED
    BY <1>1, <1>2, <2>1 DEF Fits, Svc, Split, NonNegative
<1> QED
  BY <1>3, <1>4

(* A difference is never negative, and never more than the value.           *)
LEMMA DeltaNat ==
  ASSUME TypeOK, NEW k \in Keys, NEW cur \in Nat
  PROVE  /\ delta(k, cur) \in Nat
         /\ cur >= last[k] => delta(k, cur) = cur - last[k]
         /\ cur < last[k] => delta(k, cur) = 0
  BY DEF TypeOK, delta

(* Every export holds two naturals.                                         *)
LEMMA ExportsNat ==
  ASSUME TypeOK, NEW c \in Counters, NEW k \in 1 .. Len(sent[c])
  PROVE  sent[c][k].value \in Nat /\ sent[c][k].made \in Nat
<1>1. ASSUME NEW S, NEW q \in Seq(S), NEW i \in 1 .. Len(q) PROVE q[i] \in S
  OBVIOUS
<1>2. sent[c] \in Seq([value : Nat, made : Nat])
  BY DEF TypeOK
<1>3. sent[c][k] \in [value : Nat, made : Nat]
  BY <1>1, <1>2
<1> QED
  BY <1>3

-----------------------------------------------------------------------------
(* Types and the split of requests                                          *)

(* The record of one service is changed, in a way that fits, and what is    *)
(* remembered of sums below zero is not forgotten.                          *)
Effect(s, r) ==
  /\ st' = [st EXCEPT ![s] = r]
  /\ r \in Svc
  /\ Split(st[s]) => Split(r)
  /\ NonNegative(st[s]) /\ spans'[s].below = 0 => NonNegative(r)
  /\ spans' \in [Services -> Mix]
  /\ \A t \in Services : spans[t].below <= spans'[t].below

(* Spans are no longer all a service had; nothing else changes.             *)
LEMMA OnlyFalse ==
  ASSUME spans \in [Services -> Mix], NEW s \in Services,
         spans' = [spans EXCEPT ![s].only = FALSE]
  PROVE  spans' \in [Services -> Mix] /\ \A t \in Services : spans[t].below <= spans'[t].below
<1>1. ASSUME NEW q \in Mix
      PROVE  [q EXCEPT !.only = FALSE] \in Mix /\ [q EXCEPT !.only = FALSE].below = q.below
  BY DEF Mix
<1>2. spans[s] \in Mix
  OBVIOUS
<1>3. PICK m \in Mix : m = [spans[s] EXCEPT !.only = FALSE] /\ m.below = spans[s].below
  BY <1>1, <1>2
<1>4. spans' = [spans EXCEPT ![s] = m]
  BY <1>3
<1>5. spans' \in [Services -> Mix]
  BY <1>4
<1>6. ASSUME NEW t \in Services PROVE spans[t].below <= spans'[t].below
  <2>1. spans[t] \in Mix
    OBVIOUS
  <2>2. spans'[t] = IF t = s THEN m ELSE spans[t]
    BY <1>4
  <2>3. spans'[t].below = spans[t].below
    BY <1>3, <2>2
  <2> QED
    BY <2>1, <2>3 DEF Mix
<1> QED
  BY <1>5, <1>6

LEMMA InputEffect ==
  ASSUME TypeOK, Inputs
  PROVE  \E s \in Services, r \in Svc : Effect(s, r)
<1>0. spans \in [Services -> Mix]
  BY DEF TypeOK, Mix
<1>1. ASSUME NEW c \in Counters, NEW k \in 1 .. Len(sent[c]), TakeCounter(c, k)
      PROVE  \E s \in Services, r \in Svc : Effect(s, r)
  <2> DEFINE s == ServiceOf[c]
             val == delta(KeyOf[c], sent[c][k].value)
             r == IF c \in IsErrors THEN AddErrors(st[s], val)
                  ELSE AddRequests(st[s], CodeOf[c], val)
  <2>1. s \in Services /\ st[s] \in Svc /\ val \in Nat
    <3>1. KeyOf[c] \in Keys /\ s \in Services /\ st[s] \in Svc
      BY RedAssumption DEF TypeOK, Svc
    <3>2. sent[c][k].value \in Nat
      BY ExportsNat
    <3> QED
      BY <3>1, <3>2, DeltaNat
  <2>2. st' = [st EXCEPT ![s] = r] /\ spans' = [spans EXCEPT ![s].only = FALSE]
    BY <1>1 DEF TakeCounter
  <2>3. Fits(st[s], r, val)
    <3>1. PICK x \in Int : x = val
      BY <2>1
    <3>2. Fits(st[s], AddRequests(st[s], CodeOf[c], x), x)
      BY <2>1, AddFits
    <3>3. Fits(st[s], AddErrors(st[s], x), x)
      BY <2>1, AddFits
    <3> QED
      BY <3>1, <3>2, <3>3
  <2>4. spans' \in [Services -> Mix] /\ \A t \in Services : spans[t].below <= spans'[t].below
    BY <1>0, <2>1, <2>2, OnlyFalse
  <2>5. Effect(s, r)
    BY <2>1, <2>2, <2>3, <2>4 DEF Effect, Fits
  <2>6. r \in Svc
    BY <2>3 DEF Fits
  <2> QED
    BY <2>1, <2>5, <2>6
<1>2. ASSUME NEW s \in Services, NEW errors \in BOOLEAN, NEW code \in Codes,
             NEW val \in -1 .. 1, TakeDelta(s, errors, code, val)
      PROVE  \E s1 \in Services, r \in Svc : Effect(s1, r)
  <2> DEFINE r == IF errors THEN AddErrors(st[s], val) ELSE AddRequests(st[s], code, val)
  <2>1. st[s] \in Svc /\ val \in Int
    BY DEF TypeOK, Svc
  <2>2. /\ st' = [st EXCEPT ![s] = r]
        /\ spans' = [spans EXCEPT ![s] = [errors |-> @.errors, only |-> FALSE,
                                          below |-> IF val < 0 THEN @.below + 1 ELSE @.below]]
    BY <1>2 DEF TakeDelta
  <2>3. Fits(st[s], r, val)
    <3>1. Fits(st[s], AddRequests(st[s], code, val), val) /\ Fits(st[s], AddErrors(st[s], val), val)
      BY <2>1, AddFits
    <3> QED
      BY <3>1
  <2>4. /\ spans' \in [Services -> Mix]
        /\ \A t \in Services : spans[t].below <= spans'[t].below
        /\ spans'[s].below = IF val < 0 THEN spans[s].below + 1 ELSE spans[s].below
    BY <1>0, <2>2 DEF Mix
  <2>5. spans'[s].below = 0 => val >= 0
    BY <1>0, <2>1, <2>4 DEF Mix
  <2>6. Effect(s, r)
    BY <2>1, <2>2, <2>3, <2>4, <2>5 DEF Effect, Fits
  <2>7. r \in Svc
    BY <2>3 DEF Fits
  <2> QED
    BY <2>6, <2>7
<1>3. ASSUME NEW s \in Services, NEW sp \in Span, TakeSpan(s, sp)
      PROVE  \E s1 \in Services, r \in Svc : Effect(s1, r)
  <2> DEFINE q == AddRequests(st[s], StatusName(sp.status), 1)
             r == IF isErrorSpan(sp) THEN AddErrors(q, 1) ELSE q
  <2>1. st[s] \in Svc
    BY DEF TypeOK, Svc
  <2>2. Fits(st[s], q, 1)
    BY <2>1, AddFits
  <2>3. q \in Svc
    BY <2>2 DEF Fits
  <2>4. Fits(q, AddErrors(q, 1), 1)
    BY <2>3, AddFits
  <2>5. Fits(st[s], r, 1)
    BY <2>2, <2>4 DEF Fits
  <2>6. st' = [st EXCEPT ![s] = r]
    BY <1>3 DEF TakeSpan
  <2>7. spans' \in [Services -> Mix] /\ \A t \in Services : spans[t].below <= spans'[t].below
    BY <1>0, <1>3 DEF TakeSpan, Mix
  <2>8. Effect(s, r)
    BY <2>1, <2>5, <2>6, <2>7 DEF Effect, Fits
  <2>9. r \in Svc
    BY <2>5 DEF Fits
  <2> QED
    BY <2>8, <2>9
<1>4. ASSUME NEW s \in Services, NEW errors \in BOOLEAN, NEW code \in Codes,
             NEW value \in -1 .. 1, TakeProm(s, errors, code, value)
      PROVE  \E s1 \in Services, r \in Svc : Effect(s1, r)
  <2> DEFINE v == IF value > 0 THEN value ELSE 0
             r == IF errors THEN AddErrors(st[s], v) ELSE AddRequests(st[s], code, v)
  <2>1. st[s] \in Svc /\ v \in Nat
    BY DEF TypeOK, Svc
  <2>2. Fits(st[s], r, v)
    BY <2>1, AddFits
  <2>3. st' = [st EXCEPT ![s] = r] /\ spans' = [spans EXCEPT ![s].only = FALSE]
    BY <1>4 DEF TakeProm
  <2>4. spans' \in [Services -> Mix] /\ \A t \in Services : spans[t].below <= spans'[t].below
    BY <1>0, <2>3, OnlyFalse
  <2>5. Effect(s, r)
    BY <2>1, <2>2, <2>3, <2>4 DEF Effect, Fits
  <2>6. r \in Svc
    BY <2>2 DEF Fits
  <2> QED
    BY <2>5, <2>6
<1> QED
  BY <1>1, <1>2, <1>3, <1>4 DEF Inputs

(* Every reachable state is well typed: no counter is counted below zero,   *)
(* and no sum falls below zero but by a delta sum that is.                  *)
THEOREM TypeCorrect == Spec => []TypeOK
<1>1. Init => TypeOK
  BY DEF Init, TypeOK, EmptySvc, EmptySpans
<1>2. TypeOK /\ [Next]_vars => TypeOK'
  <2> SUFFICES ASSUME TypeOK, [Next]_vars PROVE TypeOK'
    OBVIOUS
  <2>1. ASSUME NEW c \in Counters, NEW n \in 0 .. MaxTotal[c], Export(c, n)
        PROVE  TypeOK'
    <3>1. total' \in [Counters -> Nat] /\ made' \in [Counters -> Nat]
      <4>1. n \in Nat
        BY RedAssumption
      <4> QED
        BY <2>1, <4>1 DEF Export, TypeOK
    <3>2. [value |-> total'[c], made |-> made'[c]] \in [value : Nat, made : Nat]
      BY <3>1
    <3>3. sent[c] \in Seq([value : Nat, made : Nat])
      BY DEF TypeOK
    <3>4. Append(sent[c], [value |-> total'[c], made |-> made'[c]]) \in Seq([value : Nat, made : Nat])
      BY <3>2, <3>3
    <3>5. sent' \in [Counters -> Seq([value : Nat, made : Nat])]
      BY <2>1, <3>4 DEF Export, TypeOK
    <3> QED
      BY <2>1, <3>1, <3>5 DEF Export, TypeOK, deltas
  <2>2. ASSUME NEW c \in Counters, ExporterRestarts(c)
        PROVE  TypeOK'
    BY <2>2 DEF ExporterRestarts, TypeOK, deltas
  <2>3. CASE Inputs
    <3>1. PICK s \in Services, r \in Svc : Effect(s, r)
      BY <2>3, InputEffect
    <3>2. st' \in [Services -> Svc]
      BY <3>1 DEF TypeOK, Svc, Effect
    <3>3. \A t \in Services : spans'[t].below = 0 => NonNegative(st'[t])
      <4> SUFFICES ASSUME NEW t \in Services, spans'[t].below = 0 PROVE NonNegative(st'[t])
        OBVIOUS
      <4>1. NonNegative(st[t])
        BY <3>1 DEF Effect, TypeOK, NonNegative
      <4>2. CASE t = s
        BY <3>1, <4>1, <4>2 DEF Effect, TypeOK
      <4>3. CASE t # s
        BY <3>1, <4>1, <4>3 DEF Effect, TypeOK
      <4> QED
        BY <4>2, <4>3
    <3> DEFINE rest ==
          /\ last' \in [Keys -> Nat] /\ counted' \in [Counters -> Nat]
          /\ at' \in [Counters -> Nat] /\ late' \in [Counters -> Nat]
          /\ direct' \in Nat /\ UNCHANGED source
    <3>4. rest
      <4>1. ASSUME NEW c \in Counters, NEW k \in 1 .. Len(sent[c]), TakeCounter(c, k) PROVE rest
        <5>1. sent[c][k].value \in Nat /\ KeyOf[c] \in Keys /\ k \in Nat
          BY RedAssumption, ExportsNat
        <5>2. delta(KeyOf[c], sent[c][k].value) \in Nat
          BY <5>1, DeltaNat
        <5>3. /\ last' = [last EXCEPT ![KeyOf[c]] = sent[c][k].value]
              /\ counted' = [counted EXCEPT ![c] = @ + delta(KeyOf[c], sent[c][k].value)]
              /\ at' = [at EXCEPT ![c] = k]
              /\ late' = [late EXCEPT ![c] = IF k < at[c] THEN @ + 1 ELSE @]
              /\ UNCHANGED source /\ direct' = direct
          BY <4>1 DEF TakeCounter
        <5>4. PICK v \in Nat, x \in Nat :
                v = sent[c][k].value /\ x = delta(KeyOf[c], sent[c][k].value)
          BY <5>1, <5>2
        <5>5. last' \in [Keys -> Nat]
          BY <5>1, <5>3, <5>4 DEF TypeOK
        <5>6. counted' \in [Counters -> Nat]
          <6>1. counted' = [counted EXCEPT ![c] = @ + x]
            BY <5>3, <5>4
          <6> QED
            BY <6>1 DEF TypeOK
        <5>7. at' \in [Counters -> Nat]
          BY <5>1, <5>3 DEF TypeOK
        <5>8. late' \in [Counters -> Nat]
          <6>1. late[c] \in Nat
            BY DEF TypeOK
          <6>2. PICK y \in Nat : y = IF k < at[c] THEN late[c] + 1 ELSE late[c]
            BY <6>1
          <6>3. late' = [late EXCEPT ![c] = y]
            BY <5>3, <6>2
          <6> QED
            BY <6>3 DEF TypeOK
        <5> QED
          BY <5>3, <5>5, <5>6, <5>7, <5>8 DEF TypeOK
      <4>2. ASSUME NEW s1 \in Services, NEW errors \in BOOLEAN, NEW code \in Codes,
                   NEW val \in -1 .. 1, TakeDelta(s1, errors, code, val)
            PROVE  rest
        BY <4>2 DEF TakeDelta, TypeOK, deltas
      <4>3. ASSUME NEW s1 \in Services, NEW sp \in Span, TakeSpan(s1, sp) PROVE rest
        BY <4>3 DEF TakeSpan, TypeOK, deltas
      <4>4. ASSUME NEW s1 \in Services, NEW errors \in BOOLEAN, NEW code \in Codes,
                   NEW value \in -1 .. 1, TakeProm(s1, errors, code, value)
            PROVE  rest
        BY <4>4 DEF TakeProm, TypeOK, deltas
      <4> QED
        BY <2>3, <4>1, <4>2, <4>3, <4>4 DEF Inputs
    <3>5. spans' \in [Services -> Mix]
      BY <3>1 DEF Effect
    <3> QED
      BY <3>2, <3>3, <3>4, <3>5 DEF TypeOK, Svc, Mix, NonNegative, source
  <2>4. CASE Flush
    BY <2>4 DEF Flush, TypeOK, source, deltas, EmptySvc, EmptySpans
  <2>5. CASE Restart
    BY <2>5 DEF Restart, TypeOK, EmptySvc, EmptySpans
  <2>6. CASE UNCHANGED vars
    BY <2>6 DEF vars, TypeOK
  <2> QED
    BY <2>1, <2>2, <2>3, <2>4, <2>5, <2>6 DEF Next, Inputs
<1> QED
  BY <1>1, <1>2, PTL DEF Spec

(* The requests of a service are its good and its bad ones, for every mix   *)
(* of OTLP counters, delta sums, spans and Prometheus samples.              *)
THEOREM RequestsAlwaysSplit == Spec => []RequestsSplit
<1>1. Init => RequestsSplit
  BY DEF Init, RequestsSplit, EmptySvc
<1>2. TypeOK /\ RequestsSplit /\ [Next]_vars => RequestsSplit'
  <2> SUFFICES ASSUME TypeOK, RequestsSplit, [Next]_vars PROVE RequestsSplit'
    OBVIOUS
  <2>1. CASE Inputs
    <3>1. PICK s \in Services, r \in Svc : Effect(s, r)
      BY <2>1, InputEffect
    <3>2. st' = [st EXCEPT ![s] = r] /\ Split(r)
      BY <3>1 DEF Effect, RequestsSplit, Split
    <3> QED
      BY <3>2 DEF RequestsSplit, Split, TypeOK
  <2>2. CASE Flush \/ Restart
    BY <2>2 DEF Flush, Restart, RequestsSplit, EmptySvc
  <2>3. CASE UNCHANGED st
    BY <2>3 DEF RequestsSplit
  <2> QED
    BY <2>1, <2>2, <2>3 DEF Next, Inputs, Export, ExporterRestarts, vars
<1> QED
  BY <1>1, <1>2, TypeCorrect, PTL DEF Spec

-----------------------------------------------------------------------------
(* The delta map                                                            *)

(* The exports of a counter, with one of nothing in front.                  *)
Value(c, k) == IF k = 0 THEN 0 ELSE sent[c][k].value
Made(c, k) == IF k = 0 THEN 0 ELSE sent[c][k].made

(* From one export to a later one, and to now, a counter shows no more than *)
(* it has made meanwhile, and falls only by a restart.                      *)
Exported(c) ==
  /\ \A k \in 0 .. Len(sent[c]) :
       /\ Value(c, k) \in Nat /\ Made(c, k) \in Nat
       /\ Value(c, k) <= Made(c, k) /\ Made(c, k) <= made[c]
       /\ total[c] - Value(c, k) <= made[c] - Made(c, k)
       /\ c \notin reset => Value(c, k) <= total[c]
  /\ \A j, k \in 0 .. Len(sent[c]) : j <= k =>
       /\ Made(c, j) <= Made(c, k)
       /\ Value(c, k) - Value(c, j) <= Made(c, k) - Made(c, j)
       /\ c \notin reset => Value(c, j) <= Value(c, k)

(* What has been added for a counter is what it had made by the export that *)
(* was taken last, but for what late ones cost.                             *)
Taken(c) ==
  /\ at[c] \in 0 .. Len(sent[c])
  /\ last[KeyOf[c]] = Value(c, at[c])
  /\ counted[c] <= Made(c, at[c]) + late[c] * made[c]
  /\ counted[c] >= last[KeyOf[c]]
  /\ c \notin reset /\ late[c] = 0 => counted[c] = last[KeyOf[c]]

DeltaInv == \A c \in Counters : Exported(c) /\ (Alone(c) => Taken(c))

(* An export adds itself to the exports, above all of them.                 *)
LEMMA ExportStep ==
  ASSUME TypeOK, NEW c \in Counters, Exported(c), NEW n \in 0 .. MaxTotal[c], Export(c, n)
  PROVE  /\ Exported(c)'
         /\ Len(sent'[c]) = Len(sent[c]) + 1
         /\ \A k \in 0 .. Len(sent[c]) : Value(c, k)' = Value(c, k) /\ Made(c, k)' = Made(c, k)
<1>1. PICK e : e = [value |-> total'[c], made |-> made'[c]]
  OBVIOUS
<1>2. /\ sent[c] \in Seq([value : Nat, made : Nat]) /\ total[c] \in Nat /\ made[c] \in Nat
      /\ n \in Nat
  BY RedAssumption DEF TypeOK
<1>3. total'[c] = total[c] + n /\ made'[c] = made[c] + n /\ reset' = reset
  BY <1>2 DEF Export, TypeOK
<1>4. sent'[c] = Append(sent[c], e)
  BY <1>1 DEF Export, TypeOK
<1>5. PICK N \in Nat : N = Len(sent[c])
  BY <1>2
<1>6. /\ Len(sent'[c]) = N + 1 /\ sent'[c][N + 1] = e
      /\ \A k \in 1 .. N : sent'[c][k] = sent[c][k]
  BY <1>2, <1>4, <1>5
<1>7. \A k \in 0 .. N : Value(c, k)' = Value(c, k) /\ Made(c, k)' = Made(c, k)
  BY <1>5, <1>6 DEF Value, Made
<1>8. Value(c, N + 1)' = total'[c] /\ Made(c, N + 1)' = made'[c]
  BY <1>1, <1>5, <1>6 DEF Value, Made
<1>9. \A k \in 0 .. N + 1 :
        /\ Value(c, k)' \in Nat /\ Made(c, k)' \in Nat
        /\ Value(c, k)' <= Made(c, k)' /\ Made(c, k)' <= made'[c]
        /\ total'[c] - Value(c, k)' <= made'[c] - Made(c, k)'
        /\ c \notin reset' => Value(c, k)' <= total'[c]
  <2> SUFFICES ASSUME NEW k \in 0 .. N + 1
               PROVE  /\ Value(c, k)' \in Nat /\ Made(c, k)' \in Nat
                      /\ Value(c, k)' <= Made(c, k)' /\ Made(c, k)' <= made'[c]
                      /\ total'[c] - Value(c, k)' <= made'[c] - Made(c, k)'
                      /\ c \notin reset' => Value(c, k)' <= total'[c]
    OBVIOUS
  <2>1. CASE k \in 0 .. N
    <3>1. /\ Value(c, k) \in Nat /\ Made(c, k) \in Nat
          /\ Value(c, k) <= Made(c, k) /\ Made(c, k) <= made[c]
          /\ total[c] - Value(c, k) <= made[c] - Made(c, k)
          /\ c \notin reset => Value(c, k) <= total[c]
      BY <1>5, <2>1 DEF Exported
    <3>2. Value(c, k)' = Value(c, k) /\ Made(c, k)' = Made(c, k)
      BY <1>7, <2>1
    <3> QED
      BY <1>2, <1>3, <3>1, <3>2
  <2>2. CASE k = N + 1
    <3>1. total[c] <= made[c]
      <4>1. 0 \in 0 .. Len(sent[c]) /\ Value(c, 0) = 0 /\ Made(c, 0) = 0
        BY <1>5 DEF Value, Made
      <4>2. total[c] - Value(c, 0) <= made[c] - Made(c, 0)
        BY <4>1 DEF Exported
      <4> QED
        BY <1>2, <4>1, <4>2
    <3>2. Value(c, k)' = total'[c] /\ Made(c, k)' = made'[c]
      BY <1>8, <2>2
    <3> QED
      BY <1>2, <1>3, <3>1, <3>2
  <2> QED
    BY <1>5, <2>1, <2>2
<1>10. \A j, k \in 0 .. N + 1 : j <= k =>
         /\ Made(c, j)' <= Made(c, k)'
         /\ Value(c, k)' - Value(c, j)' <= Made(c, k)' - Made(c, j)'
         /\ c \notin reset' => Value(c, j)' <= Value(c, k)'
  <2> SUFFICES ASSUME NEW j \in 0 .. N + 1, NEW k \in 0 .. N + 1, j <= k
               PROVE  /\ Made(c, j)' <= Made(c, k)'
                      /\ Value(c, k)' - Value(c, j)' <= Made(c, k)' - Made(c, j)'
                      /\ c \notin reset' => Value(c, j)' <= Value(c, k)'
    OBVIOUS
  <2>1. CASE k \in 0 .. N
    <3>1. j \in 0 .. N
      BY <1>5, <2>1
    <3>2. /\ Made(c, j) <= Made(c, k)
          /\ Value(c, k) - Value(c, j) <= Made(c, k) - Made(c, j)
          /\ c \notin reset => Value(c, j) <= Value(c, k)
      BY <1>5, <2>1, <3>1 DEF Exported
    <3> QED
      BY <1>3, <1>7, <2>1, <3>1, <3>2
  <2>2. CASE k = N + 1
    <3>1. Value(c, k)' = total'[c] /\ Made(c, k)' = made'[c]
      BY <1>8, <2>2
    <3> QED
      BY <1>9, <3>1
  <2> QED
    BY <1>5, <2>1, <2>2
<1>11. Exported(c)'
  BY <1>5, <1>6, <1>9, <1>10 DEF Exported
<1> QED
  BY <1>5, <1>6, <1>7, <1>11

(* Each step keeps every lone counter in step with the delta map.           *)
LEMMA DeltaStep == TypeOK /\ DeltaInv /\ [Next]_vars => DeltaInv'
<1> SUFFICES ASSUME TypeOK, DeltaInv, [Next]_vars, NEW c \in Counters
             PROVE  Exported(c)' /\ (Alone(c) => Taken(c)')
  BY DEF DeltaInv, Alone
<1>a. /\ Exported(c) /\ (Alone(c) => Taken(c)) /\ KeyOf[c] \in Keys
      /\ total[c] \in Nat /\ made[c] \in Nat
      /\ last[KeyOf[c]] \in Nat /\ counted[c] \in Nat /\ at[c] \in Nat /\ late[c] \in Nat
  BY RedAssumption DEF DeltaInv, TypeOK
<1>b. ASSUME sent'[c] = sent[c]
      PROVE  \A k : Value(c, k)' = Value(c, k) /\ Made(c, k)' = Made(c, k)
  BY <1>b DEF Value, Made
<1>1. ASSUME NEW d \in Counters, NEW n \in 0 .. MaxTotal[d], Export(d, n), d = c
      PROVE  Exported(c)' /\ (Alone(c) => Taken(c)')
  <2>1. /\ Exported(c)' /\ Len(sent'[c]) = Len(sent[c]) + 1
        /\ \A k \in 0 .. Len(sent[c]) : Value(c, k)' = Value(c, k) /\ Made(c, k)' = Made(c, k)
    BY <1>a, <1>1, ExportStep
  <2>2. UNCHANGED <<last, counted, at, late, reset>> /\ made'[c] = made[c] + n /\ n \in Nat
    BY <1>1, RedAssumption DEF Export, TypeOK, deltas
  <2>3. ASSUME Alone(c) PROVE Taken(c)'
    <3>1. Taken(c) /\ Len(sent[c]) \in Nat
      BY <1>a, <2>3 DEF TypeOK
    <3>2. at'[c] \in 0 .. Len(sent'[c]) /\ Value(c, at[c])' = Value(c, at[c])
          /\ Made(c, at[c])' = Made(c, at[c]) /\ Made(c, at[c]) \in Nat
      BY <1>a, <2>1, <2>2, <3>1 DEF Taken, Exported
    <3>3. late[c] * made[c] \in Nat /\ late[c] * n \in Nat
          /\ late[c] * made'[c] = late[c] * made[c] + late[c] * n
      BY <1>a, <2>2
    <3>4. counted[c] <= Made(c, at[c]) + late[c] * made'[c]
      <4>1. PICK P \in Nat, Q \in Nat : P = late[c] * made[c] /\ Q = late[c] * n
        BY <3>3
      <4>2. late[c] * made'[c] = P + Q
        BY <3>3, <4>1
      <4>3. PICK o \in Nat : o = Made(c, at[c])
        BY <3>2
      <4>4. counted[c] <= o + P
        BY <3>1, <4>1, <4>3 DEF Taken
      <4>5. counted[c] <= o + (P + Q)
        BY <1>a, <4>1, <4>3, <4>4
      <4> QED
        BY <4>2, <4>3, <4>5
    <3>5. /\ last'[KeyOf[c]] = Value(c, at[c]) /\ counted'[c] >= last'[KeyOf[c]]
          /\ c \notin reset' /\ late'[c] = 0 => counted'[c] = last'[KeyOf[c]]
      BY <2>2, <3>1 DEF Taken
    <3> QED
      BY <2>2, <3>2, <3>4, <3>5 DEF Taken
  <2> QED
    BY <2>1, <2>3
<1>2. ASSUME NEW d \in Counters, ExporterRestarts(d), d = c
      PROVE  Exported(c)' /\ (Alone(c) => Taken(c)')
  <2>1. /\ UNCHANGED <<made, sent, last, counted, at, late>>
        /\ reset' = reset \cup {c} /\ total'[c] = 0
    BY <1>2 DEF ExporterRestarts, deltas, TypeOK
  <2>2. \A k : Value(c, k)' = Value(c, k) /\ Made(c, k)' = Made(c, k)
    BY <1>b, <2>1
  <2>3. Exported(c)'
    <3>1. \A k \in 0 .. Len(sent[c]) :
            /\ Value(c, k) \in Nat /\ Made(c, k) \in Nat
            /\ Value(c, k) <= Made(c, k) /\ Made(c, k) <= made[c]
            /\ 0 - Value(c, k) <= made[c] - Made(c, k)
      <4> SUFFICES ASSUME NEW k \in 0 .. Len(sent[c])
                   PROVE  /\ Value(c, k) \in Nat /\ Made(c, k) \in Nat
                          /\ Value(c, k) <= Made(c, k) /\ Made(c, k) <= made[c]
                          /\ 0 - Value(c, k) <= made[c] - Made(c, k)
        OBVIOUS
      <4> QED
        BY <1>a DEF Exported
    <3>2. \A j, k \in 0 .. Len(sent[c]) : j <= k =>
            /\ Made(c, j) <= Made(c, k)
            /\ Value(c, k) - Value(c, j) <= Made(c, k) - Made(c, j)
      BY <1>a DEF Exported
    <3>3. c \in reset' /\ made'[c] = made[c] /\ sent' = sent
      BY <2>1
    <3> QED
      BY <2>1, <2>2, <3>1, <3>2, <3>3 DEF Exported
  <2>4. ASSUME Alone(c) PROVE Taken(c)'
    BY <1>a, <2>1, <2>2, <2>4 DEF Taken
  <2> QED
    BY <2>3, <2>4
<1>c. ASSUME total'[c] = total[c], made'[c] = made[c], sent'[c] = sent[c], reset' \cap {c} = reset \cap {c}
      PROVE  Exported(c)'
  <2>1. \A k : Value(c, k)' = Value(c, k) /\ Made(c, k)' = Made(c, k)
    BY <1>b, <1>c
  <2>2. c \in reset' <=> c \in reset
    BY <1>c
  <2> QED
    BY <1>a, <1>c, <2>1, <2>2 DEF Exported
<1>d. ASSUME made'[c] = made[c], sent'[c] = sent[c], reset' \cap {c} = reset \cap {c}, Alone(c),
             last'[KeyOf[c]] = last[KeyOf[c]], counted'[c] = counted[c], at'[c] = at[c],
             late'[c] = late[c]
      PROVE  Taken(c)'
  <2>1. \A k : Value(c, k)' = Value(c, k) /\ Made(c, k)' = Made(c, k)
    BY <1>b, <1>d
  <2>2. c \in reset' <=> c \in reset
    BY <1>d
  <2> QED
    BY <1>a, <1>d, <2>1, <2>2 DEF Taken
<1>3. ASSUME NEW d \in Counters, NEW n \in 0 .. MaxTotal[d], Export(d, n), d # c
      PROVE  Exported(c)' /\ (Alone(c) => Taken(c)')
  <2>1. /\ total'[c] = total[c] /\ made'[c] = made[c] /\ sent'[c] = sent[c] /\ reset' = reset
        /\ UNCHANGED <<last, counted, at, late>>
    BY <1>3 DEF Export, TypeOK, deltas
  <2> QED
    BY <1>c, <1>d, <2>1
<1>4. ASSUME NEW d \in Counters, ExporterRestarts(d), d # c
      PROVE  Exported(c)' /\ (Alone(c) => Taken(c)')
  <2>1. /\ total'[c] = total[c] /\ reset' \cap {c} = reset \cap {c}
        /\ UNCHANGED <<made, sent, last, counted, at, late>>
    BY <1>4 DEF ExporterRestarts, TypeOK, deltas
  <2> QED
    BY <1>c, <1>d, <2>1
<1>5. ASSUME NEW d \in Counters, NEW k \in 1 .. Len(sent[d]), TakeCounter(d, k)
      PROVE  Exported(c)' /\ (Alone(c) => Taken(c)')
  <2>1. UNCHANGED <<total, made, reset, sent>>
    BY <1>5 DEF TakeCounter, source
  <2>2. Exported(c)'
    BY <1>c, <2>1
  <2>3. ASSUME d = c, Alone(c) PROVE Taken(c)'
    <3>1. \A i : Value(c, i)' = Value(c, i) /\ Made(c, i)' = Made(c, i)
      BY <1>b, <2>1
    <3>2. PICK a \in Nat : a = at[c]
      BY <1>a
    <3>3. /\ a \in 0 .. Len(sent[c]) /\ k \in 0 .. Len(sent[c]) /\ k \in Nat
          /\ sent[c][k].value = Value(c, k)
      BY <1>a, <1>5, <2>3, <3>2 DEF Taken, Value
    <3>4. PICK v \in Nat, w \in Nat, m \in Nat, o \in Nat, P \in Nat :
            /\ v = Value(c, k) /\ w = Value(c, a) /\ m = Made(c, k) /\ o = Made(c, a)
            /\ P = late[c] * made[c]
      <4>1. late[c] * made[c] \in Nat
        BY <1>a
      <4> QED
        BY <1>a, <3>3, <4>1 DEF Exported
    <3>5. /\ v <= m /\ m <= made[c] /\ o <= made[c]
          /\ a <= k => o <= m /\ v - w <= m - o /\ (c \notin reset => w <= v)
      BY <1>a, <3>3, <3>4 DEF Exported
    <3>6. /\ last[KeyOf[c]] = w /\ counted[c] <= o + P /\ counted[c] >= w
          /\ c \notin reset /\ late[c] = 0 => counted[c] = w
      BY <1>a, <2>3, <3>2, <3>4 DEF Taken
    <3>7. last'[KeyOf[c]] = v /\ at'[c] = k /\ counted'[c] = counted[c] + delta(KeyOf[c], v)
      BY <1>a, <1>5, <2>3, <3>3, <3>4 DEF TakeCounter, TypeOK
    <3>8. PICK x \in Nat : /\ x = delta(KeyOf[c], v)
                           /\ v >= w => x = v - w
                           /\ v < w => x = 0
      BY <1>a, <3>4, <3>6, DeltaNat
    <3>9. late'[c] = IF k < a THEN late[c] + 1 ELSE late[c]
      BY <1>5, <2>3, <3>2 DEF TakeCounter, TypeOK
    <3>10. counted'[c] = counted[c] + x /\ counted'[c] >= v
      BY <1>a, <3>6, <3>7, <3>8
    <3>11. c \notin reset' /\ late'[c] = 0 => counted'[c] = v
      <4> SUFFICES ASSUME c \notin reset, late'[c] = 0 PROVE counted'[c] = v
        BY <2>1
      <4>1. ~(k < a) /\ late[c] = 0
        BY <1>a, <3>9
      <4>2. w <= v /\ counted[c] = w
        BY <3>2, <3>3, <3>5, <3>6, <4>1
      <4> QED
        BY <3>8, <3>10, <4>2
    <3>12. counted'[c] <= m + late'[c] * made[c]
      <4>1. CASE k < a
        <5>1. late'[c] * made[c] = P + made[c]
          <6>1. \A i, j \in Nat : (i + 1) * j = i * j + j
            OBVIOUS
          <6>2. late'[c] = late[c] + 1
            BY <3>9, <4>1
          <6> QED
            BY <1>a, <3>4, <6>1, <6>2
        <5>2. x <= m
          BY <3>5, <3>8
        <5> QED
          BY <1>a, <3>5, <3>6, <3>10, <5>1, <5>2
      <4>2. CASE ~(k < a)
        <5>1. late'[c] * made[c] = P /\ a <= k
          BY <3>2, <3>3, <3>4, <3>9, <4>2
        <5>2. x <= m - o
          BY <3>5, <3>8, <5>1
        <5> QED
          BY <1>a, <3>6, <3>10, <5>1, <5>2
      <4> QED
        BY <4>1, <4>2
    <3>13. made' = made /\ sent' = sent
      BY <2>1
    <3> QED
      BY <3>1, <3>3, <3>4, <3>7, <3>10, <3>11, <3>12, <3>13 DEF Taken
  <2>4. ASSUME d # c, Alone(c) PROVE Taken(c)'
    <3>1. KeyOf[d] # KeyOf[c]
      BY <2>4 DEF Alone
    <3>2. /\ last'[KeyOf[c]] = last[KeyOf[c]] /\ counted'[c] = counted[c]
          /\ at'[c] = at[c] /\ late'[c] = late[c]
      BY <1>5, <1>a, <2>4, <3>1 DEF TakeCounter, TypeOK
    <3> QED
      BY <1>d, <2>1, <2>4, <3>2
  <2> QED
    BY <2>2, <2>3, <2>4
<1>6. CASE Restart
  <2>1. /\ UNCHANGED <<total, made, reset, sent>> /\ at'[c] = 0 /\ late'[c] = 0
        /\ last'[KeyOf[c]] = 0 /\ counted'[c] = 0
    BY <1>6, <1>a DEF Restart
  <2>2. Exported(c)'
    BY <1>c, <2>1
  <2>3. Value(c, 0)' = 0 /\ Made(c, 0)' = 0 /\ 0 \in 0 .. Len(sent'[c]) /\ 0 * made'[c] = 0
    <3>1. Len(sent[c]) \in Nat
      BY DEF TypeOK
    <3> QED
      BY <1>a, <2>1, <3>1 DEF Value, Made
  <2>4. Taken(c)'
    BY <2>1, <2>3 DEF Taken
  <2> QED
    BY <2>2, <2>4
<1>7. CASE UNCHANGED <<source, deltas>>
  <2>1. UNCHANGED <<total, made, reset, sent, last, counted, at, late>>
    BY <1>7 DEF source, deltas
  <2> QED
    BY <1>c, <1>d, <2>1
<1> QED
  BY <1>1, <1>2, <1>3, <1>4, <1>5, <1>6, <1>7
     DEF Next, TakeDelta, TakeSpan, TakeProm, Flush, vars, source, deltas

(* Every lone counter is always in step with the delta map.                 *)
LEMMA DeltaInvHolds == Spec => []DeltaInv
<1>1. Init => DeltaInv
  <2> SUFFICES ASSUME Init, NEW c \in Counters PROVE Exported(c) /\ Taken(c)
    BY DEF DeltaInv
  <2>1. /\ sent[c] = <<>> /\ total[c] = 0 /\ made[c] = 0 /\ at[c] = 0 /\ late[c] = 0
        /\ counted[c] = 0 /\ last[KeyOf[c]] = 0
    BY RedAssumption DEF Init
  <2>2. Len(sent[c]) = 0 /\ Value(c, 0) = 0 /\ Made(c, 0) = 0
    BY <2>1 DEF Value, Made
  <2>3. Exported(c)
    BY <2>1, <2>2 DEF Exported
  <2>4. Taken(c)
    BY <2>1, <2>2 DEF Taken
  <2> QED
    BY <2>3, <2>4
<1> QED
  BY <1>1, DeltaStep, TypeCorrect, PTL DEF Spec

(* Lost and repeated exports, windows and restarts of the exporting process *)
(* never make a counter that has its key to itself count for more than it   *)
(* counted, and an export that comes after a newer one at most for that much*)
(* again.                                                                   *)
THEOREM CountersNeverOvercounted == Spec => []NeverOvercounted
<1>1. TypeOK /\ DeltaInv => NeverOvercounted
  <2> SUFFICES ASSUME TypeOK, DeltaInv, NEW c \in Counters, Alone(c)
               PROVE  counted[c] <= made[c] * (1 + late[c])
    BY DEF NeverOvercounted
  <2>1. made[c] \in Nat /\ late[c] \in Nat /\ counted[c] \in Nat
    BY DEF TypeOK
  <2>2. PICK o \in Nat : o = Made(c, at[c]) /\ o <= made[c]
    BY DEF DeltaInv, Taken, Exported
  <2>3. PICK P \in Nat : P = late[c] * made[c] /\ made[c] * (1 + late[c]) = made[c] + P
    <3>1. late[c] * made[c] \in Nat /\ made[c] * (1 + late[c]) = made[c] + late[c] * made[c]
      BY <2>1
    <3> QED
      BY <3>1
  <2>4. counted[c] <= o + P
    BY <2>2, <2>3 DEF DeltaInv, Taken
  <2> QED
    BY <2>1, <2>2, <2>3, <2>4
<1> QED
  BY <1>1, DeltaInvHolds, TypeCorrect, PTL

(* The windows add up to the export taken last at least, and exactly when   *)
(* none came after a newer one and the process has not restarted.           *)
THEOREM CountersExact == Spec => []ExactWithoutReset
<1>1. DeltaInv => ExactWithoutReset
  BY DEF DeltaInv, Taken, ExactWithoutReset
<1> QED
  BY <1>1, DeltaInvHolds, PTL
=============================================================================
