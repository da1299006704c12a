-------------------------- MODULE ProcessorsProofs --------------------------
(***************************************************************************)
(* Proofs about the processors of a logs pipeline: what an Aggregate says  *)
(* of its records (logsum), and what a score is of (iforest).              *)
(***************************************************************************)
EXTENDS Processors, ListsProofs, SequenceTheorems

-----------------------------------------------------------------------------
(* The invariant.  What a window or an Aggregate says is what the records    *)
(* say whose numbers it keeps.                                              *)
IsList(s) == s \in Seq(ToSet(s))

Fields == {"kind", "svc", "window", "count", "errs", "users", "top", "from",
           "p50", "p95", "p99", "score", "vector"}

AggOK(a) ==
  /\ DOMAIN a = Fields /\ a.kind = "aggregate"
  /\ a.from \in Seq(DOMAIN sent) /\ a.from # <<>>
  /\ a.p50 \in Int /\ a.p95 \in Int /\ a.p99 \in Int
  /\ CountsMatch(a) /\ TopMatches(a) /\ QuantilesMatch(a)

ItemOK(x) ==
  \/ x.kind = "log" /\ x.id \in DOMAIN sent
  \/ x.kind \in {"batch", "other"} /\ x.ids \in Seq(DOMAIN sent) /\ IsInjective(x.ids)
  \/ AggOK(x)

StateOK(svc, st) ==
  /\ st.from \in Seq(DOMAIN sent) /\ IsInjective(st.from)
  /\ \A id \in ToSet(st.from) : sent[id].svc = svc
  /\ st.total = Len(st.from) /\ st.errs = Errors(st.from) /\ st.users = Users(st.from)
  /\ DOMAIN st.top = Named(st.from)
  /\ \A v \in Named(st.from) : st.top[v] = Times(st.from, v)
  /\ st.res \in Seq(ValuesOf(st.from)) /\ (ValuesOf(st.from) # {} => st.res # <<>>)

Hands == {0} \cup Stages
SentInv == sent \in Seq(LogRecord) /\ \A id \in DOMAIN sent : Len(sent[id].value) <= 1
HandInv ==
  /\ DOMAIN hand = Hands
  /\ \A i \in Hands : IsList(hand[i]) /\ \A x \in ToSet(hand[i]) : ItemOK(x)
OpenInv ==
  /\ IsFiniteSet(DOMAIN open)
  /\ \A s \in DOMAIN open : StateOK(s, open[s]) /\ open[s].from # <<>>
WorkInv ==
  \/ work = None
  \/ DOMAIN work = {1} /\ DOMAIN work[1] = {"a", "attempt"} /\ AggOK(work[1].a)
ExportedInv == IsList(exported) /\ \A a \in ToSet(exported) : AggOK(a)

(* Every record is at one place at most.                                    *)
HeldIn(q) == UNION {Of(q[k]) : k \in DOMAIN q}
OpenIds == UNION {ToSet(open[s].from) : s \in DOMAIN open}
WorkIds == UNION {ToSet(work[k].a.from) : k \in DOMAIN work}
Places == Hands \cup {-1, -2, -3}
At(p) ==
  IF p = -1 THEN OpenIds
  ELSE IF p = -2 THEN WorkIds
  ELSE IF p = -3 THEN HeldIn(exported)
  ELSE HeldIn(hand[p])
Apart ==
  /\ \A p, q \in Places : p # q => At(p) \cap At(q) = {}
  /\ \A p \in Places : At(p) \subseteq DOMAIN sent

OnceIn(q) == \A j, k \in DOMAIN q : j # k => Of(q[j]) \cap Of(q[k]) = {}
OnceInv ==
  /\ \A i \in Hands : OnceIn(hand[i])
  /\ OnceIn(exported)
  /\ \A s, t \in DOMAIN open : s # t => ToSet(open[s].from) \cap ToSet(open[t].from) = {}

SumInv == /\ SentInv /\ HandInv /\ OpenInv /\ WorkInv /\ ExportedInv
          /\ Apart /\ OnceInv

(* The statistics of a service are of all its Aggregates that were scored.  *)
Number(svc) == Cardinality(Own(svc, Len(scored)))
Total(svc, f) == SumOf(Row(svc, f, Len(scored)))
Squares(svc, f) == SumOf(Square(Row(svc, f, Len(scored))))
Scatter(svc, f) == Number(svc) * Squares(svc, f) - Total(svc, f) * Total(svc, f)
Summary(svc) ==
  [f \in DOMAIN Features |->
     [n |-> Number(svc), sum |-> Total(svc, f), spread |-> Scatter(svc, f)]]
ScoredInv ==
  IsList(scored) /\ \A k \in DOMAIN scored : \A f \in DOMAIN Features : scored[k].x[f] \in Int
StatInv ==
  /\ ScoredInv
  /\ \A svc : Number(svc) = 0 =>
       \A f \in DOMAIN Features : Total(svc, f) = 0 /\ Squares(svc, f) = 0
  /\ Normalise => \A svc : statsOf(svc) = Summary(svc)

-----------------------------------------------------------------------------
(* Lists.                                                                   *)
LEMMA ListMade ==
  ASSUME NEW n \in Nat, NEW q, q = [k \in 1 .. n |-> q[k]]
  PROVE  IsList(q) /\ Len(q) = n /\ DOMAIN q = 1 .. n
<1>1. DOMAIN q = 1 .. n
  OBVIOUS
<1>2. \A k \in 1 .. n : q[k] \in ToSet(q)
  BY <1>1 DEF ToSet
<1>3. q \in [1 .. n -> ToSet(q)]
  BY <1>2
<1>4. q \in Seq(ToSet(q))
  BY <1>3
<1>5. QED
  BY <1>3, <1>4 DEF IsList

LEMMA ListShape ==
  ASSUME NEW q, IsList(q)
  PROVE  /\ Len(q) \in Nat /\ DOMAIN q = 1 .. Len(q) /\ q = [k \in 1 .. Len(q) |-> q[k]]
         /\ \A k \in DOMAIN q : q[k] \in ToSet(q)
  BY DEF IsList, ToSet

LEMMA TailOfList ==
  ASSUME NEW q, IsList(q), q # <<>>
  PROVE  /\ IsList(Tail(q)) /\ Len(q) > 0 /\ Len(Tail(q)) = Len(q) - 1 /\ Head(q) = q[1]
         /\ 1 \in DOMAIN q /\ Head(q) \in ToSet(q) /\ ToSet(Tail(q)) \subseteq ToSet(q)
         /\ \A k \in DOMAIN Tail(q) : k + 1 \in DOMAIN q /\ Tail(q)[k] = q[k + 1]
<1>1. PICK L \in Nat : L = Len(q)
  BY DEF IsList
<1>2. DOMAIN q = 1 .. L /\ L > 0
  BY <1>1 DEF IsList
<1>3. Tail(q) = [k \in 1 .. L - 1 |-> q[k + 1]]
  <2>1. Tail(q) \in Seq(ToSet(q)) /\ Len(Tail(q)) = L - 1
    BY <1>1, <1>2 DEF IsList
  <2>2. \A k \in 1 .. L - 1 : Tail(q)[k] = q[k + 1]
    BY <1>1, <1>2, <2>1 DEF IsList
  <2>3. \A t, m : t \in Seq(ToSet(q)) /\ Len(t) = m /\ m \in Nat => t = [k \in 1 .. m |-> t[k]]
    OBVIOUS
  <2>4. L - 1 \in Nat
    BY <1>2
  <2>5. Tail(q) = [k \in 1 .. L - 1 |-> Tail(q)[k]]
    BY <2>1, <2>3, <2>4
  <2>6. QED
    BY <2>2, <2>5
<1>4. L - 1 \in Nat /\ DOMAIN Tail(q) = 1 .. L - 1
  BY <1>2, <1>3
<1>5. IsList(Tail(q)) /\ Len(Tail(q)) = L - 1
  BY <1>3, <1>4, ListMade
<1>6. \A k \in 1 .. L - 1 : k + 1 \in 1 .. L
  BY <1>1
<1>7. Head(q) = q[1]
  BY DEF IsList
<1>8. QED
  BY <1>1, <1>2, <1>3, <1>4, <1>5, <1>6, <1>7 DEF ToSet

LEMMA AppendToList ==
  ASSUME NEW q, IsList(q), NEW x
  PROVE  /\ IsList(Append(q, x)) /\ Len(Append(q, x)) = Len(q) + 1
         /\ ToSet(Append(q, x)) = ToSet(q) \cup {x}
         /\ DOMAIN Append(q, x) = DOMAIN q \cup {Len(q) + 1}
         /\ \A k \in DOMAIN q : Append(q, x)[k] = q[k]
         /\ Append(q, x)[Len(q) + 1] = x
<1>1. PICK L \in Nat : L = Len(q)
  BY DEF IsList
<1>2. DOMAIN q = 1 .. L
  BY <1>1 DEF IsList
<1>3. Append(q, x) = [k \in 1 .. L + 1 |-> IF k = L + 1 THEN x ELSE q[k]]
  <2> DEFINE S == ToSet(q) \cup {x}
  <2>1. q \in Seq(S) /\ x \in S
    <3>1. q \in [1 .. L -> S]
      BY <1>1 DEF IsList
    <3>2. QED
      BY <3>1
  <2> HIDE DEF S
  <2>2. /\ Append(q, x) \in Seq(S) /\ Len(Append(q, x)) = L + 1
        /\ \A k \in 1 .. L : Append(q, x)[k] = q[k]
        /\ Append(q, x)[L + 1] = x
    BY <1>1, <2>1, AppendProperties
  <2>3. \A t, m : t \in Seq(S) /\ Len(t) = m /\ m \in Nat => t = [k \in 1 .. m |-> t[k]]
    OBVIOUS
  <2>4. L + 1 \in Nat /\ \A k \in 1 .. L + 1 : k # L + 1 => k \in 1 .. L
    OBVIOUS
  <2>5. Append(q, x) = [k \in 1 .. L + 1 |-> Append(q, x)[k]]
    BY <2>2, <2>3, <2>4
  <2>6. QED
    BY <2>2, <2>4, <2>5
<1>4. L + 1 \in Nat /\ DOMAIN Append(q, x) = 1 .. L + 1
  BY <1>3
<1>5. IsList(Append(q, x)) /\ Len(Append(q, x)) = L + 1
  BY <1>3, <1>4, ListMade
<1>6. 1 .. L + 1 = 1 .. L \cup {L + 1} /\ L + 1 \notin 1 .. L
  OBVIOUS
<1>7. \A k \in 1 .. L : Append(q, x)[k] = q[k]
  BY <1>3, <1>6
<1>8. Append(q, x)[L + 1] = x
  BY <1>3, <1>6
<1>9. ToSet(Append(q, x)) = ToSet(q) \cup {x}
  BY <1>2, <1>4, <1>6, <1>7, <1>8 DEF ToSet
<1>10. QED
  BY <1>1, <1>2, <1>4, <1>5, <1>6, <1>7, <1>8, <1>9

(* Of a list of items: the records of its head, and those of its tail.      *)
LEMMA TailHolds ==
  ASSUME NEW q, IsList(q), q # <<>>
  PROVE  /\ HeldIn(q) = Of(Head(q)) \cup HeldIn(Tail(q))
         /\ OnceIn(q) => OnceIn(Tail(q)) /\ Of(Head(q)) \cap HeldIn(Tail(q)) = {}
<1>1. PICK L \in Nat : L = Len(q)
  BY ListShape
<1>2. /\ DOMAIN q = 1 .. L /\ L > 0 /\ Head(q) = q[1]
      /\ DOMAIN Tail(q) = 1 .. L - 1 /\ \A k \in 1 .. L - 1 : Tail(q)[k] = q[k + 1]
  BY <1>1, ListShape, TailOfList
<1>3. \A k \in 1 .. L : k = 1 \/ (k - 1 \in 1 .. L - 1 /\ k - 1 + 1 = k)
  BY <1>2
<1>4. \A k \in 1 .. L - 1 : k + 1 \in 1 .. L /\ k + 1 # 1
  BY <1>2
<1>5. ASSUME NEW k \in 1 .. L PROVE Of(q[k]) \subseteq Of(Head(q)) \cup HeldIn(Tail(q))
  BY <1>2, <1>3 DEF HeldIn
<1>6. Of(Head(q)) \cup HeldIn(Tail(q)) \subseteq HeldIn(q)
  <2>1. 1 \in 1 .. L
    BY <1>2
  <2>2. QED
    BY <1>2, <1>4, <2>1 DEF HeldIn
<1>7. HeldIn(q) = Of(Head(q)) \cup HeldIn(Tail(q))
  BY <1>2, <1>5, <1>6 DEF HeldIn
<1>8. ASSUME OnceIn(q) PROVE OnceIn(Tail(q)) /\ Of(Head(q)) \cap HeldIn(Tail(q)) = {}
  <2>1. \A j, k \in 1 .. L - 1 : j # k => j + 1 # k + 1
    OBVIOUS
  <2>2. OnceIn(Tail(q))
    BY <1>2, <1>4, <1>8, <2>1 DEF OnceIn
  <2>3. \A k \in 1 .. L - 1 : Of(q[1]) \cap Of(Tail(q)[k]) = {}
    <3>1. 1 \in 1 .. L
      BY <1>2
    <3>2. QED
      BY <1>2, <1>4, <1>8, <3>1 DEF OnceIn
  <2>4. QED
    BY <1>2, <2>2, <2>3 DEF HeldIn
<1>9. QED
  BY <1>7, <1>8

-----------------------------------------------------------------------------
(* Records are added and never changed, so what a list of them says stays.  *)
SentGrows == DOMAIN sent \subseteq DOMAIN sent' /\ \A id \in DOMAIN sent : sent'[id] = sent[id]

LEMMA SayTheSame ==
  ASSUME SentGrows, NEW ids \in Seq(DOMAIN sent)
  PROVE  /\ Errors(ids)' = Errors(ids) /\ Users(ids)' = Users(ids) /\ Named(ids)' = Named(ids)
         /\ ValuesOf(ids)' = ValuesOf(ids) /\ \A v : Times(ids, v)' = Times(ids, v)
         /\ ids \in Seq(DOMAIN sent') /\ \A id \in ToSet(ids) : sent'[id] = sent[id]
<1>1. \A k \in DOMAIN ids : ids[k] \in DOMAIN sent /\ sent'[ids[k]] = sent[ids[k]]
  BY DEF SentGrows
<1>2. \A id \in ToSet(ids) : sent'[id] = sent[id]
  BY <1>1 DEF ToSet
<1>3. {k \in DOMAIN ids : sent'[ids[k]].level \in ErrLevels}
        = {k \in DOMAIN ids : sent[ids[k]].level \in ErrLevels}
  BY <1>1
<1>4. \A v : {k \in DOMAIN ids : sent'[ids[k]].top = v} = {k \in DOMAIN ids : sent[ids[k]].top = v}
  BY <1>1
<1>5. Users(ids)' = Users(ids) /\ Named(ids)' = Named(ids)
  BY <1>1 DEF Users, Named
<1>6. ValuesOf(ids)' = ValuesOf(ids)
  BY <1>2 DEF ValuesOf
<1>7. ids \in Seq(DOMAIN sent')
  <2>1. Len(ids) \in Nat /\ ids \in [1 .. Len(ids) -> DOMAIN sent']
    BY DEF SentGrows
  <2>2. QED
    BY <2>1
<1>8. QED
  BY <1>2, <1>3, <1>4, <1>5, <1>6, <1>7 DEF Errors, Times

LEMMA AggKept ==
  ASSUME SentGrows, NEW a, AggOK(a)
  PROVE  AggOK(a)'
<1>1. a.from \in Seq(DOMAIN sent)
  BY DEF AggOK
<1>2. CountsMatch(a)'
  BY <1>1, SayTheSame DEF AggOK, CountsMatch
<1>3. TopMatches(a)'
  BY <1>1, SayTheSame DEF AggOK, TopMatches
<1>4. QuantilesMatch(a)'
  BY <1>1, SayTheSame DEF AggOK, QuantilesMatch
<1>5. QED
  BY <1>1, <1>2, <1>3, <1>4, SayTheSame DEF AggOK

LEMMA ItemKept ==
  ASSUME SentGrows, NEW x, ItemOK(x)
  PROVE  ItemOK(x)'
<1>1. CASE x.kind = "log" /\ x.id \in DOMAIN sent
  BY <1>1 DEF ItemOK, SentGrows
<1>2. CASE x.kind \in {"batch", "other"} /\ x.ids \in Seq(DOMAIN sent) /\ IsInjective(x.ids)
  BY <1>2, SayTheSame DEF ItemOK
<1>3. CASE AggOK(x)
  BY <1>3, AggKept DEF ItemOK
<1>4. QED
  BY <1>1, <1>2, <1>3 DEF ItemOK

LEMMA StateKept ==
  ASSUME SentGrows, NEW svc, NEW st, StateOK(svc, st)
  PROVE  StateOK(svc, st)'
<1>1. st.from \in Seq(DOMAIN sent)
  BY DEF StateOK
<1>2. QED
  BY <1>1, SayTheSame DEF StateOK

(* The score and the vector of an Aggregate are not what it says.           *)
LEMMA AggMarked ==
  ASSUME NEW a, AggOK(a), NEW b, DOMAIN b = DOMAIN a,
         \A f \in Fields \ {"score", "vector"} : b[f] = a[f]
  PROVE  AggOK(b) /\ b.from = a.from /\ b.kind = a.kind /\ b.svc = a.svc
<1>1. /\ b.kind = a.kind /\ b.svc = a.svc /\ b.from = a.from /\ b.count = a.count
      /\ b.errs = a.errs /\ b.users = a.users /\ b.top = a.top
      /\ b.p50 = a.p50 /\ b.p95 = a.p95 /\ b.p99 = a.p99
  BY DEF Fields
<1>2. QED
  BY <1>1 DEF AggOK, CountsMatch, TopMatches, QuantilesMatch

LEMMA Marked ==
  ASSUME NEW a, AggOK(a), NEW x
  PROVE  /\ AggOK([a EXCEPT !.score = x]) /\ AggOK([a EXCEPT !.vector = x])
         /\ [a EXCEPT !.score = x].from = a.from /\ [a EXCEPT !.vector = x].from = a.from
<1>1. DOMAIN a = Fields
  BY DEF AggOK
<1>2. /\ DOMAIN [a EXCEPT !.score = x] = DOMAIN a /\ DOMAIN [a EXCEPT !.vector = x] = DOMAIN a
      /\ \A f \in Fields \ {"score"} : [a EXCEPT !.score = x][f] = a[f]
      /\ \A f \in Fields \ {"vector"} : [a EXCEPT !.vector = x][f] = a[f]
  BY <1>1
<1>3. QED
  BY <1>2, AggMarked

(* What is of a list of items.                                              *)
LEMMA OfAgg == ASSUME NEW a, a.kind = "aggregate" PROVE Of(a) = ToSet(a.from)
  BY DEF Of

LEMMA ItemHolds == ASSUME NEW x, ItemOK(x) PROVE Of(x) \subseteq DOMAIN sent
<1>1. CASE x.kind = "log" /\ x.id \in DOMAIN sent
  BY <1>1 DEF Of
<1>2. CASE x.kind \in {"batch", "other"} /\ x.ids \in Seq(DOMAIN sent)
  BY <1>2 DEF Of, ToSet
<1>3. CASE AggOK(x)
  BY <1>3 DEF Of, ToSet, AggOK
<1>4. QED
  BY <1>1, <1>2, <1>3 DEF ItemOK

-----------------------------------------------------------------------------
(* logsum: one more record.                                                 *)
Longer(ids, q, id) ==
  /\ q \in Seq(DOMAIN sent) /\ Len(q) = Len(ids) + 1 /\ q # <<>> /\ ToSet(q) = ToSet(ids) \cup {id}
  /\ IsInjective(ids) /\ id \notin ToSet(ids) => IsInjective(q)
  /\ Errors(q) = Errors(ids) + (IF sent[id].level \in ErrLevels THEN 1 ELSE 0)
  /\ Users(q) = Users(ids) \cup ({sent[id].user} \ {""})
  /\ Named(q) = Named(ids) \cup ({sent[id].top} \ {""})
  /\ ValuesOf(q) = ValuesOf(ids) \cup (IF sent[id].value = None THEN {} ELSE {sent[id].value[1]})
  /\ \A v : /\ Times(ids, v) \in Nat
            /\ Times(q, v) = Times(ids, v) + (IF sent[id].top = v THEN 1 ELSE 0)

LEMMA OneMoreRecord ==
  ASSUME NEW ids \in Seq(DOMAIN sent), NEW id \in DOMAIN sent, NEW q, q = Append(ids, id)
  PROVE  Longer(ids, q, id)
<1>1. PICK n \in Nat : n = Len(ids)
  OBVIOUS
<1>2. /\ q \in Seq(DOMAIN sent) /\ Len(q) = n + 1 /\ q[n + 1] = id
      /\ \A k \in 1 .. n : q[k] = ids[k]
  BY <1>1, AppendProperties
<1>3. /\ DOMAIN ids = 1 .. n /\ DOMAIN q = 1 .. n + 1
      /\ 1 .. n + 1 = 1 .. n \cup {n + 1} /\ n + 1 \notin 1 .. n
  BY <1>1, <1>2
<1>4. ToSet(q) = ToSet(ids) \cup {id}
  BY <1>2, <1>3 DEF ToSet
<1>5. IsInjective(ids) /\ id \notin ToSet(ids) => IsInjective(q)
  <2> SUFFICES ASSUME IsInjective(ids), id \notin ToSet(ids),
                      NEW j \in 1 .. n + 1, NEW k \in 1 .. n + 1, q[j] = q[k]
               PROVE  j = k
    BY <1>3 DEF IsInjective
  <2>1. \A m \in 1 .. n : ids[m] # id
    BY <1>3 DEF ToSet
  <2>2. CASE j \in 1 .. n /\ k \in 1 .. n
    BY <1>2, <1>3, <2>2 DEF IsInjective
  <2>3. CASE j = n + 1 \/ k = n + 1
    BY <1>2, <1>3, <2>1, <2>3
  <2>4. QED
    BY <1>3, <2>2, <2>3
<1>6. Errors(q) = Errors(ids) + (IF sent[id].level \in ErrLevels THEN 1 ELSE 0)
  <2> DEFINE S == {k \in 1 .. n : sent[ids[k]].level \in ErrLevels}
             T == {k \in 1 .. n + 1 : sent[q[k]].level \in ErrLevels}
  <2>1. S \in SUBSET (1 .. n) /\ (T = S \/ T = S \cup {n + 1})
    BY <1>2, <1>3
  <2>2. n + 1 \in T <=> sent[id].level \in ErrLevels
    BY <1>2, <1>3
  <2>3. Errors(q) = Cardinality(T) /\ Errors(ids) = Cardinality(S)
    BY <1>3 DEF Errors
  <2> HIDE DEF S, T
  <2>4. Cardinality(T) = Cardinality(S) + (IF n + 1 \in T THEN 1 ELSE 0)
    BY <2>1, CountAnother
  <2>5. QED
    BY <2>2, <2>3, <2>4
<1>7. ASSUME NEW v
      PROVE  /\ Times(ids, v) \in Nat
             /\ Times(q, v) = Times(ids, v) + (IF sent[id].top = v THEN 1 ELSE 0)
  <2> DEFINE S == {k \in 1 .. n : sent[ids[k]].top = v}
             T == {k \in 1 .. n + 1 : sent[q[k]].top = v}
  <2>1. S \in SUBSET (1 .. n) /\ (T = S \/ T = S \cup {n + 1})
    BY <1>2, <1>3
  <2>2. n + 1 \in T <=> sent[id].top = v
    BY <1>2, <1>3
  <2>3. Times(q, v) = Cardinality(T) /\ Times(ids, v) = Cardinality(S)
    BY <1>3 DEF Times
  <2> HIDE DEF S, T
  <2>4. Cardinality(S) \in Nat /\ Cardinality(T) = Cardinality(S) + (IF n + 1 \in T THEN 1 ELSE 0)
    BY <2>1, CountAnother
  <2>5. QED
    BY <2>2, <2>3, <2>4
<1>8. Users(q) = Users(ids) \cup ({sent[id].user} \ {""})
  <2>1. {sent[q[k]].user : k \in 1 .. n + 1}
          = {sent[ids[k]].user : k \in 1 .. n} \cup {sent[id].user}
    <3>1. \A k \in 1 .. n + 1 : k = n + 1 \/ k \in 1 .. n
      BY <1>3
    <3>2. QED
      BY <1>2, <1>3, <3>1
  <2>2. QED
    BY <1>3, <2>1 DEF Users
<1>9. Named(q) = Named(ids) \cup ({sent[id].top} \ {""})
  <2>1. {sent[q[k]].top : k \in 1 .. n + 1}
          = {sent[ids[k]].top : k \in 1 .. n} \cup {sent[id].top}
    <3>1. \A k \in 1 .. n + 1 : k = n + 1 \/ k \in 1 .. n
      BY <1>3
    <3>2. QED
      BY <1>2, <1>3, <3>1
  <2>2. QED
    BY <1>3, <2>1 DEF Named
<1>10. ValuesOf(q) = ValuesOf(ids) \cup (IF sent[id].value = None THEN {} ELSE {sent[id].value[1]})
  BY <1>4 DEF ValuesOf
<1>11. q # <<>>
  BY <1>2
<1>12. QED
  BY <1>1, <1>2, <1>4, <1>5, <1>6, <1>7, <1>8, <1>9, <1>10, <1>11 DEF Longer

OneMore(old, v, new) ==
  /\ v = "" => new = old
  /\ v # "" => /\ DOMAIN new = DOMAIN old \cup {v}
               /\ new[v] = IF v \in DOMAIN old THEN old[v] + 1 ELSE 1
               /\ \A u \in DOMAIN old \ {v} : new[u] = old[u]

LEMMA CountedFacts == ASSUME NEW counts, NEW v PROVE OneMore(counts, v, Counted(counts, v))
<1>1. CASE v = ""
  BY <1>1 DEF Counted, OneMore
<1>2. CASE v # "" /\ v \in DOMAIN counts
  BY <1>2 DEF Counted, OneMore
<1>3. CASE v # "" /\ v \notin DOMAIN counts
  BY <1>3 DEF Counted, OneMore
<1>4. QED
  BY <1>1, <1>2, <1>3

LEMMA ConsumedOK ==
  ASSUME SentInv, NEW id \in DOMAIN sent, StateOK(sent[id].svc, ensure(sent[id].svc)),
         id \notin ToSet(ensure(sent[id].svc).from), NEW st \in Consumed(id)
  PROVE  /\ StateOK(sent[id].svc, st) /\ st.from # <<>>
         /\ ToSet(st.from) = ToSet(ensure(sent[id].svc).from) \cup {id}
<1> DEFINE r == sent[id]
           old == ensure(r.svc)
<1>1. PICK res \in Sampled(old.res, r.value) :
        st = [total |-> old.total + 1,
              errs |-> old.errs + (IF r.level \in ErrLevels THEN 1 ELSE 0),
              users |-> old.users \cup ({r.user} \ {""}),
              top |-> Counted(old.top, r.top),
              res |-> res,
              from |-> Append(old.from, id)]
  BY DEF Consumed
<1>2. /\ st.total = old.total + 1
      /\ st.errs = old.errs + (IF r.level \in ErrLevels THEN 1 ELSE 0)
      /\ st.users = old.users \cup ({r.user} \ {""})
      /\ st.top = Counted(old.top, r.top) /\ st.res = res /\ st.from = Append(old.from, id)
  BY <1>1
<1> HIDE DEF old
<1>3. StateOK(r.svc, old)
  BY DEF old
<1>4. PICK ids \in Seq(DOMAIN sent) : ids = old.from
  BY <1>3 DEF StateOK
<1>5. id \notin ToSet(ids) /\ ids = ensure(sent[id].svc).from
  BY <1>4 DEF old
<1>a. Longer(ids, st.from, id)
  BY <1>2, <1>4, OneMoreRecord
<1>6. /\ st.from \in Seq(DOMAIN sent) /\ IsInjective(st.from) /\ st.from # <<>>
      /\ ToSet(st.from) = ToSet(ids) \cup {id} /\ Len(st.from) = Len(ids) + 1
  BY <1>3, <1>4, <1>5, <1>a DEF StateOK, Longer
<1>7. \A i \in ToSet(st.from) : sent[i].svc = r.svc
  BY <1>3, <1>4, <1>6 DEF StateOK
<1>8. st.total = Len(st.from) /\ st.errs = Errors(st.from) /\ st.users = Users(st.from)
  BY <1>2, <1>3, <1>4, <1>a DEF StateOK, Longer
<1>9. /\ DOMAIN st.top = Named(st.from)
      /\ \A v \in Named(st.from) : st.top[v] = Times(st.from, v)
  <2>1. DOMAIN old.top = Named(ids) /\ \A v \in Named(ids) : old.top[v] = Times(ids, v)
    BY <1>3, <1>4 DEF StateOK
  <2>2. Named(st.from) = Named(ids) \cup ({r.top} \ {""}) /\ "" \notin Named(ids)
    BY <1>a DEF Named, Longer
  <2>3. \A v : /\ Times(ids, v) \in Nat
               /\ Times(st.from, v) = Times(ids, v) + (IF r.top = v THEN 1 ELSE 0)
    BY <1>a DEF Longer
  <2>a. OneMore(old.top, r.top, st.top)
    <3>1. st.top = Counted(old.top, r.top)
      BY <1>2
    <3>2. OneMore(old.top, r.top, Counted(old.top, r.top))
      BY CountedFacts
    <3>3. QED
      BY <3>1, <3>2
  <2>4. CASE r.top = ""
    <3>1. st.top = old.top /\ Named(st.from) = Named(ids)
      BY <2>2, <2>4, <2>a DEF OneMore
    <3>2. ASSUME NEW v \in Named(st.from) PROVE st.top[v] = Times(st.from, v)
      <4>1. v \in Named(ids) /\ r.top # v
        BY <2>2, <2>4, <3>1
      <4>2. Times(st.from, v) = Times(ids, v)
        BY <2>3, <4>1
      <4>3. QED
        BY <2>1, <3>1, <4>1, <4>2
    <3>3. QED
      BY <2>1, <3>1, <3>2
  <2>5. CASE r.top # ""
    <3>1. /\ DOMAIN st.top = Named(ids) \cup {r.top} /\ Named(st.from) = Named(ids) \cup {r.top}
          /\ st.top[r.top] = IF r.top \in Named(ids) THEN Times(ids, r.top) + 1 ELSE 1
          /\ \A u \in Named(ids) \ {r.top} : st.top[u] = Times(ids, u)
      <4>1. /\ DOMAIN st.top = DOMAIN old.top \cup {r.top}
            /\ st.top[r.top] = IF r.top \in DOMAIN old.top THEN old.top[r.top] + 1 ELSE 1
            /\ \A u \in DOMAIN old.top \ {r.top} : st.top[u] = old.top[u]
        BY <2>5, <2>a DEF OneMore
      <4>2. {r.top} \ {""} = {r.top}
        BY <2>5
      <4>3. QED
        BY <2>1, <2>2, <4>1, <4>2
    <3>2. ASSUME r.top \notin Named(ids) PROVE Times(ids, r.top) = 0
      <4>1. \A k \in DOMAIN ids : sent[ids[k]].top # r.top
        BY <2>5, <3>2 DEF Named
      <4>2. {k \in DOMAIN ids : sent[ids[k]].top = r.top} = {}
        BY <4>1
      <4>3. QED
        BY <4>2, FS_EmptySet DEF Times
    <3>3. st.top[r.top] = Times(ids, r.top) + 1
      BY <3>1, <3>2
    <3>4. ASSUME NEW v \in Named(st.from) PROVE st.top[v] = Times(st.from, v)
      <4>1. CASE v = r.top
        BY <2>3, <3>3, <4>1
      <4>2. CASE v # r.top
        BY <2>3, <3>1, <4>2
      <4>3. QED
        BY <4>1, <4>2
    <3>5. QED
      BY <3>1, <3>4
  <2>6. QED
    BY <2>4, <2>5
<1>10. st.res \in Seq(ValuesOf(st.from)) /\ (ValuesOf(st.from) # {} => st.res # <<>>)
  <2> DEFINE V == ValuesOf(ids)
             W == ValuesOf(st.from)
  <2>1. W = V \cup (IF r.value = None THEN {} ELSE {r.value[1]})
    BY <1>a DEF Longer
  <2>2. old.res \in Seq(V) /\ (V # {} => old.res # <<>>)
    BY <1>3, <1>4 DEF StateOK
  <2>3. old.res \in Seq(W)
    <3>1. Len(old.res) \in Nat /\ old.res \in [1 .. Len(old.res) -> W]
      BY <2>1, <2>2
    <3>2. QED
      BY <3>1
  <2>4. CASE r.value = None
    BY <1>1, <1>2, <2>1, <2>2, <2>3, <2>4 DEF Sampled
  <2>5. CASE r.value # None
    <3>1. r.value[1] \in W
      BY <2>1, <2>5
    <3> HIDE DEF V, W
    <3>2. CASE Len(old.res) < ReservoirCap
      <4>1. res = Append(old.res, r.value[1])
        BY <1>1, <2>5, <3>2 DEF Sampled
      <4>2. res \in Seq(W) /\ res # <<>>
        BY <2>3, <3>1, <4>1, AppendProperties
      <4>3. QED
        BY <1>2, <4>2 DEF W
    <3>3. CASE ~(Len(old.res) < ReservoirCap)
      <4>1. PICK k \in DOMAIN old.res : res = [old.res EXCEPT ![k] = r.value[1]]
        BY <1>1, <2>5, <3>3 DEF Sampled
      <4>2. Len(old.res) \in Nat /\ old.res \in [1 .. Len(old.res) -> W]
        BY <2>3
      <4>3. res \in [1 .. Len(old.res) -> W] /\ k \in 1 .. Len(old.res)
        BY <3>1, <4>1, <4>2
      <4>4. res \in Seq(W) /\ res # <<>>
        <5>1. PICK n \in Nat : n = Len(old.res)
          BY <4>2
        <5>2. res \in Seq(W)
          BY <4>3, <5>1
        <5>3. k \in DOMAIN res
          BY <4>3
        <5>4. QED
          BY <5>2, <5>3
      <4>5. QED
        BY <1>2, <4>4 DEF W
    <3>4. QED
      BY <3>2, <3>3
  <2>6. QED
    BY <2>4, <2>5
<1>11. QED
  BY <1>5, <1>6, <1>7, <1>8, <1>9, <1>10 DEF StateOK

(* A service with no record in the window begins with nothing.              *)
LEMMA NothingYet ==
  ASSUME OpenInv, NEW svc
  PROVE  /\ StateOK(svc, ensure(svc))
         /\ ToSet(ensure(svc).from) = IF svc \in DOMAIN open THEN ToSet(open[svc].from) ELSE {}
<1>1. CASE svc \in DOMAIN open
  BY <1>1 DEF OpenInv, ensure
<1>2. CASE svc \notin DOMAIN open
  <2>1. /\ ensure(svc).from = <<>> /\ ensure(svc).total = 0 /\ ensure(svc).errs = 0
        /\ ensure(svc).users = {} /\ ensure(svc).top = <<>> /\ ensure(svc).res = <<>>
    BY <1>2 DEF ensure
  <2>2. /\ <<>> \in Seq(DOMAIN sent) /\ DOMAIN <<>> = {} /\ Len(<<>>) = 0 /\ ToSet(<<>>) = {}
        /\ <<>> \in Seq({})
    BY DEF ToSet
  <2>3. Errors(<<>>) = 0
    <3>1. {k \in DOMAIN <<>> : sent[<<>>[k]].level \in ErrLevels} = {}
      BY <2>2
    <3>2. QED
      BY <3>1, FS_EmptySet DEF Errors
  <2>4. Users(<<>>) = {} /\ Named(<<>>) = {} /\ ValuesOf(<<>>) = {} /\ IsInjective(<<>>)
    BY <2>2 DEF Users, Named, ValuesOf, IsInjective
  <2>5. QED
    BY <1>2, <2>1, <2>2, <2>3, <2>4 DEF StateOK
<1>3. QED
  BY <1>1, <1>2

-----------------------------------------------------------------------------
(* logsum: quantiles.  Between two values that follow each other a quantile *)
(* rises with its position.                                                 *)
LEMMA Weighted ==
  ASSUME NEW a \in Int, NEW b \in Int, a <= b, NEW f \in 0 .. 99, NEW g \in 0 .. 99, f <= g
  PROVE  /\ a * (100 - f) + b * f \in Int
         /\ 100 * a <= a * (100 - f) + b * f /\ a * (100 - f) + b * f <= 100 * b
         /\ a * (100 - f) + b * f <= a * (100 - g) + b * g
<1>1. PICK d \in Nat : b = a + d
  <2>1. b - a \in Nat /\ b = a + (b - a)
    OBVIOUS
  <2>2. QED
    BY <2>1
<1>2. PICK e \in Nat : g = f + e
  <2>1. g - f \in Nat /\ g = f + (g - f)
    OBVIOUS
  <2>2. QED
    BY <2>1
<1>3. PICK h \in Nat : 100 = f + h
  <2>1. 100 - f \in Nat /\ 100 = f + (100 - f)
    OBVIOUS
  <2>2. QED
    BY <2>1
<1>4. d * f \in Nat /\ d * e \in Nat /\ d * h \in Nat
  OBVIOUS
<1>5. a * (100 - f) + b * f = 100 * a + d * f
  BY <1>1
<1>6. a * (100 - g) + b * g = 100 * a + d * g /\ d * g = d * f + d * e
  BY <1>1, <1>2
<1>7. 100 * b = 100 * a + d * f + d * h
  <2>1. d * 100 = d * f + d * h
    BY <1>3
  <2>2. QED
    BY <1>1, <1>4, <2>1
<1>8. PICK u \in Nat, w \in Nat, z \in Nat : u = d * f /\ w = d * e /\ z = d * h
  BY <1>4
<1>9. PICK A \in Int : A = 100 * a
  OBVIOUS
<1>10. PICK P \in Int, Q \in Int :
         /\ P = a * (100 - f) + b * f /\ P = A + u
         /\ Q = a * (100 - g) + b * g /\ Q = A + u + w
  BY <1>5, <1>6, <1>8, <1>9
<1>11. 100 * b = A + u + z
  BY <1>7, <1>8, <1>9
<1>12. P \in Int /\ A <= P /\ P <= A + u + z /\ P <= Q
  BY <1>10
<1>13. QED
  BY <1>9, <1>10, <1>11, <1>12

LEMMA Between ==
  ASSUME NEW a \in Int, NEW b \in Int, a <= b, NEW f \in 0 .. 99
  PROVE  /\ a * (100 - f) + b * f \in Int
         /\ 100 * a <= a * (100 - f) + b * f /\ a * (100 - f) + b * f <= 100 * b
<1>1. PICK d \in Nat : b = a + d
  <2>1. b - a \in Nat /\ b = a + (b - a)
    OBVIOUS
  <2>2. QED
    BY <2>1
<1>2. PICK h \in Nat : 100 = f + h
  <2>1. 100 - f \in Nat /\ 100 = f + (100 - f)
    OBVIOUS
  <2>2. QED
    BY <2>1
<1>3. d * f \in Nat /\ d * h \in Nat
  OBVIOUS
<1>4. a * (100 - f) + b * f = 100 * a + d * f
  BY <1>1
<1>5. 100 * b = 100 * a + d * f + d * h
  <2>1. d * 100 = d * f + d * h
    BY <1>2
  <2>2. QED
    BY <1>1, <1>3, <2>1
<1>6. PICK u \in Nat, z \in Nat : u = d * f /\ z = d * h
  BY <1>3
<1>7. PICK A \in Int : A = 100 * a
  OBVIOUS
<1>8. PICK P \in Int : P = a * (100 - f) + b * f /\ P = A + u
  BY <1>4, <1>6, <1>7
<1>9. 100 * b = A + u + z
  BY <1>5, <1>6, <1>7
<1>10. P \in Int /\ A <= P /\ P <= A + u + z
  BY <1>8
<1>11. QED
  BY <1>7, <1>8, <1>9, <1>10

Rises(v, n) ==
  /\ \A k \in 1 .. n : v[k] \in Int
  /\ \A k, l \in 1 .. n : k <= l => v[k] <= v[l]

ValueAt(v, n, pos) ==
  IF pos \div 100 + 2 > n THEN 100 * v[pos \div 100 + 1]
  ELSE v[pos \div 100 + 1] * (100 - (pos % 100)) + v[pos \div 100 + 2] * (pos % 100)

LEMMA Position ==
  ASSUME NEW n \in Nat, NEW v, Rises(v, n), NEW pos \in Nat, pos <= 100 * (n - 1)
  PROVE  /\ pos \div 100 + 1 \in 1 .. n /\ ValueAt(v, n, pos) \in Int
         /\ 100 * v[pos \div 100 + 1] <= ValueAt(v, n, pos)
         /\ pos \div 100 + 2 <= n => ValueAt(v, n, pos) <= 100 * v[pos \div 100 + 2]
         /\ ValueAt(v, n, pos) <= 100 * v[n]
<1>1. PICK l \in Nat, f \in 0 .. 99 : l = pos \div 100 /\ f = pos % 100 /\ pos = 100 * l + f
  <2>1. pos \div 100 \in Nat /\ pos % 100 \in 0 .. 99 /\ pos = 100 * (pos \div 100) + (pos % 100)
    OBVIOUS
  <2>2. QED
    BY <2>1
<1>2. l + 1 \in 1 .. n /\ n \in 1 .. n
  BY <1>1
<1>3. v[l + 1] \in Int /\ v[n] \in Int /\ v[l + 1] <= v[n]
  BY <1>2 DEF Rises
<1>4. CASE l + 2 > n
  BY <1>1, <1>2, <1>3, <1>4 DEF ValueAt
<1>5. CASE l + 2 <= n
  <2>1. l + 2 \in 1 .. n /\ l + 1 <= l + 2 /\ l + 2 <= n
    BY <1>5
  <2>2. v[l + 2] \in Int /\ v[l + 1] <= v[l + 2] /\ v[l + 2] <= v[n]
    BY <1>2, <2>1 DEF Rises
  <2>3. /\ v[l + 1] * (100 - f) + v[l + 2] * f \in Int
        /\ 100 * v[l + 1] <= v[l + 1] * (100 - f) + v[l + 2] * f
        /\ v[l + 1] * (100 - f) + v[l + 2] * f <= 100 * v[l + 2]
    <3>1. PICK a \in Int, b \in Int : a = v[l + 1] /\ b = v[l + 2] /\ a <= b
      BY <1>3, <2>2
    <3>2. /\ a * (100 - f) + b * f \in Int
          /\ 100 * a <= a * (100 - f) + b * f /\ a * (100 - f) + b * f <= 100 * b
      BY <3>1, Between
    <3>3. QED
      BY <3>1, <3>2, Zenon
  <2>4. ValueAt(v, n, pos) = v[l + 1] * (100 - f) + v[l + 2] * f
    BY <1>1, <2>1 DEF ValueAt
  <2>5. QED
    BY <1>1, <1>2, <1>3, <2>2, <2>3, <2>4
<1>6. QED
  BY <1>2, <1>4, <1>5

LEMMA PositionsRise ==
  ASSUME NEW n \in Nat, NEW v, Rises(v, n), NEW x \in Nat, NEW y \in Nat, x <= y, y <= 100 * (n - 1)
  PROVE  ValueAt(v, n, x) <= ValueAt(v, n, y)
<1>1. PICK l \in Nat, f \in 0 .. 99 : l = x \div 100 /\ f = x % 100 /\ x = 100 * l + f
  <2>1. x \div 100 \in Nat /\ x % 100 \in 0 .. 99 /\ x = 100 * (x \div 100) + (x % 100)
    OBVIOUS
  <2>2. QED
    BY <2>1
<1>2. PICK m \in Nat, g \in 0 .. 99 : m = y \div 100 /\ g = y % 100 /\ y = 100 * m + g
  <2>1. y \div 100 \in Nat /\ y % 100 \in 0 .. 99 /\ y = 100 * (y \div 100) + (y % 100)
    OBVIOUS
  <2>2. QED
    BY <2>1
<1>3. l <= m /\ (l = m => f <= g) /\ l + 1 \in 1 .. n /\ m + 1 \in 1 .. n
  BY <1>1, <1>2
<1>4. v[l + 1] \in Int /\ v[m + 1] \in Int
  BY <1>3 DEF Rises
<1>5. CASE l = m /\ l + 2 > n
  BY <1>1, <1>2, <1>4, <1>5 DEF ValueAt
<1>6. CASE l = m /\ l + 2 <= n
  <2>1. l + 2 \in 1 .. n /\ l + 1 <= l + 2
    BY <1>6
  <2>2. v[l + 2] \in Int /\ v[l + 1] <= v[l + 2] /\ f <= g
    BY <1>3, <1>6, <2>1 DEF Rises
  <2>3. v[l + 1] * (100 - f) + v[l + 2] * f <= v[l + 1] * (100 - g) + v[l + 2] * g
    BY <1>4, <2>2, Weighted
  <2>4. /\ ValueAt(v, n, x) = v[l + 1] * (100 - f) + v[l + 2] * f
        /\ ValueAt(v, n, y) = v[l + 1] * (100 - g) + v[l + 2] * g
    BY <1>1, <1>2, <1>6 DEF ValueAt
  <2>5. QED
    BY <2>3, <2>4
<1>7. CASE l < m
  <2>1. l + 2 \in 1 .. n /\ l + 2 <= m + 1
    BY <1>3, <1>7
  <2>2. v[l + 2] \in Int /\ v[l + 2] <= v[m + 1]
    BY <1>3, <2>1 DEF Rises
  <2>3. x <= 100 * (n - 1)
    OBVIOUS
  <2>4. ValueAt(v, n, x) \in Int /\ (l + 2 <= n => ValueAt(v, n, x) <= 100 * v[l + 2])
    BY <1>1, <2>3, Position
  <2>5. ValueAt(v, n, y) \in Int /\ 100 * v[m + 1] <= ValueAt(v, n, y)
    BY <1>2, Position
  <2>6. l + 2 <= n
    BY <2>1
  <2>7. QED
    BY <1>4, <2>2, <2>4, <2>5, <2>6
<1>8. QED
  BY <1>3, <1>5, <1>6, <1>7

(* Quantiles of the values in the reservoir.                                *)
LEMMA Quantiles ==
  ASSUME NEW V, \A v \in V : v \in Int, NEW res \in Seq(V), res # <<>>
  PROVE  /\ \A q \in {50, 95, 99} : percentile(Ascending(res), q) \in Int
         /\ percentile(Ascending(res), 50) <= percentile(Ascending(res), 95)
         /\ percentile(Ascending(res), 95) <= percentile(Ascending(res), 99)
         /\ \E v \in V : 100 * v <= percentile(Ascending(res), 50)
         /\ \E v \in V : percentile(Ascending(res), 99) <= 100 * v
<1> DEFINE s == Ascending(res)
<1>1. PICK n \in Nat : n = Len(res)
  OBVIOUS
<1>2. n > 0 /\ res \in [1 .. n -> Int] /\ {res[k] : k \in 1 .. n} \subseteq V
  BY <1>1
<1>3. /\ DOMAIN s = 1 .. n /\ \A k \in 1 .. n : s[k] \in V
      /\ \A k, l \in 1 .. n : k <= l => s[k] <= s[l]
  BY <1>2, SortedNumbers DEF Ascending
<1>4. s = [k \in 1 .. n |-> s[k]]
  <2>1. DOMAIN res = 1 .. n
    BY <1>2
  <2>2. QED
    BY <2>1 DEF Ascending, Sorted
<1> HIDE DEF s
<1>5. Len(s) = n /\ s # <<>>
  BY <1>2, <1>4, ListMade
<1>6. Rises(s, n)
  BY <1>3 DEF Rises
<1>7. ASSUME NEW q \in Nat, q <= 99
      PROVE  /\ q * (n - 1) \in Nat /\ q * (n - 1) <= 100 * (n - 1)
             /\ percentile(s, q) = ValueAt(s, n, q * (n - 1))
  <2>1. PICK m \in Nat : m = n - 1
    BY <1>2
  <2>2. PICK p \in Nat : p = q * m
    BY <2>1
  <2>3. p <= 100 * m
    <3>1. PICK r \in Nat : 100 = q + r
      <4>1. 100 - q \in Nat /\ 100 = q + (100 - q)
        BY <1>7
      <4>2. QED
        BY <4>1
    <3>2. 100 * m = q * m + r * m /\ r * m \in Nat
      BY <2>1, <3>1
    <3>3. QED
      BY <2>2, <3>2
  <2>4. p \div 100 + 1 + 1 = p \div 100 + 2
    BY <2>2
  <2>5. percentile(s, q) = ValueAt(s, n, p)
    BY <1>5, <2>1, <2>2, <2>4 DEF percentile, ValueAt
  <2>6. QED
    BY <2>1, <2>2, <2>3, <2>5
<1>8. /\ 50 * (n - 1) <= 95 * (n - 1) /\ 95 * (n - 1) <= 99 * (n - 1)
  BY <1>2
<1>9. \A q \in {50, 95, 99} :
        /\ q * (n - 1) \in Nat /\ q * (n - 1) <= 100 * (n - 1)
        /\ percentile(s, q) = ValueAt(s, n, q * (n - 1))
  <2> SUFFICES ASSUME NEW q \in {50, 95, 99}
               PROVE  /\ q * (n - 1) \in Nat /\ q * (n - 1) <= 100 * (n - 1)
                      /\ percentile(s, q) = ValueAt(s, n, q * (n - 1))
    OBVIOUS
  <2>1. q \in Nat /\ q <= 99
    OBVIOUS
  <2>2. QED
    BY <1>7, <2>1, Zenon
<1>10. PICK x \in Nat, y \in Nat, z \in Nat :
         /\ x = 50 * (n - 1) /\ y = 95 * (n - 1) /\ z = 99 * (n - 1)
  BY <1>9
<1>11. /\ percentile(s, 50) = ValueAt(s, n, x) /\ percentile(s, 95) = ValueAt(s, n, y)
       /\ percentile(s, 99) = ValueAt(s, n, z)
       /\ x <= y /\ y <= z /\ x <= 100 * (n - 1) /\ y <= 100 * (n - 1) /\ z <= 100 * (n - 1)
  BY <1>8, <1>9, <1>10
<1>12. ValueAt(s, n, x) <= ValueAt(s, n, y) /\ ValueAt(s, n, y) <= ValueAt(s, n, z)
  BY <1>6, <1>11, PositionsRise
<1>13. /\ x \div 100 + 1 \in 1 .. n /\ ValueAt(s, n, x) \in Int
       /\ 100 * s[x \div 100 + 1] <= ValueAt(s, n, x)
  BY <1>6, <1>11, Position
<1>14. ValueAt(s, n, y) \in Int
  BY <1>6, <1>11, Position
<1>15. ValueAt(s, n, z) \in Int /\ ValueAt(s, n, z) <= 100 * s[n] /\ n \in 1 .. n
  BY <1>2, <1>6, <1>11, Position
<1>16. \E v \in V : 100 * v <= percentile(s, 50)
  BY <1>3, <1>11, <1>13
<1>17. \E v \in V : percentile(s, 99) <= 100 * v
  BY <1>3, <1>11, <1>15
<1>18. percentile(s, 50) \in Int /\ percentile(s, 95) \in Int /\ percentile(s, 99) \in Int
  BY <1>11, <1>13, <1>14, <1>15
<1>19. percentile(s, 50) <= percentile(s, 95) /\ percentile(s, 95) <= percentile(s, 99)
  BY <1>11, <1>12
<1>20. QED
  BY <1>16, <1>17, <1>18, <1>19 DEF s

LEMMA NoQuantiles ==
  ASSUME NEW q
  PROVE  percentile(Ascending(<<>>), q) = 0
<1>1. Ascending(<<>>) = <<>>
  <2>1. DOMAIN <<>> = {}
    OBVIOUS
  <2>2. Ascending(<<>>) = [k \in {} |-> Ascending(<<>>)[k]]
    BY <2>1 DEF Ascending, Sorted
  <2>3. IsList(Ascending(<<>>)) /\ Len(Ascending(<<>>)) = 0
    <3>1. 0 \in Nat /\ 1 .. 0 = {}
      OBVIOUS
    <3>2. QED
      BY <2>2, <3>1, ListMade
  <2>4. QED
    BY <2>3 DEF IsList
<1>2. QED
  BY <1>1 DEF percentile

-----------------------------------------------------------------------------
(* logsum: the end of a window.  The most frequent values are TopLimit, or   *)
(* all there are.                                                           *)
LEMMA TopsFacts ==
  ASSUME NEW counts, IsFiniteSet(DOMAIN counts), NEW top \in Tops(counts)
  PROVE  /\ \A k \in DOMAIN top : top[k].value \in DOMAIN counts
                                  /\ top[k].n = counts[top[k].value]
         /\ \A v \in DOMAIN counts \ {top[k].value : k \in DOMAIN top} :
              Len(top) = TopLimit /\ \A k \in DOMAIN top : counts[v] <= top[k].n
<1> DEFINE c == Cardinality(DOMAIN counts)
           size == IF TopLimit < c THEN TopLimit ELSE c
<1>1. PICK t \in [1 .. size -> DOMAIN counts] :
        /\ IsInjective(t)
        /\ \A v \in DOMAIN counts \ {t[k] : k \in 1 .. size} :
             \A k \in 1 .. size : counts[v] <= counts[t[k]]
        /\ top = [k \in 1 .. size |-> [value |-> t[k], n |-> counts[t[k]]]]
  BY DEF Tops
<1>2. c \in Nat /\ size \in Nat
  BY FS_CardinalityType, ProcessorsAssumption
<1>3. /\ DOMAIN top = 1 .. size
      /\ \A k \in 1 .. size : top[k].value = t[k] /\ top[k].n = counts[t[k]] /\ t[k] \in DOMAIN counts
  BY <1>1
<1>4. Len(top) = size
  <2>1. top = [k \in 1 .. size |-> top[k]]
    BY <1>1
  <2> HIDE DEF size
  <2>2. QED
    BY <1>2, <2>1, ListMade
<1>5. ASSUME NEW v \in DOMAIN counts, v \notin {t[k] : k \in 1 .. size}
      PROVE  size = TopLimit
  <2> SUFFICES ASSUME size = c PROVE FALSE
    OBVIOUS
  <2>1. t \in Injection(1 .. size, DOMAIN counts)
    BY <1>1 DEF Injection
  <2>2. Cardinality(1 .. size) = size
    <3> HIDE DEF size
    <3>1. QED
      BY <1>2, FS_Interval
  <2>3. t \in Surjection(1 .. size, DOMAIN counts)
    <3> HIDE DEF size
    <3>1. QED
      BY <2>1, <2>2, FS_Injection
  <2>4. QED
    BY <1>5, <2>3 DEF Surjection
<1> HIDE DEF size
<1>6. {top[k].value : k \in DOMAIN top} = {t[k] : k \in 1 .. size}
  BY <1>3
<1>7. QED
  BY <1>1, <1>3, <1>4, <1>5, <1>6

LEMMA FlushedOK ==
  ASSUME SentInv, NEW svc, NEW st, StateOK(svc, st), st.from # <<>>, NEW top \in Tops(st.top)
  PROVE  AggOK(Aggregate(svc, st, top)) /\ Aggregate(svc, st, top).from = st.from
<1> DEFINE a == Aggregate(svc, st, top)
<1>1. /\ DOMAIN a = Fields /\ a.kind = "aggregate" /\ a.svc = svc /\ a.count = st.total
      /\ a.errs = st.errs /\ a.users = Cardinality(st.users) /\ a.top = top /\ a.from = st.from
      /\ a.p50 = percentile(Ascending(st.res), 50)
      /\ a.p95 = percentile(Ascending(st.res), 95)
      /\ a.p99 = percentile(Ascending(st.res), 99)
  BY DEF Aggregate, Fields
<1> HIDE DEF a
<1>2. PICK ids \in Seq(DOMAIN sent) : ids = st.from /\ ids # <<>>
  BY DEF StateOK
<1>3. CountsMatch(a)
  BY <1>1, <1>2 DEF CountsMatch, StateOK
<1>4. TopMatches(a)
  <2>1. DOMAIN st.top = Named(ids) /\ \A v \in Named(ids) : st.top[v] = Times(ids, v)
    BY <1>2 DEF StateOK
  <2>2. IsFiniteSet(Named(ids))
    <3>1. PICK n \in Nat : n = Len(ids)
      OBVIOUS
    <3>2. IsFiniteSet(1 .. n) /\ DOMAIN ids = 1 .. n
      BY <3>1, FS_Interval
    <3> DEFINE f == [k \in 1 .. n |-> sent[ids[k]].top]
               T == {f[k] : k \in 1 .. n}
    <3>3. f \in Surjection(1 .. n, T)
      BY DEF Surjection
    <3>4. IsFiniteSet(T)
      <4> HIDE DEF f, T
      <4>1. QED
        BY <3>2, <3>3, FS_Surjection
    <3>5. Named(ids) \in SUBSET T
      BY <3>2 DEF Named
    <3>6. QED
      BY <3>4, <3>5, FS_Subset
  <2>3. /\ \A k \in DOMAIN top : top[k].value \in DOMAIN st.top
                                 /\ top[k].n = st.top[top[k].value]
        /\ \A v \in DOMAIN st.top \ {top[k].value : k \in DOMAIN top} :
             Len(top) = TopLimit /\ \A k \in DOMAIN top : st.top[v] <= top[k].n
    BY <2>1, <2>2, TopsFacts
  <2>4. \A t \in ToSet(top) : t.n = Times(ids, t.value)
    BY <2>1, <2>3 DEF ToSet
  <2>5. {t.value : t \in ToSet(top)} = {top[k].value : k \in DOMAIN top}
    BY DEF ToSet
  <2>6. \A v \in Named(ids) \ {t.value : t \in ToSet(top)} :
          Len(top) = TopLimit /\ \A t \in ToSet(top) : Times(ids, v) <= t.n
    BY <2>1, <2>3, <2>5 DEF ToSet
  <2>7. QED
    BY <1>1, <1>2, <2>4, <2>6 DEF TopMatches
<1>5. \A v \in ValuesOf(ids) : v \in Int
  <2>1. ASSUME NEW id \in DOMAIN sent, sent[id].value # None PROVE sent[id].value[1] \in Int
    <3>1. sent[id].value \in Seq(Int)
      <4>1. sent[id] \in LogRecord
        BY DEF SentInv
      <4>2. QED
        BY <4>1 DEF LogRecord
    <3>2. 1 \in DOMAIN sent[id].value
      BY <2>1, <3>1 DEF None
    <3>3. QED
      BY <3>1, <3>2
  <2>2. QED
    BY <2>1 DEF ValuesOf, ToSet
<1>6. QuantilesMatch(a) /\ a.p50 \in Int /\ a.p95 \in Int /\ a.p99 \in Int
  <2>1. st.res \in Seq(ValuesOf(ids)) /\ (ValuesOf(ids) # {} => st.res # <<>>)
    BY <1>2 DEF StateOK
  <2>2. CASE st.res = <<>>
    BY <1>1, <1>2, <2>1, <2>2, NoQuantiles DEF QuantilesMatch
  <2>3. CASE st.res # <<>>
    <3> DEFINE V == ValuesOf(ids)
    <3>1. (\A v \in V : v \in Int) /\ st.res \in Seq(V)
      BY <1>5, <2>1
    <3> HIDE DEF V
    <3>2. /\ \A q \in {50, 95, 99} : percentile(Ascending(st.res), q) \in Int
          /\ percentile(Ascending(st.res), 50) <= percentile(Ascending(st.res), 95)
          /\ percentile(Ascending(st.res), 95) <= percentile(Ascending(st.res), 99)
          /\ \E v \in V : 100 * v <= percentile(Ascending(st.res), 50)
          /\ \E v \in V : percentile(Ascending(st.res), 99) <= 100 * v
      BY <2>3, <3>1, Quantiles
    <3>3. V = ValuesOf(a.from)
      BY <1>1, <1>2 DEF V
    <3>4. QED
      BY <1>1, <3>2, <3>3 DEF QuantilesMatch
  <2>4. QED
    BY <2>2, <2>3
<1>7. QED
  BY <1>1, <1>2, <1>3, <1>4, <1>6 DEF AggOK, a

-----------------------------------------------------------------------------
(* Places.                                                                  *)
LEMMA StageFacts ==
  ASSUME NEW i \in Stages
  PROVE  i \in Nat /\ i > 0 /\ i \in Hands /\ i - 1 \in Hands /\ i # i - 1
<1>1. PICK n \in Nat : n = Len(Chain) /\ DOMAIN Chain = 1 .. n
  BY ProcessorsAssumption
<1>2. i \in 1 .. n
  BY <1>1 DEF Stages
<1>3. i - 1 = 0 \/ i - 1 \in 1 .. n
  BY <1>2
<1>4. QED
  BY <1>1, <1>2, <1>3 DEF Stages, Hands

LEMMA HandNumbers == \A p \in Hands : p \in Nat
  BY StageFacts DEF Hands

LEMMA AtValues ==
  /\ \A p \in Hands : At(p) = HeldIn(hand[p]) /\ At(p)' = HeldIn(hand'[p])
  /\ At(-1) = OpenIds /\ At(-1)' = OpenIds'
  /\ At(-2) = WorkIds /\ At(-2)' = WorkIds'
  /\ At(-3) = HeldIn(exported) /\ At(-3)' = HeldIn(exported')
<1>1. \A p \in Hands : p # -1 /\ p # -2 /\ p # -3
  BY HandNumbers
<1>2. QED
  BY <1>1 DEF At

(* What moves from one place to another stays at one.                       *)
LEMMA ApartKept ==
  ASSUME Apart, DOMAIN sent \subseteq DOMAIN sent',
         NEW p \in Places, NEW q \in Places, p # q,
         At(p)' \subseteq At(p) \cup At(q), At(q)' \subseteq At(p) \cup At(q),
         At(p)' \cap At(q)' = {},
         \A r \in Places : r = p \/ r = q \/ At(r)' \subseteq At(r)
  PROVE  Apart'
<1>1. ASSUME NEW r \in Places PROVE At(r)' \subseteq DOMAIN sent'
  BY DEF Apart
<1>2. ASSUME NEW r \in Places, NEW t \in Places, r # t PROVE At(r)' \cap At(t)' = {}
  <2>1. \A x, y \in Places : x # y => At(x) \cap At(y) = {}
    BY DEF Apart
  <2>2. CASE (r = p /\ t = q) \/ (r = q /\ t = p)
    BY <2>2
  <2>3. CASE r \in {p, q} /\ t \notin {p, q}
    <3>1. At(t) \cap At(p) = {} /\ At(t) \cap At(q) = {} /\ At(t)' \subseteq At(t)
      BY <2>1, <2>3
    <3>2. At(r)' \subseteq At(p) \cup At(q)
      BY <2>3
    <3>3. QED
      BY <3>1, <3>2
  <2>4. CASE r \notin {p, q} /\ t \in {p, q}
    <3>1. At(r) \cap At(p) = {} /\ At(r) \cap At(q) = {} /\ At(r)' \subseteq At(r)
      BY <2>1, <2>4
    <3>2. At(t)' \subseteq At(p) \cup At(q)
      BY <2>4
    <3>3. QED
      BY <3>1, <3>2
  <2>5. CASE r \notin {p, q} /\ t \notin {p, q}
    <3>1. At(r) \cap At(t) = {} /\ At(r)' \subseteq At(r) /\ At(t)' \subseteq At(t)
      BY <1>2, <2>1, <2>5
    <3>2. QED
      BY <3>1
  <2>6. QED
    BY <1>2, <2>2, <2>3, <2>4, <2>5
<1>3. QED
  BY <1>1, <1>2 DEF Apart

LEMMA MovesHands ==
  ASSUME HandInv, NEW i \in Stages, NEW items, Moves(i, items)
  PROVE  /\ DOMAIN hand' = Hands /\ hand'[i - 1] = Tail(hand[i - 1]) /\ hand'[i] = items
         /\ \A p \in Hands : p = i \/ p = i - 1 \/ hand'[p] = hand[p]
<1>1. i \in Hands /\ i - 1 \in Hands /\ i # i - 1 /\ DOMAIN hand = Hands
  BY StageFacts DEF HandInv
<1>2. hand' = [[hand EXCEPT ![i - 1] = Tail(hand[i - 1])] EXCEPT ![i] = items]
  BY DEF Moves
<1>3. QED
  BY <1>1, <1>2

(* A stage takes an item and has others to send instead.                    *)
LEMMA HandsMoved ==
  ASSUME SumInv, NEW i \in Stages, NEW items, Moves(i, items),
         hand[i] = <<>>, hand[i - 1] # <<>>, SentGrows,
         IsList(items), \A x \in ToSet(items) : ItemOK(x), OnceIn(items)
  PROVE  HandInv' /\ \A p \in Hands : OnceIn(hand'[p])
<1>1. i \in Hands /\ i - 1 \in Hands /\ i # i - 1
  BY StageFacts
<1>2. /\ DOMAIN hand' = Hands /\ hand'[i - 1] = Tail(hand[i - 1]) /\ hand'[i] = items
      /\ \A p \in Hands : p = i \/ p = i - 1 \/ hand'[p] = hand[p]
  BY MovesHands DEF SumInv
<1>3. ASSUME NEW p \in Hands
      PROVE  IsList(hand'[p]) /\ OnceIn(hand'[p]) /\ \A x \in ToSet(hand'[p]) : ItemOK(x)
  <2>1. /\ IsList(hand[p]) /\ OnceIn(hand[p]) /\ \A x \in ToSet(hand[p]) : ItemOK(x)
        /\ IsList(hand[i - 1]) /\ OnceIn(hand[i - 1]) /\ \A x \in ToSet(hand[i - 1]) : ItemOK(x)
    BY <1>1 DEF SumInv, HandInv, OnceInv
  <2>2. CASE p = i
    BY <1>2, <2>2
  <2>3. CASE p = i - 1
    BY <1>2, <2>1, <2>3, TailOfList, TailHolds
  <2>4. CASE p # i /\ p # i - 1
    BY <1>2, <2>1, <2>4
  <2>5. QED
    BY <2>2, <2>3, <2>4
<1>4. ASSUME NEW p \in Hands, NEW x \in ToSet(hand'[p]) PROVE ItemOK(x)'
  BY <1>3, ItemKept
<1>5. HandInv'
  BY <1>2, <1>3, <1>4 DEF HandInv
<1>6. QED
  BY <1>3, <1>5

(* The places, when a stage takes an item.                                  *)
LEMMA HeldMoved ==
  ASSUME SumInv, NEW i \in Stages, NEW items, Moves(i, items), hand[i] = <<>>, hand[i - 1] # <<>>
  PROVE  /\ At(i) = {} /\ At(i)' = HeldIn(items)
         /\ At(i - 1) = Of(Head(hand[i - 1])) \cup At(i - 1)'
         /\ Of(Head(hand[i - 1])) \cap At(i - 1)' = {}
         /\ \A p \in Hands : p = i \/ p = i - 1 \/ At(p)' = At(p)
         /\ ItemOK(Head(hand[i - 1]))
<1>1. i \in Hands /\ i - 1 \in Hands /\ i # i - 1
  BY StageFacts
<1>2. /\ hand'[i - 1] = Tail(hand[i - 1]) /\ hand'[i] = items
      /\ \A p \in Hands : p = i \/ p = i - 1 \/ hand'[p] = hand[p]
  BY MovesHands DEF SumInv
<1>3. IsList(hand[i - 1]) /\ OnceIn(hand[i - 1]) /\ \A x \in ToSet(hand[i - 1]) : ItemOK(x)
  BY <1>1 DEF SumInv, HandInv, OnceInv
<1>4. /\ HeldIn(hand[i - 1]) = Of(Head(hand[i - 1])) \cup HeldIn(Tail(hand[i - 1]))
      /\ Of(Head(hand[i - 1])) \cap HeldIn(Tail(hand[i - 1])) = {}
      /\ Head(hand[i - 1]) \in ToSet(hand[i - 1])
  BY <1>3, TailHolds, TailOfList
<1>5. HeldIn(<<>>) = {}
  BY DEF HeldIn
<1>6. QED
  BY <1>1, <1>2, <1>3, <1>4, <1>5, AtValues

LEMMA OneItem ==
  ASSUME NEW x
  PROVE  /\ IsList(<<x>>) /\ ToSet(<<x>>) = {x} /\ OnceIn(<<x>>) /\ HeldIn(<<x>>) = Of(x)
         /\ Head(<<x>>) = x
<1>1. DOMAIN <<x>> = {1} /\ <<x>>[1] = x
  OBVIOUS
<1>2. ToSet(<<x>>) = {x} /\ HeldIn(<<x>>) = Of(x)
  BY <1>1 DEF ToSet, HeldIn
<1>3. <<x>> \in Seq({x})
  OBVIOUS
<1>4. QED
  BY <1>1, <1>2, <1>3 DEF IsList, OnceIn

LEMMA NoItem == IsList(<<>>) /\ ToSet(<<>>) = {} /\ OnceIn(<<>>) /\ HeldIn(<<>>) = {}
<1>1. DOMAIN <<>> = {} /\ <<>> \in Seq({})
  OBVIOUS
<1>2. ToSet(<<>>) = {}
  BY <1>1 DEF ToSet
<1>3. QED
  BY <1>1, <1>2 DEF IsList, OnceIn, HeldIn

(* What a step leaves alone.                                                *)
LEMMA SentStays == ASSUME SentInv, sent' = sent PROVE SentGrows /\ SentInv'
  BY DEF SentGrows, SentInv

OnceOpen == \A s, t \in DOMAIN open : s # t => ToSet(open[s].from) \cap ToSet(open[t].from) = {}

LEMMA OpenStays ==
  ASSUME SumInv, SentGrows, open' = open
  PROVE  OpenInv' /\ OnceOpen' /\ At(-1)' = At(-1)
<1>1. ASSUME NEW s \in DOMAIN open PROVE StateOK(s, open[s])' /\ open[s].from # <<>>
  <2>1. StateOK(s, open[s]) /\ open[s].from # <<>>
    BY DEF SumInv, OpenInv
  <2>2. ASSUME NEW w, w = open[s] PROVE StateOK(s, w)'
    BY <2>1, <2>2, StateKept
  <2>3. QED
    BY <2>1, <2>2
<1>2. QED
  BY <1>1 DEF SumInv, OnceInv, OpenInv, OnceOpen, At, OpenIds

LEMMA WorkStays ==
  ASSUME SumInv, SentGrows, work' = work
  PROVE  WorkInv' /\ At(-2)' = At(-2)
<1>1. \A w : AggOK(w) => AggOK(w)'
  BY AggKept
<1>2. At(-2)' = At(-2)
  BY DEF At, WorkIds
<1>3. QED
  BY <1>1, <1>2 DEF SumInv, WorkInv

LEMMA ExportedStays ==
  ASSUME SumInv, SentGrows, exported' = exported
  PROVE  ExportedInv' /\ OnceIn(exported') /\ At(-3)' = At(-3)
<1>1. ASSUME NEW a \in ToSet(exported) PROVE AggOK(a)'
  BY AggKept DEF SumInv, ExportedInv
<1>2. QED
  BY <1>1 DEF SumInv, OnceInv, ExportedInv, At, HeldIn

-----------------------------------------------------------------------------
(* The steps.  A stage that passes an item on, or what it made of it.       *)
LEMMA PassedOn ==
  ASSUME SumInv, NEW i \in Stages, NEW items, Moves(i, items), hand[i] = <<>>, hand[i - 1] # <<>>,
         UNCHANGED <<open, work, exported, sent>>,
         IsList(items), \A x \in ToSet(items) : ItemOK(x), OnceIn(items),
         HeldIn(items) \subseteq Of(Head(hand[i - 1]))
  PROVE  SumInv'
<1>1. SentGrows /\ SentInv'
  BY SentStays DEF SumInv
<1>2. HandInv' /\ \A p \in Hands : OnceIn(hand'[p])
  BY <1>1, HandsMoved
<1>3. /\ OpenInv' /\ OnceOpen' /\ At(-1)' = At(-1) /\ WorkInv' /\ At(-2)' = At(-2)
      /\ ExportedInv' /\ OnceIn(exported') /\ At(-3)' = At(-3)
  BY <1>1, OpenStays, WorkStays, ExportedStays
<1>4. /\ At(i) = {} /\ At(i)' = HeldIn(items)
      /\ At(i - 1) = Of(Head(hand[i - 1])) \cup At(i - 1)'
      /\ Of(Head(hand[i - 1])) \cap At(i - 1)' = {}
      /\ \A p \in Hands : p = i \/ p = i - 1 \/ At(p)' = At(p)
  BY HeldMoved
<1>5. i \in Places /\ i - 1 \in Places /\ i # i - 1
  BY StageFacts DEF Places
<1>6. \A r \in Places : r = i \/ r = i - 1 \/ At(r)' = At(r)
  BY <1>3, <1>4 DEF Places
<1>7. Apart'
  <2>1. /\ At(i)' \subseteq At(i) \cup At(i - 1) /\ At(i - 1)' \subseteq At(i) \cup At(i - 1)
        /\ At(i)' \cap At(i - 1)' = {}
    BY <1>4
  <2>2. Apart /\ DOMAIN sent \subseteq DOMAIN sent'
    BY <1>1 DEF SumInv, SentGrows
  <2>3. \A r \in Places : r = i \/ r = i - 1 \/ At(r)' \subseteq At(r)
    BY <1>6
  <2>4. QED
    BY <1>5, <2>1, <2>2, <2>3, ApartKept
<1>8. OnceInv'
  BY <1>2, <1>3 DEF OnceInv, OnceOpen
<1>9. QED
  BY <1>1, <1>2, <1>3, <1>7, <1>8 DEF SumInv

LEMMA PassThroughKept ==
  ASSUME SumInv, NEW i \in Stages, NEW x, Moves(i, <<x>>), hand[i] = <<>>, hand[i - 1] # <<>>,
         UNCHANGED <<open, work, exported, sent>>, ItemOK(x), Of(x) \subseteq Of(Head(hand[i - 1]))
  PROVE  SumInv'
<1>1. /\ IsList(<<x>>) /\ ToSet(<<x>>) = {x} /\ OnceIn(<<x>>) /\ HeldIn(<<x>>) = Of(x)
  BY OneItem
<1>2. QED
  BY <1>1, PassedOn

LEMMA DropKept ==
  ASSUME SumInv, NEW i \in Stages, Moves(i, <<>>), hand[i] = <<>>, hand[i - 1] # <<>>,
         UNCHANGED <<open, work, exported, sent>>
  PROVE  SumInv'
  BY NoItem, PassedOn

LEMMA HeadOK ==
  ASSUME SumInv, NEW p \in Hands, hand[p] # <<>>
  PROVE  ItemOK(Head(hand[p]))
<1>1. IsList(hand[p]) /\ \A x \in ToSet(hand[p]) : ItemOK(x)
  BY DEF SumInv, HandInv
<1>2. QED
  BY <1>1, TailOfList

LEMMA Flattened ==
  ASSUME NEW ids \in Seq(DOMAIN sent), IsInjective(ids)
  PROVE  /\ IsList(flattenAndEmit(ids)) /\ \A x \in ToSet(flattenAndEmit(ids)) : ItemOK(x)
         /\ OnceIn(flattenAndEmit(ids)) /\ HeldIn(flattenAndEmit(ids)) \subseteq ToSet(ids)
<1> DEFINE fine == {k \in DOMAIN ids : sent[ids[k]].form # "nan"}
           c == Cardinality(fine)
           q == flattenAndEmit(ids)
<1>1. q = [n \in 1 .. c |-> Log(ids[Nth(fine, n)])]
  BY DEF flattenAndEmit
<1>2. PICK L \in Nat : L = Len(ids)
  OBVIOUS
<1>3. DOMAIN ids = 1 .. L /\ fine \in SUBSET (1 .. L)
  BY <1>2
<1>4. IsFiniteSet(fine) /\ (\A k \in fine : k \in Int) /\ c \in Nat
  <2> HIDE DEF fine
  <2>1. IsFiniteSet(fine)
    <3>1. IsFiniteSet(1 .. L)
      BY <1>2, FS_Interval
    <3>2. QED
      BY <1>3, <3>1, FS_Subset
  <2>2. QED
    BY <1>3, <2>1, FS_CardinalityType
<1> HIDE DEF fine, q
<1>5. /\ \A n \in 1 .. c : Nth(fine, n) \in DOMAIN ids
      /\ \A m, n \in 1 .. c : Nth(fine, m) = Nth(fine, n) => m = n
  BY <1>3, <1>4, NthMember
<1> HIDE DEF c
<1>6. IsList(q) /\ DOMAIN q = 1 .. c
  <2>1. q = [n \in 1 .. c |-> q[n]]
    BY <1>1
  <2>2. QED
    BY <1>4, <2>1, ListMade
<1>7. ASSUME NEW n \in 1 .. c
      PROVE  /\ q[n].kind = "log" /\ q[n].id = ids[Nth(fine, n)] /\ q[n].id \in DOMAIN sent
             /\ q[n].id \in ToSet(ids) /\ Of(q[n]) = {q[n].id}
  <2>1. q[n].kind = "log" /\ q[n].id = ids[Nth(fine, n)]
    BY <1>1 DEF Log
  <2>2. QED
    BY <1>5, <2>1 DEF Of, ToSet
<1>8. \A x \in ToSet(q) : ItemOK(x)
  BY <1>6, <1>7 DEF ToSet, ItemOK
<1>9. OnceIn(q)
  <2>1. ASSUME NEW j \in 1 .. c, NEW k \in 1 .. c, j # k PROVE Of(q[j]) \cap Of(q[k]) = {}
    <3>1. q[j].id # q[k].id
      BY <1>5, <1>7, <2>1 DEF IsInjective
    <3>2. QED
      BY <1>7, <3>1
  <2>2. QED
    BY <1>6, <2>1 DEF OnceIn
<1>10. HeldIn(q) \subseteq ToSet(ids)
  BY <1>6, <1>7 DEF HeldIn
<1>11. QED
  BY <1>6, <1>8, <1>9, <1>10 DEF q

LEMMA FlattenKept == ASSUME SumInv, NEW i \in Stages, Flatten(i) PROVE SumInv'
<1> DEFINE item == Head(hand[i - 1])
<1>1. hand[i] = <<>> /\ hand[i - 1] # <<>>
  BY DEF Flatten, Takes
<1>2. ItemOK(item)
  BY <1>1, StageFacts, HeadOK
<1>3. CASE item.kind # "batch"
  <2>1. Moves(i, <<item>>) /\ UNCHANGED <<open, work, exported, sent>>
    BY <1>3 DEF Flatten, PassThrough
  <2>2. QED
    BY <1>1, <1>2, <2>1, PassThroughKept
<1>4. CASE item.kind = "batch"
  <2>1. Moves(i, flattenAndEmit(item.ids)) /\ UNCHANGED <<open, work, exported, sent>>
    BY <1>4 DEF Flatten
  <2>2. item.ids \in Seq(DOMAIN sent) /\ IsInjective(item.ids)
    BY <1>2, <1>4 DEF ItemOK, AggOK
  <2>3. Of(item) = ToSet(item.ids)
    BY <1>4 DEF Of
  <2> HIDE DEF item
  <2>4. QED
    BY <1>1, <2>1, <2>2, <2>3, Flattened, PassedOn DEF item
<1>5. QED
  BY <1>3, <1>4

LEMMA FilterKept == ASSUME SumInv, NEW i \in Stages, Filter(i) PROVE SumInv'
<1>1. hand[i] = <<>> /\ hand[i - 1] # <<>>
  BY DEF Filter, Takes
<1>2. ItemOK(Head(hand[i - 1]))
  BY <1>1, StageFacts, HeadOK
<1>3. UNCHANGED <<open, work, exported, sent>>
  BY DEF Filter, PassThrough
<1>4. Moves(i, <<Head(hand[i - 1])>>) \/ Moves(i, <<>>)
  BY DEF Filter, PassThrough
<1>5. QED
  BY <1>1, <1>2, <1>3, <1>4, PassThroughKept, DropKept

LEMMA ScoreKept == ASSUME SumInv, NEW i \in Stages, Score(i) PROVE SumInv'
<1> DEFINE a == Head(hand[i - 1])
<1>1. hand[i] = <<>> /\ hand[i - 1] # <<>>
  BY DEF Score, Takes
<1>2. ItemOK(a)
  BY <1>1, StageFacts, HeadOK
<1>3. CASE a.kind # "aggregate"
  <2>1. Moves(i, <<a>>) /\ UNCHANGED <<open, work, exported, sent>>
    BY <1>3 DEF Score, PassThrough
  <2>2. QED
    BY <1>1, <1>2, <2>1, PassThroughKept
<1>4. CASE a.kind = "aggregate"
  <2>1. UNCHANGED <<open, work, exported, sent>> /\ \E z : Moves(i, <<[a EXCEPT !.score = z]>>)
    BY <1>4 DEF Score
  <2>2. PICK z : Moves(i, <<[a EXCEPT !.score = z]>>)
    BY <2>1
  <2>3. AggOK(a)
    BY <1>2, <1>4 DEF ItemOK
  <2> HIDE DEF a
  <2>4. AggOK([a EXCEPT !.score = z]) /\ [a EXCEPT !.score = z].from = a.from
    BY <2>3, Marked
  <2>5. ItemOK([a EXCEPT !.score = z]) /\ Of([a EXCEPT !.score = z]) = Of(a)
    BY <2>3, <2>4, OfAgg DEF ItemOK, AggOK
  <2>6. QED
    BY <1>1, <2>1, <2>2, <2>5, PassThroughKept DEF a
<1>5. QED
  BY <1>3, <1>4

(* logsum counts a record of the head.                                      *)
CountsRecord(i, id, st) ==
  /\ open' = [s \in DOMAIN open \cup {sent[id].svc} |-> IF s = sent[id].svc THEN st ELSE open[s]]
  /\ Moves(i, <<>>)
  /\ UNCHANGED <<work, exported, sent>>

LEMMA CountedKept ==
  ASSUME SumInv, NEW i \in Stages, hand[i] = <<>>, hand[i - 1] # <<>>,
         NEW id \in DOMAIN sent, Of(Head(hand[i - 1])) = {id},
         NEW st \in Consumed(id), CountsRecord(i, id, st)
  PROVE  SumInv'
<1>1. SentGrows /\ SentInv' /\ DOMAIN sent \subseteq DOMAIN sent'
  BY SentStays DEF SumInv, CountsRecord
<1>2. /\ At(i) = {} /\ At(i)' = {}
      /\ At(i - 1) = {id} \cup At(i - 1)' /\ id \notin At(i - 1)'
      /\ \A p \in Hands : p = i \/ p = i - 1 \/ At(p)' = At(p)
  BY HeldMoved, NoItem DEF CountsRecord
<1>3. i \in Places /\ i - 1 \in Places /\ -1 \in Places /\ i # -1 /\ i - 1 # -1 /\ i # i - 1
  BY StageFacts DEF Places
<1>4. id \notin OpenIds
  <2>1. At(-1) = OpenIds /\ At(-1) \cap At(i - 1) = {}
    BY <1>3, AtValues DEF SumInv, Apart
  <2>2. QED
    BY <1>2, <2>1
<1> DEFINE svc == sent[id].svc
<1>a. PICK new : new = open'
  OBVIOUS
<1>5. DOMAIN new = DOMAIN open \cup {svc} /\ new[svc] = st /\ \A s \in DOMAIN open : s = svc \/ new[s] = open[s]
  BY <1>a DEF CountsRecord
<1>6. /\ StateOK(svc, ensure(svc)) /\ id \notin ToSet(ensure(svc).from)
      /\ ToSet(ensure(svc).from) = IF svc \in DOMAIN open THEN ToSet(open[svc].from) ELSE {}
  <2>1. /\ StateOK(svc, ensure(svc))
        /\ ToSet(ensure(svc).from) = IF svc \in DOMAIN open THEN ToSet(open[svc].from) ELSE {}
    BY NothingYet DEF SumInv
  <2>2. QED
    BY <1>4, <2>1 DEF OpenIds
<1>7. StateOK(svc, st) /\ st.from # <<>> /\ ToSet(st.from) = ToSet(ensure(svc).from) \cup {id}
  BY <1>6, ConsumedOK DEF SumInv
<1>8. \A s \in DOMAIN open : StateOK(s, open[s]) /\ open[s].from # <<>>
  BY DEF SumInv, OpenInv
<1>9. ASSUME NEW s \in DOMAIN new PROVE StateOK(s, new[s])' /\ new[s].from # <<>>
  <2>1. StateOK(s, new[s]) /\ new[s].from # <<>>
    BY <1>5, <1>7, <1>8
  <2>2. ASSUME NEW w, StateOK(s, w) PROVE StateOK(s, w)'
    BY <1>1, <2>2, StateKept
  <2>3. \A w : StateOK(s, w) => StateOK(s, w)'
    BY <2>2
  <2>4. QED
    BY <2>1, <2>3
<1>10. OpenInv'
  <2>1. IsFiniteSet(DOMAIN new)
    BY <1>5, FS_AddElement DEF SumInv, OpenInv
  <2>2. QED
    BY <1>9, <1>a, <2>1 DEF OpenInv
<1>11. OpenIds' \subseteq OpenIds \cup {id}
  <2>1. ASSUME NEW s \in DOMAIN new PROVE ToSet(new[s].from) \subseteq OpenIds \cup {id}
    BY <1>5, <1>6, <1>7 DEF OpenIds
  <2>2. QED
    BY <2>1, <1>a DEF OpenIds
<1>12. OnceOpen'
  <2>1. ASSUME NEW s \in DOMAIN new PROVE ToSet(new[s].from) \subseteq
                  (IF s \in DOMAIN open THEN ToSet(open[s].from) ELSE {}) \cup (IF s = svc THEN {id} ELSE {})
    BY <1>5, <1>6, <1>7
  <2>2. \A s, t \in DOMAIN open : s # t => ToSet(open[s].from) \cap ToSet(open[t].from) = {}
    BY DEF SumInv, OnceInv
  <2>3. \A s \in DOMAIN open : id \notin ToSet(open[s].from)
    BY <1>4 DEF OpenIds
  <2> HIDE DEF svc
  <2>4. ASSUME NEW s \in DOMAIN new, NEW t \in DOMAIN new, s # t
        PROVE  ToSet(new[s].from) \cap ToSet(new[t].from) = {}
    BY <2>1, <2>2, <2>3, <2>4
  <2>5. QED
    BY <2>4, <1>a DEF OnceOpen
<1>13. /\ WorkInv' /\ At(-2)' = At(-2) /\ ExportedInv' /\ OnceIn(exported') /\ At(-3)' = At(-3)
  BY <1>1, WorkStays, ExportedStays DEF CountsRecord
<1>14. HandInv' /\ \A p \in Hands : OnceIn(hand'[p])
  BY <1>1, NoItem, HandsMoved DEF CountsRecord
<1>15. Apart'
  <2>1. At(-1) = OpenIds /\ At(-1)' = OpenIds'
    BY AtValues
  <2>2. id \notin At(i - 1)' /\ At(i - 1)' \subseteq At(i - 1) /\ At(-1) \cap At(i - 1) = {} /\ id \in At(i - 1)
    BY <1>2, <1>3 DEF SumInv, Apart
  <2>3. /\ At(-1)' \subseteq At(-1) \cup At(i - 1) /\ At(i - 1)' \subseteq At(-1) \cup At(i - 1)
        /\ At(-1)' \cap At(i - 1)' = {}
    BY <1>11, <2>1, <2>2
  <2>4. \A r \in Places : r = -1 \/ r = i - 1 \/ At(r)' \subseteq At(r)
    BY <1>2, <1>13 DEF Places
  <2>5. QED
    BY <1>1, <1>3, <2>3, <2>4, ApartKept DEF SumInv
<1>16. OnceInv'
  BY <1>12, <1>13, <1>14 DEF OnceInv, OnceOpen
<1>17. QED
  BY <1>1, <1>10, <1>13, <1>14, <1>15, <1>16 DEF SumInv

LEMMA SummariseKept == ASSUME SumInv, NEW i \in Stages, Summarise(i) PROVE SumInv'
<1> DEFINE item == Head(hand[i - 1])
<1>1. hand[i] = <<>> /\ hand[i - 1] # <<>>
  BY DEF Summarise, Takes
<1>2. ItemOK(item)
  BY <1>1, StageFacts, HeadOK
<1>3. CASE item.kind \in {"aggregate", "other"}
  <2>1. Moves(i, <<item>>) /\ UNCHANGED <<open, work, exported, sent>>
    BY <1>3 DEF Summarise, PassThrough
  <2>2. QED
    BY <1>1, <1>2, <2>1, PassThroughKept
<1>4. CASE item.kind = "log" /\ sent[item.id].form = "fine"
  <2>1. PICK st \in Consumed(item.id) : CountsRecord(i, item.id, st)
    BY <1>4 DEF Summarise, CountsRecord
  <2>2. item.id \in DOMAIN sent /\ Of(item) = {item.id}
    BY <1>2, <1>4 DEF ItemOK, AggOK, Of
  <2> HIDE DEF item
  <2>3. PICK id : id = item.id
    OBVIOUS
  <2>4. QED
    BY <1>1, <2>1, <2>2, <2>3, CountedKept DEF item
<1>5. CASE item.kind \notin {"aggregate", "other"} /\ ~ (item.kind = "log" /\ sent[item.id].form = "fine")
  <2>1. Moves(i, <<>>) /\ UNCHANGED <<open, work, exported, sent>>
    BY <1>5 DEF Summarise
  <2>2. QED
    BY <1>1, <2>1, DropKept
<1>6. QED
  BY <1>3, <1>4, <1>5

(* vectorizer: an Aggregate goes out, and comes back with what it got.      *)
LEMMA TakenKept ==
  ASSUME SumInv, NEW i \in Stages, hand[i] = <<>>, hand[i - 1] # <<>>, Moves(i, <<>>),
         work = None, AggOK(Head(hand[i - 1])),
         work' = <<[a |-> Head(hand[i - 1]), attempt |-> 0]>>,
         UNCHANGED <<open, exported, sent>>
  PROVE  SumInv'
<1> DEFINE a == Head(hand[i - 1])
<1>1. SentGrows /\ SentInv' /\ DOMAIN sent \subseteq DOMAIN sent'
  BY SentStays DEF SumInv
<1>2. /\ At(i) = {} /\ At(i)' = {}
      /\ At(i - 1) = Of(a) \cup At(i - 1)' /\ Of(a) \cap At(i - 1)' = {}
      /\ \A p \in Hands : p = i \/ p = i - 1 \/ At(p)' = At(p)
  BY HeldMoved, NoItem
<1>3. i \in Places /\ i - 1 \in Places /\ -2 \in Places /\ i # -2 /\ i - 1 # -2 /\ i # i - 1
  BY StageFacts DEF Places
<1>4. /\ OpenInv' /\ OnceOpen' /\ At(-1)' = At(-1) /\ ExportedInv' /\ OnceIn(exported') /\ At(-3)' = At(-3)
  BY <1>1, OpenStays, ExportedStays
<1>5. HandInv' /\ \A p \in Hands : OnceIn(hand'[p])
  BY <1>1, NoItem, HandsMoved
<1>6. PICK b : b = a
  OBVIOUS
<1>7. work' = <<[a |-> b, attempt |-> 0]>> /\ AggOK(b)
  BY <1>6
<1>8. AggOK(b)'
  BY <1>1, <1>7, AggKept
<1>9. DOMAIN work' = {1} /\ work'[1].a = b /\ DOMAIN work'[1] = {"a", "attempt"}
  BY <1>7
<1>10. WorkInv'
  BY <1>8, <1>9 DEF WorkInv
<1>11. At(-2)' = Of(a)
  <2>1. At(-2)' = WorkIds'
    BY AtValues
  <2>2. WorkIds' = ToSet(b.from)
    BY <1>9 DEF WorkIds
  <2>3. QED
    BY <1>6, <1>7, <2>1, <2>2, OfAgg DEF AggOK
<1>12. Apart'
  <2>1. /\ At(-2)' \subseteq At(-2) \cup At(i - 1) /\ At(i - 1)' \subseteq At(-2) \cup At(i - 1)
        /\ At(-2)' \cap At(i - 1)' = {}
    BY <1>2, <1>11
  <2>2. \A r \in Places : r = -2 \/ r = i - 1 \/ At(r)' \subseteq At(r)
    BY <1>2, <1>4 DEF Places
  <2>3. QED
    BY <1>1, <1>3, <2>1, <2>2, ApartKept DEF SumInv
<1>13. OnceInv'
  BY <1>4, <1>5 DEF OnceInv, OnceOpen
<1>14. QED
  BY <1>1, <1>4, <1>5, <1>10, <1>12, <1>13 DEF SumInv

LEMMA VectoriseKept == ASSUME SumInv, NEW i \in Stages, Vectorise(i) PROVE SumInv'
<1> DEFINE a == Head(hand[i - 1])
<1>1. hand[i] = <<>> /\ hand[i - 1] # <<>> /\ work = None
  BY DEF Vectorise, Takes
<1>2. ItemOK(a)
  BY <1>1, StageFacts, HeadOK
<1>3. CASE a.kind # "aggregate"
  <2>1. Moves(i, <<a>>) /\ UNCHANGED <<open, work, exported, sent>>
    BY <1>3 DEF Vectorise, PassThrough
  <2>2. QED
    BY <1>1, <1>2, <2>1, PassThroughKept
<1>4. CASE a.kind = "aggregate" /\ Mode = "hash"
  <2>1. Moves(i, <<[a EXCEPT !.vector = "hash"]>>) /\ UNCHANGED <<open, work, exported, sent>>
    BY <1>4 DEF Vectorise, PassThrough, Hashed
  <2>2. AggOK(a)
    BY <1>2, <1>4 DEF ItemOK
  <2> HIDE DEF a
  <2>3. AggOK([a EXCEPT !.vector = "hash"]) /\ [a EXCEPT !.vector = "hash"].from = a.from
    BY <2>2, Marked
  <2>4. ItemOK([a EXCEPT !.vector = "hash"]) /\ Of([a EXCEPT !.vector = "hash"]) = Of(a)
    BY <2>2, <2>3, OfAgg DEF ItemOK, AggOK
  <2>5. QED
    BY <1>1, <2>1, <2>4, PassThroughKept DEF a
<1>5. CASE a.kind = "aggregate" /\ Mode # "hash"
  <2>1. /\ work' = <<[a |-> a, attempt |-> 0]>> /\ Moves(i, <<>>)
        /\ UNCHANGED <<open, exported, sent>>
    BY <1>5 DEF Vectorise
  <2>2. AggOK(a)
    BY <1>2, <1>5 DEF ItemOK
  <2>3. QED
    BY <1>1, <2>1, <2>2, TakenKept
<1>6. QED
  BY <1>3, <1>4, <1>5

LEMMA EmbeddedKept ==
  ASSUME SumInv, NEW i \in Stages, work # None,
         NEW a, AggOK(a), a.from = work[1].a.from, Embedded(i, a)
  PROVE  SumInv'
<1>1. SentGrows /\ SentInv' /\ DOMAIN sent \subseteq DOMAIN sent'
  BY SentStays DEF SumInv, Embedded
<1>2. i \in Hands /\ i \in Places /\ -2 \in Places /\ i # -2 /\ DOMAIN hand = Hands
  BY StageFacts DEF Places, SumInv, HandInv
<1>3. /\ hand'[i] = <<a>> /\ DOMAIN hand' = Hands /\ work' = None
      /\ \A p \in Hands : p = i \/ hand'[p] = hand[p]
  BY <1>2 DEF Embedded
<1>4. /\ OpenInv' /\ OnceOpen' /\ At(-1)' = At(-1) /\ ExportedInv' /\ OnceIn(exported') /\ At(-3)' = At(-3)
  BY <1>1, OpenStays, ExportedStays DEF Embedded
<1>5. ItemOK(a) /\ Of(a) = ToSet(a.from)
  BY OfAgg DEF ItemOK, AggOK
<1>6. ASSUME NEW p \in Hands
      PROVE  IsList(hand'[p]) /\ OnceIn(hand'[p]) /\ \A x \in ToSet(hand'[p]) : ItemOK(x)
  <2>1. /\ IsList(hand[p]) /\ OnceIn(hand[p]) /\ \A x \in ToSet(hand[p]) : ItemOK(x)
    BY DEF SumInv, HandInv, OnceInv
  <2>2. QED
    BY <1>3, <1>5, <2>1, OneItem
<1>7. ASSUME NEW p \in Hands, NEW x \in ToSet(hand'[p]) PROVE ItemOK(x)'
  BY <1>1, <1>6, ItemKept
<1>8. HandInv'
  BY <1>3, <1>6, <1>7 DEF HandInv
<1>9. At(i)' = ToSet(a.from) /\ \A p \in Hands : p = i \/ At(p)' = At(p)
  BY <1>2, <1>3, <1>5, AtValues, OneItem
<1>10. At(-2) = ToSet(a.from) /\ At(-2)' = {}
  <2>1. DOMAIN work = {1}
    BY DEF SumInv, WorkInv
  <2>2. WorkIds = ToSet(a.from)
    BY <2>1 DEF WorkIds
  <2>3. WorkIds' = {}
    BY <1>3 DEF WorkIds, None
  <2>4. QED
    BY <2>2, <2>3, AtValues
<1>11. Apart'
  <2>1. \A r \in Places : r = -2 \/ r = i \/ At(r)' \subseteq At(r)
    BY <1>4, <1>9 DEF Places
  <2>2. /\ At(-2)' \subseteq At(-2) \cup At(i) /\ At(i)' \subseteq At(-2) \cup At(i)
        /\ At(-2)' \cap At(i)' = {}
    BY <1>9, <1>10
  <2>3. QED
    BY <1>1, <1>2, <2>1, <2>2, ApartKept DEF SumInv
<1>12. WorkInv'
  BY <1>3 DEF WorkInv
<1>13. OnceInv'
  BY <1>4, <1>6 DEF OnceInv, OnceOpen
<1>14. QED
  BY <1>1, <1>4, <1>8, <1>11, <1>12, <1>13 DEF SumInv

LEMMA WorkFacts ==
  ASSUME SumInv, work # None
  PROVE  AggOK(work[1].a) /\ DOMAIN work = {1} /\ DOMAIN work[1] = {"a", "attempt"}
  BY DEF SumInv, WorkInv

LEMMA EmbedOkKept == ASSUME SumInv, NEW i \in Stages, EmbedOk(i) PROVE SumInv'
<1> DEFINE a == work[1].a
<1>1. work # None /\ Embedded(i, [a EXCEPT !.vector = "ollama"])
  BY DEF EmbedOk
<1>2. AggOK(a)
  BY <1>1, WorkFacts
<1> HIDE DEF a
<1>3. AggOK([a EXCEPT !.vector = "ollama"]) /\ [a EXCEPT !.vector = "ollama"].from = a.from
  BY <1>2, Marked
<1>4. QED
  BY <1>1, <1>3, EmbeddedKept DEF a

LEMMA EmbedFailsKept == ASSUME SumInv, NEW i \in Stages, EmbedFails(i) PROVE SumInv'
<1>1. work # None
  BY DEF EmbedFails
<1>2. AggOK(work[1].a) /\ DOMAIN work = {1} /\ DOMAIN work[1] = {"a", "attempt"}
  BY <1>1, WorkFacts
<1>3. CASE work[1].attempt < Retries
  <2>1. /\ work' = <<[work[1] EXCEPT !.attempt = @ + 1]>>
        /\ UNCHANGED <<hand, open, exported, sent>>
    BY <1>3 DEF EmbedFails
  <2>2. DOMAIN work' = {1} /\ DOMAIN work'[1] = {"a", "attempt"} /\ work'[1].a = work[1].a
    BY <1>2, <2>1
  <2>3. SentGrows /\ SentInv' /\ DOMAIN sent \subseteq DOMAIN sent'
    BY <2>1, SentStays DEF SumInv
  <2>4. PICK b : b = work[1].a
    OBVIOUS
  <2>5. AggOK(b)'
    BY <1>2, <2>3, <2>4, AggKept
  <2>6. WorkInv'
    BY <2>2, <2>4, <2>5 DEF WorkInv
  <2>7. /\ OpenInv' /\ OnceOpen' /\ At(-1)' = At(-1) /\ ExportedInv' /\ OnceIn(exported')
        /\ At(-3)' = At(-3)
    BY <2>1, <2>3, OpenStays, ExportedStays
  <2>8. At(-2)' = At(-2)
    <3>1. WorkIds' = WorkIds
      BY <1>2, <2>2 DEF WorkIds
    <3>2. QED
      BY <3>1, AtValues
  <2>9. \A p \in Hands : At(p)' = At(p)
    BY <2>1, AtValues
  <2>10. HandInv'
    <3>1. ASSUME NEW p \in Hands, NEW x \in ToSet(hand[p]) PROVE ItemOK(x)'
      BY <2>3, ItemKept DEF SumInv, HandInv
    <3>2. QED
      BY <2>1, <3>1 DEF SumInv, HandInv
  <2>11. Apart'
    BY <2>3, <2>7, <2>8, <2>9 DEF SumInv, Apart, Places
  <2>12. OnceInv'
    BY <2>1, <2>7 DEF SumInv, OnceInv, OnceOpen
  <2>13. QED
    BY <2>3, <2>6, <2>7, <2>10, <2>11, <2>12 DEF SumInv
<1>4. CASE ~ (work[1].attempt < Retries)
  <2> DEFINE a == work[1].a
             b == IF AllowFallback \/ Mode # "ollama" THEN [a EXCEPT !.vector = "hash"] ELSE a
  <2>1. Embedded(i, b)
    BY <1>4 DEF EmbedFails, Hashed
  <2>2. AggOK(a)
    BY <1>2
  <2> HIDE DEF a
  <2>3. AggOK(b) /\ b.from = a.from
    BY <2>2, Marked
  <2> HIDE DEF b
  <2>4. QED
    BY <1>1, <2>1, <2>3, EmbeddedKept DEF a
<1>5. QED
  BY <1>3, <1>4

(* The end of a window: what the services said goes to the next stage.      *)
LEMMA FlushKept == ASSUME SumInv, NEW i \in Stages, Flush(i) PROVE SumInv'
<1>1. /\ hand[i] = <<>> /\ open' = <<>> /\ UNCHANGED <<work, exported, sent>>
      /\ \E q \in Summaries : hand' = [hand EXCEPT ![i] = q]
  BY DEF Flush
<1>2. PICK q \in Summaries : hand' = [hand EXCEPT ![i] = q]
  BY <1>1
<1> DEFINE c == Cardinality(DOMAIN open)
<1>3. PICK order \in [1 .. c -> DOMAIN open],
           tops \in [DOMAIN open -> UNION {Tops(open[s].top) : s \in DOMAIN open}] :
        /\ IsInjective(order)
        /\ \A s \in DOMAIN open : tops[s] \in Tops(open[s].top)
        /\ q = [k \in DOMAIN order |-> Aggregate(order[k], open[order[k]], tops[order[k]])]
  BY DEF Summaries
<1>4. SentGrows /\ SentInv' /\ DOMAIN sent \subseteq DOMAIN sent'
  BY <1>1, SentStays DEF SumInv
<1>5. i \in Hands /\ i \in Places /\ -1 \in Places /\ i # -1 /\ DOMAIN hand = Hands
  BY StageFacts DEF Places, SumInv, HandInv
<1>6. hand'[i] = q /\ DOMAIN hand' = Hands /\ \A p \in Hands : p = i \/ hand'[p] = hand[p]
  BY <1>2, <1>5
<1>7. ASSUME NEW k \in 1 .. c
      PROVE  /\ order[k] \in DOMAIN open /\ AggOK(q[k]) /\ Of(q[k]) = ToSet(open[order[k]].from)
  <2>1. order[k] \in DOMAIN open /\ q[k] = Aggregate(order[k], open[order[k]], tops[order[k]])
    BY <1>3
  <2>2. PICK svc, st, top :
          /\ svc \in DOMAIN open /\ svc = order[k] /\ st = open[svc] /\ top = tops[svc] /\ q[k] = Aggregate(svc, st, top)
    BY <2>1
  <2>3. StateOK(svc, st) /\ st.from # <<>> /\ top \in Tops(st.top)
    BY <1>3, <2>2 DEF SumInv, OpenInv
  <2>4. AggOK(q[k]) /\ q[k].from = st.from
    BY <2>2, <2>3, FlushedOK DEF SumInv
  <2>5. QED
    BY <2>1, <2>2, <2>4, OfAgg DEF AggOK
<1>8. IsList(q) /\ DOMAIN q = 1 .. c
  <2>1. c \in Nat
    BY FS_CardinalityType DEF SumInv, OpenInv
  <2>2. q = [k \in 1 .. c |-> q[k]]
    BY <1>3
  <2> HIDE DEF c
  <2>3. QED
    BY <2>1, <2>2, ListMade
<1> HIDE DEF c
<1>9. \A x \in ToSet(q) : ItemOK(x)
  BY <1>7, <1>8 DEF ToSet, ItemOK
<1>10. HeldIn(q) \subseteq OpenIds
  BY <1>7, <1>8 DEF HeldIn, OpenIds
<1>11. OnceIn(q)
  <2>1. \A s, t \in DOMAIN open : s # t => ToSet(open[s].from) \cap ToSet(open[t].from) = {}
    BY DEF SumInv, OnceInv
  <2>2. ASSUME NEW j \in 1 .. c, NEW k \in 1 .. c, j # k PROVE Of(q[j]) \cap Of(q[k]) = {}
    <3>1. order[j] # order[k]
      BY <1>3, <2>2 DEF IsInjective
    <3>2. QED
      BY <1>7, <2>1, <3>1
  <2>3. QED
    BY <1>8, <2>2 DEF OnceIn
<1>12. HandInv' /\ \A p \in Hands : OnceIn(hand'[p])
  <2>1. ASSUME NEW p \in Hands
        PROVE  IsList(hand'[p]) /\ OnceIn(hand'[p]) /\ \A x \in ToSet(hand'[p]) : ItemOK(x)
    BY <1>6, <1>8, <1>9, <1>11 DEF SumInv, HandInv, OnceInv
  <2>2. ASSUME NEW p \in Hands, NEW x \in ToSet(hand'[p]) PROVE ItemOK(x)'
    BY <1>4, <2>1, ItemKept
  <2>3. QED
    BY <1>6, <2>1, <2>2 DEF HandInv
<1>13. OpenInv' /\ OnceOpen' /\ OpenIds' = {}
  <2>1. DOMAIN open' = {}
    BY <1>1
  <2>2. QED
    BY <2>1, FS_EmptySet DEF OpenInv, OnceOpen, OpenIds
<1>14. /\ WorkInv' /\ At(-2)' = At(-2) /\ ExportedInv' /\ OnceIn(exported') /\ At(-3)' = At(-3)
  BY <1>1, <1>4, WorkStays, ExportedStays
<1>15. Apart'
  <2>1. /\ At(-1) = OpenIds /\ At(-1)' = {} /\ At(i)' = HeldIn(q)
        /\ \A p \in Hands : p = i \/ At(p)' = At(p)
    BY <1>5, <1>6, <1>13, AtValues
  <2>2. \A r \in Places : r = -1 \/ r = i \/ At(r)' \subseteq At(r)
    BY <1>14, <2>1 DEF Places
  <2>3. /\ At(-1)' \subseteq At(-1) \cup At(i) /\ At(i)' \subseteq At(-1) \cup At(i)
        /\ At(-1)' \cap At(i)' = {}
    BY <1>10, <2>1
  <2>4. QED
    BY <1>4, <1>5, <2>2, <2>3, ApartKept DEF SumInv
<1>16. OnceInv'
  BY <1>12, <1>13, <1>14 DEF OnceInv, OnceOpen
<1>17. QED
  BY <1>4, <1>12, <1>13, <1>14, <1>15, <1>16 DEF SumInv

(* What the last stage sent is exported, or thrown away.                    *)
LEMMA LeaveKept == ASSUME SumInv, Leave PROVE SumInv'
<1> DEFINE last == Len(Chain)
<1>1. /\ hand[last] # <<>> /\ hand' = [hand EXCEPT ![last] = Tail(@)]
      /\ UNCHANGED <<open, work, sent>>
      /\ \/ exported' = exported
         \/ Head(hand[last]).kind = "aggregate" /\ exported' = Append(exported, Head(hand[last]))
  BY DEF Leave
<1>2. last \in Hands /\ last \in Places /\ -3 \in Places /\ last # -3 /\ DOMAIN hand = Hands
  <2>1. PICK n \in Nat : n = last /\ Stages = 1 .. n
    BY ProcessorsAssumption DEF Stages
  <2>2. n = 0 \/ n \in 1 .. n
    OBVIOUS
  <2>3. last \in Hands
    BY <2>1, <2>2 DEF Hands
  <2>4. QED
    BY <2>1, <2>3 DEF Places, SumInv, HandInv
<1> HIDE DEF last
<1>3. PICK x : x = Head(hand[last])
  OBVIOUS
<1>4. /\ hand'[last] = Tail(hand[last]) /\ DOMAIN hand' = Hands
      /\ \A p \in Hands : p = last \/ hand'[p] = hand[p]
  BY <1>1, <1>2
<1>5. SentGrows /\ SentInv' /\ DOMAIN sent \subseteq DOMAIN sent'
  BY <1>1, SentStays DEF SumInv
<1>6. \A p \in Hands : IsList(hand[p]) /\ OnceIn(hand[p]) /\ \A y \in ToSet(hand[p]) : ItemOK(y)
  BY DEF SumInv, HandInv, OnceInv
<1>7. /\ IsList(Tail(hand[last])) /\ x \in ToSet(hand[last])
      /\ ToSet(Tail(hand[last])) \subseteq ToSet(hand[last])
      /\ HeldIn(hand[last]) = Of(x) \cup HeldIn(Tail(hand[last]))
      /\ OnceIn(Tail(hand[last])) /\ Of(x) \cap HeldIn(Tail(hand[last])) = {}
  BY <1>1, <1>2, <1>3, <1>6, TailOfList, TailHolds
<1>8. ASSUME NEW p \in Hands
      PROVE  IsList(hand'[p]) /\ OnceIn(hand'[p]) /\ \A y \in ToSet(hand'[p]) : ItemOK(y)
  BY <1>4, <1>6, <1>7
<1>9. ASSUME NEW p \in Hands, NEW y \in ToSet(hand'[p]) PROVE ItemOK(y)'
  BY <1>5, <1>8, ItemKept
<1>10. HandInv'
  BY <1>4, <1>8, <1>9 DEF HandInv
<1>11. /\ OpenInv' /\ OnceOpen' /\ At(-1)' = At(-1) /\ WorkInv' /\ At(-2)' = At(-2)
  BY <1>1, <1>5, OpenStays, WorkStays
<1>12. /\ At(last) = Of(x) \cup At(last)' /\ Of(x) \cap At(last)' = {}
       /\ \A p \in Hands : p = last \/ At(p)' = At(p)
  BY <1>2, <1>4, <1>7, AtValues
<1>13. At(-3) \cap Of(x) = {} /\ At(-3) \cap At(last) = {}
  BY <1>2, <1>12 DEF SumInv, Apart
<1>14. ExportedInv' /\ OnceIn(exported') /\ At(-3)' \subseteq At(-3) \cup Of(x)
  <2>1. CASE exported' = exported
    BY <1>5, <2>1, ExportedStays
  <2>2. CASE x.kind = "aggregate" /\ exported' = Append(exported, x)
    <3>1. AggOK(x)
      BY <1>2, <1>6, <1>7, <2>2 DEF ItemOK
    <3>2. IsList(exported) /\ OnceIn(exported) /\ \A a \in ToSet(exported) : AggOK(a)
      BY DEF SumInv, ExportedInv, OnceInv
    <3>3. PICK L \in Nat : L = Len(exported) /\ DOMAIN exported = 1 .. L
      BY <3>2, ListShape
    <3>4. /\ IsList(exported') /\ ToSet(exported') = ToSet(exported) \cup {x}
          /\ DOMAIN exported' = DOMAIN exported \cup {L + 1}
          /\ \A k \in DOMAIN exported : exported'[k] = exported[k]
          /\ exported'[L + 1] = x
      BY <2>2, <3>2, <3>3, AppendToList
    <3>5. ASSUME NEW a \in ToSet(exported') PROVE AggOK(a)'
      <4>1. AggOK(a)
        BY <3>1, <3>2, <3>4
      <4>2. QED
        BY <1>5, <4>1, AggKept
    <3>6. ExportedInv'
      BY <3>4, <3>5 DEF ExportedInv
    <3>7. HeldIn(exported') = HeldIn(exported) \cup Of(x)
      <4>1. HeldIn(exported) \cup Of(x) \subseteq HeldIn(exported')
        BY <3>4 DEF HeldIn
      <4>2. HeldIn(exported') \subseteq HeldIn(exported) \cup Of(x)
        BY <3>4 DEF HeldIn
      <4>3. QED
        BY <4>1, <4>2
    <3>8. At(-3)' = At(-3) \cup Of(x) /\ HeldIn(exported) \cap Of(x) = {}
      BY <1>13, <3>7, AtValues
    <3>9. \A k \in DOMAIN exported : Of(exported[k]) \cap Of(x) = {}
      BY <3>8 DEF HeldIn
    <3>10. ASSUME NEW j \in DOMAIN exported', NEW k \in DOMAIN exported', j # k
           PROVE  Of(exported'[j]) \cap Of(exported'[k]) = {}
      <4>1. CASE j \in DOMAIN exported /\ k \in DOMAIN exported
        BY <3>2, <3>4, <3>10, <4>1 DEF OnceIn
      <4>2. CASE j = L + 1 \/ k = L + 1
        BY <3>4, <3>9, <3>10, <4>2
      <4>3. QED
        BY <3>4, <4>1, <4>2
    <3>11. OnceIn(exported')
      BY <3>10 DEF OnceIn
    <3>12. QED
      BY <3>6, <3>8, <3>11
  <2>3. QED
    BY <1>1, <1>3, <2>1, <2>2
<1>15. Apart'
  <2>1. \A r \in Places : r = last \/ r = -3 \/ At(r)' \subseteq At(r)
    BY <1>11, <1>12 DEF Places
  <2>2. /\ At(last)' \subseteq At(last) \cup At(-3) /\ At(-3)' \subseteq At(last) \cup At(-3)
        /\ At(last)' \cap At(-3)' = {}
    BY <1>12, <1>13, <1>14
  <2>3. QED
    BY <1>2, <1>5, <2>1, <2>2, ApartKept DEF SumInv
<1>16. OnceInv'
  BY <1>8, <1>11, <1>14 DEF OnceInv, OnceOpen
<1>17. QED
  BY <1>5, <1>10, <1>11, <1>14, <1>15, <1>16 DEF SumInv

(* All that is in memory is lost.                                           *)
LEMMA RestartKept == ASSUME SumInv, Restart PROVE SumInv'
<1>1. /\ hand' = [i \in Hands |-> <<>>] /\ open' = <<>> /\ work' = None
      /\ UNCHANGED <<exported, sent>>
  BY DEF Restart, Hands
<1>2. SentGrows /\ SentInv' /\ DOMAIN sent \subseteq DOMAIN sent'
  BY <1>1, SentStays DEF SumInv
<1>3. ExportedInv' /\ OnceIn(exported') /\ At(-3)' = At(-3)
  BY <1>1, <1>2, ExportedStays
<1>4. DOMAIN hand' = Hands /\ \A p \in Hands : hand'[p] = <<>>
  BY <1>1
<1>5. HandInv' /\ \A p \in Hands : OnceIn(hand'[p]) /\ At(p)' = {}
  BY <1>4, NoItem, AtValues DEF HandInv
<1>6. OpenInv' /\ OnceOpen' /\ At(-1)' = {}
  <2>1. DOMAIN open' = {}
    BY <1>1
  <2>2. QED
    BY <2>1, FS_EmptySet, AtValues DEF OpenInv, OnceOpen, OpenIds
<1>7. WorkInv' /\ At(-2)' = {}
  <2>1. DOMAIN work' = {}
    BY <1>1 DEF None
  <2>2. QED
    BY <1>1, <2>1, AtValues DEF WorkInv, WorkIds
<1>8. Apart'
  <2>1. \A p \in Places : At(p)' \subseteq At(p)
    BY <1>3, <1>5, <1>6, <1>7 DEF Places
  <2>2. QED
    BY <1>2, <2>1 DEF SumInv, Apart
<1>9. QED
  BY <1>2, <1>3, <1>5, <1>6, <1>7, <1>8 DEF SumInv, OnceInv, OnceOpen

(* Records arrive under numbers of their own.                               *)
LEMMA Numbered ==
  ASSUME SentInv, NEW b \in Batches, sent' = sent \o b
  PROVE  /\ SentInv' /\ SentGrows /\ Len(sent) \in Nat /\ Len(b) \in Nat /\ DOMAIN b = 1 .. Len(b)
         /\ \A k \in DOMAIN b : Len(sent) + k \in DOMAIN sent' /\ Len(sent) + k \notin DOMAIN sent
<1>1. b \in Seq(LogRecord) /\ \A k \in DOMAIN b : Len(b[k].value) <= 1
  BY BatchesAssumption
<1>2. sent \in Seq(LogRecord) /\ \A k \in DOMAIN sent : Len(sent[k].value) <= 1
  BY DEF SentInv
<1>3. PICK n \in Nat, m \in Nat : n = Len(sent) /\ m = Len(b)
  BY <1>1, <1>2
<1>4. /\ sent' \in Seq(LogRecord) /\ Len(sent') = n + m
      /\ \A k \in 1 .. n + m : sent'[k] = IF k <= n THEN sent[k] ELSE b[k - n]
  BY <1>1, <1>2, <1>3
<1>5. DOMAIN sent = 1 .. n /\ DOMAIN b = 1 .. m /\ DOMAIN sent' = 1 .. n + m
  BY <1>1, <1>2, <1>3, <1>4
<1>6. \A k \in 1 .. n : k \in 1 .. n + m /\ k <= n
  OBVIOUS
<1>7. \A k \in 1 .. n + m : k \in 1 .. n \/ (k - n \in 1 .. m /\ ~ (k <= n))
  OBVIOUS
<1>8. SentInv'
  BY <1>1, <1>2, <1>4, <1>5, <1>6, <1>7 DEF SentInv
<1>9. SentGrows
  BY <1>4, <1>5, <1>6 DEF SentGrows
<1>10. \A k \in 1 .. m : n + k \in 1 .. n + m /\ n + k \notin 1 .. n
  OBVIOUS
<1>11. QED
  BY <1>3, <1>5, <1>8, <1>9, <1>10

LEMMA ArriveKept == ASSUME SumInv, Arrive PROVE SumInv'
<1>1. PICK b \in Batches :
        LET ids == [k \in DOMAIN b |-> Len(sent) + k]
            forms == {b[k].form : k \in DOMAIN b}
        IN /\ sent' = sent \o b
           /\ \/ /\ forms \subseteq {"fine", "nan"}
                 /\ hand' = [hand EXCEPT ![0] = <<[kind |-> "batch", ids |-> ids]>>]
              \/ /\ forms \subseteq {"fine", "text"}
                 /\ hand' = [hand EXCEPT ![0] = [k \in DOMAIN ids |-> Log(ids[k])]]
              \/ /\ forms = {"other"}
                 /\ hand' = [hand EXCEPT ![0] = <<[kind |-> "other", ids |-> ids]>>]
  BY DEF Arrive
<1>2. hand[0] = <<>> /\ UNCHANGED <<open, work, exported>>
  BY DEF Arrive
<1>a. PICK ids : ids = [k \in DOMAIN b |-> Len(sent) + k]
  OBVIOUS
<1>3. PICK q : /\ hand' = [hand EXCEPT ![0] = q]
               /\ \/ \E kind \in {"batch", "other"} : q = <<[kind |-> kind, ids |-> ids]>>
                  \/ q = [k \in DOMAIN ids |-> Log(ids[k])]
  BY <1>1, <1>a
<1>4. /\ SentInv' /\ SentGrows /\ DOMAIN b = 1 .. Len(b)
      /\ \A k \in DOMAIN b : Len(sent) + k \in DOMAIN sent' /\ Len(sent) + k \notin DOMAIN sent
  BY <1>1, Numbered DEF SumInv
<1>5. PICK n \in Nat, m \in Nat : n = Len(sent) /\ m = Len(b)
  BY <1>1, Numbered DEF SumInv
<1>6. ids = [k \in 1 .. m |-> n + k] /\ DOMAIN ids = 1 .. m /\ \A k \in 1 .. m : ids[k] = n + k
  BY <1>4, <1>5, <1>a
<1>7. \A k \in 1 .. m : ids[k] \in DOMAIN sent' /\ ids[k] \notin DOMAIN sent
  BY <1>4, <1>5, <1>6
<1>8. ids \in Seq(DOMAIN sent') /\ IsInjective(ids)
  <2>1. ids \in [1 .. m -> DOMAIN sent']
    BY <1>6, <1>7
  <2>2. ids \in Seq(DOMAIN sent')
    BY <2>1
  <2>3. \A j, k \in 1 .. m : n + j = n + k => j = k
    OBVIOUS
  <2>4. QED
    BY <1>6, <2>2, <2>3 DEF IsInjective
<1>9. ToSet(ids) \cap DOMAIN sent = {} /\ ToSet(ids) \subseteq DOMAIN sent'
  BY <1>6, <1>7 DEF ToSet
<1>10. /\ IsList(q) /\ OnceIn(q) /\ HeldIn(q) \subseteq ToSet(ids)
       /\ \A x \in ToSet(q) : ItemOK(x)'
  <2>1. ASSUME NEW kind \in {"batch", "other"}, q = <<[kind |-> kind, ids |-> ids]>>
        PROVE  /\ IsList(q) /\ OnceIn(q) /\ HeldIn(q) \subseteq ToSet(ids)
               /\ \A x \in ToSet(q) : ItemOK(x)'
    <3>a. PICK x : x = [kind |-> kind, ids |-> ids]
      OBVIOUS
    <3>1. x.kind = kind /\ x.ids = ids
      BY <3>a
    <3>2. Of(x) = ToSet(ids)
      BY <3>1 DEF Of
    <3>3. ItemOK(x)'
      BY <1>8, <3>1 DEF ItemOK
    <3>4. /\ IsList(<<x>>) /\ ToSet(<<x>>) = {x} /\ OnceIn(<<x>>) /\ HeldIn(<<x>>) = Of(x)
      BY OneItem
    <3>5. q = <<x>>
      BY <2>1, <3>a
    <3>6. QED
      BY <3>2, <3>3, <3>4, <3>5
  <2>2. CASE q = [k \in DOMAIN ids |-> Log(ids[k])]
    <3>1. q = [k \in 1 .. m |-> q[k]]
      BY <1>6, <2>2
    <3>2. IsList(q) /\ DOMAIN q = 1 .. m
      BY <3>1, ListMade
    <3>3. ASSUME NEW k \in 1 .. m
          PROVE  q[k].kind = "log" /\ q[k].id = ids[k] /\ Of(q[k]) = {ids[k]}
      BY <1>6, <2>2 DEF Log, Of
    <3>4. OnceIn(q)
      BY <1>6, <1>8, <3>2, <3>3 DEF OnceIn, IsInjective
    <3>5. HeldIn(q) \subseteq ToSet(ids)
      <4>1. \A k \in 1 .. m : ids[k] \in ToSet(ids)
        BY <1>6 DEF ToSet
      <4>2. \A k \in DOMAIN q : Of(q[k]) \subseteq ToSet(ids)
        BY <3>2, <3>3, <4>1
      <4>3. QED
        BY <4>2 DEF HeldIn
    <3>6. ASSUME NEW k \in 1 .. m PROVE ItemOK(q[k])'
      <4>1. PICK x : x = q[k]
        OBVIOUS
      <4>2. x.kind = "log" /\ x.id \in DOMAIN sent'
        BY <1>7, <3>3, <4>1
      <4>3. ItemOK(x)'
        BY <4>2 DEF ItemOK
      <4>4. QED
        BY <4>1, <4>3
    <3>7. \A x \in ToSet(q) : ItemOK(x)'
      BY <3>2, <3>6 DEF ToSet
    <3>8. QED
      BY <3>2, <3>4, <3>5, <3>7
  <2>3. QED
    BY <1>3, <2>1, <2>2
<1>11. /\ 0 \in Hands /\ DOMAIN hand' = Hands /\ hand'[0] = q
       /\ \A p \in Hands : p = 0 \/ hand'[p] = hand[p]
  BY <1>3 DEF Hands, SumInv, HandInv
<1>12. ASSUME NEW p \in Hands
       PROVE  IsList(hand'[p]) /\ OnceIn(hand'[p]) /\ \A x \in ToSet(hand'[p]) : ItemOK(x)'
  <2>1. IsList(hand[p]) /\ OnceIn(hand[p]) /\ \A x \in ToSet(hand[p]) : ItemOK(x)
    BY DEF SumInv, HandInv, OnceInv
  <2>2. \A x \in ToSet(hand[p]) : ItemOK(x)'
    BY <1>4, <2>1, ItemKept
  <2>3. QED
    BY <1>10, <1>11, <2>1, <2>2
<1>13. HandInv'
  BY <1>11, <1>12 DEF HandInv
<1>14. /\ OpenInv' /\ OnceOpen' /\ At(-1)' = At(-1) /\ WorkInv' /\ At(-2)' = At(-2)
       /\ ExportedInv' /\ OnceIn(exported') /\ At(-3)' = At(-3)
  BY <1>2, <1>4, OpenStays, WorkStays, ExportedStays
<1>15. Apart'
  <2>1. At(0)' \subseteq ToSet(ids) /\ \A p \in Hands : p = 0 \/ At(p)' = At(p)
    BY <1>10, <1>11, AtValues
  <2>2. \A p \in Places : p = 0 \/ At(p)' = At(p)
    BY <1>14, <2>1 DEF Places
  <2>3. DOMAIN sent \subseteq DOMAIN sent'
    BY <1>4 DEF SentGrows
  <2>4. ASSUME NEW p \in Places
        PROVE  At(p)' \subseteq DOMAIN sent' /\ (p # 0 => At(p)' \subseteq DOMAIN sent)
    BY <1>9, <2>1, <2>2, <2>3 DEF SumInv, Apart
  <2>5. ASSUME NEW r \in Places, NEW t \in Places, r # t PROVE At(r)' \cap At(t)' = {}
    <3>1. CASE r # 0 /\ t # 0
      BY <2>2, <2>5, <3>1 DEF SumInv, Apart
    <3>2. CASE r = 0 \/ t = 0
      BY <1>9, <2>1, <2>4, <2>5, <3>2
    <3>3. QED
      BY <3>1, <3>2
  <2>6. QED
    BY <2>4, <2>5 DEF Apart
<1>16. OnceInv'
  BY <1>12, <1>14 DEF OnceInv, OnceOpen
<1>17. QED
  BY <1>4, <1>13, <1>14, <1>15, <1>16 DEF SumInv

LEMMA SumInvInit == Init => SumInv
<1> SUFFICES ASSUME Init PROVE SumInv
  OBVIOUS
<1>1. /\ hand = [i \in Hands |-> <<>>] /\ open = <<>> /\ work = None /\ exported = <<>> /\ sent = <<>>
  BY DEF Init, Hands
<1>2. SentInv
  <2>1. DOMAIN sent = {} /\ sent \in Seq(LogRecord)
    BY <1>1
  <2>2. QED
    BY <2>1 DEF SentInv
<1>3. HandInv /\ \A p \in Hands : OnceIn(hand[p]) /\ At(p) = {}
  BY <1>1, NoItem, AtValues DEF HandInv
<1>4. OpenInv /\ OnceOpen /\ At(-1) = {}
  <2>1. DOMAIN open = {}
    BY <1>1
  <2>2. QED
    BY <2>1, FS_EmptySet, AtValues DEF OpenInv, OnceOpen, OpenIds
<1>5. WorkInv /\ At(-2) = {}
  <2>1. DOMAIN work = {}
    BY <1>1 DEF None
  <2>2. QED
    BY <1>1, <2>1, AtValues DEF WorkInv, WorkIds
<1>6. ExportedInv /\ OnceIn(exported) /\ At(-3) = {}
  BY <1>1, NoItem, AtValues DEF ExportedInv
<1>7. Apart
  BY <1>3, <1>4, <1>5, <1>6 DEF Apart, Places
<1>8. QED
  BY <1>2, <1>3, <1>4, <1>5, <1>6, <1>7 DEF SumInv, OnceInv, OnceOpen

LEMMA StageStepKept == ASSUME SumInv, NEW i \in Stages, StageStep(i) PROVE SumInv'
  BY FlattenKept, FilterKept, SummariseKept, ScoreKept, VectoriseKept, EmbedOkKept, EmbedFailsKept
  DEF StageStep

LEMMA SumInvStep == SumInv /\ [Next]_vars => SumInv'
<1> SUFFICES ASSUME SumInv, [Next]_vars PROVE SumInv'
  OBVIOUS
<1>1. CASE Arrive
  BY <1>1, ArriveKept
<1>2. CASE Restart
  BY <1>2, RestartKept
<1>3. CASE Leave
  BY <1>3, LeaveKept
<1>4. CASE \E i \in Stages : StageStep(i)
  BY <1>4, StageStepKept
<1>5. CASE \E i \in Stages : Flush(i)
  BY <1>5, FlushKept
<1>6. CASE UNCHANGED vars
  <2>1. UNCHANGED <<hand, open, work, exported, sent>>
    BY <1>6 DEF vars
  <2>2. SentGrows /\ SentInv'
    BY <2>1, SentStays DEF SumInv
  <2>3. /\ OpenInv' /\ OnceOpen' /\ At(-1)' = At(-1) /\ WorkInv' /\ At(-2)' = At(-2)
        /\ ExportedInv' /\ OnceIn(exported') /\ At(-3)' = At(-3)
    BY <2>1, <2>2, OpenStays, WorkStays, ExportedStays
  <2>4. \A p \in Hands : At(p)' = At(p) /\ OnceIn(hand'[p])
    BY <2>1, AtValues DEF SumInv, OnceInv
  <2>5. HandInv'
    <3>1. ASSUME NEW p \in Hands, NEW x \in ToSet(hand[p]) PROVE ItemOK(x)'
      BY <2>2, ItemKept DEF SumInv, HandInv
    <3>2. QED
      BY <2>1, <3>1 DEF SumInv, HandInv
  <2>6. Apart'
    BY <2>2, <2>3, <2>4 DEF SumInv, Apart, Places, SentGrows
  <2>7. QED
    BY <2>2, <2>3, <2>4, <2>5, <2>6 DEF SumInv, OnceInv, OnceOpen
<1>7. QED
  BY <1>1, <1>2, <1>3, <1>4, <1>5, <1>6 DEF Next, Work

(* Where an Aggregate is.                                                   *)
Lies(a, p) ==
  \/ p = -2 /\ work # None /\ a = work[1].a
  \/ p = -3 /\ \E k \in DOMAIN exported : a = exported[k]
  \/ p \in Hands /\ \E k \in DOMAIN hand[p] : a = hand[p][k]

LEMMA AggregateLies ==
  ASSUME SumInv, NEW a \in Aggregates
  PROVE  AggOK(a) /\ \E p \in Places : Lies(a, p) /\ ToSet(a.from) \subseteq At(p)
<1>1. ASSUME a \in ToSet(exported)
      PROVE  AggOK(a) /\ \E p \in Places : Lies(a, p) /\ ToSet(a.from) \subseteq At(p)
  <2>1. AggOK(a) /\ \E k \in DOMAIN exported : a = exported[k]
    BY <1>1 DEF SumInv, ExportedInv, ToSet
  <2>2. Of(a) \subseteq HeldIn(exported) /\ Of(a) = ToSet(a.from)
    BY <2>1, OfAgg DEF HeldIn, AggOK
  <2>3. -3 \in Places /\ Lies(a, -3)
    BY <2>1 DEF Places, Lies
  <2>4. QED
    BY <2>1, <2>2, <2>3, AtValues
<1>2. ASSUME NEW p \in Stages, a \in ToSet(hand[p]), a.kind = "aggregate"
      PROVE  AggOK(a) /\ \E r \in Places : Lies(a, r) /\ ToSet(a.from) \subseteq At(r)
  <2>1. p \in Hands /\ p \in Places
    BY DEF Hands, Places
  <2>2. ItemOK(a) /\ \E k \in DOMAIN hand[p] : a = hand[p][k]
    BY <1>2, <2>1 DEF SumInv, HandInv, ToSet
  <2>3. AggOK(a)
    BY <1>2, <2>2 DEF ItemOK
  <2>4. Of(a) \subseteq HeldIn(hand[p]) /\ Of(a) = ToSet(a.from)
    BY <1>2, <2>2, OfAgg DEF HeldIn
  <2>5. Lies(a, p)
    BY <2>1, <2>2 DEF Lies
  <2>6. QED
    BY <2>1, <2>3, <2>4, <2>5, AtValues
<1>3. ASSUME NEW k \in DOMAIN work, a = work[k].a
      PROVE  AggOK(a) /\ \E p \in Places : Lies(a, p) /\ ToSet(a.from) \subseteq At(p)
  <2>1. work # None
    BY <1>3 DEF None
  <2>2. k = 1 /\ AggOK(work[1].a) /\ DOMAIN work = {1}
    BY <2>1, WorkFacts
  <2>3. ToSet(a.from) \subseteq WorkIds
    BY <1>3 DEF WorkIds
  <2>4. -2 \in Places /\ Lies(a, -2)
    BY <1>3, <2>1, <2>2 DEF Places, Lies
  <2>5. QED
    BY <1>3, <2>2, <2>3, <2>4, AtValues
<1>4. QED
  BY <1>1, <1>2, <1>3 DEF Aggregates

LEMMA SumInvEnough == SumInv => SummariesMatchRecords
<1> SUFFICES ASSUME SumInv PROVE SummariesMatchRecords
  OBVIOUS
<1>1. ASSUME NEW a \in Aggregates PROVE CountsMatch(a) /\ TopMatches(a) /\ QuantilesMatch(a)
  BY AggregateLies DEF AggOK
<1>2. ASSUME NEW a \in Aggregates, NEW b \in Aggregates, a # b
      PROVE  ToSet(a.from) \cap ToSet(b.from) = {}
  <2>1. PICK p \in Places : Lies(a, p) /\ ToSet(a.from) \subseteq At(p)
    BY AggregateLies
  <2>2. PICK r \in Places : Lies(b, r) /\ ToSet(b.from) \subseteq At(r)
    BY AggregateLies
  <2>3. CASE p # r
    <3>1. At(p) \cap At(r) = {}
      BY <2>3 DEF SumInv, Apart
    <3>2. QED
      BY <2>1, <2>2, <3>1
  <2>4. CASE p = r
    <3>1. Of(a) = ToSet(a.from) /\ Of(b) = ToSet(b.from)
      BY AggregateLies, OfAgg DEF AggOK
    <3>2. CASE p = -2
      BY <1>2, <2>1, <2>2, <2>4, <3>2, HandNumbers DEF Lies
    <3>3. CASE p = -3
      <4>1. -3 \notin Hands
        BY HandNumbers
      <4>2. PICK j \in DOMAIN exported, k \in DOMAIN exported : a = exported[j] /\ b = exported[k]
        BY <2>1, <2>2, <2>4, <3>3, <4>1 DEF Lies
      <4>3. QED
        BY <1>2, <3>1, <4>2 DEF SumInv, OnceInv, OnceIn
    <3>4. CASE p # -2 /\ p # -3
      <4>1. p \in Hands
        BY <2>1, <3>4 DEF Lies
      <4>2. PICK j \in DOMAIN hand[p], k \in DOMAIN hand[p] : a = hand[p][j] /\ b = hand[p][k]
        BY <2>1, <2>2, <2>4, <3>4 DEF Lies
      <4>3. OnceIn(hand[p])
        BY <4>1 DEF SumInv, OnceInv
      <4>4. QED
        BY <1>2, <3>1, <4>2, <4>3 DEF OnceIn
    <3>5. QED
      BY <3>2, <3>3, <3>4
  <2>5. QED
    BY <2>3, <2>4
<1>3. QED
  BY <1>1, <1>2 DEF SummariesMatchRecords

(* logsum: an Aggregate says of its service what its records say, and no     *)
(* record is in two of them or twice in one, for every chain of stages, any *)
(* records that arrive, restarts and all that filters do: SummariesMatch-   *)
(* Records.                                                                 *)
THEOREM SummariesTrue == Spec => []SummariesMatchRecords
<1>1. Init => SumInv
  BY SumInvInit
<1>2. SumInv /\ [Next]_vars => SumInv'
  BY SumInvStep
<1>3. SumInv => SummariesMatchRecords
  BY SumInvEnough
<1>4. QED
  BY <1>1, <1>2, <1>3, PTL DEF Spec

-----------------------------------------------------------------------------
(* iforest.  What was scored is only added to.                              *)
LEMMA RowNumbers ==
  ASSUME ScoredInv, NEW svc, NEW f \in DOMAIN Features, NEW n, n = Len(scored)
  PROVE  /\ IsNumbers(Row(svc, f, n), n) /\ IsNumbers(Square(Row(svc, f, n)), n)
         /\ n \in Nat /\ DOMAIN scored = 1 .. n
<1>1. n \in Nat /\ DOMAIN scored = 1 .. n
  BY ListShape DEF ScoredInv
<1> DEFINE r == Row(svc, f, n)
           q == Square(r)
<1>2. r = [m \in 1 .. n |-> r[m]] /\ \A m \in 1 .. n : r[m] \in Int
  BY <1>1 DEF Row, ScoredInv
<1> HIDE DEF r
<1>3. Len(r) = n /\ DOMAIN r = 1 .. n
  BY <1>1, <1>2, ListMade
<1>4. q = [m \in 1 .. n |-> r[m] * r[m]]
  BY <1>3 DEF Square
<1>5. q = [m \in 1 .. n |-> q[m]] /\ \A m \in 1 .. n : q[m] \in Int
  <2>1. ASSUME NEW m \in 1 .. n PROVE q[m] \in Int
    <3>1. PICK v \in Int : v = r[m]
      BY <1>2
    <3>2. q[m] = v * v /\ v * v \in Int
      BY <1>4, <3>1
    <3>3. QED
      BY <3>2
  <2>2. q = [m \in 1 .. n |-> q[m]]
    BY <1>4
  <2>3. QED
    BY <2>1, <2>2
<1> HIDE DEF q
<1>6. Len(q) = n
  BY <1>1, <1>5, ListMade
<1>7. QED
  BY <1>1, <1>2, <1>3, <1>5, <1>6 DEF IsNumbers, q, r

LEMMA HistoryGrows ==
  ASSUME ScoredInv, NEW e, scored' = Append(scored, e), \A f \in DOMAIN Features : e.x[f] \in Int,
         NEW n, n = Len(scored)
  PROVE  /\ ScoredInv' /\ Len(scored') = n + 1 /\ n \in Nat /\ scored'[n + 1] = e
         /\ DOMAIN scored = 1 .. n /\ DOMAIN scored' = 1 .. n \cup {n + 1}
         /\ \A k \in 1 .. n : scored'[k] = scored[k]
<1>1. n \in Nat /\ DOMAIN scored = 1 .. n
  BY ListShape DEF ScoredInv
<1>2. /\ IsList(scored') /\ Len(scored') = n + 1 /\ DOMAIN scored' = DOMAIN scored \cup {n + 1}
      /\ \A k \in DOMAIN scored : scored'[k] = scored[k]
      /\ scored'[n + 1] = e
  BY AppendToList DEF ScoredInv
<1>3. ScoredInv'
  BY <1>2 DEF ScoredInv
<1>4. QED
  BY <1>1, <1>2, <1>3

LEMMA StatsGrow ==
  ASSUME ScoredInv, NEW e, scored' = Append(scored, e), \A f \in DOMAIN Features : e.x[f] \in Int,
         NEW svc
  PROVE  /\ Number(svc) \in Nat
         /\ Number(svc)' = Number(svc) + (IF e.svc = svc THEN 1 ELSE 0)
         /\ \A f \in DOMAIN Features :
              /\ Total(svc, f) \in Int /\ Squares(svc, f) \in Int
              /\ Total(svc, f)' = Total(svc, f) + (IF e.svc = svc THEN e.x[f] ELSE 0)
              /\ Squares(svc, f)' = Squares(svc, f) + (IF e.svc = svc THEN e.x[f] * e.x[f] ELSE 0)
<1>1. PICK n : n = Len(scored)
  OBVIOUS
<1>2. /\ ScoredInv' /\ Len(scored') = n + 1 /\ n \in Nat /\ scored'[n + 1] = e
      /\ \A k \in 1 .. n : scored'[k] = scored[k]
  BY <1>1, HistoryGrows
<1>3. 1 .. n + 1 = 1 .. n \cup {n + 1} /\ n + 1 \notin 1 .. n
  BY <1>2
<1>4. Number(svc) \in Nat /\ Number(svc)' = Number(svc) + (IF e.svc = svc THEN 1 ELSE 0)
  <2>1. PICK S, T : S = Own(svc, n) /\ T = Own(svc, n + 1)'
    OBVIOUS
  <2>2. S \in SUBSET (1 .. n) /\ (T = S \/ T = S \cup {n + 1}) /\ (n + 1 \in T <=> e.svc = svc)
    BY <1>2, <1>3, <2>1 DEF Own
  <2>3. Cardinality(S) \in Nat /\ Cardinality(T) = Cardinality(S) + (IF n + 1 \in T THEN 1 ELSE 0)
    BY <1>2, <2>2, CountAnother
  <2>4. Number(svc) = Cardinality(S) /\ Number(svc)' = Cardinality(T)
    BY <1>1, <1>2, <2>1 DEF Number
  <2>5. QED
    BY <2>2, <2>3, <2>4
<1>5. ASSUME NEW f \in DOMAIN Features
      PROVE  /\ Total(svc, f) \in Int /\ Squares(svc, f) \in Int
             /\ Total(svc, f)' = Total(svc, f) + (IF e.svc = svc THEN e.x[f] ELSE 0)
             /\ Squares(svc, f)' = Squares(svc, f) + (IF e.svc = svc THEN e.x[f] * e.x[f] ELSE 0)
  <2>1. PICK r, q : r = Row(svc, f, n) /\ q = Row(svc, f, n + 1)'
    OBVIOUS
  <2>2. IsNumbers(r, n) /\ IsNumbers(Square(r), n)
    BY <1>1, <2>1, RowNumbers
  <2>3. PICK v \in Int : v = IF e.svc = svc THEN e.x[f] ELSE 0
    OBVIOUS
  <2>4. /\ r = [m \in 1 .. n |-> r[m]] /\ \A m \in 1 .. n : q[m] = r[m]
        /\ q = [m \in 1 .. n + 1 |-> q[m]] /\ q[n + 1] = v
    BY <1>2, <1>3, <2>1, <2>3 DEF Row
  <2>5. Len(q) = n + 1 /\ DOMAIN q = 1 .. n + 1 /\ DOMAIN r = 1 .. n /\ n + 1 \in Nat
    BY <1>2, <2>4, ListMade
  <2>6. SumOf(q) = SumOf(r) + v /\ SumOf(r) \in Int
    <3>1. (\A m \in 1 .. n : q[m] = r[m]) /\ q[n + 1] \in Int
      BY <2>3, <2>4
    <3>2. SumOf(q) = SumOf(r) + q[n + 1]
      BY <1>2, <2>2, <2>5, <3>1, SumAnother
    <3>3. SumOf(r) \in Int
      BY <2>2, SumInt
    <3>4. QED
      BY <2>4, <3>2, <3>3
  <2>7. PICK s, t : s = Square(r) /\ t = Square(q)
    OBVIOUS
  <2>8. /\ t = [m \in 1 .. n + 1 |-> t[m]] /\ \A m \in 1 .. n : t[m] = s[m]
        /\ t[n + 1] = v * v /\ v * v \in Int
    <3>1. t = [m \in 1 .. n + 1 |-> q[m] * q[m]] /\ s = [m \in 1 .. n |-> r[m] * r[m]]
      BY <2>5, <2>7 DEF Square
    <3>2. t = [m \in 1 .. n + 1 |-> t[m]]
      BY <3>1
    <3>3. \A m \in 1 .. n : t[m] = s[m]
      BY <1>3, <2>4, <3>1
    <3>4. t[n + 1] = v * v
      BY <1>3, <2>4, <3>1
    <3>5. v * v \in Int
      BY <2>3
    <3>6. QED
      BY <3>2, <3>3, <3>4, <3>5
  <2>9. Len(t) = n + 1
    BY <2>5, <2>8, ListMade
  <2>10. SumOf(t) = SumOf(s) + v * v /\ SumOf(s) \in Int
    <3>1. IsNumbers(s, n) /\ t[n + 1] \in Int /\ \A m \in 1 .. n : t[m] = s[m]
      BY <2>2, <2>7, <2>8
    <3>2. SumOf(t) = SumOf(s) + t[n + 1]
      BY <1>2, <2>9, <3>1, SumAnother
    <3>3. SumOf(s) \in Int
      BY <3>1, SumInt
    <3>4. QED
      BY <2>8, <3>2, <3>3
  <2>11. Total(svc, f) = SumOf(r) /\ Total(svc, f)' = SumOf(q)
    BY <1>1, <1>2, <2>1 DEF Total
  <2>12. Squares(svc, f) = SumOf(s) /\ Squares(svc, f)' = SumOf(t)
    BY <1>1, <1>2, <2>1, <2>7 DEF Squares
  <2>13. v * v = IF e.svc = svc THEN e.x[f] * e.x[f] ELSE 0
    BY <2>3
  <2>14. QED
    BY <2>3, <2>6, <2>10, <2>11, <2>12, <2>13
<1>6. QED
  BY <1>4, <1>5

(* Welford's recurrence adds one value to the sums.                         *)
LEMMA Welford ==
  ASSUME NEW n \in Nat, NEW t \in Int, NEW q \in Int, NEW x \in Int,
         n = 0 => t = 0 /\ q = 0
  PROVE  add([n |-> n, sum |-> t, spread |-> n * q - t * t], x)
           = [n |-> n + 1, sum |-> t + x,
              spread |-> (n + 1) * (q + x * x) - (t + x) * (t + x)]
<1> DEFINE w == [n |-> n, sum |-> t, spread |-> n * q - t * t]
           Y == (n + 1) * (q + x * x) - (t + x) * (t + x)
<1>1. add(w, x) = [n |-> n + 1, sum |-> t + x,
                   spread |-> IF n = 0 THEN 0
                              ELSE ((n + 1) * (n * q - t * t) + (n * x - t) * (n * x - t)) \div n]
  BY DEF add
<1>2. CASE n = 0
  BY <1>1, <1>2
<1>3. CASE n # 0
  <2>1. (n + 1) * (n * q - t * t) + (n * x - t) * (n * x - t) = n * Y
    OBVIOUS
  <2>2. Y \in Int
    OBVIOUS
  <2> HIDE DEF Y
  <2>3. (n * Y) \div n = Y
    BY <1>3, <2>2
  <2>4. QED
    BY <1>1, <1>3, <2>1, <2>3 DEF Y
<1>4. QED
  BY <1>2, <1>3

(* The features of an Aggregate are numbers: it has a record.               *)
LEMMA FeaturesNumbers ==
  ASSUME NEW a, AggOK(a)
  PROVE  DOMAIN featuresOf(a) = DOMAIN Features /\ \A f \in DOMAIN Features : featuresOf(a)[f] \in Int
<1>1. PICK c \in Nat : c = a.count /\ c > 0
  <2>1. a.count = Len(a.from) /\ a.from \in Seq(DOMAIN sent) /\ a.from # <<>>
    BY DEF AggOK, CountsMatch
  <2>2. Len(a.from) \in Nat /\ Len(a.from) > 0
    BY <2>1
  <2>3. QED
    BY <2>1, <2>2
<1>2. PICK e \in Nat : e = a.errs
  <2>1. a.errs = Errors(a.from) /\ a.from \in Seq(DOMAIN sent)
    BY DEF AggOK, CountsMatch
  <2>2. PICK n \in Nat : DOMAIN a.from = 1 .. n
    BY <2>1
  <2>3. IsFiniteSet(1 .. n)
    BY FS_Interval
  <2>4. PICK S : S = {k \in DOMAIN a.from : sent[a.from[k]].level \in ErrLevels}
    OBVIOUS
  <2>5. S \in SUBSET (1 .. n)
    BY <2>2, <2>4
  <2>6. Cardinality(S) \in Nat
    BY <2>3, <2>5, FS_Subset, FS_CardinalityType
  <2>7. QED
    BY <2>1, <2>4, <2>6 DEF Errors
<1>3. a.p50 \in Int /\ a.p95 \in Int /\ a.p99 \in Int
  BY DEF AggOK
<1>4. (100 * c) \div WindowSeconds \in Int /\ (100 * e) \div c \in Int
  <2>1. PICK w \in Nat : w = WindowSeconds /\ w > 0
    BY ProcessorsAssumption
  <2>2. (100 * c) \div w \in Int
    BY <2>1
  <2>3. (100 * e) \div c \in Int
    BY <1>1
  <2>4. QED
    BY <2>1, <2>2, <2>3
<1>5. ASSUME NEW f \in DOMAIN Features PROVE featuresOf(a)[f] \in Int
  <2>1. \/ featuresOf(a)[f] = a.p50 \/ featuresOf(a)[f] = a.p95 \/ featuresOf(a)[f] = a.p99
        \/ featuresOf(a)[f] = (100 * a.count) \div WindowSeconds
        \/ featuresOf(a)[f] = (100 * a.errs) \div a.count
        \/ featuresOf(a)[f] = a.count \/ featuresOf(a)[f] = 0
    BY Zenon DEF featuresOf
  <2>2. QED
    BY <1>1, <1>2, <1>3, <1>4, <2>1
<1>6. DOMAIN featuresOf(a) = DOMAIN Features
  BY DEF featuresOf
<1>7. QED
  BY <1>5, <1>6

(* What is the score of: the property's, of the k-th that was scored.       *)
Judged(k) ==
  LET svc == scored[k].svc
      n == Cardinality(Own(svc, k))
  IN [f \in DOMAIN Features |->
        IF ~Normalise THEN Plain(scored[k].x[f])
        ELSE LET x == scored[k].x[f]
                 total == SumOf(Row(svc, f, k))
                 d == n * x - total
                 spread == n * SumOf(Square(Row(svc, f, k))) - total * total
             IN IF spread = 0 THEN Plain(0)
                ELSE [d |-> d, num |-> d * d * (n - 1), den |-> n * spread]]

LEMMA JudgedKept ==
  ASSUME ScoredInv, NEW n, n = Len(scored), \A k \in 1 .. n : scored'[k] = scored[k],
         NEW k \in 1 .. n
  PROVE  Judged(k)' = Judged(k)
<1>1. n \in Nat /\ \A m \in 1 .. k : m \in 1 .. n
  BY ListShape DEF ScoredInv
<1>2. scored'[k] = scored[k] /\ \A m \in 1 .. k : scored'[m] = scored[m]
  BY <1>1
<1>3. \A svc : Own(svc, k)' = Own(svc, k)
  BY <1>2 DEF Own
<1>4. \A svc, f : Row(svc, f, k)' = Row(svc, f, k)
  BY <1>2 DEF Row
<1>5. \A svc, f : SumOf(Row(svc, f, k))' = SumOf(Row(svc, f, k))
                  /\ SumOf(Square(Row(svc, f, k)))' = SumOf(Square(Row(svc, f, k)))
  <2>1. ASSUME NEW svc, NEW f
        PROVE  SumOf(Row(svc, f, k))' = SumOf(Row(svc, f, k))
               /\ SumOf(Square(Row(svc, f, k)))' = SumOf(Square(Row(svc, f, k)))
    BY <1>4
  <2>2. QED
    BY <2>1
<1>6. QED
  BY <1>2, <1>3, <1>5 DEF Judged

(* The statistics, after the value was added, are those the score is of.    *)
LEMMA JudgedLast ==
  ASSUME Normalise, NEW n, n = Len(scored'), NEW e, scored'[n] = e,
         NEW now, now = Summary(e.svc)'
  PROVE  Judged(n)' = [f \in DOMAIN Features |-> Standing(now[f], e.x[f])]
<1>1. ASSUME NEW f \in DOMAIN Features PROVE Judged(n)'[f] = Standing(now[f], e.x[f])
  <2>1. PICK m, t, q :
          /\ m = Cardinality(Own(e.svc, n))' /\ t = SumOf(Row(e.svc, f, n))'
          /\ q = SumOf(Square(Row(e.svc, f, n)))'
    OBVIOUS
  <2>2. now[f].n = m /\ now[f].sum = t /\ now[f].spread = m * q - t * t
    BY <2>1 DEF Summary, Scatter, Number, Total, Squares
  <2>3. Plain(0) = [d |-> 0, num |-> 0, den |-> 1]
    BY DEF Plain
  <2>4. Judged(n)'[f] = LET d == m * e.x[f] - t
                            spread == m * q - t * t
                        IN IF spread = 0 THEN Plain(0)
                           ELSE [d |-> d, num |-> d * d * (m - 1), den |-> m * spread]
    BY <2>1 DEF Judged
  <2>5. QED
    BY <2>2, <2>3, <2>4 DEF Standing
<1>2. QED
  BY <1>1 DEF Judged

HistoryInv == StatInv /\ ScoresFollowHistory

LEMMA NothingScored == scored = <<>> /\ stats = <<>> => HistoryInv
<1> SUFFICES ASSUME scored = <<>>, stats = <<>> PROVE HistoryInv
  OBVIOUS
<1>1. IsList(scored) /\ DOMAIN scored = {} /\ Len(scored) = 0 /\ DOMAIN stats = {} /\ 1 .. 0 = {}
  BY NoItem
<1>2. ScoredInv /\ ScoresFollowHistory
  BY <1>1 DEF ScoredInv, ScoresFollowHistory
<1>3. \A svc : Number(svc) = 0
  <2>1. ASSUME NEW svc PROVE Number(svc) = 0
    <3>1. Own(svc, 0) = {}
      BY <1>1 DEF Own
    <3>2. QED
      BY <1>1, <3>1, FS_EmptySet DEF Number
  <2>2. QED
    BY <2>1
<1>4. \A svc : \A f \in DOMAIN Features : Total(svc, f) = 0 /\ Squares(svc, f) = 0
  <2>1. ASSUME NEW svc, NEW f \in DOMAIN Features PROVE Total(svc, f) = 0 /\ Squares(svc, f) = 0
    <3>1. IsNumbers(Row(svc, f, 0), 0) /\ IsNumbers(Square(Row(svc, f, 0)), 0)
      BY <1>1, <1>2, RowNumbers
    <3>2. Len(Row(svc, f, 0)) = 0 /\ Len(Square(Row(svc, f, 0))) = 0
      BY <3>1 DEF IsNumbers
    <3>3. QED
      BY <1>1, <3>2, SumEmpty DEF Total, Squares
  <2>2. QED
    BY <2>1
<1>5. ASSUME NEW svc PROVE statsOf(svc) = Summary(svc)
  <2>1. statsOf(svc) = [f \in DOMAIN Features |-> [n |-> 0, sum |-> 0, spread |-> 0]]
    BY <1>1 DEF statsOf, Fresh
  <2>2. \A f \in DOMAIN Features : Scatter(svc, f) = 0
    BY <1>3, <1>4 DEF Scatter
  <2>3. QED
    BY <1>3, <1>4, <2>1, <2>2 DEF Summary
<1>6. QED
  BY <1>2, <1>3, <1>4, <1>5 DEF HistoryInv, StatInv

LEMMA NothingScoredNow == (scored = <<>> /\ stats = <<>> => HistoryInv)'
  BY NothingScored, PTL

LEMMA ScoredSame ==
  ASSUME HistoryInv, scored' = scored, stats' = stats
  PROVE  HistoryInv'
<1>1. /\ \A svc : Number(svc)' = Number(svc) /\ statsOf(svc)' = statsOf(svc)
      /\ \A svc, f : Total(svc, f)' = Total(svc, f) /\ Squares(svc, f)' = Squares(svc, f)
  BY DEF Number, Total, Squares, Own, Row, Square, statsOf
<1>2. \A svc : Summary(svc)' = Summary(svc)
  BY <1>1 DEF Summary, Scatter
<1>3. StatInv'
  BY <1>1, <1>2 DEF HistoryInv, StatInv, ScoredInv
<1>4. ScoresFollowHistory'
  <2>1. PICK n : n = Len(scored) /\ DOMAIN scored = 1 .. n
    BY ListShape DEF HistoryInv, StatInv, ScoredInv
  <2>2. ASSUME NEW k \in 1 .. n PROVE scored'[k].score = score(Judged(k)')
    <3>1. scored[k].score = score(Judged(k))
      BY <2>1 DEF HistoryInv, ScoresFollowHistory, Judged
    <3>2. Judged(k)' = Judged(k)
      BY <2>1, JudgedKept DEF HistoryInv, StatInv
    <3>3. QED
      BY <3>1, <3>2
  <2>3. QED
    BY <2>1, <2>2 DEF ScoresFollowHistory, Judged
<1>5. QED
  BY <1>3, <1>4 DEF HistoryInv

(* iforest scores an Aggregate: statistics first, then the score.           *)
LEMMA ScoredNext ==
  ASSUME HistoryInv, NEW svc, NEW x, DOMAIN x = DOMAIN Features,
         \A f \in DOMAIN Features : x[f] \in Int,
         NEW now, now = [f \in DOMAIN Features |-> add(statsOf(svc)[f], x[f])],
         NEW z, z = [f \in DOMAIN Features |-> IF Normalise THEN Standing(now[f], x[f]) ELSE Plain(x[f])],
         stats' = IF Normalise
                  THEN [s \in DOMAIN stats \cup {svc} |-> IF s = svc THEN now ELSE stats[s]]
                  ELSE stats,
         scored' = Append(scored, [svc |-> svc, x |-> x, score |-> score(z)])
  PROVE  HistoryInv'
<1>1. PICK e : e = [svc |-> svc, x |-> x, score |-> score(z)]
  OBVIOUS
<1>2. e.svc = svc /\ e.x = x /\ e.score = score(z) /\ scored' = Append(scored, e)
  BY <1>1
<1>3. PICK n : n = Len(scored)
  OBVIOUS
<1>4. /\ ScoredInv' /\ Len(scored') = n + 1 /\ n \in Nat /\ scored'[n + 1] = e
      /\ DOMAIN scored = 1 .. n /\ DOMAIN scored' = 1 .. n \cup {n + 1}
      /\ \A k \in 1 .. n : scored'[k] = scored[k]
  BY <1>2, <1>3, HistoryGrows DEF HistoryInv, StatInv
<1>5. ASSUME NEW s
      PROVE  /\ Number(s) \in Nat
             /\ Number(s)' = Number(s) + (IF svc = s THEN 1 ELSE 0)
             /\ \A f \in DOMAIN Features :
                  /\ Total(s, f) \in Int /\ Squares(s, f) \in Int
                  /\ Total(s, f)' = Total(s, f) + (IF svc = s THEN x[f] ELSE 0)
                  /\ Squares(s, f)' = Squares(s, f) + (IF svc = s THEN x[f] * x[f] ELSE 0)
  <2>1. ScoredInv /\ scored' = Append(scored, e) /\ \A f \in DOMAIN Features : e.x[f] \in Int
    BY <1>2 DEF HistoryInv, StatInv
  <2>2. /\ Number(s) \in Nat
        /\ Number(s)' = Number(s) + (IF e.svc = s THEN 1 ELSE 0)
        /\ \A f \in DOMAIN Features :
             /\ Total(s, f) \in Int /\ Squares(s, f) \in Int
             /\ Total(s, f)' = Total(s, f) + (IF e.svc = s THEN e.x[f] ELSE 0)
             /\ Squares(s, f)' = Squares(s, f) + (IF e.svc = s THEN e.x[f] * e.x[f] ELSE 0)
    BY <2>1, StatsGrow
  <2>3. QED
    BY <1>2, <2>2, Zenon
<1>6. ASSUME NEW s, Number(s)' = 0, NEW f \in DOMAIN Features
      PROVE  Total(s, f)' = 0 /\ Squares(s, f)' = 0
  <2>1. svc # s /\ Number(s) = 0
    BY <1>5, <1>6
  <2>2. Total(s, f) = 0 /\ Squares(s, f) = 0
    BY <2>1 DEF HistoryInv, StatInv
  <2>3. QED
    BY <1>5, <2>1, <2>2
<1>7. ASSUME Normalise, NEW s, s # svc PROVE statsOf(s)' = Summary(s)'
  <2>1. statsOf(s)' = statsOf(s) /\ statsOf(s) = Summary(s)
    BY <1>7 DEF statsOf, HistoryInv, StatInv
  <2>2. Number(s)' = Number(s)
    BY <1>5, <1>7
  <2>3. ASSUME NEW f \in DOMAIN Features
        PROVE  Total(s, f)' = Total(s, f) /\ Squares(s, f)' = Squares(s, f)
    <3>1. Total(s, f) \in Int /\ Total(s, f)' = Total(s, f) + 0
      BY <1>5, <1>7
    <3>2. Squares(s, f) \in Int /\ Squares(s, f)' = Squares(s, f) + 0
      BY <1>5, <1>7
    <3>3. QED
      BY <3>1, <3>2
  <2>4. Summary(s)' = Summary(s)
    BY <2>2, <2>3 DEF Summary, Scatter
  <2>5. QED
    BY <2>1, <2>4
<1>8. ASSUME Normalise PROVE statsOf(svc)' = now /\ now = Summary(svc)'
  <2>1. statsOf(svc)' = now
    BY <1>8 DEF statsOf
  <2>2. ASSUME NEW f \in DOMAIN Features
        PROVE  now[f] = [n |-> Number(svc)', sum |-> Total(svc, f)', spread |-> Scatter(svc, f)']
    <3>1. PICK m \in Nat, t \in Int, q \in Int, v \in Int :
            m = Number(svc) /\ t = Total(svc, f) /\ q = Squares(svc, f) /\ v = x[f]
      BY <1>5
    <3>2. Number(svc)' = m + 1 /\ Total(svc, f)' = t + v /\ Squares(svc, f)' = q + v * v
      BY <1>5, <3>1
    <3>3. statsOf(svc)[f] = [n |-> m, sum |-> t, spread |-> m * q - t * t]
      BY <1>8, <3>1 DEF HistoryInv, StatInv, Summary, Scatter
    <3>4. m = 0 => t = 0 /\ q = 0
      BY <3>1 DEF HistoryInv, StatInv
    <3>5. add([n |-> m, sum |-> t, spread |-> m * q - t * t], v)
            = [n |-> m + 1, sum |-> t + v,
               spread |-> (m + 1) * (q + v * v) - (t + v) * (t + v)]
      BY <3>4, Welford
    <3>6. Scatter(svc, f)' = (m + 1) * (q + v * v) - (t + v) * (t + v)
      BY <3>2 DEF Scatter
    <3>7. QED
      BY <3>1, <3>2, <3>3, <3>5, <3>6
  <2>3. QED
    BY <2>1, <2>2 DEF Summary
<1>9. StatInv'
  BY <1>4, <1>6, <1>7, <1>8 DEF StatInv
<1>10. Judged(n + 1)' = z
  <2>1. CASE Normalise
    <3>1. PICK j : j = n + 1
      OBVIOUS
    <3>2. Judged(j)' = [f \in DOMAIN Features |-> Standing(now[f], e.x[f])]
      <4>1. j = Len(scored') /\ scored'[j] = e /\ now = Summary(e.svc)'
        BY <1>2, <1>4, <1>8, <2>1, <3>1
      <4>2. QED
        BY <2>1, <4>1, JudgedLast
    <3>3. QED
      BY <1>2, <2>1, <3>1, <3>2
  <2>2. CASE ~Normalise
    BY <1>2, <1>4, <2>2 DEF Judged
  <2>3. QED
    BY <2>1, <2>2
<1>11. ScoresFollowHistory'
  <2>1. ASSUME NEW k \in 1 .. n PROVE scored'[k].score = score(Judged(k)')
    <3>1. scored[k].score = score(Judged(k))
      BY <1>4 DEF HistoryInv, ScoresFollowHistory, Judged
    <3>2. Judged(k)' = Judged(k)
      BY <1>3, <1>4, JudgedKept DEF HistoryInv, StatInv
    <3>3. QED
      BY <1>4, <3>1, <3>2
  <2>2. scored'[n + 1].score = score(Judged(n + 1)')
    BY <1>2, <1>4, <1>10
  <2>3. \A k \in DOMAIN scored' : scored'[k].score = score(Judged(k)')
    BY <1>4, <2>1, <2>2
  <2>4. QED
    BY <2>3 DEF ScoresFollowHistory, Judged
<1>12. QED
  BY <1>9, <1>11 DEF HistoryInv

LEMMA HistoryStep == SumInv /\ HistoryInv /\ [Next]_vars => HistoryInv'
<1> SUFFICES ASSUME SumInv, HistoryInv, [Next]_vars PROVE HistoryInv'
  OBVIOUS
<1>1. CASE \E i \in Stages : Score(i)
  <2>1. PICK i \in Stages : Score(i)
    BY <1>1
  <2> DEFINE head == Head(hand[i - 1])
  <2>2. CASE head.kind # "aggregate"
    <3>1. scored' = scored /\ stats' = stats
      BY <2>1, <2>2 DEF Score, PassThrough
    <3>2. QED
      BY <3>1, ScoredSame
  <2>3. CASE head.kind = "aggregate"
    <3>1. ItemOK(head)
      BY <2>1, StageFacts, HeadOK DEF Score, Takes
    <3>2. PICK a : a = head /\ AggOK(a)
      BY <2>3, <3>1 DEF ItemOK
    <3>3. PICK x : x = featuresOf(a)
      OBVIOUS
    <3>4. DOMAIN x = DOMAIN Features /\ \A f \in DOMAIN Features : x[f] \in Int
      BY <3>2, <3>3, FeaturesNumbers
    <3>5. PICK now : now = [f \in DOMAIN Features |-> add(statsOf(a.svc)[f], x[f])]
      OBVIOUS
    <3>6. PICK z : z = [f \in DOMAIN Features |-> IF Normalise THEN Standing(now[f], x[f]) ELSE Plain(x[f])]
      OBVIOUS
    <3>7. /\ stats' = IF Normalise
                      THEN [s \in DOMAIN stats \cup {a.svc} |-> IF s = a.svc THEN now ELSE stats[s]]
                      ELSE stats
          /\ scored' = Append(scored, [svc |-> a.svc, x |-> x, score |-> score(z)])
      BY <2>1, <2>3, <3>2, <3>3, <3>4, <3>5, <3>6 DEF Score
    <3>8. PICK svc : svc = a.svc
      OBVIOUS
    <3>9. QED
      BY <3>4, <3>5, <3>6, <3>7, <3>8, ScoredNext
  <2>4. QED
    BY <2>2, <2>3
<1>2. CASE Restart
  <2>1. scored' = <<>> /\ stats' = <<>>
    BY <1>2 DEF Restart
  <2>2. QED
    BY <2>1, NothingScoredNow
<1>3. CASE UNCHANGED <<scored, stats>>
  BY <1>3, ScoredSame
<1>4. QED
  BY <1>1, <1>2, <1>3 DEF Next, Work, vars, Arrive, Leave, StageStep, Flatten, Filter, Summarise,
                          Vectorise, PassThrough, EmbedOk, EmbedFails, Embedded, Flush

(* iforest: a score is that of the Aggregate's standing among the Aggregates *)
(* of its own service since the start of the process, for every model,      *)
(* every choice of features and every chain of stages: ScoresFollowHistory. *)
THEOREM ScoresTrue == Spec => []ScoresFollowHistory
<1>1. Init => SumInv /\ HistoryInv
  <2>1. Init => scored = <<>> /\ stats = <<>>
    BY DEF Init
  <2>2. QED
    BY <2>1, SumInvInit, NothingScored
<1>2. (SumInv /\ HistoryInv) /\ [Next]_vars => (SumInv /\ HistoryInv)'
  BY SumInvStep, HistoryStep
<1>3. SumInv /\ HistoryInv => ScoresFollowHistory
  BY DEF HistoryInv
<1>4. QED
  BY <1>1, <1>2, <1>3, PTL DEF Spec
=============================================================================
