------------------------- MODULE InvestigationProofs -------------------------
(***************************************************************************)
(* Proofs about Investigation for any clients, requests, signals, graphs,   *)
(* patterns, page sizes, retries and bounds: the cache, the answers, the    *)
(* pages of a list, the advice and the root cause.                          *)
(***************************************************************************)
EXTENDS Investigation, ListsProofs, SequenceTheorems, FiniteSetTheorems, TLAPS

Fields == {"id", "at", "key", "try", "val", "gone", "req", "graph", "sig", "result"}
PagerFields == {"open", "next", "limit", "seen", "snap", "repeats", "clean"}

(* A handler at work on a call knows which.                                 *)
WellFormed(h) ==
  HandlerOK(h) /\ DOMAIN h = Fields /\ (h.at \notin {"idle", "list"} => h.id # 0)

(* What the functions, records and sequences are over.                      *)
Shape ==
  /\ DOMAIN call = Clients /\ \A c \in Clients : WellFormed(call[c])
  /\ DOMAIN pager = Clients /\ \A c \in Clients : DOMAIN pager[c] = PagerFields
  /\ DOMAIN cache = Keys /\ \A k \in Keys : cache[k] = <<>> \/ \E v : cache[k] = <<v>>
  /\ store \in Seq(ToSet(store))

TypeInv == TypeOK /\ Shape

LEMMA IdleWellFormed == WellFormed(Idle)
  BY InvestigationAssumption DEF WellFormed, HandlerOK, Idle, Fields, Places, Keys

(* An insertion keeps the elements, in order, and adds one.                 *)
LEMMA InsertedElements ==
  ASSUME Shape, NEW r, store' \in Inserted(r)
  PROVE  /\ store' \in Seq(ToSet(store'))
         /\ ToSet(store') = ToSet(store) \cup {r}
         /\ \E i \in 1 .. Len(store) + 1 :
              /\ Len(store') = Len(store) + 1
              /\ \A k \in 1 .. Len(store) + 1 :
                   store'[k] = IF k < i THEN store[k] ELSE IF k = i THEN r ELSE store[k - 1]
<1>1. PICK i \in 1 .. Len(store) + 1 : store' = InsertAt(store, i, r)
  BY DEF Inserted
<1> DEFINE T == ToSet(store) \cup {r}
           a == SubSeq(store, 1, i - 1)
           b == SubSeq(store, i, Len(store))
           c == a \o <<r>>
<1>2. store \in Seq(T) /\ <<r>> \in Seq(T)
  BY DEF Shape
<1>3. Len(store) \in Nat /\ i \in 1 .. Len(store) + 1
  BY <1>2
<1> HIDE DEF T
<1>4. a \in Seq(T) /\ Len(a) = i - 1 /\ \A k \in 1 .. i - 1 : a[k] = store[k]
  BY <1>2, <1>3
<1>5. b \in Seq(T) /\ Len(b) = Len(store) - i + 1 /\ \A k \in 1 .. Len(b) : b[k] = store[i + k - 1]
  BY <1>2, <1>3
<1>6. store' = c \o b
  BY <1>1 DEF InsertAt
<1> HIDE DEF a, b
<1>7. c \in Seq(T) /\ Len(c) = i /\ \A k \in 1 .. i : c[k] = IF k < i THEN store[k] ELSE r
  BY <1>2, <1>4, <1>3
<1> HIDE DEF c
<1>8. store' \in Seq(T) /\ Len(store') = Len(store) + 1
  <2>a. b \in Seq(T) /\ c \in Seq(T)
    BY <1>5, <1>7
  <2>1. c \o b \in Seq(T) /\ Len(c \o b) = Len(c) + Len(b)
    BY <2>a, ConcatProperties
  <2>2. Len(store) + 1 = i + (Len(store) - i + 1)
    BY <1>3
  <2>3. QED
    BY <2>1, <2>2, <1>5, <1>6, <1>7
<1>9. ASSUME NEW k \in 1 .. Len(store) + 1
      PROVE  store'[k] = IF k < i THEN store[k] ELSE IF k = i THEN r ELSE store[k - 1]
  <2>1. CASE k <= i
    BY <2>1, <1>5, <1>6, <1>7, <1>3
  <2>2. CASE k > i
    <3>1. store'[k] = b[k - i] /\ k - i \in 1 .. Len(b)
      BY <2>2, <1>5, <1>6, <1>7, <1>3
    <3>2. QED
      BY <3>1, <2>2, <1>5, <1>3
  <2>3. QED
    BY <2>1, <2>2, <1>3
<1>10. /\ store' \in Seq(T)
       /\ Len(store') = Len(store) + 1
       /\ \A k \in 1 .. Len(store) + 1 :
            store'[k] = IF k < i THEN store[k] ELSE IF k = i THEN r ELSE store[k - 1]
  BY <1>8, <1>9
<1>11. DOMAIN store = 1 .. Len(store) /\ Len(store) \in Nat /\ DOMAIN store' = 1 .. Len(store) + 1
  BY <1>2, <1>10
<1>12. ToSet(store') = ToSet(store) \cup {r}
  <2>1. ToSet(store') \subseteq ToSet(store) \cup {r}
    BY <1>10, <1>11 DEF ToSet
  <2>2. r \in ToSet(store')
    BY <1>10, <1>11 DEF ToSet
  <2>3. ASSUME NEW k \in 1 .. Len(store) PROVE store[k] \in ToSet(store')
    <3>1. CASE k < i
      <4>1. k \in 1 .. Len(store) + 1 /\ store'[k] = store[k]
        BY <3>1, <1>10, <1>11
      <4>2. QED
        BY <4>1, <1>11 DEF ToSet
    <3>2. CASE ~(k < i)
      <4>1. k + 1 \in 1 .. Len(store) + 1 /\ store'[k + 1] = store[k]
        BY <3>2, <1>10, <1>11
      <4>2. QED
        BY <4>1, <1>11 DEF ToSet
    <3>3. QED
      BY <3>1, <3>2
  <2>4. QED
    BY <2>1, <2>2, <2>3, <1>11 DEF ToSet
<1>13. QED
  <2>1. store' \in Seq(T) /\ T = ToSet(store')
    BY <1>10, <1>12 DEF T
  <2>2. QED
    BY <2>1, <1>10, <1>12, <1>3

-----------------------------------------------------------------------------
(* What a step of c's handler does to the calls and the answers.            *)
Frame(c) ==
  /\ DOMAIN call' = Clients /\ WellFormed(call'[c])
  /\ \A d \in Clients \ {c} : call'[d] = call[d]
Keeps(c) ==
  /\ call'[c].id = call[c].id /\ call'[c].at \notin {"idle", "list", "feedback"}
  /\ answered' = answered
Ends(c, outcomes) ==
  /\ call'[c] = Idle
  /\ \/ answered' = answered
     \/ /\ call[c].id # 0
        /\ \E o \in outcomes : answered' = [answered EXCEPT ![call[c].id] = o]

LEMMA AnswerEnds ==
  ASSUME TypeInv, NEW c \in Clients, NEW o, Answer(c, o)
  PROVE  Frame(c) /\ Ends(c, {o})
  BY IdleWellFormed DEF TypeInv, Shape, Answer, Frame, Ends

LEMMA GoOnMoves ==
  ASSUME TypeInv, NEW c \in Clients, NEW v, GoOn(c, v), call[c].at \in {"get", "query", "set"}
  PROVE  /\ Frame(c) /\ stamp' \in Nat
         /\ call'[c].at # "set"
         /\ Keeps(c) \/ Ends(c, {"ok"})
<1>1. WellFormed(call[c]) /\ DOMAIN call = Clients
  BY DEF TypeInv, TypeOK, Shape, WellFormed
<1>2. CASE Continues(c, v)
  <2>1. /\ DOMAIN call' = Clients /\ \A d \in Clients \ {c} : call'[d] = call[d]
        /\ DOMAIN call'[c] = Fields
        /\ \A f \in Fields \ {"at", "graph", "val"} : call'[c][f] = call[c][f]
        /\ call'[c].at = "signals"
    BY <1>1, <1>2 DEF Continues, WellFormed, Fields
  <2>2. QED
    BY <2>1, <1>1, <1>2
    DEF Continues, Frame, Keeps, WellFormed, HandlerOK, Fields, Places, TypeInv, TypeOK
<1>3. CASE Concludes(c, v)
  <2>1. PICK out :
          call' = [call EXCEPT ![c].at = "persist", ![c].val = <<>>,
                               ![c].result = <<[out |-> out, stamp |-> stamp']>>]
    BY <1>3 DEF Concludes
  <2>2. /\ DOMAIN call' = Clients /\ \A d \in Clients \ {c} : call'[d] = call[d]
        /\ DOMAIN call'[c] = Fields
        /\ \A f \in Fields \ {"at", "val", "result"} : call'[c][f] = call[c][f]
        /\ call'[c].at = "persist"
        /\ call'[c].result = <<[out |-> out, stamp |-> stamp']>>
    BY <1>1, <2>1 DEF WellFormed, Fields
  <2>3. call'[c].result # <<>>
    BY <2>2
  <2>4. stamp' \in Nat /\ answered' = answered
    BY <1>3 DEF Concludes, TypeInv, TypeOK
  <2>5. QED
    BY <2>2, <2>3, <2>4, <1>1 DEF Frame, Keeps, WellFormed, HandlerOK, Fields, Places
<1>4. CASE Answer(c, "ok") /\ UNCHANGED stamp
  BY <1>4, AnswerEnds DEF Ends, Idle, TypeInv, TypeOK
<1>5. QED
  BY <1>2, <1>3, <1>4 DEF GoOn
LEMMA CallTyped ==
  ASSUME TypeInv, NEW c \in Clients
  PROVE  WellFormed(call[c]) /\ DOMAIN call = Clients
  BY DEF TypeInv, Shape

(* An attempt after the first, and the query after the cache.               *)
LEMMA AgainMoves ==
  ASSUME TypeInv, NEW c \in Clients, Again(c) \/ ToQuery(c), answered' = answered,
         call[c].at \in {"get", "set"}
  PROVE  /\ Frame(c) /\ Keeps(c) /\ call'[c].at \in {call[c].at, "query"}
         /\ call'[c].at = "set" => call'[c].val = call[c].val /\ call'[c].key = call[c].key
<1>1. WellFormed(call[c]) /\ DOMAIN call = Clients
  BY CallTyped
<1>2. CASE Again(c)
  <2>1. /\ DOMAIN call' = Clients /\ \A d \in Clients \ {c} : call'[d] = call[d]
        /\ DOMAIN call'[c] = Fields
        /\ \A f \in Fields \ {"try"} : call'[c][f] = call[c][f]
        /\ call'[c].try = call[c].try + 1 /\ call[c].try + 1 < Retries
    BY <1>1, <1>2 DEF Again, WellFormed, Fields
  <2>2. QED
    BY <2>1, <1>1, InvestigationAssumption
    DEF Frame, Keeps, WellFormed, HandlerOK, Fields, Places
<1>3. CASE ToQuery(c)
  <2>1. /\ DOMAIN call' = Clients /\ \A d \in Clients \ {c} : call'[d] = call[d]
        /\ DOMAIN call'[c] = Fields
        /\ \A f \in Fields \ {"at", "try"} : call'[c][f] = call[c][f]
        /\ call'[c].at = "query" /\ call'[c].try = 0
    BY <1>1, <1>3 DEF ToQuery, WellFormed, Fields
  <2>2. QED
    BY <2>1, <1>1, InvestigationAssumption
    DEF Frame, Keeps, WellFormed, HandlerOK, Fields, Places
<1>4. QED
  BY <1>2, <1>3

LEMMA ToSetMoves ==
  ASSUME TypeInv, NEW c \in Clients, NEW v, NEW keep, ToSetOrGoOn(c, v, keep), call[c].at = "query"
  PROVE  /\ Frame(c) /\ stamp' \in Nat
         /\ Keeps(c) \/ Ends(c, {"ok"})
         /\ call'[c].at = "set" => keep /\ call'[c].val = v /\ call'[c].key = call[c].key
<1>1. WellFormed(call[c]) /\ DOMAIN call = Clients
  BY CallTyped
<1>2. CASE ~keep
  BY <1>2, GoOnMoves DEF ToSetOrGoOn
<1>3. CASE keep
  <2>1. /\ DOMAIN call' = Clients /\ \A d \in Clients \ {c} : call'[d] = call[d]
        /\ DOMAIN call'[c] = Fields
        /\ \A f \in Fields \ {"at", "val"} : call'[c][f] = call[c][f]
        /\ call'[c].at = "set" /\ call'[c].val = v
        /\ stamp' = stamp /\ answered' = answered
    BY <1>1, <1>3 DEF ToSetOrGoOn, WellFormed, Fields
  <2>2. QED
    BY <2>1, <1>1, <1>3
    DEF Frame, Keeps, WellFormed, HandlerOK, Fields, Places, TypeInv, TypeOK
<1>4. QED
  BY <1>2, <1>3

-----------------------------------------------------------------------------
(* What may be kept in Valkey under a key: a list of calls between services *)
(* for the graph, and else what Weaviate has.                               *)
Good(key, v) ==
  /\ key = "graph" => v \in Seq(ToSet(v))
  /\ key = "similar" => v # <<>> /\ 1 \in DOMAIN v /\ ToSet(v) \subseteq ToSet(store)
  /\ key = "patterns" => v # {} /\ v \subseteq patterns

CacheInv ==
  /\ \A k \in Keys : \A v : cache[k] = <<v>> => Good(k, v)
  /\ \A cmd \in late : cmd.key \in Keys /\ Good(cmd.key, cmd.val)
  /\ \A c \in Clients : At(c, "set") => Good(call[c].key, call[c].val)

(* What a step of c's handler does.                                         *)
Stays == store' = store /\ feedback' = feedback
Told(c) ==
  \/ Keeps(c) /\ Stays
  \/ Ends(c, {"ok"}) /\ Stays
  \/ Ends(c, {"ok"}) /\ feedback' = feedback /\ call[c].at = "persist" /\ store' \in Inserted(Record(c))
  \/ Ends(c, {"error"}) /\ store' = store /\ feedback' = feedback
  \/ /\ call[c].at = "feedback" /\ store' = store
     /\ \/ Ends(c, {"error"}) /\ feedback' \in {feedback, feedback \cup {call[c].id}}
        \/ Ends(c, {"accepted"}) /\ feedback' = feedback \cup {call[c].id}
Kept1(c) ==
  /\ \/ cache' = cache
     \/ call[c].at = "set" /\ cache' = [cache EXCEPT ![call[c].key] = <<call[c].val>>]
  /\ \/ late' = late
     \/ call[c].at = "set" /\ late' = late \cup {[key |-> call[c].key, val |-> call[c].val]}
  /\ call'[c].at = "set" => Good(call'[c].key, call'[c].val)
Counts(c) ==
  /\ stamp' \in Nat /\ faults' \in 0 .. MaxFaults
  /\ UNCHANGED <<scope, phase, begun, patterns>>
  /\ DOMAIN pager' = Clients /\ DOMAIN pager'[c] = PagerFields
  /\ pager'[c].next \in Nat /\ pager'[c].limit \in Nat \ {0}
  /\ \A d \in Clients \ {c} : pager'[d] = pager[d]
Effect(c) == Frame(c) /\ Told(c) /\ Kept1(c) /\ Counts(c)

(* A query that answers with a list answers with a first incident.         *)
LEMMA RowsFirst ==
  ASSUME Shape, NEW r \in Rows, r # <<>>
  PROVE  1 \in DOMAIN r
<1>1. Len(store) \in Nat
  BY DEF Shape
<1>2. PICK n : n \in Nat /\ DOMAIN r = 1 .. n /\ r = [i \in 1 .. n |-> r[i]]
  <2>1. Least(3, Len(store)) \in Nat
    BY <1>1 DEF Least
  <2>2. QED
    BY <2>1 DEF Rows
<1>3. CASE n = 0
  <2>1. 1 .. n = {}
    BY <1>3
  <2>2. r = <<>>
    BY <1>2, <2>1
  <2>3. QED
    BY <2>2
<1>4. CASE n # 0
  BY <1>2, <1>4
<1>5. QED
  BY <1>3, <1>4

LEMMA FaultCounted ==
  ASSUME TypeInv, Fault
  PROVE  faults' \in 0 .. MaxFaults
  BY InvestigationAssumption DEF TypeInv, TypeOK, Fault

LEMMA PagerUnchanged ==
  ASSUME TypeInv, NEW c \in Clients, pager' = pager, stamp' \in Nat, faults' \in 0 .. MaxFaults,
         UNCHANGED <<scope, phase, begun, patterns>>
  PROVE  Counts(c)
  BY DEF TypeInv, TypeOK, Shape, Counts

LEMMA HandlerEffect ==
  ASSUME TypeInv, CacheInv, NEW c \in Clients, Handler(c)
  PROVE  Effect(c)
<1> USE DEF Effect, bookkeeping, weaviate, At, Stays
<1>a. stamp \in Nat /\ faults \in 0 .. MaxFaults
  BY DEF TypeInv, TypeOK
<1>b. WellFormed(call[c]) /\ DOMAIN call = Clients
  BY CallTyped
<1>1. CASE CacheHit(c)
  <2>1. PICK v \in ToSet(cache[call[c].key]) : GoOn(c, v)
    BY <1>1 DEF CacheHit
  <2>2. QED
    BY <1>1, <1>a, <2>1, GoOnMoves, PagerUnchanged DEF CacheHit, Told, Kept1
<1>2. CASE CacheMiss(c)
  BY <1>2, <1>a, AgainMoves, PagerUnchanged DEF CacheMiss, Told, Kept1, Keeps
<1>3. CASE GetFails(c)
  BY <1>3, <1>a, AgainMoves, PagerUnchanged, FaultCounted DEF GetFails, Told, Kept1, Keeps
<1>4. CASE QueryGraph(c)
  <2>1. PICK g \in Graphs \cup FewGraphs : ToSetOrGoOn(c, g, TRUE)
    BY <1>4 DEF QueryGraph
  <2>2. g \in Seq(ToSet(g))
    BY InvestigationAssumption
  <2>3. QED
    BY <1>4, <1>a, <2>1, <2>2, ToSetMoves, PagerUnchanged DEF QueryGraph, Told, Kept1, Good
<1>5. CASE QuerySimilar(c)
  <2>1. PICK r \in Rows : ToSetOrGoOn(c, r, r # <<>>)
    BY <1>5 DEF QuerySimilar
  <2>2. ToSet(r) \subseteq ToSet(store)
    BY DEF Rows, ToSet
  <2>r. r # <<>> => 1 \in DOMAIN r
    BY RowsFirst DEF TypeInv
  <2>3. QED
    BY <1>5, <1>a, <2>1, <2>2, <2>r, ToSetMoves, PagerUnchanged DEF QuerySimilar, Told, Kept1, Good
<1>6. CASE QueryPatterns(c)
  BY <1>6, <1>a, ToSetMoves, PagerUnchanged DEF QueryPatterns, Told, Kept1, Good
<1>7. CASE QueryFails(c)
  <2>1. PICK v : GoOn(c, v)
    BY <1>7 DEF QueryFails
  <2>2. faults' \in 0 .. MaxFaults
    BY <1>7, <1>a, FaultCounted DEF QueryFails
  <2>3. QED
    BY <1>7, <2>1, <2>2, GoOnMoves, PagerUnchanged DEF QueryFails, Told, Kept1
<1>8. CASE CacheSet(c)
  BY <1>8, <1>a, GoOnMoves, PagerUnchanged DEF CacheSet, Told, Kept1
<1>9. CASE SetFails(c)
  <2>1. faults' \in 0 .. MaxFaults
    BY <1>9, <1>a, FaultCounted DEF SetFails
  <2>2. CASE GoOn(c, call[c].val)
    BY <1>9, <2>1, <2>2, GoOnMoves, PagerUnchanged DEF SetFails, Told, Kept1
  <2>3. CASE Again(c) /\ UNCHANGED <<stamp, answered>>
    <3>1. Frame(c) /\ Keeps(c)
          /\ (call'[c].at = "set" => call'[c].val = call[c].val /\ call'[c].key = call[c].key)
      BY <1>9, <2>3, AgainMoves DEF SetFails
    <3>2. Good(call[c].key, call[c].val)
      BY <1>9 DEF SetFails, CacheInv
    <3>3. QED
      BY <1>9, <1>a, <2>1, <2>3, <3>1, <3>2, PagerUnchanged DEF SetFails, Told, Kept1
  <2>4. GoOn(c, call[c].val) \/ (Again(c) /\ UNCHANGED <<stamp, answered>>)
    BY <1>9 DEF SetFails
  <2>5. QED
    BY <2>2, <2>3, <2>4
<1>10. CASE FetchSignals(c)
  <2>1. PICK s : call' = [call EXCEPT ![c].at = "get", ![c].key = "similar", ![c].try = 0,
                                      ![c].sig = s]
    BY <1>10 DEF FetchSignals
  <2>2. /\ DOMAIN call' = Clients /\ \A d \in Clients \ {c} : call'[d] = call[d]
        /\ DOMAIN call'[c] = Fields
        /\ \A f \in Fields \ {"at", "key", "try", "sig"} : call'[c][f] = call[c][f]
        /\ call'[c].at = "get" /\ call'[c].key = "similar" /\ call'[c].try = 0
    BY <1>b, <2>1 DEF WellFormed, Fields
  <2>3. Frame(c) /\ Keeps(c)
    BY <1>10, <2>2, <1>b, InvestigationAssumption
    DEF FetchSignals, Frame, Keeps, WellFormed, HandlerOK, Fields, Places, Keys
  <2>4. QED
    BY <1>10, <1>a, <2>2, <2>3, PagerUnchanged DEF FetchSignals, Told, Kept1
<1>c. Idle.at # "set"
  BY DEF Idle
<1>11. CASE FetchFails(c)
  BY <1>11, <1>a, <1>c, AnswerEnds, PagerUnchanged, FaultCounted
  DEF FetchFails, Told, Kept1, Ends
<1>12. CASE PersistResult(c)
  BY <1>12, <1>a, <1>c, AnswerEnds, PagerUnchanged DEF PersistResult, Told, Kept1, Ends
<1>13. CASE PersistFails(c)
  BY <1>13, <1>a, <1>c, AnswerEnds, PagerUnchanged, FaultCounted
  DEF PersistFails, Told, Kept1, Ends
<1>14. CASE StoreFeedback(c)
  BY <1>14, <1>a, <1>c, AnswerEnds, PagerUnchanged DEF StoreFeedback, Told, Kept1, Ends
<1>15. CASE FeedbackFails(c)
  BY <1>15, <1>a, <1>c, AnswerEnds, PagerUnchanged, FaultCounted
  DEF FeedbackFails, Told, Kept1, Ends
<1>16. CASE ListPage(c)
  <2>1. Frame(c) /\ Ends(c, {"ok"})
    BY <1>16, AnswerEnds DEF ListPage
  <2> DEFINE p == pager[c]
             page == SubSeq(store, p.next + 1, Least(p.next + p.limit, Len(store)))
  <2>2. p.next \in Nat /\ p.limit \in Nat \ {0} /\ DOMAIN p = PagerFields /\ DOMAIN pager = Clients
    BY DEF TypeInv, TypeOK, Shape
  <2>3. Len(page) \in Nat
    BY <2>2 DEF TypeInv, Shape, Least
  <2> HIDE DEF page
  <2>4. PICK o, s, r, n :
          pager' = [pager EXCEPT ![c] =
             [p EXCEPT !.open = o, !.next = AfterPage(@, page), !.seen = s, !.repeats = r, !.snap = n]]
    BY <1>16 DEF ListPage, page
  <2>5. Counts(c)
    <3>1. /\ DOMAIN pager' = Clients /\ \A d \in Clients \ {c} : pager'[d] = pager[d]
          /\ DOMAIN pager'[c] = PagerFields
          /\ pager'[c].next = p.next + Len(page) /\ pager'[c].limit = p.limit
      BY <2>2, <2>4 DEF AfterPage, PagerFields
    <3>2. pager'[c].next \in Nat
      BY <2>2, <2>3, <3>1
    <3>3. QED
      BY <1>16, <1>a, <2>2, <3>1, <3>2 DEF ListPage, Counts
  <2>6. QED
    BY <1>16, <1>c, <2>1, <2>5 DEF ListPage, Told, Kept1, Ends
<1>17. CASE ListFails(c)
  <2>1. CASE pager' = pager
    <3>1. faults' \in 0 .. MaxFaults
      BY <1>17, <1>a, FaultCounted DEF ListFails
    <3>2. QED
      BY <1>17, <1>a, <1>c, <2>1, <3>1, AnswerEnds, PagerUnchanged
      DEF ListFails, Told, Kept1, Ends, Answer
  <2>2. CASE Fault /\ Answer(c, "ok")
             /\ pager' = [pager EXCEPT ![c].open = FALSE, ![c].clean = FALSE]
    <3>1. Counts(c)
      BY <1>17, <1>a, <2>2, FaultCounted
      DEF ListFails, Counts, TypeInv, TypeOK, Shape, PagerFields
    <3>2. QED
      BY <1>17, <1>c, <2>2, <3>1, AnswerEnds DEF ListFails, Told, Kept1, Ends
  <2>3. QED
    BY <1>17, <2>1, <2>2 DEF ListFails
<1>18. CASE ReadsNothing(c)
  <2>1. PICK v : GoOn(c, v)
    BY <1>18 DEF ReadsNothing
  <2>2. faults' \in 0 .. MaxFaults
    BY <1>18, FaultCounted DEF ReadsNothing
  <2>3. QED
    BY <1>18, <2>1, <2>2, GoOnMoves, PagerUnchanged DEF ReadsNothing, Told, Kept1
<1>19. CASE ListReadsNothing(c)
  <2>1. Counts(c)
    BY <1>19, <1>a, FaultCounted
    DEF ListReadsNothing, Counts, TypeInv, TypeOK, Shape, PagerFields
  <2>2. QED
    BY <1>19, <1>c, <2>1, AnswerEnds DEF ListReadsNothing, Told, Kept1, Ends
<1>20. QED
  BY <1>1, <1>2, <1>3, <1>4, <1>5, <1>6, <1>7, <1>8, <1>9, <1>10, <1>11, <1>12, <1>13, <1>14,
     <1>15, <1>16, <1>17, <1>18, <1>19 DEF Handler

-----------------------------------------------------------------------------
(* A call begins with the next number; a handler that goes back to work on  *)
(* a list, or whose context is cancelled, keeps its own.                    *)
Started(c) ==
  /\ Frame(c) /\ call[c].at = "idle"
  /\ call'[c].id = begun + 1 /\ begun' = begun + 1 /\ begun' \in 0 .. MaxCalls
  /\ call'[c].at # "set"

LEMMA BeginsStarts ==
  ASSUME TypeInv, NEW c \in Clients, NEW place \in {"get", "feedback", "list"},
         NEW key, place = "get" => key \in Keys, key \in Keys \cup {"none"}, NEW req,
         Begins(c, place, key, req)
  PROVE  Started(c)
<1>1. WellFormed(call[c]) /\ DOMAIN call = Clients /\ WellFormed(Idle) /\ begun \in 0 .. MaxCalls
  BY CallTyped, IdleWellFormed DEF TypeInv, TypeOK
<1>2. begun < MaxCalls
  BY <1>1, InvestigationAssumption DEF Begins, Least
<1>3. /\ DOMAIN call' = Clients /\ \A d \in Clients \ {c} : call'[d] = call[d]
      /\ DOMAIN call'[c] = Fields
      /\ \A f \in Fields \ {"id", "at", "key", "req"} : call'[c][f] = Idle[f]
      /\ call'[c].id = begun + 1 /\ call'[c].at = place /\ call'[c].key = key
  BY <1>1 DEF Begins, WellFormed, Fields
<1>4. /\ call'[c].try = 0 /\ call'[c].gone = FALSE /\ call'[c].result = <<>>
  BY <1>3 DEF Idle, Fields
<1>5. WellFormed(call'[c])
  <2>1. call'[c].id \in 0 .. MaxCalls /\ call'[c].id # 0
    BY <1>1, <1>2, <1>3, InvestigationAssumption
  <2>2. 0 \in 0 .. Retries - 1
    BY InvestigationAssumption
  <2>3. (call'[c].at = "persist") <=> (call'[c].result # <<>>)
    BY <1>3, <1>4
  <2>4. /\ call'[c].at \in Places /\ call'[c].key \in Keys \cup {"none"}
        /\ call'[c].at \in {"get", "query", "set"} => call'[c].key \in Keys
    BY <1>3 DEF Places
  <2>5. QED
    BY <1>3, <1>4, <2>1, <2>2, <2>3, <2>4 DEF WellFormed, HandlerOK
<1>6. begun' = begun + 1 /\ call[c].at = "idle"
  BY DEF Begins, At
<1>7. begun + 1 \in 0 .. MaxCalls
  BY <1>1, <1>2, InvestigationAssumption
<1>8. Frame(c) /\ call'[c].at # "set"
  BY <1>3, <1>5 DEF Frame
<1>9. QED
  BY <1>3, <1>6, <1>7, <1>8 DEF Started

Calling(c) ==
  InvestigateIncident(c) \/ GetPatterns(c) \/ SubmitFeedback(c) \/ ListCorrelations(c)

LEMMA CallingStarts ==
  ASSUME TypeInv, NEW c \in Clients, Calling(c)
  PROVE  /\ Started(c)
         /\ UNCHANGED <<scope, phase, weaviate, cache, late, stamp, answered, faults, outage>>
         /\ DOMAIN pager' = Clients
         /\ \A d \in Clients : /\ DOMAIN pager'[d] = PagerFields
                               /\ pager'[d].next \in Nat /\ pager'[d].limit \in Nat \ {0}
<1>1. /\ DOMAIN pager = Clients
      /\ \A d \in Clients : /\ DOMAIN pager[d] = PagerFields
                            /\ pager[d].next \in Nat /\ pager[d].limit \in Nat \ {0}
  BY DEF TypeInv, TypeOK, Shape
<1>2. CASE InvestigateIncident(c)
  <2>1. PICK r : Begins(c, "get", "graph", r)
    BY <1>2 DEF InvestigateIncident
  <2>2. Started(c)
    BY <2>1, BeginsStarts DEF Keys
  <2>3. QED
    BY <1>1, <1>2, <2>2 DEF InvestigateIncident
<1>3. CASE GetPatterns(c)
  BY <1>1, <1>3, BeginsStarts DEF GetPatterns, Keys
<1>4. CASE SubmitFeedback(c)
  BY <1>1, <1>4, BeginsStarts DEF SubmitFeedback, Keys
<1>5. CASE ListCorrelations(c)
  <2>1. Started(c)
    BY <1>5, BeginsStarts DEF ListCorrelations
  <2>2. PICK size \in PageSizes :
          pager' = [pager EXCEPT ![c] = [Closed EXCEPT !.open = TRUE, !.limit = PageLimit(size)]]
    BY <1>5 DEF ListCorrelations
  <2>3. PageLimit(size) \in Nat \ {0}
    BY InvestigationAssumption DEF PageLimit
  <2>4. QED
    BY <1>1, <1>5, <2>1, <2>2, <2>3 DEF ListCorrelations, Closed, PagerFields
<1>6. QED
  BY <1>2, <1>3, <1>4, <1>5 DEF Calling

(* A handler that is not at work on a call, or goes on without its client.  *)
LEMMA NextPageMoves ==
  ASSUME TypeInv, NEW c \in Clients, NextPage(c)
  PROVE  Frame(c) /\ call'[c].id = call[c].id /\ call'[c].at = "list"
<1>1. WellFormed(call[c]) /\ DOMAIN call = Clients
  BY CallTyped
<1>2. /\ DOMAIN call' = Clients /\ \A d \in Clients \ {c} : call'[d] = call[d]
      /\ DOMAIN call'[c] = Fields
      /\ \A f \in Fields \ {"at"} : call'[c][f] = call[c][f]
      /\ call'[c].at = "list"
  BY <1>1 DEF NextPage, WellFormed, Fields
<1>3. QED
  BY <1>1, <1>2 DEF NextPage, At, Frame, WellFormed, HandlerOK, Fields, Places

LEMMA GoneStays ==
  ASSUME TypeInv, NEW c \in Clients, DOMAIN call' = Clients,
         call'[c] = [call[c] EXCEPT !.gone = TRUE]
  PROVE  /\ WellFormed(call'[c]) /\ call'[c].at = call[c].at /\ call'[c].id = call[c].id
         /\ call'[c].val = call[c].val /\ call'[c].key = call[c].key
<1>1. WellFormed(call[c])
  BY CallTyped
<1>2. QED
  BY <1>1 DEF WellFormed, HandlerOK, Fields

-----------------------------------------------------------------------------
(* Every step keeps the types.                                              *)
LEMMA TypeStep ==
  ASSUME TypeInv, CacheInv, [Next]_vars
  PROVE  TypeInv'
<1> DEFINE CallsOK == DOMAIN call = Clients /\ \A c \in Clients : WellFormed(call[c])
           PagersOK == DOMAIN pager = Clients
                       /\ \A c \in Clients : /\ DOMAIN pager[c] = PagerFields
                                             /\ pager[c].next \in Nat /\ pager[c].limit \in Nat \ {0}
           CacheOK == DOMAIN cache = Keys /\ \A k \in Keys : cache[k] = <<>> \/ \E v : cache[k] = <<v>>
           RestOK == /\ scope \in {"many", "one"}
                     /\ phase \in {"serving", "draining", "closing", "exited"}
                     /\ stamp \in Nat /\ begun \in 0 .. MaxCalls /\ faults \in 0 .. MaxFaults
           WeaviateOK == store \in Seq(ToSet(store)) /\ feedback \subseteq CallIds
           AnswersOK == answered \in [CallIds -> {"none", "ok", "accepted", "error"}]
<1>1. CallsOK /\ PagersOK /\ CacheOK /\ RestOK /\ WeaviateOK /\ AnswersOK
  BY DEF TypeInv, TypeOK, Shape
<1>2. SUFFICES CallsOK' /\ PagersOK' /\ CacheOK' /\ RestOK' /\ WeaviateOK' /\ AnswersOK'
  <2>1. ASSUME CacheOK', NEW k \in Keys PROVE Len(cache'[k]) <= 1
    <3>1. CASE cache'[k] = <<>>
      BY <3>1
    <3>2. CASE \E v : cache'[k] = <<v>>
      BY <3>2
    <3>3. QED
      BY <2>1, <3>1, <3>2
  <2>2. QED
    BY <2>1 DEF TypeInv, TypeOK, Shape, WellFormed
<1> USE DEF weaviate, bookkeeping
<1>3. ASSUME NEW c \in Clients, Handler(c)
      PROVE  CallsOK' /\ PagersOK' /\ CacheOK' /\ RestOK' /\ WeaviateOK' /\ AnswersOK'
  <2>1. Effect(c)
    BY <1>3, HandlerEffect
  <2>2. CallsOK' /\ PagersOK'
    BY <1>1, <2>1 DEF Effect, Frame, Counts
  <2>3. CacheOK'
    <3>1. call[c].at = "set" => call[c].key \in Keys
      BY <1>1 DEF WellFormed, HandlerOK
    <3>2. QED
      BY <1>1, <2>1, <3>1 DEF Effect, Kept1
  <2>4. RestOK'
    BY <1>1, <2>1 DEF Effect, Counts
  <2>5. store' \in Seq(ToSet(store'))
    <3>1. CASE store' = store
      BY <1>1, <3>1
    <3>2. CASE store' \in Inserted(Record(c))
      BY <3>2, InsertedElements DEF TypeInv
    <3>3. QED
      BY <2>1, <3>1, <3>2 DEF Effect, Told, Stays
  <2>6. feedback' \subseteq CallIds
    <3>1. call[c].at = "feedback" => call[c].id \in CallIds
      BY <1>1, InvestigationAssumption DEF WellFormed, HandlerOK, CallIds
    <3>2. QED
      BY <1>1, <2>1, <3>1 DEF Effect, Told, Stays
  <2>7. AnswersOK'
    <3>1. call[c].id # 0 => call[c].id \in CallIds
      BY <1>1, InvestigationAssumption DEF WellFormed, HandlerOK, CallIds
    <3>2. QED
      BY <1>1, <2>1, <3>1 DEF Effect, Told, Keeps, Ends
  <2>8. QED
    BY <2>2, <2>3, <2>4, <2>5, <2>6, <2>7
<1>4. ASSUME NEW c \in Clients, Calling(c)
      PROVE  CallsOK' /\ PagersOK' /\ CacheOK' /\ RestOK' /\ WeaviateOK' /\ AnswersOK'
  <2>1. Started(c)
    BY <1>4, CallingStarts
  <2>2. CallsOK'
    BY <1>1, <2>1 DEF Started, Frame
  <2>3. PagersOK'
    BY <1>1, <1>4, CallingStarts
  <2>4. CacheOK' /\ RestOK' /\ WeaviateOK' /\ AnswersOK'
    BY <1>1, <1>4, <2>1, CallingStarts DEF Started
  <2>5. QED
    BY <2>2, <2>3, <2>4
<1>5. ASSUME NEW c \in Clients, NextPage(c)
      PROVE  CallsOK' /\ PagersOK' /\ CacheOK' /\ RestOK' /\ WeaviateOK' /\ AnswersOK'
  <2>1. CallsOK'
    BY <1>1, <1>5, NextPageMoves DEF Frame
  <2>2. PagersOK' /\ CacheOK' /\ RestOK' /\ WeaviateOK' /\ AnswersOK'
    BY <1>1, <1>5 DEF NextPage
  <2>3. QED
    BY <2>1, <2>2
<1>6. ASSUME NEW c \in Clients, GiveUp(c)
      PROVE  CallsOK' /\ PagersOK' /\ CacheOK' /\ RestOK' /\ WeaviateOK' /\ AnswersOK'
  <2>1. DOMAIN call' = Clients /\ call'[c] = [call[c] EXCEPT !.gone = TRUE]
        /\ \A d \in Clients \ {c} : call'[d] = call[d]
    BY <1>1, <1>6 DEF GiveUp
  <2>2. faults' \in 0 .. MaxFaults
    BY <1>6, FaultCounted DEF GiveUp
  <2>3. CallsOK'
    BY <1>1, <2>1, GoneStays
  <2>4. PagersOK' /\ CacheOK' /\ RestOK' /\ WeaviateOK' /\ AnswersOK'
    BY <1>1, <1>6, <2>2 DEF GiveUp
  <2>5. QED
    BY <2>3, <2>4
<1>7. CASE \E k \in Keys : Expire(k)
  BY <1>1, <1>7 DEF Expire
<1>8. ASSUME NEW cmd \in late, ExecuteLate(cmd)
      PROVE  CallsOK' /\ PagersOK' /\ CacheOK' /\ RestOK' /\ WeaviateOK' /\ AnswersOK'
  BY <1>1, <1>8 DEF ExecuteLate, CacheInv
<1>9. CASE \E p \in Patterns : StorePattern(p)
  BY <1>1, <1>9 DEF StorePattern
<1>10. CASE Signal \/ Drained
  BY <1>1, <1>10 DEF Signal, Drained
<1>11. CASE GraceTimeout
  <2>1. DOMAIN call' = Clients
        /\ \A c \in Clients : call'[c] = call[c] \/ call'[c] = [call[c] EXCEPT !.gone = TRUE]
    BY <1>11 DEF GraceTimeout
  <2>2. QED
    BY <1>1, <1>11, <2>1, GoneStays DEF GraceTimeout
<1>12. CASE Exit
  BY <1>1, <1>12, IdleWellFormed DEF Exit
<1>13. CASE UNCHANGED vars
  BY <1>1, <1>13 DEF vars
<1>14. QED
  BY <1>3, <1>4, <1>5, <1>6, <1>7, <1>8, <1>9, <1>10, <1>11, <1>12, <1>13 DEF Next, Calling

-----------------------------------------------------------------------------
(* Weaviate forgets nothing, so what was good to keep stays good.           *)
Grows == ToSet(store) \subseteq ToSet(store') /\ patterns \subseteq patterns'
CacheKept == \A k \in Keys : \A v : cache'[k] = <<v>> => Good(k, v)
LateKept == \A cmd \in late' : cmd.key \in Keys /\ Good(cmd.key, cmd.val)
SetKept == \A c \in Clients : call'[c].at = "set" => Good(call'[c].key, call'[c].val)

LEMMA KeptStays ==
  ASSUME Grows, CacheKept, LateKept, SetKept
  PROVE  CacheInv'
<1>1. ASSUME NEW k \in Keys, NEW v, cache'[k] = <<v>> PROVE Good(k, v)'
  BY <1>1 DEF CacheKept, Good, Grows
<1>2. ASSUME NEW cmd \in late' PROVE cmd.key \in Keys /\ Good(cmd.key, cmd.val)'
  BY <1>2 DEF LateKept, Good, Grows
<1>3. ASSUME NEW c \in Clients, call'[c].at = "set" PROVE Good(call[c].key, call[c].val)'
  BY <1>3 DEF SetKept, Good, Grows
<1>4. QED
  BY <1>1, <1>2, <1>3 DEF CacheInv, At

LEMMA CacheStep ==
  ASSUME TypeInv, CacheInv, [Next]_vars
  PROVE  CacheInv'
<1> USE DEF weaviate, bookkeeping
<1>1. /\ DOMAIN call = Clients /\ DOMAIN cache = Keys
      /\ \A c \in Clients : WellFormed(call[c])
      /\ \A c \in Clients : call[c].at = "set" => call[c].key \in Keys
  BY DEF TypeInv, TypeOK, Shape, WellFormed, HandlerOK
<1>2. /\ \A k \in Keys : \A v : cache[k] = <<v>> => Good(k, v)
      /\ \A cmd \in late : cmd.key \in Keys /\ Good(cmd.key, cmd.val)
      /\ \A c \in Clients : call[c].at = "set" => Good(call[c].key, call[c].val)
  BY DEF CacheInv, At
<1>3. ASSUME NEW c \in Clients, Handler(c) PROVE CacheInv'
  <2>1. Effect(c)
    BY <1>3, HandlerEffect
  <2>2. Grows
    <3>1. CASE store' = store
      BY <2>1, <3>1 DEF Effect, Counts, Grows
    <3>2. CASE store' \in Inserted(Record(c))
      BY <2>1, <3>2, InsertedElements DEF Effect, Counts, Grows, TypeInv
    <3>3. QED
      BY <2>1, <3>1, <3>2 DEF Effect, Told, Stays
  <2>3. CacheKept
    <3>1. CASE cache' = cache
      BY <1>2, <3>1 DEF CacheKept
    <3>2. CASE call[c].at = "set" /\ cache' = [cache EXCEPT ![call[c].key] = <<call[c].val>>]
      <4>1. ASSUME NEW k \in Keys, NEW v, cache'[k] = <<v>> PROVE Good(k, v)
        <5>1. CASE k = call[c].key
          <6>1. <<v>> = <<call[c].val>>
            BY <1>1, <3>2, <4>1, <5>1
          <6>2. v = call[c].val
            BY <6>1
          <6>3. QED
            BY <1>2, <3>2, <5>1, <6>2
        <5>2. CASE k # call[c].key
          <6>1. cache'[k] = cache[k]
            BY <1>1, <3>2, <5>2
          <6>2. QED
            BY <1>2, <4>1, <6>1
        <5>3. QED
          BY <5>1, <5>2
      <4>2. QED
        BY <4>1 DEF CacheKept
    <3>3. QED
      BY <2>1, <3>1, <3>2 DEF Effect, Kept1
  <2>4. LateKept
    BY <1>1, <1>2, <2>1 DEF LateKept, Effect, Kept1
  <2>5. SetKept
    BY <1>2, <2>1 DEF SetKept, Effect, Kept1, Frame
  <2>6. QED
    BY <2>2, <2>3, <2>4, <2>5, KeptStays
<1>4. ASSUME NEW c \in Clients, Calling(c) PROVE CacheInv'
  <2>1. SetKept
    BY <1>2, <1>4, CallingStarts DEF SetKept, Started, Frame
  <2>2. QED
    BY <1>2, <1>4, <2>1, CallingStarts, KeptStays DEF Grows, CacheKept, LateKept
<1>5. ASSUME NEW c \in Clients, NextPage(c) PROVE CacheInv'
  <2>1. SetKept
    BY <1>2, <1>5, NextPageMoves DEF SetKept, Frame
  <2>2. QED
    BY <1>2, <1>5, <2>1, KeptStays DEF NextPage, Grows, CacheKept, LateKept
<1>6. ASSUME NEW c \in Clients, GiveUp(c) PROVE CacheInv'
  <2>1. DOMAIN call' = Clients /\ call'[c] = [call[c] EXCEPT !.gone = TRUE]
        /\ \A d \in Clients \ {c} : call'[d] = call[d]
    BY <1>1, <1>6 DEF GiveUp
  <2>2. SetKept
    BY <1>2, <2>1, GoneStays DEF SetKept
  <2>3. QED
    BY <1>2, <1>6, <2>2, KeptStays DEF GiveUp, Grows, CacheKept, LateKept
<1>7. ASSUME NEW k \in Keys, Expire(k) PROVE CacheInv'
  <2>1. CacheKept
    <3>1. ASSUME NEW j \in Keys, NEW v, cache'[j] = <<v>> PROVE cache[j] = <<v>>
      BY <1>1, <1>7, <3>1 DEF Expire
    <3>2. QED
      BY <1>2, <3>1 DEF CacheKept
  <2>2. QED
    BY <1>2, <1>7, <2>1, KeptStays DEF Expire, Grows, LateKept, SetKept
<1>8. ASSUME NEW cmd \in late, ExecuteLate(cmd) PROVE CacheInv'
  <2>1. CacheKept
    <3>1. ASSUME NEW j \in Keys, NEW v, cache'[j] = <<v>> PROVE Good(j, v)
      <4>1. CASE j = cmd.key
        <5>1. <<v>> = <<cmd.val>>
          BY <1>1, <1>8, <3>1, <4>1 DEF ExecuteLate
        <5>2. v = cmd.val
          BY <5>1
        <5>3. QED
          BY <1>2, <4>1, <5>2
      <4>2. CASE j # cmd.key
        <5>1. cache'[j] = cache[j]
          BY <1>1, <1>8, <4>2 DEF ExecuteLate
        <5>2. QED
          BY <1>2, <3>1, <5>1
      <4>3. QED
        BY <4>1, <4>2
    <3>2. QED
      BY <3>1 DEF CacheKept
  <2>2. QED
    BY <1>2, <1>8, <2>1, KeptStays DEF ExecuteLate, Grows, LateKept, SetKept
<1>9. CASE \E p \in Patterns : StorePattern(p)
  BY <1>2, <1>9, KeptStays DEF StorePattern, Grows, CacheKept, LateKept, SetKept
<1>10. CASE Signal \/ Drained
  BY <1>2, <1>10, KeptStays DEF Signal, Drained, Grows, CacheKept, LateKept, SetKept
<1>11. CASE GraceTimeout
  <2>1. DOMAIN call' = Clients
        /\ \A c \in Clients : call'[c] = call[c] \/ call'[c] = [call[c] EXCEPT !.gone = TRUE]
    BY <1>11 DEF GraceTimeout
  <2>2. SetKept
    BY <1>2, <2>1, GoneStays DEF SetKept
  <2>3. QED
    BY <1>2, <1>11, <2>2, KeptStays DEF GraceTimeout, Grows, CacheKept, LateKept
<1>12. CASE Exit
  <2>1. SetKept
    BY <1>12 DEF Exit, SetKept, Idle
  <2>2. QED
    BY <1>2, <1>12, <2>1, KeptStays DEF Exit, Grows, CacheKept, LateKept
<1>13. CASE UNCHANGED vars
  BY <1>2, <1>13, KeptStays DEF vars, Grows, CacheKept, LateKept, SetKept
<1>14. QED
  BY <1>3, <1>4, <1>5, <1>6, <1>7, <1>8, <1>9, <1>10, <1>11, <1>12, <1>13 DEF Next, Calling

LEMMA CacheImplies ==
  ASSUME TypeInv, CacheInv
  PROVE  CachedWasStored
<1>1. ASSUME NEW k \in Keys, NEW v \in Kept(k) PROVE Good(k, v)
  <2>1. CASE v \in ToSet(cache[k])
    <3>1. CASE cache[k] = <<>>
      BY <2>1, <3>1 DEF ToSet
    <3>2. CASE \E u : cache[k] = <<u>>
      <4>1. PICK u : cache[k] = <<u>>
        BY <3>2
      <4>2. v = u
        BY <2>1, <4>1 DEF ToSet
      <4>3. QED
        BY <4>1, <4>2 DEF CacheInv
    <3>3. QED
      BY <3>1, <3>2 DEF TypeInv, Shape
  <2>2. CASE \E cmd \in late : cmd.key = k /\ v = cmd.val
    BY <2>2 DEF CacheInv
  <2>3. CASE \E c \in Clients : At(c, "set") /\ call[c].key = k /\ v = call[c].val
    BY <2>3 DEF CacheInv
  <2>4. QED
    BY <2>1, <2>2, <2>3 DEF Kept
<1>2. QED
  BY <1>1 DEF Good, Keys, CachedWasStored

-----------------------------------------------------------------------------
(* Numbers of calls: a call at work has a number of its own, which no       *)
(* correlation has and no client was told of.                               *)
IdInv ==
  /\ Ids(store) \subseteq Ids(OldRecords) \cup (1 .. begun)
  /\ \A i, j \in DOMAIN store : store[i].id = store[j].id => i = j
  /\ \A c \in Clients : call[c].id \in 0 .. begun
  /\ \A c, d \in Clients : call[c].id = call[d].id => c = d \/ call[c].id = 0
  /\ \A c \in Clients : call[c].id # 0 => /\ call[c].id \notin Ids(store)
                                          /\ answered[call[c].id] = "none"
  /\ \A i \in CallIds : i > begun => answered[i] = "none"
  /\ \A i \in CallIds : /\ answered[i] = "error" => i \notin Ids(store)
                        /\ answered[i] = "accepted" => i \in feedback

LEMMA InsertedIds ==
  ASSUME Shape, NEW r, store' \in Inserted(r), r.id \notin Ids(store),
         \A i, j \in DOMAIN store : store[i].id = store[j].id => i = j
  PROVE  /\ Ids(store') = Ids(store) \cup {r.id}
         /\ \A i, j \in DOMAIN store' : store'[i].id = store'[j].id => i = j
<1>1. PICK p \in 1 .. Len(store) + 1 :
        /\ Len(store') = Len(store) + 1
        /\ \A k \in 1 .. Len(store) + 1 :
             store'[k] = IF k < p THEN store[k] ELSE IF k = p THEN r ELSE store[k - 1]
  BY InsertedElements
<1>2. /\ Len(store) \in Nat /\ DOMAIN store = 1 .. Len(store)
      /\ DOMAIN store' = 1 .. Len(store) + 1
  BY <1>1, InsertedElements DEF Shape
<1>3. Ids(store') = Ids(store) \cup {r.id}
  <2>1. ToSet(store') = ToSet(store) \cup {r}
    BY InsertedElements
  <2>2. /\ Ids(store') = {x.id : x \in ToSet(store')}
        /\ Ids(store) = {x.id : x \in ToSet(store)}
    BY DEF Ids, ToSet
  <2>3. QED
    BY <2>1, <2>2
<1> DEFINE from(k) == IF k < p THEN k ELSE k - 1
<1>4. \A k \in DOMAIN store' \ {p} : from(k) \in DOMAIN store /\ store'[k] = store[from(k)]
  BY <1>1, <1>2
<1>5. store'[p] = r /\ \A k \in DOMAIN store : store[k].id # r.id
  BY <1>1 DEF Ids
<1>6. ASSUME NEW i \in DOMAIN store', NEW j \in DOMAIN store', store'[i].id = store'[j].id
      PROVE  i = j
  <2>1. CASE i = p \/ j = p
    BY <2>1, <1>4, <1>5, <1>6
  <2>2. CASE i # p /\ j # p
    <3>1. from(i) = from(j)
      BY <2>2, <1>4, <1>6
    <3>2. QED
      BY <3>1, <2>2, <1>2
  <2>3. QED
    BY <2>1, <2>2
<1>7. QED
  BY <1>3, <1>6

(* Steps that store and answer nothing.                                     *)
LEMMA IdsStay ==
  ASSUME TypeInv, IdInv, UNCHANGED <<store, feedback, answered, begun>>,
         \A c \in Clients : call'[c].id \in {0, call[c].id}
  PROVE  IdInv'
<1>1. ASSUME NEW c \in Clients
      PROVE  /\ call'[c].id \in 0 .. begun'
             /\ call'[c].id # 0 => /\ call'[c].id \notin Ids(store')
                                   /\ answered'[call'[c].id] = "none"
  <2>1. store' = store /\ answered' = answered /\ begun' = begun /\ Ids(store') = Ids(store)
    OBVIOUS
  <2>2. 0 \in 0 .. begun /\ call[c].id \in 0 .. begun
    BY DEF TypeInv, TypeOK, IdInv
  <2>3. CASE call'[c].id = 0
    BY <2>1, <2>2, <2>3
  <2>4. CASE call'[c].id = call[c].id
    BY <2>1, <2>2, <2>4 DEF IdInv
  <2>5. QED
    BY <2>3, <2>4
<1>2. ASSUME NEW c \in Clients, NEW d \in Clients, call'[c].id = call'[d].id
      PROVE  c = d \/ call'[c].id = 0
  BY <1>2 DEF IdInv
<1>3. QED
  BY <1>1, <1>2 DEF IdInv

LEMMA HandlerIds ==
  ASSUME TypeInv, IdInv, NEW c \in Clients, Effect(c)
  PROVE  IdInv'
<1> DEFINE x == call[c].id
<1>1. /\ call'[c].id \in {0, x} /\ \A d \in Clients \ {c} : call'[d] = call[d]
      /\ begun' = begun /\ begun \in Nat
  BY DEF Effect, Frame, Counts, Told, Keeps, Ends, Idle, TypeInv, TypeOK
<1>2. /\ x \in 0 .. begun /\ (x # 0 => x \in CallIds /\ x \notin Ids(store) /\ answered[x] = "none")
      /\ \A d \in Clients : call[d].id = x => d = c \/ x = 0
  BY DEF TypeInv, TypeOK, IdInv, HandlerOK, CallIds
<1>3. answered \in [CallIds -> {"none", "ok", "accepted", "error"}]
  BY DEF TypeInv, TypeOK
<1>4. CASE Keeps(c) /\ Stays
  <2>1. \A d \in Clients : call'[d].id \in {0, call[d].id}
    BY <1>1
  <2>2. QED
    BY <1>1, <1>4, <2>1, IdsStay DEF Keeps, Stays
<1>5. CASE ~Keeps(c)
  <2>1. call'[c].id = 0
    BY <1>5 DEF Effect, Told, Ends, Idle
  <2>2. /\ Ids(store') \subseteq Ids(store) \cup ({x} \ {0}) /\ Ids(store) \subseteq Ids(store')
        /\ \A i, j \in DOMAIN store' : store'[i].id = store'[j].id => i = j
    <3>1. CASE store' = store
      BY <3>1 DEF IdInv
    <3>2. CASE call[c].at = "persist" /\ store' \in Inserted(Record(c))
      <4>1. x # 0 /\ Record(c).id = x
        BY <3>2, CallTyped DEF WellFormed, Record
      <4>2. QED
        BY <3>2, <4>1, <1>2, InsertedIds DEF TypeInv, IdInv
    <3>3. QED
      BY <3>1, <3>2, <1>5 DEF Effect, Told, Stays
  <2>3. feedback \subseteq feedback'
    BY DEF Effect, Told, Stays
  <2>4. /\ \A i \in CallIds \ {x} : answered'[i] = answered[i]
        /\ x # 0 => /\ answered'[x] = "error" => store' = store
                    /\ answered'[x] = "accepted" => x \in feedback'
    <3>1. ASSUME NEW outcomes, Ends(c, outcomes)
          PROVE  /\ \A i \in CallIds \ {x} : answered'[i] = answered[i]
                 /\ x # 0 => answered'[x] \in outcomes \cup {"none"}
      BY <1>2, <1>3, <3>1 DEF Ends
    <3>2. QED
      BY <1>5, <3>1 DEF Effect, Told, Stays
  <2>5. Ids(store') \subseteq Ids(OldRecords) \cup (1 .. begun')
    BY <1>1, <1>2, <2>2 DEF IdInv
  <2>6. ASSUME NEW d \in Clients
        PROVE  /\ call'[d].id \in 0 .. begun'
               /\ call'[d].id # 0 => /\ call'[d].id \notin Ids(store')
                                     /\ answered'[call'[d].id] = "none"
    <3>1. CASE d = c \/ call[d].id = 0
      BY <3>1, <1>1, <2>1
    <3>2. CASE d # c /\ call[d].id # 0
      <4>1. call[d].id \in CallIds \ {x} /\ call'[d].id = call[d].id
        BY <3>2, <1>1, <1>2 DEF TypeInv, TypeOK, HandlerOK, CallIds
      <4>2. QED
        BY <3>2, <4>1, <1>1, <2>2, <2>4 DEF IdInv
    <3>3. QED
      BY <3>1, <3>2
  <2>7. \A d, e \in Clients : call'[d].id = call'[e].id => d = e \/ call'[d].id = 0
    BY <1>1, <2>1 DEF IdInv
  <2>8. \A i \in CallIds : i > begun' => answered'[i] = "none"
    BY <1>1, <1>2, <2>4 DEF IdInv
  <2>9. ASSUME NEW i \in CallIds
        PROVE  /\ answered'[i] = "error" => i \notin Ids(store')
               /\ answered'[i] = "accepted" => i \in feedback'
    <3>0. i # 0 /\ (store' = store => Ids(store') = Ids(store))
      BY InvestigationAssumption DEF CallIds
    <3>1. CASE i = x
      BY <3>0, <3>1, <1>2, <2>4
    <3>2. CASE i # x
      <4>1. /\ answered[i] = "error" => i \notin Ids(store)
            /\ answered[i] = "accepted" => i \in feedback
        BY DEF IdInv
      <4>2. answered'[i] = answered[i] /\ (i \in Ids(store') => i \in Ids(store))
        BY <3>2, <2>2, <2>4
      <4>3. QED
        BY <4>1, <4>2, <2>3
    <3>3. QED
      BY <3>1, <3>2
  <2>10. QED
    BY <2>2, <2>5, <2>6, <2>7, <2>8, <2>9 DEF IdInv
<1>6. QED
  BY <1>4, <1>5 DEF Effect, Told, Keeps, Ends, Idle

LEMMA CallingIds ==
  ASSUME TypeInv, IdInv, NEW c \in Clients, Started(c), UNCHANGED <<store, feedback, answered>>
  PROVE  IdInv'
<1>1. /\ begun \in Nat /\ begun' = begun + 1 /\ begun + 1 \in CallIds
      /\ call'[c].id = begun + 1 /\ \A d \in Clients \ {c} : call'[d] = call[d]
  BY InvestigationAssumption DEF TypeInv, TypeOK, Started, Frame, CallIds
<1>2. begun + 1 \notin Ids(store) /\ answered[begun + 1] = "none"
  BY <1>1, InvestigationAssumption DEF IdInv, CallIds
<1>3. \A d \in Clients \ {c} : call'[d].id \in 0 .. begun
  BY <1>1 DEF IdInv
<1>4. Ids(store) \subseteq Ids(OldRecords) \cup (1 .. begun + 1)
  BY <1>1 DEF IdInv
<1>5. \A d, e \in Clients : call'[d].id = call'[e].id => d = e \/ call'[d].id = 0
  BY <1>1, <1>3 DEF IdInv
<1>6. \A d \in Clients : /\ call'[d].id \in 0 .. begun + 1
                         /\ call'[d].id # 0 => /\ call'[d].id \notin Ids(store)
                                               /\ answered[call'[d].id] = "none"
  BY <1>1, <1>2, <1>3 DEF IdInv
<1>7. \A i \in CallIds : i > begun + 1 => answered[i] = "none"
  BY <1>1 DEF IdInv, CallIds
<1>8. QED
  BY <1>1, <1>4, <1>5, <1>6, <1>7 DEF IdInv

LEMMA IdStep ==
  ASSUME TypeInv, CacheInv, IdInv, [Next]_vars
  PROVE  IdInv'
<1> USE DEF weaviate, bookkeeping
<1>1. DOMAIN call = Clients
  BY DEF TypeInv, Shape
<1>2. ASSUME NEW c \in Clients, Handler(c) PROVE IdInv'
  BY <1>2, HandlerEffect, HandlerIds
<1>3. ASSUME NEW c \in Clients, Calling(c) PROVE IdInv'
  <2>1. Started(c) /\ UNCHANGED <<store, feedback, answered>>
    BY <1>3, CallingStarts DEF Calling, InvestigateIncident, GetPatterns, SubmitFeedback,
       ListCorrelations
  <2>2. QED
    BY <2>1, CallingIds
<1>4. ASSUME NEW c \in Clients, NextPage(c) PROVE IdInv'
  <2>1. \A d \in Clients : call'[d].id \in {0, call[d].id}
    BY <1>4, NextPageMoves DEF Frame
  <2>2. QED
    BY <1>4, <2>1, IdsStay DEF NextPage
<1>5. ASSUME NEW c \in Clients, GiveUp(c) PROVE IdInv'
  <2>1. DOMAIN call' = Clients /\ call'[c] = [call[c] EXCEPT !.gone = TRUE]
        /\ \A d \in Clients \ {c} : call'[d] = call[d]
    BY <1>1, <1>5 DEF GiveUp
  <2>2. \A d \in Clients : call'[d].id \in {0, call[d].id}
    BY <2>1, GoneStays
  <2>3. QED
    BY <1>5, <2>2, IdsStay DEF GiveUp
<1>6. ASSUME \/ \E k \in Keys : Expire(k)
             \/ \E cmd \in late : ExecuteLate(cmd)
             \/ \E p \in Patterns : StorePattern(p)
             \/ Signal \/ Drained
             \/ UNCHANGED vars
      PROVE  IdInv'
  BY <1>6, IdsStay DEF Expire, ExecuteLate, StorePattern, Signal, Drained, vars
<1>7. CASE GraceTimeout
  <2>1. DOMAIN call' = Clients
        /\ \A c \in Clients : call'[c] = call[c] \/ call'[c] = [call[c] EXCEPT !.gone = TRUE]
    BY <1>7 DEF GraceTimeout
  <2>2. \A d \in Clients : call'[d].id \in {0, call[d].id}
    BY <2>1, GoneStays
  <2>3. QED
    BY <1>7, <2>2, IdsStay DEF GraceTimeout
<1>8. CASE Exit
  BY <1>8, IdsStay DEF Exit, Idle
<1>9. QED
  BY <1>2, <1>3, <1>4, <1>5, <1>6, <1>7, <1>8 DEF Next, Calling

-----------------------------------------------------------------------------
Inv == TypeInv /\ CacheInv /\ IdInv

LEMMA InvInit == Init => Inv
<1> SUFFICES ASSUME Init PROVE Inv
  OBVIOUS
<1>1. TypeInv
  <2>1. \A c \in Clients : WellFormed(call[c])
    BY IdleWellFormed DEF Init
  <2>2. DOMAIN pager = Clients
        /\ \A c \in Clients : /\ DOMAIN pager[c] = PagerFields
                              /\ pager[c].next \in Nat /\ pager[c].limit \in Nat \ {0}
    BY DEF Init, Closed, PagerFields
  <2>3. \A k \in Keys : cache[k] = <<>> /\ Len(cache[k]) <= 1
    BY DEF Init
  <2>4. store \in Seq(ToSet(store)) /\ begun \in 0 .. MaxCalls /\ faults \in 0 .. MaxFaults
    BY InvestigationAssumption DEF Init
  <2>5. QED
    BY <2>1, <2>2, <2>3, <2>4 DEF Init, TypeInv, TypeOK, Shape, WellFormed
<1>2. CacheInv
  BY DEF Init, CacheInv, At, Idle
<1>3. IdInv
  BY InvestigationAssumption DEF Init, IdInv, Idle, CallIds
<1>4. QED
  BY <1>1, <1>2, <1>3 DEF Inv

LEMMA InvStep == Inv /\ [Next]_vars => Inv'
  BY TypeStep, CacheStep, IdStep DEF Inv

(* Every variable keeps its type, and a handler that waits for the cache or *)
(* for a query has a key: internal/services and internal/repo, at every     *)
(* step.                                                                    *)
THEOREM TypeCorrect == Spec => []TypeOK
<1>1. Inv => TypeOK
  BY DEF Inv, TypeInv
<1>2. QED
  BY InvInit, InvStep, <1>1, PTL DEF Spec

(* SimilarIncidents and FetchPatterns (weaviate_repo.go): whatever the      *)
(* order of failures, retries, late SETs, expiries and cancellations, and   *)
(* for any number of handlers, the cache answers with what Weaviate has,    *)
(* never with an empty list and never with made-up incidents or patterns.   *)
THEOREM CacheHoldsStored == Spec => []CachedWasStored
<1>1. Inv => CachedWasStored
  BY CacheImplies DEF Inv
<1>2. QED
  BY InvInit, InvStep, <1>1, PTL DEF Spec

(* InvestigateIncident and SubmitFeedback: a correlation is stored at most  *)
(* once and never for a call that was answered with an error, and accepted  *)
(* feedback is kept, whenever the client gave up and whichever call failed. *)
THEOREM AnswersMatch == Spec => []AnswersMatchStore
<1>1. Inv => AnswersMatchStore
  BY DEF Inv, IdInv, AnswersMatchStore
<1>2. QED
  BY InvInit, InvStep, <1>1, PTL DEF Spec

-----------------------------------------------------------------------------
(* Lists read page by page.                                                 *)
LEMMA IdsFinite ==
  ASSUME NEW s, s \in Seq(ToSet(s))
  PROVE  IsFiniteSet(Ids(s))
<1> DEFINE f == [i \in 1 .. Len(s) |-> s[i].id]
<1>1. Len(s) \in Nat /\ DOMAIN s = 1 .. Len(s)
  OBVIOUS
<1>2. IsFiniteSet(1 .. Len(s))
  BY <1>1, FS_Interval
<1>3. f \in Surjection(1 .. Len(s), Ids(s))
  BY <1>1 DEF Surjection, Ids
<1>4. QED
  BY <1>2, <1>3, FS_Surjection

(* Sets that share nothing.                                                 *)
LEMMA PartsAdd ==
  ASSUME NEW A, NEW B, IsFiniteSet(A), IsFiniteSet(B), A \cap B = {}
  PROVE  Cardinality(A \cup B) = Cardinality(A) + Cardinality(B)
<1>1. A \cap B = {} /\ Cardinality({}) = 0
  BY FS_EmptySet
<1>2. Cardinality(A) \in Nat /\ Cardinality(B) \in Nat
  BY FS_CardinalityType
<1>3. Cardinality(A \cup B) = Cardinality(A) + Cardinality(B) - Cardinality(A \cap B)
  BY FS_Union
<1>4. PICK a, b : a = Cardinality(A) /\ b = Cardinality(B) /\ a \in Nat /\ b \in Nat
  BY <1>2
<1>5. Cardinality(A \cup B) = a + b - 0
  BY <1>1, <1>3, <1>4
<1>6. QED
  BY <1>4, <1>5

(* What the next pages would show if nothing were stored.                   *)
Ahead(n, records) == {records[i].id : i \in n + 1 .. Len(records)}
UniqueIds(records) ==
  \A i, j \in DOMAIN records : records[i].id = records[j].id => i = j

LEMMA Joined == ASSUME NEW n \in Nat, NEW m \in Nat, NEW L \in Nat, n <= m, m <= L
  PROVE n + 1 .. L = (n + 1 .. m) \cup (m + 1 .. L)
  OBVIOUS

(* A page of l correlations from offset n on ends before m, and what is     *)
(* ahead of n is what is on it and what is ahead of m.                      *)
Splits(s, n, l, m, page) ==
  /\ Len(page) \in Nat /\ n + Len(page) = m /\ m <= Len(s)
  /\ Len(page) # l => Ahead(m, s) = {}
  /\ Ids(page) \subseteq Ids(s) /\ Ahead(m, s) \subseteq Ids(s)
  /\ Ahead(n, s) = Ids(page) \cup Ahead(m, s)
  /\ Ids(page) \cap Ahead(m, s) = {}
  /\ Ids(s) = Ahead(0, s)
  /\ m = 0 => Ids(s) = {}

LEMMA PageParts ==
  ASSUME NEW s, s \in Seq(ToSet(s)), NEW n \in Nat, NEW l \in Nat, l > 0, NEW L \in Nat, L = Len(s), n <= L,
         UniqueIds(s),
         NEW m \in Nat, n <= m, m <= L, m <= n + l, m < n + l => m = L,
         NEW page, page = SubSeq(s, n + 1, m)
  PROVE  Splits(s, n, l, m, page)
<1>1. DOMAIN s = 1 .. L
  OBVIOUS
<1>2. m = 0 => L = 0
  OBVIOUS
<1>3. Len(page) = m - n /\ DOMAIN page = 1 .. m - n /\ \A i \in 1 .. m - n : page[i] = s[n + i]
  BY <1>2
<1>4. Ids(page) = {s[i].id : i \in n + 1 .. m}
  <2>1. ASSUME NEW i \in n + 1 .. m PROVE s[i].id \in Ids(page)
    <3>1. i - n \in 1 .. m - n /\ n + (i - n) = i
      BY <1>2
    <3>2. i - n \in DOMAIN page /\ page[i - n] = s[i]
      BY <1>3, <3>1
    <3>3. QED
      BY <3>2 DEF Ids
  <2>2. ASSUME NEW i \in DOMAIN page PROVE \E j \in n + 1 .. m : page[i].id = s[j].id
    <3>1. n + i \in n + 1 .. m
      BY <1>2, <1>3
    <3>2. QED
      BY <1>3, <3>1
  <2>3. Ids(page) \subseteq {s[i].id : i \in n + 1 .. m}
    BY <2>2 DEF Ids
  <2>4. QED
    BY <2>1, <2>3
<1>5. Ahead(n, s) = Ids(page) \cup Ahead(m, s)
  <2>1. n + 1 .. L = (n + 1 .. m) \cup (m + 1 .. L)
    BY <1>1, Joined
  <2>2. QED
    BY <1>4, <2>1 DEF Ahead
<1>6. Ids(page) \cap Ahead(m, s) = {}
  <2>1. ASSUME NEW i \in n + 1 .. m, NEW j \in m + 1 .. L PROVE s[i].id # s[j].id
    <3>1. i \in DOMAIN s /\ j \in DOMAIN s /\ i # j
      BY <1>1, <1>2
    <3>2. QED
      BY <3>1 DEF UniqueIds
  <2>2. QED
    BY <1>4, <2>1 DEF Ahead
<1>7. Ids(s) = Ahead(0, s)
  BY <1>1 DEF Ids, Ahead
<1>8. Ids(page) \subseteq Ids(s) /\ Ahead(m, s) \subseteq Ids(s)
  <2>1. n + 1 .. m \subseteq DOMAIN s /\ m + 1 .. L \subseteq DOMAIN s
    BY <1>1, <1>2
  <2>2. QED
    BY <1>4, <2>1 DEF Ids, Ahead
<1>9. Len(page) # l => Ahead(m, s) = {}
  <2>1. ASSUME Len(page) # l PROVE m + 1 .. L = {}
    BY <1>1, <1>2, <1>3, <2>1
  <2>2. QED
    BY <2>1 DEF Ahead
<1>10. m = 0 => Ids(s) = {}
  BY <1>1, <1>2 DEF Ids
<1>11. Len(page) \in Nat /\ n + Len(page) = m
  BY <1>2, <1>3
<1>12. QED
  BY <1>2, <1>5, <1>6, <1>7, <1>8, <1>9, <1>10, <1>11 DEF Splits

(* A client that has read p.next correlations has seen those before the     *)
(* offset that were there when it began; of those from the offset on it has *)
(* seen no more before than were stored since it began and not counted yet. *)
PagerOK(p, records) ==
  /\ p.next <= Len(records)
  /\ p.seen \subseteq Ids(records) /\ p.snap \subseteq Ids(records)
  /\ p.next = 0 => p.seen = {} /\ p.snap = {} /\ p.repeats = 0
  /\ p.snap \subseteq p.seen \cup Ahead(p.next, records)
  /\ ~p.open /\ p.clean => p.snap \subseteq p.seen
  /\ Unbroken(p, records)
  /\ p.repeats \in Nat
  /\ p.repeats + Cardinality(Ahead(p.next, records) \cap p.seen) <= Cardinality(Ids(records) \ p.snap)

PagerInv == \A c \in Clients : PagerOK(pager[c], store)

(* A correlation inserted before the offset pushes one that was seen behind *)
(* it; one inserted after it was not there when the client began.           *)
LEMMA InsertedKeepsPager ==
  ASSUME Shape, NEW r, store' \in Inserted(r), r.id \notin Ids(store),
         UniqueIds(store), NEW p, p.next \in Nat, PagerOK(p, store)
  PROVE  PagerOK(p, store')
<1>1. PICK k \in 1 .. Len(store) + 1 :
        /\ Len(store') = Len(store) + 1
        /\ \A i \in 1 .. Len(store) + 1 :
             store'[i] = IF i < k THEN store[i] ELSE IF i = k THEN r ELSE store[i - 1]
  BY InsertedElements
<1>2. /\ Len(store) \in Nat /\ DOMAIN store = 1 .. Len(store)
      /\ DOMAIN store' = 1 .. Len(store) + 1
  BY <1>1, InsertedElements DEF Shape
<1>3. Ids(store') = Ids(store) \cup {r.id}
  BY InsertedIds DEF UniqueIds
<1>4. IsFiniteSet(Ids(store)) /\ IsFiniteSet(Ids(store'))
  BY IdsFinite, InsertedElements DEF Shape
<1>5. Ahead(p.next, store) \subseteq Ahead(p.next, store')
  <2>1. ASSUME NEW i \in p.next + 1 .. Len(store) PROVE store[i].id \in Ahead(p.next, store')
    <3>1. CASE i < k
      <4>1. i \in p.next + 1 .. Len(store') /\ store'[i] = store[i]
        BY <1>1, <1>2, <3>1
      <4>2. QED
        BY <4>1 DEF Ahead
    <3>2. CASE ~(i < k)
      <4>1. i + 1 \in p.next + 1 .. Len(store') /\ store'[i + 1] = store[i]
        BY <1>1, <1>2, <3>2
      <4>2. QED
        BY <4>1 DEF Ahead
    <3>3. QED
      BY <3>1, <3>2
  <2>2. QED
    BY <2>1 DEF Ahead
<1>6. p.next = 0 \/ Ahead(p.next, store') \subseteq Ahead(p.next, store) \cup {r.id, store[p.next].id}
  <2>1. ASSUME NEW i \in p.next + 1 .. Len(store'), p.next # 0
        PROVE  store'[i].id \in Ahead(p.next, store) \cup {r.id, store[p.next].id}
    <3>0. i \in 1 .. Len(store) + 1
      BY <1>1, <1>2
    <3>1. CASE i < k
      <4>1. i \in p.next + 1 .. Len(store) /\ store'[i] = store[i]
        BY <1>1, <1>2, <3>0, <3>1
      <4>2. QED
        BY <4>1 DEF Ahead
    <3>2. CASE i = k
      BY <1>1, <3>0, <3>2
    <3>3. CASE i > k
      <4>1. store'[i] = store[i - 1]
        BY <1>1, <1>2, <3>0, <3>3
      <4>2. i - 1 = p.next \/ i - 1 \in p.next + 1 .. Len(store)
        BY <1>1, <1>2
      <4>3. QED
        BY <4>1, <4>2 DEF Ahead
    <3>4. QED
      BY <1>2, <3>0, <3>1, <3>2, <3>3
  <2>2. QED
    BY <2>1 DEF Ahead
<1>7. p.seen \subseteq Ids(store) /\ p.snap \subseteq Ids(store) /\ p.repeats \in Nat
      /\ (p.next = 0 => p.seen = {} /\ p.snap = {} /\ p.repeats = 0)
      /\ p.repeats + Cardinality(Ahead(p.next, store) \cap p.seen) <= Cardinality(Ids(store) \ p.snap)
  BY DEF PagerOK
<1>8. p.repeats + Cardinality(Ahead(p.next, store') \cap p.seen) <= Cardinality(Ids(store') \ p.snap)
  <2> DEFINE R == Ids(store) \ p.snap
             S == Ahead(p.next, store) \cap p.seen
             T == Ahead(p.next, store') \cap p.seen
  <2>1. IsFiniteSet(R) /\ IsFiniteSet(p.seen) /\ IsFiniteSet(S) /\ IsFiniteSet(T)
    BY <1>4, <1>7, FS_Subset
  <2>2. Cardinality(Ids(store') \ p.snap) = Cardinality(R) + 1
    <3>1. Ids(store') \ p.snap = R \cup {r.id} /\ r.id \notin R
      BY <1>3, <1>7
    <3>2. QED
      BY <2>1, <3>1, FS_AddElement
  <2>3. CASE p.next = 0
    <3>1. T = {} /\ p.repeats = 0
      BY <1>7, <2>3
    <3>2. Cardinality(T) = 0 /\ Cardinality(R) \in Nat
      BY <2>1, <3>1, FS_EmptySet, FS_CardinalityType
    <3> HIDE DEF R, T
    <3>3. p.repeats + Cardinality(T) <= Cardinality(R) + 1
      BY <3>1, <3>2
    <3>4. QED
      BY <2>2, <3>3 DEF T
  <2>4. CASE p.next # 0
    <3>1. T \subseteq S \cup {store[p.next].id}
      BY <1>6, <1>7, <2>4
    <3>2. /\ IsFiniteSet(S \cup {store[p.next].id})
          /\ Cardinality(S \cup {store[p.next].id}) <= Cardinality(S) + 1
      <4>1. Cardinality(S) \in Nat
        BY <2>1, FS_CardinalityType
      <4>2. /\ IsFiniteSet(S \cup {store[p.next].id})
            /\ Cardinality(S \cup {store[p.next].id}) =
                 IF store[p.next].id \in S THEN Cardinality(S) ELSE Cardinality(S) + 1
        BY <2>1, FS_AddElement
      <4> HIDE DEF S
      <4>3. QED
        BY <4>1, <4>2
    <3>3. Cardinality(T) <= Cardinality(S \cup {store[p.next].id})
      BY <3>1, <3>2, FS_Subset
    <3>4. Cardinality(T) \in Nat /\ Cardinality(S) \in Nat /\ Cardinality(R) \in Nat
          /\ Cardinality(S \cup {store[p.next].id}) \in Nat
      BY <2>1, <3>2, FS_CardinalityType
    <3>5. p.repeats + Cardinality(S) <= Cardinality(R)
      BY <1>7
    <3> HIDE DEF R, S, T
    <3>6. p.repeats + Cardinality(T) <= Cardinality(R) + 1
      BY <1>7, <3>2, <3>3, <3>4, <3>5
    <3>7. QED
      BY <2>2, <3>6 DEF T
  <2>5. QED
    BY <2>3, <2>4
<1>9. p.next <= Len(store')
  BY <1>1, <1>2 DEF PagerOK
<1>10. Unbroken(p, store')
  <2>1. ASSUME NEW i \in DOMAIN store', NEW j \in DOMAIN store', i < j,
               store'[i].id \in p.snap, store'[j].id \in p.seen
        PROVE  store'[i].id \in p.seen
    <3>1. i # k /\ j # k
      BY <1>1, <1>2, <1>7, <2>1
    <3>2. PICK x \in DOMAIN store : x = (IF i < k THEN i ELSE i - 1) /\ store'[i] = store[x]
      BY <1>1, <1>2, <3>1
    <3>3. PICK y \in DOMAIN store : y = (IF j < k THEN j ELSE j - 1) /\ store'[j] = store[y]
      BY <1>1, <1>2, <3>1
    <3>4. x < y
      BY <1>2, <2>1, <3>1, <3>2, <3>3
    <3>5. Unbroken(p, store)
      BY DEF PagerOK
    <3>6. QED
      BY <2>1, <3>2, <3>3, <3>4, <3>5 DEF Unbroken
  <2>2. QED
    BY <2>1 DEF Unbroken
<1>11. QED
  BY <1>3, <1>5, <1>7, <1>8, <1>9, <1>10 DEF PagerOK

(* ListPage: the page a client reads, and what it has read with it.         *)
Page(p) == SubSeq(store, p.next + 1, Least(p.next + p.limit, Len(store)))
Turned(p, q) ==
  /\ q.open = (Len(Page(p)) = p.limit) /\ q.next = p.next + Len(Page(p))
  /\ q.seen = p.seen \cup Ids(Page(p))
  /\ q.repeats = p.repeats + Cardinality(Ids(Page(p)) \cap p.seen)
  /\ q.snap = IF p.next = 0 THEN Ids(store) ELSE p.snap

LEMMA TurnedKeepsPager ==
  ASSUME Shape, UniqueIds(store), NEW p, p.next \in Nat, p.limit \in Nat \ {0}, PagerOK(p, store),
         NEW q, Turned(p, q)
  PROVE  PagerOK(q, store)
<1>1. store \in Seq(ToSet(store)) /\ Len(store) \in Nat /\ IsFiniteSet(Ids(store))
  BY IdsFinite DEF Shape
<1>2. PICK n, l, L : /\ n \in Nat /\ l \in Nat /\ l > 0 /\ L \in Nat
                     /\ n = p.next /\ l = p.limit /\ L = Len(store) /\ n <= L
  BY <1>1 DEF PagerOK
<1>3. PICK m : m = Least(n + l, L)
  OBVIOUS
<1>4. m \in Nat /\ n <= m /\ m <= L /\ m <= n + l /\ (m < n + l => m = L)
  BY <1>2, <1>3 DEF Least
<1>5. PICK page : page = SubSeq(store, n + 1, m)
  OBVIOUS
<1>6. /\ Len(page) \in Nat /\ n + Len(page) = m /\ m <= Len(store)
      /\ Len(page) # l => Ahead(m, store) = {}
      /\ Ids(page) \subseteq Ids(store) /\ Ahead(m, store) \subseteq Ids(store)
      /\ Ahead(n, store) = Ids(page) \cup Ahead(m, store)
      /\ Ids(page) \cap Ahead(m, store) = {}
      /\ Ids(store) = Ahead(0, store)
      /\ m = 0 => Ids(store) = {}
  <2>1. Splits(store, n, l, m, page)
    BY <1>1, <1>2, <1>4, <1>5, PageParts
  <2>2. QED
    BY <1>2, <2>1 DEF Splits
<1>7. page = Page(p)
  BY <1>2, <1>3, <1>5 DEF Page
<1>8. /\ q.next = m /\ q.open = (Len(page) = l) /\ q.seen = p.seen \cup Ids(page)
      /\ q.repeats = p.repeats + Cardinality(Ids(page) \cap p.seen)
      /\ q.snap = IF n = 0 THEN Ids(store) ELSE p.snap
  BY <1>2, <1>6, <1>7 DEF Turned
<1>9. /\ p.seen \subseteq Ids(store) /\ p.snap \subseteq Ids(store) /\ p.repeats \in Nat
      /\ n = 0 => p.seen = {} /\ p.snap = {} /\ p.repeats = 0
      /\ p.repeats + Cardinality(Ahead(n, store) \cap p.seen) <= Cardinality(Ids(store) \ p.snap)
      /\ p.snap \subseteq p.seen \cup Ahead(n, store)
  BY <1>2 DEF PagerOK
<1> DEFINE A == Ids(page) \cap p.seen
           B == Ahead(m, store) \cap p.seen
<1>10. Ahead(m, store) \cap q.seen = B
  BY <1>6, <1>8
<1>11. /\ Cardinality(Ahead(n, store) \cap p.seen) = Cardinality(A) + Cardinality(B)
       /\ Cardinality(A) \in Nat /\ Cardinality(B) \in Nat
  <2>1. Ahead(n, store) \cap p.seen = A \cup B /\ A \cap B = {}
    BY <1>6
  <2>2. A \in SUBSET Ids(store) /\ B \in SUBSET Ids(store)
    BY <1>6
  <2>3. IsFiniteSet(A) /\ IsFiniteSet(B)
    BY <1>1, <2>2, FS_Subset
  <2>4. QED
    BY <2>1, <2>3, PartsAdd, FS_CardinalityType
<1>12. q.seen \subseteq Ids(store) /\ q.snap \subseteq Ids(store)
  BY <1>6, <1>8, <1>9
<1>13. m = 0 => q.seen = {} /\ q.snap = {} /\ q.repeats = 0
  <2>1. ASSUME m = 0 PROVE n = 0 /\ Ids(store) = {} /\ Ids(page) = {}
    <3>1. n = 0
      BY <1>2, <1>4, <2>1
    <3>2. QED
      BY <1>6, <2>1, <3>1
  <2>2. Cardinality({}) = 0
    BY FS_EmptySet
  <2>3. ASSUME m = 0 PROVE q.seen = {} /\ q.snap = {} /\ A = {}
    BY <1>8, <1>9, <2>1, <2>3
  <2>4. ASSUME m = 0 PROVE q.repeats = 0
    <3>1. p.repeats = 0
      BY <1>9, <2>1, <2>4
    <3>2. Cardinality(A) = 0
      BY <2>2, <2>3, <2>4
    <3>3. q.repeats = p.repeats + Cardinality(A)
      BY <1>8
    <3> HIDE DEF A
    <3>4. QED
      BY <3>1, <3>2, <3>3
  <2>5. QED
    BY <2>3, <2>4
<1>14. q.snap \subseteq q.seen \cup Ahead(m, store)
  BY <1>6, <1>8, <1>9
<1>15. ~q.open => q.snap \subseteq q.seen
  BY <1>6, <1>8, <1>14
<1>16. q.repeats \in Nat
  BY <1>8, <1>9, <1>11
<1>17. q.repeats + Cardinality(B) <= Cardinality(Ids(store) \ q.snap)
  <2>1. CASE n = 0
    <3>1. A = {} /\ B = {} /\ Cardinality({}) = 0
      BY <1>9, <2>1, FS_EmptySet
    <3>2. Ids(store) \ q.snap = {}
      BY <1>8, <2>1
    <3>3. Cardinality(A) = 0 /\ Cardinality(B) = 0 /\ Cardinality(Ids(store) \ q.snap) = 0
      BY <3>1, <3>2
    <3>4. p.repeats = 0 /\ q.repeats = p.repeats + Cardinality(A)
      BY <1>8, <1>9, <2>1
    <3> HIDE DEF A, B
    <3>5. QED
      BY <3>3, <3>4
  <2>2. CASE n # 0
    <3>1. q.repeats = p.repeats + Cardinality(A) /\ q.snap = p.snap
      BY <1>8, <2>2
    <3>2. Cardinality(Ids(store) \ p.snap) \in Nat
      <4>1. IsFiniteSet(Ids(store) \ p.snap)
        BY <1>1, FS_Subset
      <4>2. QED
        BY <4>1, FS_CardinalityType
    <3>3. PICK a, b, r, k :
            /\ a \in Nat /\ b \in Nat /\ r \in Nat /\ k \in Nat
            /\ a = Cardinality(A) /\ b = Cardinality(B)
            /\ r = p.repeats /\ k = Cardinality(Ids(store) \ p.snap)
      BY <1>9, <1>11, <3>2
    <3>4. r + (a + b) <= k
      BY <1>9, <1>11, <3>3
    <3>5. (r + a) + b <= k
      BY <3>3, <3>4
    <3>6. QED
      BY <3>1, <3>3, <3>5
  <2>3. QED
    BY <2>1, <2>2
<1>18. q.next <= Len(store)
  BY <1>6, <1>8
<1>19. Unbroken(q, store)
  <2>1. ASSUME NEW i \in DOMAIN store, NEW j \in DOMAIN store, i < j,
               store[i].id \in q.snap, store[j].id \in q.seen, store[i].id \notin q.seen
        PROVE  FALSE
    <3>1. i \in Nat /\ j \in Nat /\ i >= 1 /\ i <= L /\ j <= L
      BY <1>1, <1>2
    <3>2. m + 1 <= i
      <4>1. store[i].id \in Ahead(m, store)
        BY <1>14, <2>1
      <4>2. PICK x \in m + 1 .. Len(store) : store[i].id = store[x].id
        BY <4>1 DEF Ahead
      <4>3. x \in DOMAIN store
        BY <1>1, <1>4
      <4>4. x = i
        BY <4>2, <4>3 DEF UniqueIds
      <4>5. QED
        BY <1>1, <1>4, <4>4
    <3>3. store[j].id \in Ahead(m, store)
      <4>1. j \in m + 1 .. Len(store)
        BY <1>2, <1>4, <2>1, <3>1, <3>2
      <4>2. QED
        BY <4>1 DEF Ahead
    <3>4. store[j].id \in p.seen
      BY <1>6, <1>8, <2>1, <3>3
    <3>5. n # 0 /\ store[i].id \in p.snap
      BY <1>8, <1>9, <2>1, <3>4
    <3>6. Unbroken(p, store)
      BY DEF PagerOK
    <3>7. store[i].id \in p.seen
      BY <2>1, <3>4, <3>5, <3>6 DEF Unbroken
    <3>8. QED
      BY <1>8, <2>1, <3>7
  <2>2. QED
    BY <2>1 DEF Unbroken
<1>20. QED
  BY <1>8, <1>10, <1>12, <1>13, <1>14, <1>15, <1>16, <1>17, <1>18, <1>19 DEF PagerOK

-----------------------------------------------------------------------------
(* A step inserts a correlation with a number of its own, or none; only     *)
(* ListPage, a failed read and a new list change what a client has read.    *)
Restarted(q) ==
  /\ q.next = 0 /\ q.seen = {} /\ q.snap = {} /\ q.repeats = 0 /\ q.open
Unreadable(p, q) ==
  /\ q.next = p.next /\ q.seen = p.seen /\ q.snap = p.snap /\ q.repeats = p.repeats
  /\ ~q.clean

LEMMA HandlerReads ==
  ASSUME TypeInv, NEW c \in Clients, Handler(c)
  PROVE  \/ pager' = pager
         \/ /\ store' = store /\ \A d \in Clients \ {c} : pager'[d] = pager[d]
            /\ Turned(pager[c], pager'[c]) \/ Unreadable(pager[c], pager'[c])
<1> USE DEF weaviate
<1>1. CASE \/ CacheHit(c) \/ CacheMiss(c) \/ GetFails(c)
           \/ QueryGraph(c) \/ QuerySimilar(c) \/ QueryPatterns(c) \/ QueryFails(c)
           \/ CacheSet(c) \/ SetFails(c)
           \/ FetchSignals(c) \/ FetchFails(c) \/ PersistResult(c) \/ PersistFails(c)
           \/ StoreFeedback(c) \/ FeedbackFails(c) \/ ReadsNothing(c)
  BY <1>1 DEF CacheHit, CacheMiss, GetFails, QueryGraph, QuerySimilar, QueryPatterns,
     QueryFails, CacheSet, SetFails, FetchSignals, FetchFails, PersistResult, PersistFails,
     StoreFeedback, FeedbackFails, ReadsNothing
<1>2. DOMAIN pager = Clients /\ DOMAIN pager[c] = PagerFields
  BY DEF TypeInv, Shape
<1>3. CASE ListPage(c)
  <2> DEFINE p == pager[c]
             page == Page(p)
  <2>1. pager' = [pager EXCEPT ![c] =
          [p EXCEPT !.open = Len(page) = p.limit, !.next = AfterPage(@, page),
                    !.seen = @ \cup Ids(page),
                    !.repeats = @ + Cardinality(Ids(page) \cap p.seen),
                    !.snap = IF p.next = 0 THEN Ids(store) ELSE @]]
    BY <1>3 DEF ListPage, Page
  <2>2. pager'[c] =
          [p EXCEPT !.open = Len(page) = p.limit, !.next = AfterPage(@, page),
                    !.seen = @ \cup Ids(page),
                    !.repeats = @ + Cardinality(Ids(page) \cap p.seen),
                    !.snap = IF p.next = 0 THEN Ids(store) ELSE @]
    BY <1>2, <2>1
  <2>3. Turned(p, pager'[c])
    <3> HIDE DEF page
    <3>1. /\ pager'[c].open = (Len(page) = p.limit)
          /\ pager'[c].next = p.next + Len(page)
      BY <1>2, <2>2 DEF PagerFields, AfterPage
    <3>2. /\ pager'[c].seen = p.seen \cup Ids(page)
          /\ pager'[c].repeats = p.repeats + Cardinality(Ids(page) \cap p.seen)
      BY <1>2, <2>2 DEF PagerFields
    <3>3. pager'[c].snap = IF p.next = 0 THEN Ids(store) ELSE p.snap
      BY <1>2, <2>2 DEF PagerFields
    <3>4. QED
      BY <3>1, <3>2, <3>3 DEF Turned, page
  <2>4. QED
    BY <1>2, <1>3, <2>1, <2>3 DEF ListPage
<1>4. CASE ListFails(c)
  <2>1. CASE pager' = pager
    BY <2>1
  <2>2. CASE pager' = [pager EXCEPT ![c].open = FALSE, ![c].clean = FALSE]
    <3>1. Unreadable(pager[c], pager'[c]) /\ \A d \in Clients \ {c} : pager'[d] = pager[d]
      BY <1>2, <2>2 DEF PagerFields, Unreadable
    <3>2. QED
      BY <1>4, <3>1 DEF ListFails
  <2>3. QED
    BY <1>4, <2>1, <2>2 DEF ListFails
<1>5. CASE ListReadsNothing(c)
  <2>1. Unreadable(pager[c], pager'[c]) /\ \A d \in Clients \ {c} : pager'[d] = pager[d]
    BY <1>2, <1>5 DEF ListReadsNothing, PagerFields, Unreadable
  <2>2. QED
    BY <1>5, <2>1 DEF ListReadsNothing
<1>6. QED
  BY <1>1, <1>3, <1>4, <1>5 DEF Handler

LEMMA HandlerStores ==
  ASSUME TypeInv, IdInv, NEW c \in Clients, Effect(c)
  PROVE  store' = store \/ \E r : store' \in Inserted(r) /\ r.id \notin Ids(store)
<1>1. CASE call[c].at = "persist" /\ store' \in Inserted(Record(c))
  <2>1. call[c].id # 0 /\ Record(c).id = call[c].id
    BY <1>1, CallTyped DEF WellFormed, Record
  <2>2. QED
    BY <1>1, <2>1 DEF IdInv
<1>2. QED
  BY <1>1 DEF Effect, Told, Stays

LEMMA PagerStep ==
  ASSUME TypeInv, CacheInv, IdInv, PagerInv, [Next]_vars
  PROVE  PagerInv'
<1> USE DEF weaviate, bookkeeping
<1>1. UniqueIds(store)
  BY DEF IdInv, UniqueIds
<1>2. /\ DOMAIN pager = Clients
      /\ \A c \in Clients : pager[c].next \in Nat /\ pager[c].limit \in Nat \ {0}
      /\ \A c \in Clients : DOMAIN pager[c] = PagerFields
      /\ \A c \in Clients : PagerOK(pager[c], store)
      /\ Shape
  BY DEF TypeInv, TypeOK, Shape, PagerInv
<1>3. ASSUME NEW c \in Clients, Handler(c) PROVE PagerInv'
  <2>1. CASE pager' = pager
    <3>1. store' = store \/ \E r : store' \in Inserted(r) /\ r.id \notin Ids(store)
      BY <1>3, HandlerEffect, HandlerStores
    <3>2. CASE store' = store
      BY <1>2, <2>1, <3>2 DEF PagerInv
    <3>3. ASSUME NEW r, store' \in Inserted(r), r.id \notin Ids(store) PROVE PagerInv'
      <4>1. ASSUME NEW d \in Clients PROVE PagerOK(pager[d], store')
        BY <1>1, <1>2, <3>3, InsertedKeepsPager
      <4>2. QED
        BY <2>1, <4>1 DEF PagerInv
    <3>4. QED
      BY <3>1, <3>2, <3>3
  <2>2. CASE /\ store' = store /\ \A d \in Clients \ {c} : pager'[d] = pager[d]
             /\ Turned(pager[c], pager'[c]) \/ Unreadable(pager[c], pager'[c])
    <3>1. PagerOK(pager'[c], store)
      <4>1. CASE Turned(pager[c], pager'[c])
        BY <1>1, <1>2, <4>1, TurnedKeepsPager
      <4>2. CASE Unreadable(pager[c], pager'[c])
        BY <1>2, <4>2 DEF Unreadable, PagerOK, Unbroken
      <4>3. QED
        BY <2>2, <4>1, <4>2
    <3>2. QED
      BY <1>2, <2>2, <3>1 DEF PagerInv
  <2>3. QED
    BY <1>3, <2>1, <2>2, HandlerReads
<1>4. ASSUME NEW c \in Clients, ListCorrelations(c) PROVE PagerInv'
  <2>1. PICK size : pager' = [pager EXCEPT ![c] = [Closed EXCEPT !.open = TRUE,
                                                                !.limit = PageLimit(size)]]
    BY <1>4 DEF ListCorrelations
  <2>2. Restarted(pager'[c]) /\ \A d \in Clients \ {c} : pager'[d] = pager[d]
    BY <1>2, <2>1 DEF Restarted, Closed
  <2>3. PagerOK(pager'[c], store)
    <3>1. store \in Seq(ToSet(store)) /\ Len(store) \in Nat /\ IsFiniteSet(Ids(store))
      BY <1>2, IdsFinite DEF Shape
    <3>2. Cardinality(Ids(store)) \in Nat /\ Cardinality({}) = 0
      BY <3>1, FS_CardinalityType, FS_EmptySet
    <3>3. pager'[c].seen = {} /\ pager'[c].snap = {}
      BY <2>2 DEF Restarted
    <3>4. /\ Ahead(pager'[c].next, store) \cap pager'[c].seen = {}
          /\ Ids(store) \ pager'[c].snap = Ids(store)
      BY <3>3
    <3>5. pager'[c].next = 0 /\ pager'[c].repeats = 0 /\ pager'[c].open
      BY <2>2 DEF Restarted
    <3>6. pager'[c].repeats + Cardinality(Ahead(pager'[c].next, store) \cap pager'[c].seen)
            <= Cardinality(Ids(store) \ pager'[c].snap)
      <4>1. PICK n : n \in Nat /\ n = Cardinality(Ids(store))
        BY <3>2
      <4>2. Cardinality(Ids(store) \ pager'[c].snap) = n
        BY <3>4, <4>1
      <4>3. Cardinality(Ahead(pager'[c].next, store) \cap pager'[c].seen) = 0
        BY <3>2, <3>4
      <4>4. QED
        BY <3>5, <4>1, <4>2, <4>3
    <3>7. pager'[c].next <= Len(store)
      BY <3>1, <3>5
    <3>8. QED
      BY <3>3, <3>5, <3>6, <3>7 DEF PagerOK, Unbroken
  <2>4. store' = store
    BY <1>4 DEF ListCorrelations
  <2>5. QED
    BY <1>2, <2>2, <2>3, <2>4 DEF PagerInv
<1>5. CASE UNCHANGED <<store, pager>>
  BY <1>2, <1>5 DEF PagerInv
<1>6. QED
  <2>1. ASSUME NEW c \in Clients,
               \/ InvestigateIncident(c) \/ GetPatterns(c) \/ SubmitFeedback(c) \/ NextPage(c)
               \/ GiveUp(c)
        PROVE  PagerInv'
    BY <1>5, <2>1 DEF InvestigateIncident, GetPatterns, SubmitFeedback, NextPage, GiveUp
  <2>2. ASSUME \/ \E k \in Keys : Expire(k)
               \/ \E cmd \in late : ExecuteLate(cmd)
               \/ \E p \in Patterns : StorePattern(p)
               \/ Signal \/ Drained \/ GraceTimeout \/ Exit
               \/ UNCHANGED vars
        PROVE  PagerInv'
    BY <1>5, <2>2 DEF Expire, ExecuteLate, StorePattern, Signal, Drained, GraceTimeout, Exit, vars
  <2>3. QED
    BY <1>3, <1>4, <2>1, <2>2 DEF Next

(* ListCorrelations (weaviate_repo.go:311-475): correlations are paged by   *)
(* offset while others are stored, so pages shift.  Of those there were when *)
(* it began, a client never misses one that is newer than one it has seen,  *)
(* also when a read failed or was refused and the list ends early; else it  *)
(* has seen all of them after the last page, for any sizes of pages and     *)
(* number of handlers.  It sees at most as many twice as were stored since. *)
THEOREM PagesCover == Spec => []PagesCoverSnapshot
<1>1. Init => PagerInv
  <2> SUFFICES ASSUME Init PROVE PagerInv
    OBVIOUS
  <2>1. store \in Seq(ToSet(store)) /\ Len(store) \in Nat /\ IsFiniteSet(Ids(store))
    BY InvInit, IdsFinite DEF Inv, TypeInv, Shape
  <2>2. Cardinality(Ids(store)) \in Nat /\ Cardinality({}) = 0
    BY <2>1, FS_CardinalityType, FS_EmptySet
  <2>3. ASSUME NEW c \in Clients PROVE PagerOK(pager[c], store)
    <3>1. /\ pager[c].next = 0 /\ pager[c].seen = {} /\ pager[c].snap = {}
          /\ pager[c].repeats = 0
      BY DEF Init, Closed
    <3>2. Ahead(pager[c].next, store) \cap pager[c].seen = {}
          /\ Ids(store) \ pager[c].snap = Ids(store)
      BY <3>1
    <3>3. pager[c].repeats + Cardinality(Ahead(pager[c].next, store) \cap pager[c].seen)
            <= Cardinality(Ids(store) \ pager[c].snap)
      BY <2>2, <3>1, <3>2
    <3>4. pager[c].next <= Len(store)
      BY <2>1, <3>1
    <3>5. QED
      BY <3>1, <3>3, <3>4 DEF PagerOK, Unbroken
  <2>4. QED
    BY <2>3 DEF PagerInv
<1>2. Inv /\ PagerInv /\ [Next]_vars => PagerInv'
  BY PagerStep DEF Inv
<1>3. Inv /\ PagerInv => PagesCoverSnapshot
  <2> SUFFICES ASSUME Inv, PagerInv, NEW c \in Clients
               PROVE  /\ Unbroken(pager[c], store)
                      /\ ~pager[c].open /\ pager[c].clean => pager[c].snap \subseteq pager[c].seen
                      /\ pager[c].repeats <= Cardinality(Ids(store) \ pager[c].snap)
    BY DEF PagesCoverSnapshot
  <2>1. PagerOK(pager[c], store) /\ IsFiniteSet(Ids(store))
    BY IdsFinite DEF PagerInv, Inv, TypeInv, Shape
  <2>2. pager[c].seen \subseteq Ids(store)
    BY <2>1 DEF PagerOK
  <2>3. IsFiniteSet(pager[c].seen)
    BY <2>1, <2>2, FS_Subset
  <2>4. PICK k, r, n : /\ k = Cardinality(Ahead(pager[c].next, store) \cap pager[c].seen)
                       /\ r = pager[c].repeats /\ n = Cardinality(Ids(store) \ pager[c].snap)
                       /\ k \in Nat /\ r \in Nat /\ n \in Nat
    <3>1. IsFiniteSet(Ahead(pager[c].next, store) \cap pager[c].seen)
      BY <2>3, FS_Subset
    <3>2. IsFiniteSet(Ids(store) \ pager[c].snap)
      BY <2>1, FS_Subset
    <3>3. QED
      BY <2>1, <3>1, <3>2, FS_CardinalityType DEF PagerOK
  <2>5. r + k <= n
    BY <2>1, <2>4 DEF PagerOK
  <2>6. r <= n
    BY <2>4, <2>5
  <2>7. QED
    BY <2>1, <2>4, <2>6 DEF PagerOK
<1>4. QED
  BY InvInit, InvStep, <1>1, <1>2, <1>3, PTL DEF Spec

-----------------------------------------------------------------------------
(* Advice.  The fallback incidents of a failed read carry some; a rule pack *)
(* or an older record that gave exactly the same could not be told from it. *)
Fallback == SyntheticIncidents[1].recs
FallbackOnlyMadeUp ==
  /\ \A i \in DOMAIN OldRecords : OldRecords[i].recs # Fallback
  /\ \A req, anchors, timeline : recommendFromRules(req, anchors, timeline) # Fallback

AdviceInv ==
  ~outage => /\ \A x \in ToSet(store) : x.recs # Fallback
             /\ \A c \in Clients : At(c, "persist") => call[c].result[1].out.recs # Fallback

(* The advice of an analysis is that of the first similar incident or that  *)
(* of the rules.                                                            *)
LEMMA AnalyzeAdvises ==
  ASSUME FallbackOnlyMadeUp, NEW req, NEW sig, NEW graph, NEW similar,
         similar # <<>> => similar[1].recs # Fallback
  PROVE  Analyze(req, sig, graph, similar).recs # Fallback
<1>1. PICK service, anomalies : Analyze(req, sig, graph, similar)
        = Ordering(req, service, anomalies, graph, similar)
  BY DEF Analyze
<1>2. PICK anchors, timeline, cause : Analyze(req, sig, graph, similar)
        = Concluding(req, service, anomalies, anchors, timeline, cause, graph, similar)
  BY <1>1 DEF Ordering, Judging
<1>3. Analyze(req, sig, graph, similar).recs
        = fetchRecommendations(req, anchors, timeline, similar)
  <2>1. PICK root, confidence, affected, shown : Analyze(req, sig, graph, similar)
          = [rootCause |-> root, confidence |-> confidence, affected |-> affected,
             recs |-> fetchRecommendations(req, anchors, timeline, similar),
             anchors |-> anchors, timeline |-> shown]
    BY <1>2, Zenon DEF Concluding
  <2>2. QED
    BY <2>1
<1>4. QED
  BY <1>3 DEF fetchRecommendations, FallbackOnlyMadeUp

LEMMA GoOnAdvises ==
  ASSUME FallbackOnlyMadeUp, TypeInv, NEW c \in Clients, NEW v, GoOn(c, v),
         call[c].key = "similar" /\ ~call[c].gone /\ v # <<>> => v[1].recs # Fallback
  PROVE  call'[c].at = "persist" => call'[c].result[1].out.recs # Fallback
<1>1. WellFormed(call[c]) /\ DOMAIN call = Clients
  BY CallTyped
<1>2. CASE Continues(c, v)
  <2>1. call'[c].at = "signals"
    BY <1>1, <1>2 DEF Continues, WellFormed, Fields
  <2>2. QED
    BY <2>1
<1>3. CASE call[c].key = "similar" /\ ~call[c].gone /\ Concludes(c, v)
  <2>1. call' = [call EXCEPT ![c].at = "persist", ![c].val = <<>>,
                             ![c].result = <<[out |-> Analysed(c, v), stamp |-> stamp']>>]
    BY <1>3 DEF Concludes
  <2>2. PICK out : out = Analysed(c, v)
    OBVIOUS
  <2>3. call'[c].result = <<[out |-> out, stamp |-> stamp']>>
    BY <1>1, <2>1, <2>2 DEF WellFormed, Fields
  <2>4. call'[c].result[1].out = out
    BY <2>3
  <2>5. out.recs # Fallback
    BY <1>3, <2>2, AnalyzeAdvises DEF Analysed
  <2>6. QED
    BY <2>4, <2>5
<1>4. CASE Answer(c, "ok")
  BY <1>1, <1>4 DEF Answer, Idle
<1>5. QED
  BY <1>2, <1>3, <1>4 DEF GoOn

(* What the cache answers, or is sent, comes from the store.                *)
LEMMA GoodAdvice ==
  ASSUME NEW v, Good("similar", v), AdviceInv, ~outage
  PROVE  v # <<>> /\ v[1].recs # Fallback
<1>1. v[1] \in ToSet(v) /\ v # <<>>
  BY DEF Good, ToSet
<1>2. QED
  BY <1>1 DEF Good, AdviceInv

LEMMA HandlerAdvises ==
  ASSUME FallbackOnlyMadeUp, TypeInv, CacheInv, AdviceInv, NEW c \in Clients, Handler(c)
  PROVE  /\ outage => outage'
         /\ ~outage' /\ call'[c].at = "persist" => call'[c].result[1].out.recs # Fallback
<1> DEFINE Advises == /\ outage => outage'
                      /\ ~outage' /\ call'[c].at = "persist"
                           => call'[c].result[1].out.recs # Fallback
<1> SUFFICES Advises
  OBVIOUS
<1>1. WellFormed(call[c]) /\ DOMAIN call = Clients
  BY CallTyped
<1>2. ASSUME outage' = outage, NEW v, GoOn(c, v), v # <<>>, Good(call[c].key, v)
      PROVE  Advises
  <2>1. CASE outage
    BY <1>2, <2>1
  <2>2. CASE ~outage /\ call[c].key = "similar"
    <3>1. v[1].recs # Fallback
      BY <1>2, <2>2, GoodAdvice
    <3>2. QED
      BY <1>2, <3>1, GoOnAdvises
  <2>3. CASE call[c].key # "similar"
    BY <1>2, <2>3, GoOnAdvises
  <2>4. QED
    BY <2>1, <2>2, <2>3
<1>3. ASSUME outage' = outage, call'[c].at # "persist" PROVE Advises
  BY <1>3
<1>4. ASSUME outage' = outage, Again(c) \/ ToQuery(c), call[c].at \in {"get", "set"} PROVE Advises
  <2>1. call'[c].at # "persist"
    BY <1>1, <1>4 DEF Again, ToQuery, WellFormed, Fields
  <2>2. QED
    BY <1>3, <1>4, <2>1
<1>5. ASSUME NEW o, Answer(c, o) PROVE call'[c].at # "persist"
  BY <1>1, <1>5 DEF Answer, Idle
<1>6. ASSUME outage' = outage, NEW v, NEW keep, ToSetOrGoOn(c, v, keep),
             call[c].key = "similar" => keep \/ v = <<>>
      PROVE  Advises
  <2>1. CASE keep
    <3>1. call'[c].at = "set"
      BY <1>1, <1>6, <2>1 DEF ToSetOrGoOn, WellFormed, Fields
    <3>2. QED
      BY <1>3, <1>6, <3>1
  <2>2. CASE ~keep
    BY <1>6, <2>2, GoOnAdvises DEF ToSetOrGoOn
  <2>3. QED
    BY <2>1, <2>2
<1>7. CASE CacheHit(c)
  <2>1. PICK v \in ToSet(cache[call[c].key]) : GoOn(c, v)
    BY <1>7 DEF CacheHit
  <2>2. call[c].key \in Keys
    BY <1>1, <1>7 DEF CacheHit, At, WellFormed, HandlerOK
  <2>3. Good(call[c].key, v)
    <3>1. CASE cache[call[c].key] = <<>>
      BY <2>1, <3>1 DEF ToSet
    <3>2. CASE \E u : cache[call[c].key] = <<u>>
      <4>1. PICK u : cache[call[c].key] = <<u>>
        BY <3>2
      <4>2. v = u
        BY <2>1, <4>1 DEF ToSet
      <4>3. QED
        BY <2>2, <4>1, <4>2 DEF CacheInv
    <3>3. QED
      BY <2>2, <3>1, <3>2 DEF TypeInv, Shape
  <2>4. outage' = outage
    BY <1>7 DEF CacheHit
  <2>5. CASE call[c].key # "similar"
    BY <2>1, <2>4, <2>5, GoOnAdvises
  <2>6. CASE call[c].key = "similar"
    BY <1>2, <2>1, <2>3, <2>4, <2>6 DEF Good
  <2>7. QED
    BY <2>5, <2>6
<1>8. CASE CacheMiss(c) \/ GetFails(c)
  BY <1>4, <1>8 DEF CacheMiss, GetFails, At
<1>9. CASE QueryGraph(c)
  <2>1. PICK g : ToSetOrGoOn(c, g, TRUE)
    BY <1>9 DEF QueryGraph
  <2>2. QED
    BY <1>6, <1>9, <2>1 DEF QueryGraph
<1>10. CASE QuerySimilar(c)
  <2>1. PICK r : ToSetOrGoOn(c, r, r # <<>>)
    BY <1>10 DEF QuerySimilar
  <2>2. QED
    BY <1>6, <1>10, <2>1 DEF QuerySimilar
<1>11. CASE QueryPatterns(c)
  BY <1>6, <1>11 DEF QueryPatterns
<1>12. CASE QueryFails(c)
  <2>1. /\ outage => outage'
        /\ outage' \/ call[c].gone \/ call[c].key = "graph"
    <3>1. \/ call[c].gone /\ outage' = outage
          \/ outage' = (outage \/ call[c].key # "graph")
      BY <1>12 DEF QueryFails
    <3>2. CASE call[c].gone /\ outage' = outage
      BY <3>2
    <3>3. CASE outage' = (outage \/ call[c].key # "graph")
      BY <3>3, Zenon
    <3>4. QED
      BY <3>1, <3>2, <3>3
  <2>2. PICK v : GoOn(c, v)
    BY <1>12 DEF QueryFails
  <2>3. CASE outage'
    BY <2>1, <2>3
  <2>4. CASE call[c].gone \/ call[c].key = "graph"
    BY <2>1, <2>2, <2>4, GoOnAdvises
  <2>5. QED
    BY <2>1, <2>3, <2>4
<1>13. ASSUME outage' = outage, GoOn(c, call[c].val), At(c, "set") PROVE Advises
  <2>1. Good(call[c].key, call[c].val)
    BY <1>13 DEF CacheInv
  <2>2. CASE call[c].key # "similar"
    BY <1>13, <2>2, GoOnAdvises
  <2>3. CASE call[c].key = "similar"
    BY <1>2, <1>13, <2>1, <2>3 DEF Good
  <2>4. QED
    BY <2>2, <2>3
<1>14. CASE CacheSet(c)
  BY <1>13, <1>14 DEF CacheSet
<1>15. CASE SetFails(c)
  <2>1. GoOn(c, call[c].val) \/ Again(c)
    BY <1>15 DEF SetFails
  <2>2. QED
    BY <1>4, <1>13, <1>15, <2>1 DEF SetFails, At
<1>16. CASE FetchSignals(c)
  <2>1. call'[c].at = "get"
    BY <1>1, <1>16 DEF FetchSignals, WellFormed, Fields
  <2>2. QED
    BY <1>3, <1>16, <2>1 DEF FetchSignals
<1>17. CASE \/ FetchFails(c) \/ PersistResult(c) \/ PersistFails(c)
            \/ StoreFeedback(c) \/ FeedbackFails(c) \/ ListPage(c)
  BY <1>3, <1>5, <1>17
  DEF FetchFails, PersistResult, PersistFails, StoreFeedback, FeedbackFails, ListPage
<1>18. CASE ListFails(c) \/ ListReadsNothing(c)
  BY <1>3, <1>5, <1>18 DEF ListFails, ListReadsNothing
<1>19. CASE ReadsNothing(c)
  <2>1. CASE call[c].key = "similar"
    <3>1. GoOn(c, <<>>) /\ outage' = outage
      BY <1>19, <2>1 DEF ReadsNothing
    <3>2. QED
      BY <3>1, GoOnAdvises
  <2>2. CASE call[c].key # "similar"
    <3>1. PICK v : GoOn(c, v) /\ outage' = outage
      BY <1>19 DEF ReadsNothing
    <3>2. QED
      BY <2>2, <3>1, GoOnAdvises
  <2>3. QED
    BY <2>1, <2>2
<1>20. QED
  BY <1>7, <1>8, <1>9, <1>10, <1>11, <1>12, <1>14, <1>15, <1>16, <1>17, <1>18, <1>19 DEF Handler

LEMMA AdviceStep ==
  ASSUME FallbackOnlyMadeUp, TypeInv, CacheInv, AdviceInv, [Next]_vars
  PROVE  AdviceInv'
<1> USE DEF weaviate, bookkeeping
<1>1. ASSUME NEW c \in Clients, Handler(c) PROVE AdviceInv'
  <2>1. Effect(c)
    BY <1>1, HandlerEffect
  <2>2. SUFFICES ASSUME ~outage'
                 PROVE  /\ \A x \in ToSet(store') : x.recs # Fallback
                        /\ \A d \in Clients : call'[d].at = "persist"
                             => call'[d].result[1].out.recs # Fallback
    BY DEF AdviceInv, At
  <2>3. ~outage
    BY <1>1, <2>2, HandlerAdvises
  <2>4. /\ \A x \in ToSet(store) : x.recs # Fallback
        /\ \A d \in Clients : call[d].at = "persist" => call[d].result[1].out.recs # Fallback
    BY <2>3 DEF AdviceInv, At
  <2>5. \A x \in ToSet(store') : x.recs # Fallback
    <3>1. CASE store' = store
      BY <2>4, <3>1
    <3>2. CASE call[c].at = "persist" /\ store' \in Inserted(Record(c))
      <4>1. Record(c).recs # Fallback
        BY <2>4, <3>2 DEF Record
      <4>2. QED
        BY <2>4, <3>2, <4>1, InsertedElements DEF TypeInv
    <3>3. QED
      BY <2>1, <3>1, <3>2 DEF Effect, Told, Stays
  <2>6. ASSUME NEW d \in Clients, call'[d].at = "persist"
        PROVE  call'[d].result[1].out.recs # Fallback
    <3>1. CASE d = c
      BY <1>1, <2>2, <2>6, <3>1, HandlerAdvises
    <3>2. CASE d # c
      BY <2>1, <2>4, <2>6, <3>2 DEF Effect, Frame
    <3>3. QED
      BY <3>1, <3>2
  <2>7. QED
    BY <2>5, <2>6
<1>2. ASSUME UNCHANGED <<store, outage>>,
             \A c \in Clients : \/ call'[c].at # "persist"
                                \/ call'[c].at = call[c].at /\ call'[c].result = call[c].result
      PROVE  AdviceInv'
  BY <1>2 DEF AdviceInv, At
<1>3. DOMAIN call = Clients /\ \A c \in Clients : WellFormed(call[c])
  BY DEF TypeInv, Shape
<1>4. ASSUME NEW c \in Clients, Calling(c) PROVE AdviceInv'
  <2>1. PICK place, key, req : place # "persist" /\ Begins(c, place, key, req)
    BY <1>4 DEF Calling, InvestigateIncident, GetPatterns, SubmitFeedback, ListCorrelations
  <2>2. call'[c].at = place /\ \A d \in Clients \ {c} : call'[d] = call[d]
    BY <1>3, <2>1 DEF Begins, Idle
  <2>3. UNCHANGED <<store, outage>>
    BY <1>4, CallingStarts
  <2>4. QED
    BY <1>2, <2>1, <2>2, <2>3
<1>5. ASSUME NEW c \in Clients, NextPage(c) PROVE AdviceInv'
  BY <1>2, <1>5, NextPageMoves DEF NextPage, Frame
<1>6. ASSUME NEW c \in Clients, GiveUp(c) PROVE AdviceInv'
  <2>1. /\ \A d \in Clients \ {c} : call'[d] = call[d]
        /\ call'[c].at = call[c].at /\ call'[c].result = call[c].result
    BY <1>3, <1>6 DEF GiveUp, WellFormed, Fields
  <2>2. QED
    BY <1>2, <1>6, <2>1 DEF GiveUp
<1>7. CASE \/ \E k \in Keys : Expire(k)
           \/ \E cmd \in late : ExecuteLate(cmd)
           \/ \E p \in Patterns : StorePattern(p)
           \/ Signal \/ Drained
           \/ UNCHANGED vars
  BY <1>2, <1>7 DEF Expire, ExecuteLate, StorePattern, Signal, Drained, vars
<1>8. CASE GraceTimeout
  <2>1. \A d \in Clients : call'[d].at = call[d].at /\ call'[d].result = call[d].result
    BY <1>3, <1>8 DEF GraceTimeout, WellFormed, Fields
  <2>2. QED
    BY <1>2, <1>8, <2>1 DEF GraceTimeout
<1>9. CASE Exit
  BY <1>2, <1>9 DEF Exit, Idle
<1>10. QED
  BY <1>1, <1>4, <1>5, <1>6, <1>7, <1>8, <1>9 DEF Next, Calling

(* weaviate_repo.go:200, 259, 280 and pipeline.go:347: the advice of the    *)
(* fallback incidents is stored with a correlation, from where it would be  *)
(* the advice of later ones, only when Weaviate has failed a read of a call *)
(* that was alive; a cancelled call, a late SET or an expiry never does it. *)
(* For rule packs and older records that do not give that advice: from them *)
(* it would be the rules' own.                                              *)
THEOREM MadeUpAdvice ==
  ASSUME FallbackOnlyMadeUp
  PROVE  Spec => []MadeUpOnlyAfterOutage
<1>1. Init => AdviceInv
  BY DEF Init, AdviceInv, At, Idle, FallbackOnlyMadeUp, ToSet
<1>2. Inv /\ AdviceInv /\ [Next]_vars => AdviceInv'
  BY AdviceStep DEF Inv
<1>3. AdviceInv => MadeUpOnlyAfterOutage
  BY DEF AdviceInv, MadeUpOnlyAfterOutage, Fallback, ToSet
<1>4. QED
  BY InvInit, InvStep, <1>1, <1>2, <1>3, PTL DEF Spec

-----------------------------------------------------------------------------
(* The root cause.                                                          *)
TimedSignal(sig) == Timed(sig.metrics) /\ Timed(sig.logs) /\ Timed(sig.traces)

(* A timeline from the first event to the last.                             *)
Ordered(timeline) ==
  /\ Timed(timeline)
  /\ \A k, l \in DOMAIN timeline : k <= l => timeline[k].t <= timeline[l].t

LEMMA ListOf ==
  ASSUME NEW n \in Nat, NEW s, DOMAIN s = 1 .. n, s = [i \in 1 .. n |-> s[i]],
         \A i \in 1 .. n : s[i].t \in Nat
  PROVE  Timed(s)
<1>1. \A i \in 1 .. n : s[i] \in ToSet(s)
  BY DEF ToSet
<1>2. s \in Seq(ToSet(s))
  <2>1. PICK T : T = ToSet(s)
    OBVIOUS
  <2>2. [i \in 1 .. n |-> s[i]] \in [1 .. n -> T]
    BY <1>1, <2>1
  <2>3. s \in Seq(T)
    BY <2>2
  <2>4. QED
    BY <2>1, <2>3
<1>3. \A x \in ToSet(s) : x.t \in Nat
  BY DEF ToSet
<1>4. QED
  BY <1>2, <1>3 DEF Timed

LEMMA TimedList ==
  ASSUME NEW s, Timed(s)
  PROVE  /\ Len(s) \in Nat /\ DOMAIN s = 1 .. Len(s)
         /\ \A i \in 1 .. Len(s) : s[i] \in ToSet(s) /\ s[i].t \in Nat
<1>1. Len(s) \in Nat /\ DOMAIN s = 1 .. Len(s)
  BY DEF Timed
<1>2. QED
  BY <1>1 DEF Timed, ToSet

LEMMA DetectedTimed ==
  ASSUME NEW points, Timed(points), NEW kept \in SUBSET DOMAIN points, NEW kind, NEW scores
  PROVE  Timed(Detected(kind, points, scores, kept))
<1>1. PICK n \in Nat : n = Len(points) /\ DOMAIN points = 1 .. n
                       /\ \A i \in 1 .. n : points[i].t \in Nat
  BY TimedList
<1>2. IsFiniteSet(kept) /\ \A i \in kept : i \in Int
  <2>1. IsFiniteSet(1 .. n)
    BY FS_Interval
  <2>2. QED
    BY <1>1, <2>1, FS_Subset
<1>3. PICK m \in Nat : m = Cardinality(kept)
  BY <1>2, FS_CardinalityType
<1>4. \A k \in 1 .. m : Nth(kept, k) \in kept
  BY <1>2, <1>3, NthMember
<1> DEFINE d == Detected(kind, points, scores, kept)
<1>5. DOMAIN d = 1 .. m /\ d = [k \in 1 .. m |-> d[k]]
  BY <1>3 DEF Detected
<1>6. ASSUME NEW k \in 1 .. m PROVE d[k].t \in Nat
  <2>1. PICK i \in 1 .. n : i = Nth(kept, k)
    BY <1>1, <1>4
  <2>2. d[k].t = points[i].t
    BY <1>3, <2>1 DEF Detected, Anomaly
  <2>3. QED
    BY <1>1, <2>2
<1> HIDE DEF d
<1>7. Timed(d)
  BY <1>5, <1>6, ListOf
<1>8. QED
  BY <1>7 DEF d

LEMMA JoinedTimed ==
  ASSUME NEW a, NEW b, Timed(a), Timed(b)
  PROVE  Timed(a \o b)
<1>1. PICK A : A = ToSet(a)
  OBVIOUS
<1>2. PICK B : B = ToSet(b)
  OBVIOUS
<1>3. PICK T : T = A \cup B
  OBVIOUS
<1>4. a \in Seq(T) /\ b \in Seq(T) /\ \A x \in T : x.t \in Nat
  BY <1>1, <1>2, <1>3 DEF Timed
<1>5. PICK c : c = a \o b
  OBVIOUS
<1>6. c \in Seq(T)
  BY <1>4, <1>5, ConcatProperties
<1>7. PICK n \in Nat : n = Len(c) /\ DOMAIN c = 1 .. n /\ c = [i \in 1 .. n |-> c[i]]
  BY <1>6
<1>8. \A i \in 1 .. n : c[i] \in T
  BY <1>6, <1>7
<1>9. Timed(c)
  BY <1>4, <1>7, <1>8, ListOf
<1>10. QED
  BY <1>5, <1>9

LEMMA AnomaliesTimed ==
  ASSUME NEW sig, TimedSignal(sig), NEW threshold
  PROVE  Timed(Anomalies(sig, threshold))
<1>1. Timed(DetectMetrics(sig.metrics, threshold))
  BY DetectedTimed DEF DetectMetrics, TimedSignal
<1>2. Timed(DetectLogs(sig.logs))
  BY DetectedTimed DEF DetectLogs, LogsAround, LogsBeyond, TimedSignal
<1>3. Timed(DetectTraces(sig.traces))
  BY DetectedTimed DEF DetectTraces, TimedSignal
<1>4. Timed(DetectMetrics(sig.metrics, threshold) \o DetectLogs(sig.logs))
  BY <1>1, <1>2, JoinedTimed
<1>5. QED
  BY <1>3, <1>4, JoinedTimed DEF Anomalies

(* A timeline has every event of the list, each at a place of its own.      *)
Placing(p, r, s, n, t) ==
  /\ \A k \in 1 .. n : p[k] \in 1 .. n /\ Cardinality(InFront(t, n, p[k])) = k - 1
  /\ \A i \in 1 .. n : \E k \in 1 .. n : p[k] = i
  /\ DOMAIN r = 1 .. n /\ r = [k \in 1 .. n |-> r[k]]
  /\ \A k \in 1 .. n : r[k] = s[p[k]]

LEMMA ByTimePlaces ==
  ASSUME NEW s, NEW n \in Nat, DOMAIN s = 1 .. n, NEW t \in [1 .. n -> Int],
         \A i \in 1 .. n : t[i] = s[i].t
  PROVE  \E p : Placing(p, ByTime(s), s, n, t)
<1> DEFINE Sooner(i) == {j \in 1 .. n : s[j].t < s[i].t \/ (~(s[i].t < s[j].t) /\ j < i)}
           Placed(k) == CHOOSE i \in 1 .. n : Cardinality(Sooner(i)) = k - 1
           r == ByTime(s)
           p == [k \in 1 .. n |-> Placed(k)]
<1>1. r = [k \in 1 .. n |-> s[Placed(k)]]
  BY DEF ByTime, Sorted
<1>2. \A i \in 1 .. n : Sooner(i) = InFront(t, n, i)
  BY DEF InFront
<1> HIDE DEF Sooner
<1>3. ASSUME NEW k \in 1 .. n PROVE Placed(k) \in 1 .. n /\ Cardinality(InFront(t, n, Placed(k))) = k - 1
  <2>1. \E i \in 1 .. n : Cardinality(InFront(t, n, i)) = k - 1
    BY EveryPlace
  <2>2. \E i \in 1 .. n : Cardinality(Sooner(i)) = k - 1
    BY <1>2, <2>1
  <2>3. Placed(k) \in 1 .. n /\ Cardinality(Sooner(Placed(k))) = k - 1
    BY <2>2
  <2>4. QED
    BY <1>2, <2>3
<1> HIDE DEF Placed, r
<1>4. \A k \in 1 .. n : p[k] = Placed(k) /\ r[k] = s[p[k]]
  BY <1>1
<1>5. DOMAIN r = 1 .. n /\ r = [k \in 1 .. n |-> r[k]]
  BY <1>1
<1> HIDE DEF p
<1>6. ASSUME NEW i \in 1 .. n PROVE \E k \in 1 .. n : p[k] = i
  <2>1. PICK k \in 1 .. n : Cardinality(InFront(t, n, i)) = k - 1
    BY OwnPlace
  <2>2. PICK x \in 1 .. n : x = p[k] /\ Cardinality(InFront(t, n, x)) = k - 1
    BY <1>3, <1>4
  <2>3. \A j \in 1 .. n :
          Cardinality(InFront(t, n, j)) = Cardinality(InFront(t, n, i)) => j = i
    BY OwnPlace
  <2>4. QED
    BY <2>1, <2>2, <2>3
<1>7. \A k \in 1 .. n : p[k] \in 1 .. n /\ Cardinality(InFront(t, n, p[k])) = k - 1
  BY <1>3, <1>4
<1>8. Placing(p, r, s, n, t)
  BY <1>4, <1>5, <1>6, <1>7 DEF Placing
<1>9. QED
  BY <1>8 DEF r

LEMMA PlacedOrdered ==
  ASSUME NEW s, NEW n \in Nat, NEW t \in [1 .. n -> Int], NEW p, NEW r, Placing(p, r, s, n, t),
         \A i \in 1 .. n : t[i] = s[i].t /\ s[i].t \in Nat
  PROVE  Ordered(r)
<1>1. ASSUME NEW k \in 1 .. n, NEW l \in 1 .. n, k <= l PROVE r[k].t <= r[l].t
  <2>1. \A i, j \in 1 .. n :
          Cardinality(InFront(t, n, i)) <= Cardinality(InFront(t, n, j)) => t[i] <= t[j]
    BY EveryPlace
  <2>2. PICK x \in 1 .. n : x = p[k] /\ Cardinality(InFront(t, n, x)) = k - 1
    BY DEF Placing
  <2>3. PICK y \in 1 .. n : y = p[l] /\ Cardinality(InFront(t, n, y)) = l - 1
    BY DEF Placing
  <2>4. k - 1 <= l - 1
    BY <1>1
  <2>5. t[x] <= t[y]
    BY <2>1, <2>2, <2>3, <2>4
  <2>6. r[k] = s[x] /\ r[l] = s[y]
    BY <2>2, <2>3 DEF Placing
  <2>7. QED
    BY <2>5, <2>6
<1>2. DOMAIN r = 1 .. n /\ r = [k \in 1 .. n |-> r[k]]
  BY DEF Placing
<1>3. \A k \in 1 .. n : r[k].t \in Nat
  BY DEF Placing
<1>4. Timed(r)
  BY <1>2, <1>3, ListOf
<1>5. QED
  BY <1>1, <1>2, <1>4 DEF Ordered

LEMMA FirstOrdered ==
  ASSUME NEW s, Ordered(s), NEW m \in Nat
  PROVE  Ordered(First(s, m))
<1>1. PICK n \in Nat : n = Len(s) /\ DOMAIN s = 1 .. n
                       /\ \A i \in 1 .. n : s[i].t \in Nat
  BY TimedList DEF Ordered
<1>2. PICK k \in 0 .. n : k = Least(m, n)
  BY DEF Least
<1>3. PICK T : T = ToSet(s) /\ s \in Seq(T)
  BY DEF Ordered, Timed
<1>4. PICK r : r = SubSeq(s, 1, k)
  OBVIOUS
<1>5. DOMAIN r = 1 .. k /\ r = [i \in 1 .. k |-> r[i]] /\ \A i \in 1 .. k : r[i] = s[i]
  BY <1>1, <1>3, <1>4
<1>6. Timed(r)
  BY <1>1, <1>5, ListOf
<1>7. Ordered(r)
  BY <1>1, <1>5, <1>6 DEF Ordered
<1>8. QED
  BY <1>1, <1>2, <1>4, <1>7 DEF First

(* An anomaly is in the timeline unless ten others that are not later are.  *)
Shows(timeline, anomalies, i) ==
  \E k \in DOMAIN timeline : timeline[k].t = anomalies[i].t /\ timeline[k].svc = anomalies[i].svc
Summary(timeline, anomalies) ==
  /\ Ordered(timeline) /\ Timed(anomalies)
  /\ \A k \in DOMAIN timeline : \E i \in DOMAIN anomalies :
       timeline[k].t = anomalies[i].t /\ timeline[k].svc = anomalies[i].svc
  /\ \A i \in DOMAIN anomalies :
       \/ Shows(timeline, anomalies, i)
       \/ Crowded(anomalies, i) /\ \A k \in DOMAIN timeline : timeline[k].t <= anomalies[i].t

LEMMA LateCrowded ==
  ASSUME NEW anomalies, NEW n \in Nat, DOMAIN anomalies = 1 .. n, NEW t \in [1 .. n -> Int],
         \A i \in 1 .. n : t[i] = anomalies[i].t,
         NEW i \in 1 .. n, NEW k \in Nat, k > 10, Cardinality(InFront(t, n, i)) = k - 1
  PROVE  Crowded(anomalies, i)
<1> DEFINE S == {j \in DOMAIN anomalies : anomalies[j].t <= anomalies[i].t}
           F == InFront(t, n, i)
<1>1. IsFiniteSet(1 .. n)
  BY FS_Interval
<1>2. S \in SUBSET (1 .. n) /\ F \in SUBSET (1 .. n) /\ i \notin F
  BY DEF InFront
<1>3. F \cup {i} \in SUBSET S
  <2>1. \A j \in 1 .. n : t[j] \in Int
    OBVIOUS
  <2>2. QED
    BY <2>1 DEF InFront
<1> HIDE DEF S, F
<1>4. IsFiniteSet(S) /\ IsFiniteSet(F)
  BY <1>1, <1>2, FS_Subset
<1>5. Cardinality(F \cup {i}) = Cardinality(F) + 1
  BY <1>2, <1>4, FS_AddElement
<1>6. Cardinality(F \cup {i}) <= Cardinality(S) /\ Cardinality(S) \in Nat
  BY <1>3, <1>4, FS_Subset, FS_CardinalityType
<1>7. Cardinality(F) = k - 1
  BY DEF F
<1>8. Cardinality(S) > 10
  BY <1>5, <1>6, <1>7
<1>9. QED
  BY <1>8 DEF Crowded, S

LEMMA TimelineSummary ==
  ASSUME NEW anomalies, Timed(anomalies)
  PROVE  Summary(buildTimeline(anomalies), anomalies)
<1>1. PICK n \in Nat : n = Len(anomalies) /\ DOMAIN anomalies = 1 .. n
                       /\ \A i \in 1 .. n : anomalies[i].t \in Nat
  BY TimedList
<1> DEFINE events == [i \in DOMAIN anomalies |->
             LET a == anomalies[i] IN
               Event(a.t, a.svc, IF a.error THEN "high" ELSE severityFromScore(a.score))]
<1>2. DOMAIN events = 1 .. n
      /\ \A i \in 1 .. n : events[i].t = anomalies[i].t /\ events[i].svc = anomalies[i].svc
  BY <1>1 DEF Event
<1>3. buildTimeline(anomalies) = First(ByTime(events), 10)
  BY DEF buildTimeline
<1> HIDE DEF events
<1>4. PICK t : t = [i \in 1 .. n |-> anomalies[i].t]
  OBVIOUS
<1>5. t \in [1 .. n -> Int] /\ \A i \in 1 .. n : t[i] = anomalies[i].t /\ t[i] = events[i].t
  BY <1>1, <1>2, <1>4
<1>6. PICK r, p : r = ByTime(events) /\ Placing(p, r, events, n, t)
  BY <1>2, <1>5, ByTimePlaces
<1>7. Ordered(r)
  <2>1. \A i \in 1 .. n : t[i] = events[i].t /\ events[i].t \in Nat
    BY <1>1, <1>2, <1>5
  <2>2. Placing(p, r, events, n, t) /\ t \in [1 .. n -> Int]
    BY <1>5, <1>6
  <2>3. QED
    BY <2>1, <2>2, PlacedOrdered
<1>8. /\ \A k \in 1 .. n : p[k] \in 1 .. n /\ Cardinality(InFront(t, n, p[k])) = k - 1
      /\ \A i \in 1 .. n : \E k \in 1 .. n : p[k] = i
      /\ DOMAIN r = 1 .. n /\ r = [k \in 1 .. n |-> r[k]]
      /\ \A k \in 1 .. n : r[k] = events[p[k]]
  BY <1>6 DEF Placing
<1>9. \A k \in 1 .. n : r[k].t = anomalies[p[k]].t /\ r[k].svc = anomalies[p[k]].svc
  BY <1>2, <1>8
<1>10. PICK m \in 0 .. n : m = Least(10, n) /\ (m < n => m = 10)
  BY DEF Least
<1>11. PICK seen : seen = buildTimeline(anomalies)
  OBVIOUS
<1>12. Ordered(seen)
  BY <1>3, <1>6, <1>7, <1>11, FirstOrdered
<1>13. DOMAIN seen = 1 .. m /\ \A k \in 1 .. m : seen[k] = r[k]
  <2>1. Len(r) = n /\ r \in Seq(ToSet(r))
    BY <1>7, <1>8 DEF Ordered, Timed
  <2>2. seen = SubSeq(r, 1, m)
    BY <1>3, <1>6, <1>10, <1>11, <2>1 DEF First
  <2>3. QED
    BY <2>1, <2>2
<1>14. ASSUME NEW k \in DOMAIN seen
       PROVE  \E i \in DOMAIN anomalies : seen[k].t = anomalies[i].t /\ seen[k].svc = anomalies[i].svc
  <2>1. k \in 1 .. n /\ seen[k] = r[k]
    BY <1>13
  <2>2. PICK i \in 1 .. n : i = p[k]
    BY <1>8, <2>1
  <2>3. seen[k].t = anomalies[i].t /\ seen[k].svc = anomalies[i].svc
    BY <1>9, <2>1, <2>2
  <2>4. QED
    BY <1>1, <2>3
<1>15. ASSUME NEW i \in DOMAIN anomalies
       PROVE  \/ Shows(seen, anomalies, i)
              \/ Crowded(anomalies, i) /\ \A k \in DOMAIN seen : seen[k].t <= anomalies[i].t
  <2>1. PICK k \in 1 .. n : p[k] = i
    BY <1>1, <1>8
  <2>2. r[k].t = anomalies[i].t /\ r[k].svc = anomalies[i].svc
    BY <1>9, <2>1
  <2>3. CASE k <= m
    <3>1. k \in DOMAIN seen /\ seen[k] = r[k]
      BY <1>13, <2>3
    <3>2. QED
      BY <2>2, <3>1 DEF Shows
  <2>4. CASE ~(k <= m)
    <3>1. k > 10 /\ k \in Nat
      BY <1>10, <2>4
    <3>2. Cardinality(InFront(t, n, i)) = k - 1
      BY <1>8, <2>1
    <3>3. Crowded(anomalies, i)
      BY <1>1, <1>5, <3>1, <3>2, LateCrowded
    <3>4. ASSUME NEW l \in DOMAIN seen PROVE seen[l].t <= anomalies[i].t
      <4>1. l \in 1 .. n /\ l <= k /\ seen[l] = r[l]
        BY <1>13, <2>4
      <4>2. r[l].t <= r[k].t
        BY <1>7, <1>8, <4>1 DEF Ordered
      <4>3. QED
        BY <2>2, <4>1, <4>2
    <3>5. QED
      BY <3>3, <3>4
  <2>5. QED
    BY <2>3, <2>4
<1>16. Summary(seen, anomalies)
  BY <1>12, <1>14, <1>15 DEF Summary
<1>17. QED
  BY <1>11, <1>16

(* EventTime is the least time among the events of a service.               *)
Times(service, timeline) == {timeline[i].t : i \in {k \in DOMAIN timeline : Same(timeline[k].svc, service)}}

LEMMA EventTimeFirst ==
  ASSUME NEW timeline, Ordered(timeline), NEW service
  PROVE  /\ EventTime(service, timeline) = Zero =>
              Times(service, timeline) = {} \/ Zero \in Times(service, timeline)
         /\ EventTime(service, timeline) # Zero =>
              EventTime(service, timeline) \in Times(service, timeline)
         /\ \A u \in Times(service, timeline) : EventTime(service, timeline) <= u
<1>1. PICK n \in Nat : DOMAIN timeline = 1 .. n /\ \A i \in 1 .. n : timeline[i].t \in Nat
  BY TimedList DEF Ordered
<1>2. PICK at : at = {i \in DOMAIN timeline : Same(timeline[i].svc, service)}
  OBVIOUS
<1>3. at \in SUBSET Nat /\ at \subseteq 1 .. n /\ Times(service, timeline) = {timeline[i].t : i \in at}
  BY <1>1, <1>2 DEF Times
<1>4. CASE at = {}
  BY <1>2, <1>3, <1>4 DEF EventTime
<1>5. CASE at # {}
  <2>1. \E i \in at : \A j \in at : i <= j
    BY <1>3, <1>5, LeastNumber
  <2>2. PICK i \in at : (\A j \in at : i <= j) /\ EventTime(service, timeline) = timeline[i].t
    BY <1>2, <1>5, <2>1 DEF EventTime
  <2>3. \A j \in at : timeline[i].t <= timeline[j].t
    BY <1>1, <1>3, <2>2 DEF Ordered
  <2>4. timeline[i].t \in Times(service, timeline)
    BY <1>3, <2>2
  <2>5. QED
    BY <1>3, <2>2, <2>3, <2>4
<1>6. QED
  BY <1>4, <1>5

(* An upstream service with an event that supports was first, also among    *)
(* the anomalies that are not in the timeline.                              *)
LEMMA SupportsFirst ==
  ASSUME NEW timeline, NEW anomalies, Summary(timeline, anomalies), NEW service, NEW e,
         Supports(e, service, timeline), EventTime(e.src, timeline) # Zero
  PROVE  ComesFirst(anomalies, e.src, service)
<1>1. PICK n \in Nat : DOMAIN timeline = 1 .. n /\ \A i \in 1 .. n : timeline[i].t \in Nat
  BY TimedList DEF Ordered, Summary
<1>2. \A i \in DOMAIN anomalies : anomalies[i].t \in Nat
  BY TimedList DEF Summary
<1>3. Ordered(timeline)
  BY DEF Summary
<1>4. PICK first : first = EventTime(e.src, timeline)
  OBVIOUS
<1>5. PICK k \in 1 .. n : Same(timeline[k].svc, e.src) /\ timeline[k].t = first /\ first # Zero
  BY <1>1, <1>3, <1>4, EventTimeFirst DEF Times
<1>6. first \in Nat /\ first < RootTime(service, timeline)
  BY <1>1, <1>4, <1>5 DEF Supports
<1>7. PICK start : start = EventTime(service, timeline)
  OBVIOUS
<1>8. start # Zero
  <2>1. SUFFICES ASSUME start = Zero PROVE FALSE
    OBVIOUS
  <2>2. RootTime(service, timeline) = timeline[1].t
    BY <1>7, <2>1 DEF RootTime
  <2>3. timeline[1].t <= timeline[k].t /\ timeline[1].t \in Nat
    BY <1>1, <1>3 DEF Ordered
  <2>4. QED
    BY <1>5, <1>6, <2>2, <2>3
<1>9. RootTime(service, timeline) = start
  BY <1>7, <1>8 DEF RootTime
<1>10. PICK l \in 1 .. n : Same(timeline[l].svc, service) /\ timeline[l].t = start
  BY <1>1, <1>3, <1>7, <1>8, EventTimeFirst DEF Times
<1>11. PICK x \in DOMAIN anomalies : timeline[k].t = anomalies[x].t /\ timeline[k].svc = anomalies[x].svc
  BY <1>1 DEF Summary
<1>12. PICK y \in DOMAIN anomalies : timeline[l].t = anomalies[y].t /\ timeline[l].svc = anomalies[y].svc
  BY <1>1 DEF Summary
<1>13. ASSUME NEW j \in OfService(anomalies, service) PROVE anomalies[x].t < anomalies[j].t
  <2>1. j \in DOMAIN anomalies /\ Same(anomalies[j].svc, service)
    BY DEF OfService
  <2>2. start <= anomalies[j].t
    <3>1. CASE Shows(timeline, anomalies, j)
      <4>1. PICK m \in DOMAIN timeline :
              timeline[m].t = anomalies[j].t /\ timeline[m].svc = anomalies[j].svc
        BY <3>1 DEF Shows
      <4>2. anomalies[j].t \in Times(service, timeline)
        BY <2>1, <4>1 DEF Times
      <4>3. QED
        BY <1>3, <1>7, <4>2, EventTimeFirst
    <3>2. CASE \A m \in DOMAIN timeline : timeline[m].t <= anomalies[j].t
      BY <1>1, <1>10, <3>2
    <3>3. QED
      BY <2>1, <3>1, <3>2 DEF Summary
  <2>3. start \in Nat /\ anomalies[j].t \in Nat
    BY <1>1, <1>2, <1>10, <2>1
  <2>4. QED
    BY <1>5, <1>6, <1>9, <1>11, <2>2, <2>3
<1>14. x \in OfService(anomalies, e.src) /\ y \in OfService(anomalies, service)
  BY <1>5, <1>10, <1>11, <1>12 DEF OfService
<1>15. anomalies[x].t # Zero
  BY <1>5, <1>11
<1>16. QED
  BY <1>13, <1>14, <1>15 DEF ComesFirst

(* One without was cut off or has no time.                                  *)
LEMMA SupportsUnseen ==
  ASSUME NEW timeline, NEW anomalies, Summary(timeline, anomalies), NEW service,
         EventTime(service, timeline) = Zero
  PROVE  OutOfSight(anomalies, service)
<1>1. Ordered(timeline)
  BY DEF Summary
<1>2. CASE Times(service, timeline) = {}
  <2>1. ASSUME NEW i \in OfService(anomalies, service) PROVE Crowded(anomalies, i)
    <3>1. i \in DOMAIN anomalies /\ Same(anomalies[i].svc, service)
      BY DEF OfService
    <3>2. ~Shows(timeline, anomalies, i)
      BY <1>2, <3>1 DEF Shows, Times
    <3>3. QED
      BY <3>1, <3>2 DEF Summary
  <2>2. QED
    BY <2>1 DEF OutOfSight
<1>3. CASE Zero \in Times(service, timeline)
  <2>1. PICK k \in DOMAIN timeline : Same(timeline[k].svc, service) /\ timeline[k].t = Zero
    BY <1>3 DEF Times
  <2>2. PICK i \in DOMAIN anomalies :
          timeline[k].t = anomalies[i].t /\ timeline[k].svc = anomalies[i].svc
    BY DEF Summary
  <2>3. i \in OfService(anomalies, service) /\ anomalies[i].t = Zero
    BY <2>1, <2>2 DEF OfService
  <2>4. QED
    BY <2>3 DEF OutOfSight
<1>4. QED
  BY <1>1, <1>2, <1>3, EventTimeFirst

(* The suggestion is one of the edges that support it: the best so far is   *)
(* always one of those looked at.                                           *)
IsBest(r, service, timeline, edges, n) ==
  r = [k \in 0 .. n |->
         IF k = 0 THEN <<>>
         ELSE IF Supports(edges[k], service, timeline) THEN Better(r[k - 1], edges[k], timeline)
         ELSE r[k - 1]]

LEMMA BestExists ==
  ASSUME NEW n \in Nat, NEW service, NEW timeline, NEW edges
  PROVE  \E r : IsBest(r, service, timeline, edges, n)
<1> DEFINE Then(r, k) ==
             IF Supports(edges[k], service, timeline) THEN Better(r, edges[k], timeline) ELSE r
           Is(r, m) == r = [k \in 0 .. m |-> IF k = 0 THEN <<>> ELSE Then(r[k - 1], k)]
           T == {m \in Nat : \E r : Is(r, m)}
<1>1. 0 \in T
  <2> DEFINE r == [k \in 0 .. 0 |-> <<>>]
  <2> HIDE DEF Then
  <2>1. Is(r, 0)
    OBVIOUS
  <2>2. QED
    BY <2>1
<1>2. ASSUME NEW m \in Nat, m \in T PROVE m + 1 \in T
  <2> HIDE DEF Then
  <2>1. PICK r : Is(r, m)
    BY <1>2
  <2> DEFINE q == [k \in 0 .. m + 1 |-> IF k = m + 1 THEN Then(r[m], m + 1) ELSE r[k]]
  <2>2. ASSUME NEW k \in 0 .. m + 1 PROVE q[k] = IF k = 0 THEN <<>> ELSE Then(q[k - 1], k)
    <3>1. k # 0 => k - 1 \in 0 .. m
      OBVIOUS
    <3>2. CASE k = m + 1
      <4>1. k # 0 /\ k - 1 = m /\ m \in 0 .. m + 1 /\ m # m + 1
        BY <3>2
      <4>2. q[k] = Then(r[m], k) /\ q[m] = r[m]
        BY <3>2, <4>1
      <4> HIDE DEF q
      <4>3. QED
        BY <4>1, <4>2
    <3>3. CASE k # m + 1
      <4>1. k \in 0 .. m
        BY <3>3
      <4>2. r[k] = IF k = 0 THEN <<>> ELSE Then(r[k - 1], k)
        BY <2>1, <4>1
      <4>3. QED
        BY <3>1, <3>3, <4>1, <4>2
    <3>4. QED
      BY <3>2, <3>3
  <2>3. q = [k \in 0 .. m + 1 |-> q[k]]
    OBVIOUS
  <2> HIDE DEF q
  <2>4. Is(q, m + 1)
    BY <2>2, <2>3
  <2>5. QED
    BY <2>4
<1> HIDE DEF T
<1>3. Nat \subseteq T
  BY <1>1, <1>2, SetInduction
<1>4. PICK r : Is(r, n)
  BY <1>3 DEF T
<1>5. QED
  BY <1>4 DEF IsBest

Chosen(best, service, timeline, edges, k) ==
  best = <<>> \/ \E j \in 1 .. k : best = <<edges[j]>> /\ Supports(edges[j], service, timeline)

LEMMA SuggestedSupports ==
  ASSUME NEW n \in Nat, NEW service, NEW timeline, NEW edges, Len(edges) = n
  PROVE  Chosen(Suggested(service, timeline, edges), service, timeline, edges, n)
<1> DEFINE c == CHOOSE r : IsBest(r, service, timeline, edges, Len(edges))
<1>1. IsBest(c, service, timeline, edges, Len(edges))
  BY BestExists
<1>2. Suggested(service, timeline, edges) = c[Len(edges)]
  BY Zenon DEF Suggested, IsBest
<1> HIDE DEF c
<1> DEFINE T == {k \in Nat : k <= n => Chosen(c[k], service, timeline, edges, k)}
<1>3. 0 \in T
  <2>1. c[0] = <<>>
    BY <1>1 DEF IsBest
  <2>2. QED
    BY <2>1 DEF Chosen
<1>4. ASSUME NEW k \in Nat, k \in T PROVE k + 1 \in T
  <2> SUFFICES ASSUME k + 1 <= n PROVE Chosen(c[k + 1], service, timeline, edges, k + 1)
    OBVIOUS
  <2>1. k + 1 \in 0 .. n /\ k + 1 # 0 /\ k + 1 - 1 = k
    OBVIOUS
  <2>2. c[k + 1] = IF Supports(edges[k + 1], service, timeline)
                   THEN Better(c[k], edges[k + 1], timeline) ELSE c[k]
    BY <1>1, <2>1 DEF IsBest
  <2>3. Chosen(c[k], service, timeline, edges, k)
    BY <1>4
  <2>4. Better(c[k], edges[k + 1], timeline) \in {<<edges[k + 1]>>, c[k]}
    BY DEF Better
  <2>5. CASE c[k + 1] = c[k]
    BY <2>3, <2>5 DEF Chosen
  <2>6. CASE Supports(edges[k + 1], service, timeline) /\ c[k + 1] = <<edges[k + 1]>>
    BY <2>6 DEF Chosen
  <2>7. QED
    BY <2>2, <2>4, <2>5, <2>6
<1> HIDE DEF T
<1>5. Nat \subseteq T
  BY <1>3, <1>4, SetInduction
<1>6. Chosen(c[n], service, timeline, edges, n)
  BY <1>5 DEF T
<1>7. QED
  BY <1>2, <1>6

(* An edge that supports explains the root cause.                           *)
LEMMA SupportExplains ==
  ASSUME NEW cause, NEW service, NEW timeline, NEW anomalies, Summary(timeline, anomalies), NEW graph,
         NEW e \in ToSet(graph), e.src = cause.svc, Supports(e, service, timeline)
  PROVE  Explained(cause, service, anomalies, graph)
<1>1. Same(e.dst, service)
  BY DEF Supports
<1>2. CASE EventTime(e.src, timeline) = Zero
  <2>1. e.err > 0
    BY <1>2 DEF Supports
  <2>2. OutOfSight(anomalies, cause.svc)
    BY <1>2, SupportsUnseen
  <2>3. QED
    BY <1>1, <2>1, <2>2, Zenon DEF Explained
<1>3. CASE EventTime(e.src, timeline) # Zero
  <2>1. ComesFirst(anomalies, cause.svc, service)
    BY <1>3, SupportsFirst
  <2>2. QED
    BY <1>1, <2>1, Zenon DEF Explained
<1>4. QED
  BY <1>2, <1>3

LEMMA CauseExplained ==
  ASSUME NEW req, NEW sig, TimedSignal(sig), NEW graph, graph \in Seq(ToSet(graph)), NEW similar
  PROVE  Explained(Analyze(req, sig, graph, similar).rootCause, DetermineService(req),
                   Anomalies(sig, req.threshold), graph)
<1>1. PICK service : service = DetermineService(req)
  OBVIOUS
<1>2. PICK anomalies : anomalies = Anomalies(sig, req.threshold)
  OBVIOUS
<1>a. PICK timeline : timeline = buildTimeline(anomalies) /\ Summary(timeline, anomalies)
  BY <1>2, AnomaliesTimed, TimelineSummary
<1>3. PICK cause : cause = Evaluate(service, timeline, graph)
  OBVIOUS
<1>4. PICK n \in Nat : n = Len(graph) /\ DOMAIN graph = 1 .. n
  OBVIOUS
<1>5. PICK best : best = Suggested(service, timeline, graph)
  OBVIOUS
<1>6. cause.svc = "" \/ (best # <<>> /\ cause.svc = best[1].src)
  BY <1>3, <1>5, Zenon DEF Evaluate
<1>7. PICK anchors : Analyze(req, sig, graph, similar)
        = Concluding(req, service, anomalies, anchors, timeline, cause, graph, similar)
  BY <1>1, <1>2, <1>a, <1>3 DEF Analyze, Ordering, Judging
<1>8. PICK root : root = Analyze(req, sig, graph, similar).rootCause
  OBVIOUS
<1>9. root = IF Upstream(cause, service)
             THEN [svc |-> cause.svc, why |-> "upstream", kind |-> "none"]
             ELSE deriveRootCause(service, anchors)
  <2>1. PICK r : r = IF Upstream(cause, service)
                     THEN [svc |-> cause.svc, why |-> "upstream", kind |-> "none"]
                     ELSE deriveRootCause(service, anchors)
    OBVIOUS
  <2>2. PICK confidence, affected, recs, shown : Analyze(req, sig, graph, similar)
          = [rootCause |-> r, confidence |-> confidence, affected |-> affected,
             recs |-> recs, anchors |-> anchors, timeline |-> shown]
    BY <1>7, <2>1, Zenon DEF Concluding
  <2>3. QED
    BY <1>8, <2>1, <2>2
<1>10. CASE Upstream(cause, service)
  <2>1. root.svc = cause.svc /\ cause.svc # ""
    BY <1>9, <1>10 DEF Upstream
  <2>2. PICK j \in 1 .. n : best = <<graph[j]>> /\ Supports(graph[j], service, timeline)
    <3>1. Chosen(best, service, timeline, graph, n)
      BY <1>4, <1>5, SuggestedSupports
    <3>2. QED
      BY <1>6, <2>1, <3>1 DEF Chosen
  <2>3. graph[j] \in ToSet(graph) /\ graph[j].src = root.svc
    <3>1. best[1] = graph[j]
      BY <2>2
    <3>2. QED
      BY <1>4, <1>6, <2>1, <3>1 DEF ToSet
  <2>4. Explained(root, service, anomalies, graph)
    BY <1>a, <2>2, <2>3, SupportExplains
  <2>5. QED
    BY <1>1, <1>2, <1>8, <2>4
<1>11. CASE ~Upstream(cause, service)
  <2>1. root.why # "upstream"
    BY <1>9, <1>11 DEF deriveRootCause
  <2>2. QED
    BY <1>8, <2>1, Zenon DEF Explained
<1>12. QED
  BY <1>10, <1>11

-----------------------------------------------------------------------------
(* A handler keeps the graph and the signals it has until it concludes from *)
(* them, and what it concluded until it is done.                            *)
Sound(h) ==
  /\ h.graph \in Seq(ToSet(h.graph))
  /\ h.at \in {"get", "query", "set"} /\ h.key = "similar" => TimedSignal(h.sig)
  /\ h.at = "persist" =>
       Explained(h.result[1].out.rootCause, DetermineService(h.req),
                 Anomalies(h.sig, h.req.threshold), h.graph)

CauseInv == \A c \in Clients : Sound(call[c])

LEMMA IdleSound == Sound(Idle)
<1>1. Idle.graph = <<>> /\ Idle.at = "idle"
  BY DEF Idle
<1>2. <<>> \in Seq(ToSet(<<>>))
  OBVIOUS
<1>3. QED
  BY <1>1, <1>2 DEF Sound

(* Steps that go on with the same call.                                     *)
SameWork(h, g) ==
  /\ g.graph = h.graph /\ g.sig = h.sig /\ g.req = h.req /\ g.result = h.result
  /\ \/ g.at = h.at /\ g.key = h.key
     \/ g.at \in {"get", "query", "set"} /\ h.at \in {"get", "query", "set"} /\ g.key = h.key
     \/ g.at \notin {"get", "query", "set", "persist"}

LEMMA WorkSound == ASSUME NEW h, NEW g, Sound(h), SameWork(h, g) PROVE Sound(g)
  BY DEF Sound, SameWork

LEMMA GoOnSound ==
  ASSUME TypeInv, NEW c \in Clients, NEW v, GoOn(c, v), Sound(call[c]),
         call[c].at \in {"get", "query", "set"},
         call[c].key = "graph" => v \in Seq(ToSet(v))
  PROVE  Sound(call'[c])
<1>1. WellFormed(call[c]) /\ DOMAIN call = Clients
  BY CallTyped
<1>2. CASE call[c].key = "graph" /\ Continues(c, v)
  <2>1. call'[c].graph = v /\ call'[c].at = "signals"
    BY <1>1, <1>2 DEF Continues, WellFormed, Fields
  <2>2. QED
    BY <1>2, <2>1 DEF Sound
<1>3. CASE call[c].key = "similar" /\ Concludes(c, v)
  <2>1. call' = [call EXCEPT ![c].at = "persist", ![c].val = <<>>,
                             ![c].result = <<[out |-> Analysed(c, v), stamp |-> stamp']>>]
    BY <1>3 DEF Concludes
  <2>2. PICK out : out = Analysed(c, v)
    OBVIOUS
  <2>3. /\ call'[c].result = <<[out |-> out, stamp |-> stamp']>> /\ call'[c].at = "persist"
        /\ call'[c].req = call[c].req /\ call'[c].sig = call[c].sig
        /\ call'[c].graph = call[c].graph
    BY <1>1, <2>1, <2>2 DEF WellFormed, Fields
  <2>4. call'[c].result[1].out = out
    BY <2>3
  <2>5. TimedSignal(call[c].sig) /\ call[c].graph \in Seq(ToSet(call[c].graph))
    BY <1>3 DEF Sound
  <2>6. Explained(out.rootCause, DetermineService(call[c].req),
                  Anomalies(call[c].sig, call[c].req.threshold), call[c].graph)
    BY <2>2, <2>5, CauseExplained DEF Analysed
  <2>7. QED
    BY <2>3, <2>4, <2>5, <2>6 DEF Sound
<1>4. CASE Answer(c, "ok")
  <2>1. call'[c] = Idle
    BY <1>1, <1>4 DEF Answer
  <2>2. QED
    BY <2>1, IdleSound
<1>5. QED
  BY <1>2, <1>3, <1>4 DEF GoOn

LEMMA HandlerSound ==
  ASSUME TypeInv, CacheInv, NEW c \in Clients, Sound(call[c]), Handler(c)
  PROVE  Sound(call'[c])
<1>1. WellFormed(call[c]) /\ DOMAIN call = Clients
  BY CallTyped
<1>2. ASSUME NEW v, GoOn(c, v), call[c].at \in {"get", "query", "set"},
             call[c].key = "graph" => Good("graph", v)
      PROVE  Sound(call'[c])
  BY <1>2, GoOnSound DEF Good
<1>3. ASSUME NEW v, NEW keep, ToSetOrGoOn(c, v, keep), call[c].at = "query",
             call[c].key = "graph" => Good("graph", v)
      PROVE  Sound(call'[c])
  <2>1. CASE keep
    <3>1. SameWork(call[c], call'[c])
      BY <1>1, <1>3, <2>1 DEF ToSetOrGoOn, WellFormed, Fields, SameWork
    <3>2. QED
      BY <3>1, WorkSound
  <2>2. CASE ~keep
    BY <1>2, <1>3, <2>2 DEF ToSetOrGoOn
  <2>3. QED
    BY <2>1, <2>2
<1>4. ASSUME Again(c) \/ ToQuery(c), call[c].at \in {"get", "set"} PROVE Sound(call'[c])
  <2>1. SameWork(call[c], call'[c])
    BY <1>1, <1>4 DEF Again, ToQuery, WellFormed, Fields, SameWork
  <2>2. QED
    BY <2>1, WorkSound
<1>5. ASSUME NEW o, Answer(c, o) PROVE Sound(call'[c])
  <2>1. call'[c] = Idle
    BY <1>1, <1>5 DEF Answer
  <2>2. QED
    BY <2>1, IdleSound
<1>6. CASE CacheHit(c)
  <2>1. PICK v \in ToSet(cache[call[c].key]) : GoOn(c, v)
    BY <1>6 DEF CacheHit
  <2>2. call[c].key \in Keys
    BY <1>1, <1>6 DEF CacheHit, At, WellFormed, HandlerOK
  <2>3. Good(call[c].key, v)
    <3>1. CASE cache[call[c].key] = <<>>
      BY <2>1, <3>1 DEF ToSet
    <3>2. CASE \E u : cache[call[c].key] = <<u>>
      <4>1. PICK u : cache[call[c].key] = <<u>>
        BY <3>2
      <4>2. v = u
        BY <2>1, <4>1 DEF ToSet
      <4>3. QED
        BY <2>2, <4>1, <4>2 DEF CacheInv
    <3>3. QED
      BY <2>2, <3>1, <3>2 DEF TypeInv, Shape
  <2>4. QED
    BY <1>2, <1>6, <2>1, <2>3 DEF CacheHit, At
<1>7. CASE CacheMiss(c) \/ GetFails(c)
  BY <1>4, <1>7 DEF CacheMiss, GetFails, At
<1>8. CASE QueryGraph(c)
  <2>1. PICK g \in Graphs \cup FewGraphs : ToSetOrGoOn(c, g, TRUE)
    BY <1>8 DEF QueryGraph
  <2>2. Good("graph", g)
    BY InvestigationAssumption DEF Good
  <2>3. QED
    BY <1>3, <1>8, <2>1, <2>2 DEF QueryGraph, At
<1>9. CASE QuerySimilar(c) \/ QueryPatterns(c)
  <2>1. PICK v, keep : ToSetOrGoOn(c, v, keep)
    BY <1>9 DEF QuerySimilar, QueryPatterns
  <2>2. QED
    BY <1>3, <1>9, <2>1 DEF QuerySimilar, QueryPatterns, At
<1>10. CASE QueryFails(c)
  <2>1. PICK v : GoOn(c, v) /\ (call[c].key = "graph" => v = <<>>)
    BY <1>10 DEF QueryFails
  <2>2. Good("graph", <<>>)
    BY DEF Good
  <2>3. QED
    BY <1>2, <1>10, <2>1, <2>2 DEF QueryFails, At
<1>11. ASSUME GoOn(c, call[c].val), At(c, "set") PROVE Sound(call'[c])
  <2>1. Good(call[c].key, call[c].val)
    BY <1>11 DEF CacheInv
  <2>2. QED
    BY <1>2, <1>11, <2>1 DEF At
<1>12. CASE CacheSet(c)
  BY <1>11, <1>12 DEF CacheSet
<1>13. CASE SetFails(c)
  <2>1. GoOn(c, call[c].val) \/ Again(c)
    BY <1>13 DEF SetFails
  <2>2. QED
    BY <1>4, <1>11, <1>13, <2>1 DEF SetFails, At
<1>14. CASE FetchSignals(c)
  <2>1. PICK s \in Signals \cup FewSignals :
          call' = [call EXCEPT ![c].at = "get", ![c].key = "similar", ![c].try = 0, ![c].sig = s]
    BY <1>14 DEF FetchSignals
  <2>2. call'[c].sig = s /\ call'[c].graph = call[c].graph /\ call'[c].at = "get"
    BY <1>1, <2>1 DEF WellFormed, Fields
  <2>3. TimedSignal(s)
    BY InvestigationAssumption DEF TimedSignal
  <2>4. QED
    BY <2>2, <2>3 DEF Sound
<1>15. CASE \/ FetchFails(c) \/ PersistResult(c) \/ PersistFails(c)
            \/ StoreFeedback(c) \/ FeedbackFails(c) \/ ListPage(c)
  BY <1>5, <1>15
  DEF FetchFails, PersistResult, PersistFails, StoreFeedback, FeedbackFails, ListPage
<1>16. CASE ListFails(c) \/ ListReadsNothing(c)
  BY <1>5, <1>16 DEF ListFails, ListReadsNothing
<1>17. CASE ReadsNothing(c)
  <2>1. PICK v : GoOn(c, v) /\ call[c].key # "graph" /\ At(c, "query")
    BY <1>17 DEF ReadsNothing
  <2>2. QED
    BY <1>2, <2>1 DEF At
<1>18. QED
  BY <1>6, <1>7, <1>8, <1>9, <1>10, <1>12, <1>13, <1>14, <1>15, <1>16, <1>17 DEF Handler

LEMMA CauseStep ==
  ASSUME TypeInv, CacheInv, CauseInv, [Next]_vars
  PROVE  CauseInv'
<1>1. DOMAIN call = Clients /\ \A c \in Clients : WellFormed(call[c]) /\ Sound(call[c])
  BY DEF TypeInv, Shape, CauseInv
<1>2. ASSUME \A c \in Clients : \/ Sound(call'[c])
                                \/ call'[c] = call[c]
                                \/ SameWork(call[c], call'[c])
      PROVE  CauseInv'
  <2>1. ASSUME NEW c \in Clients PROVE Sound(call'[c])
    <3>1. CASE Sound(call'[c])
      BY <3>1
    <3>2. CASE call'[c] = call[c]
      BY <1>1, <3>2
    <3>3. CASE SameWork(call[c], call'[c])
      BY <1>1, <3>3, WorkSound
    <3>4. QED
      BY <1>2, <3>1, <3>2, <3>3
  <2>2. QED
    BY <2>1 DEF CauseInv, Sound
<1>3. ASSUME NEW c \in Clients, Handler(c) PROVE CauseInv'
  <2>1. Sound(call'[c])
    BY <1>1, <1>3, HandlerSound
  <2>2. \A d \in Clients \ {c} : call'[d] = call[d]
    BY <1>3, HandlerEffect DEF Effect, Frame
  <2>3. QED
    BY <1>2, <2>1, <2>2
<1>4. ASSUME NEW c \in Clients, Calling(c) PROVE CauseInv'
  <2>1. PICK place, key, req : place # "persist" /\ key # "similar" /\ Begins(c, place, key, req)
    BY <1>4 DEF Calling, InvestigateIncident, GetPatterns, SubmitFeedback, ListCorrelations
  <2>2. /\ call'[c].at = place /\ call'[c].key = key /\ call'[c].graph = <<>>
        /\ \A d \in Clients \ {c} : call'[d] = call[d]
    BY <1>1, <2>1 DEF Begins, Idle
  <2>3. <<>> \in Seq(ToSet(<<>>))
    OBVIOUS
  <2>4. Sound(call'[c])
    BY <2>1, <2>2, <2>3 DEF Sound
  <2>5. QED
    BY <1>2, <2>2, <2>4
<1>5. ASSUME NEW c \in Clients, NextPage(c) PROVE CauseInv'
  <2>1. SameWork(call[c], call'[c]) /\ \A d \in Clients \ {c} : call'[d] = call[d]
    BY <1>1, <1>5 DEF NextPage, WellFormed, Fields, SameWork
  <2>2. QED
    BY <1>2, <2>1
<1>6. ASSUME NEW c \in Clients, GiveUp(c) PROVE CauseInv'
  <2>1. SameWork(call[c], call'[c]) /\ \A d \in Clients \ {c} : call'[d] = call[d]
    BY <1>1, <1>6 DEF GiveUp, WellFormed, Fields, SameWork
  <2>2. QED
    BY <1>2, <2>1
<1>7. CASE \/ \E k \in Keys : Expire(k)
           \/ \E cmd \in late : ExecuteLate(cmd)
           \/ \E p \in Patterns : StorePattern(p)
           \/ Signal \/ Drained
           \/ UNCHANGED vars
  <2>1. call' = call
    BY <1>7 DEF Expire, ExecuteLate, StorePattern, Signal, Drained, vars
  <2>2. QED
    BY <1>2, <2>1
<1>8. CASE GraceTimeout
  <2>1. \A d \in Clients : SameWork(call[d], call'[d])
    BY <1>1, <1>8 DEF GraceTimeout, WellFormed, Fields, SameWork
  <2>2. QED
    BY <1>2, <2>1
<1>9. CASE Exit
  <2>1. \A d \in Clients : call'[d] = Idle
    BY <1>9 DEF Exit
  <2>2. \A d \in Clients : Sound(call'[d])
    BY <2>1, IdleSound
  <2>3. QED
    BY <1>2, <2>2
<1>10. QED
  BY <1>3, <1>4, <1>5, <1>6, <1>7, <1>8, <1>9 DEF Next, Calling

(* causality.go:33-91 and pipeline.go:175-182, 311-313: the result of a     *)
(* call that is about to be stored names an upstream service as the root    *)
(* cause only when that service calls the one asked about and, among all    *)
(* the anomalies and not only the ten that the code looks at, one of its    *)
(* own comes before every one on the service's spans; or when its calls     *)
(* fail and each of its own is behind ten others or one has no time.  For   *)
(* any signals, graphs, thresholds and similar incidents, whether the graph *)
(* came from mirador-core or from the cache.                                *)
THEOREM CauseIsExplained == Spec => []RootCauseExplained
<1>1. Init => CauseInv
  BY IdleSound DEF Init, CauseInv
<1>2. Inv /\ CauseInv /\ [Next]_vars => CauseInv'
  BY CauseStep DEF Inv
<1>3. CauseInv => RootCauseExplained
  BY DEF CauseInv, Sound, RootCauseExplained, Concluded, At, RootCause, SeenBy
<1>4. QED
  BY InvInit, InvStep, <1>1, <1>2, <1>3, PTL DEF Spec
=============================================================================
