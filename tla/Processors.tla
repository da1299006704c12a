------------------------------ MODULE Processors ------------------------------
(***************************************************************************)
(* The processors of a logs pipeline (internal/processors): otlplogs,       *)
(* filter, logsum, iforest and vectorizer, in the order the configuration   *)
(* lists them.  Each takes an item when it has sent all it made of the last *)
(* one; between two of them is an unbuffered channel.  Cancellation and the *)
(* stages around them are in Pipelines, the clock of the window loop in     *)
(* Summarizer: here a window is a number.                                   *)
(*                                                                          *)
(* Items: OTLP batches, JSON log lines, other envelopes, Aggregates.  A     *)
(* record is known by its number in sent.  Quantiles and rates are in       *)
(* hundredths, rates rounded down.                                          *)
(***************************************************************************)
EXTENDS Integers, Sequences, FiniteSets, SequencesExt, Lists

CONSTANTS
  Chain,            \* types of the stages, in order
  Filters,          \* per stage that is a filter: [stage, on, drop]
  Verdict(_, _, _), \* value of a filter's expression: "true", "false" or "error"
  Features,         \* features of iforest
  Normalise,        \* its normalization is "zscore"
  Forest,           \* its trees: sequences of nodes [leaf, f, t, l, r]
  MaxDepth,         \* 64 in the code
  Mode, AllowFallback, Retries, \* options of vectorizer
  ErrLevels, TopLimit, ReservoirCap, WindowSeconds, \* options of logsum
  Batches,          \* what may arrive: sequences of records
  MaxRecords,       \* bound: records that arrive
  MaxRestarts       \* bound: restarts of the process

ASSUME ProcessorsAssumption ==
  /\ Chain \in Seq({"otlplogs", "filter", "logsum", "iforest", "vectorizer"})
  /\ Normalise \in BOOLEAN /\ AllowFallback \in BOOLEAN /\ Mode \in {"ollama", "hash", "auto"}
  /\ MaxDepth \in Nat /\ Retries \in Nat /\ TopLimit \in Nat /\ ReservoirCap \in Nat \ {0}
  /\ WindowSeconds \in Nat \ {0} /\ MaxRecords \in Nat /\ MaxRestarts \in Nat

(* There is one state of logsum, of iforest and of vectorizer below.        *)
ASSUME OneOfEachKind ==
  \A i, j \in DOMAIN Chain :
    Chain[i] = Chain[j] /\ Chain[i] \in {"logsum", "iforest", "vectorizer"} => i = j

(* A record names a service, a level, a user and the value of one field, ""  *)
(* when it has none, and may have a number to take quantiles of.            *)
LogRecord == [svc : STRING, level : STRING, user : STRING, top : STRING,
              value : Seq(Int), form : {"fine", "nan", "text", "other"}]

ASSUME BatchesAssumption ==
  \A b \in Batches : b \in Seq(LogRecord) /\ \A k \in DOMAIN b : Len(b[k].value) <= 1

VARIABLES
  hand,     \* per stage: what it has yet to send; 0 is the receiver
  open,     \* logsum: state of the open window, per service
  window,   \* logsum: number of the open window
  stats,    \* iforest: rolling statistics, per service
  work,     \* vectorizer: the Aggregate it has sent to Ollama, and the attempt
  exported, \* history: Aggregates that left the chain
  scored,   \* history: what iforest scored since the start
  sent,     \* history: records that arrived
  gone,     \* history: records that were filtered, unreadable, or lost by a restart
  restarts

vars == <<hand, open, window, stats, work, exported, scored, sent, gone, restarts>>

Stages == DOMAIN Chain
None == <<>>

Log(id) == [kind |-> "log", id |-> id]

Init ==
  /\ hand = [i \in {0} \cup Stages |-> <<>>]
  /\ open = <<>>
  /\ window = 1
  /\ stats = <<>>
  /\ work = None
  /\ exported = <<>>
  /\ scored = <<>>
  /\ sent = <<>>
  /\ gone = {}
  /\ restarts = 0

(* An OTLP batch, single lines of JSON, or an envelope that is no log.  The  *)
(* form of a record: "fine", "nan" (it cannot be marshalled), "text" (a     *)
(* line that is no JSON) or "other" (no log).                               *)
Arrive ==
  /\ hand[0] = <<>>
  /\ \E b \in Batches :
       /\ Len(sent) + Len(b) <= MaxRecords
       /\ sent' = sent \o b
       /\ LET ids == [k \in DOMAIN b |-> Len(sent) + k]
              forms == {b[k].form : k \in DOMAIN b}
          IN \/ /\ forms \subseteq {"fine", "nan"}
                /\ hand' = [hand EXCEPT ![0] = <<[kind |-> "batch", ids |-> ids]>>]
             \/ /\ forms \subseteq {"fine", "text"}
                /\ hand' = [hand EXCEPT ![0] = [k \in DOMAIN ids |-> Log(ids[k])]]
             \/ /\ forms = {"other"}
                /\ hand' = [hand EXCEPT ![0] = <<[kind |-> "other", ids |-> ids]>>]
  /\ UNCHANGED <<open, window, stats, work, exported, scored, gone, restarts>>

\* the records an item stands for
Of(item) == CASE item.kind = "log" -> {item.id}
              [] item.kind = "aggregate" -> ToSet(item.from)
              [] OTHER -> ToSet(item.ids)

Takes(i, type) ==
  /\ Chain[i] = type
  /\ hand[i] = <<>> /\ hand[i - 1] # <<>>
Moves(i, items) == hand' = [hand EXCEPT ![i - 1] = Tail(@), ![i] = items]

PassThrough(i, item) ==
  /\ Moves(i, <<item>>)
  /\ UNCHANGED <<open, window, stats, work, exported, scored, sent, gone, restarts>>

-----------------------------------------------------------------------------
(* otlplogs: one envelope per record; one that cannot be marshalled is      *)
(* skipped.                                                                 *)

flattenAndEmit(ids) ==
  LET fine == {k \in DOMAIN ids : sent[ids[k]].form # "nan"}
  IN [n \in 1 .. Cardinality(fine) |-> Log(ids[Nth(fine, n)])]

Flatten(i) ==
  /\ Takes(i, "otlplogs")
  /\ LET item == Head(hand[i - 1])
     IN IF item.kind # "batch" THEN PassThrough(i, item)
        ELSE /\ Moves(i, flattenAndEmit(item.ids))
             /\ gone' = gone \cup {id \in ToSet(item.ids) : sent[id].form = "nan"}
             /\ UNCHANGED <<open, window, stats, work, exported, scored, sent, restarts>>

-----------------------------------------------------------------------------
(* filter: an expression that fails keeps the item.  A filter of stage pre  *)
(* on aggregates looks at both kinds.                                       *)

Keeps(i, item) ==
  LET f == Filters[i]
      looks == IF item.kind = "aggregate" THEN f.stage = "post" \/ f.on = "aggregates"
               ELSE f.stage = "pre"
      record == IF item.kind = "log" THEN sent[item.id] ELSE None
  IN looks /\ f.drop => Verdict(i, item, record) # "false"

Filter(i) ==
  /\ Takes(i, "filter")
  /\ LET item == Head(hand[i - 1])
     IN IF Keeps(i, item) THEN PassThrough(i, item)
        ELSE /\ Moves(i, <<>>)
             /\ gone' = gone \cup Of(item)
             /\ UNCHANGED <<open, window, stats, work, exported, scored, sent, restarts>>

-----------------------------------------------------------------------------
(* logsum.                                                                  *)

ensure(svc) ==
  IF svc \in DOMAIN open THEN open[svc]
  ELSE [total |-> 0, errs |-> 0, users |-> {}, top |-> <<>>, res |-> <<>>, from |-> <<>>]

(* When the reservoir is full a value replaces another, whichever the clock *)
(* says.                                                                    *)
Sampled(res, x) ==
  IF x = None THEN {res}
  ELSE IF Len(res) < ReservoirCap THEN {Append(res, x[1])}
  ELSE {[res EXCEPT ![k] = x[1]] : k \in DOMAIN res}

Counted(counts, value) ==
  IF value = "" THEN counts
  ELSE IF value \in DOMAIN counts THEN [counts EXCEPT ![value] = @ + 1]
  ELSE [v \in DOMAIN counts \cup {value} |-> IF v = value THEN 1 ELSE counts[v]]

\* consume: the states of the service of record id that may follow
Consumed(id) ==
  LET r == sent[id]
      st == ensure(r.svc)
  IN {[total |-> st.total + 1,
       errs |-> st.errs + (IF r.level \in ErrLevels THEN 1 ELSE 0),
       users |-> st.users \cup ({r.user} \ {""}),
       top |-> Counted(st.top, r.top),
       res |-> res,
       from |-> Append(st.from, id)] : res \in Sampled(st.res, r.value)}

(* A batch that was not flattened and a line that is no JSON are skipped.   *)
Summarise(i) ==
  /\ Takes(i, "logsum")
  /\ LET item == Head(hand[i - 1])
     IN CASE item.kind \in {"aggregate", "other"} -> PassThrough(i, item)
          [] item.kind = "log" /\ sent[item.id].form = "fine" ->
               /\ \E st \in Consumed(item.id) :
                    open' = [s \in DOMAIN open \cup {sent[item.id].svc} |->
                               IF s = sent[item.id].svc THEN st ELSE open[s]]
               /\ Moves(i, <<>>)
               /\ UNCHANGED <<window, stats, work, exported, scored, sent, gone, restarts>>
          [] OTHER ->
               /\ gone' = gone \cup Of(item)
               /\ Moves(i, <<>>)
               /\ UNCHANGED <<open, window, stats, work, exported, scored, sent, restarts>>

Ascending(s) == Sorted(s, <)

\* in hundredths; q in percent
percentile(sorted, q) ==
  LET pos == q * (Len(sorted) - 1)
      l == pos \div 100 + 1
      fr == pos % 100
  IN IF sorted = <<>> THEN 0
     ELSE IF l + 1 > Len(sorted) THEN 100 * sorted[l]
     ELSE sorted[l] * (100 - fr) + sorted[l + 1] * fr

(* The values counted most often; equal ones in any order.                  *)
Tops(counts) ==
  LET size == IF TopLimit < Cardinality(DOMAIN counts) THEN TopLimit ELSE Cardinality(DOMAIN counts)
      Highest(t) == \A v \in DOMAIN counts \ {t[k] : k \in 1 .. size} :
                      \A k \in 1 .. size : counts[v] <= counts[t[k]]
      Falling(t) == \A k \in 1 .. size - 1 : counts[t[k]] >= counts[t[k + 1]]
  IN {[k \in 1 .. size |-> [value |-> t[k], n |-> counts[t[k]]]] :
        t \in {u \in [1 .. size -> DOMAIN counts] : IsInjective(u) /\ Falling(u) /\ Highest(u)}}

Aggregate(svc, st, top) ==
  LET sorted == Ascending(st.res)
  IN [kind |-> "aggregate", svc |-> svc, window |-> window, count |-> st.total, errs |-> st.errs,
      users |-> Cardinality(st.users), top |-> top, from |-> st.from,
      p50 |-> percentile(sorted, 50), p95 |-> percentile(sorted, 95),
      p99 |-> percentile(sorted, 99), score |-> None, vector |-> "none"]

(* One Aggregate per service, in any order.                                 *)
Summaries ==
  {[k \in DOMAIN order |-> Aggregate(order[k], open[order[k]], tops[order[k]])] :
     order \in {u \in [1 .. Cardinality(DOMAIN open) -> DOMAIN open] : IsInjective(u)},
     tops \in {t \in [DOMAIN open -> UNION {Tops(open[s].top) : s \in DOMAIN open}] :
                 \A s \in DOMAIN open : t[s] \in Tops(open[s].top)}}

\* variant: the state of the window is not reset
FlushKeepingState(i) ==
  /\ Chain[i] = "logsum" /\ hand[i] = <<>> /\ DOMAIN open # {}
  /\ \E s \in Summaries : hand' = [hand EXCEPT ![i] = s]
  /\ window' = window + 1
  /\ UNCHANGED <<open, stats, work, exported, scored, sent, gone, restarts>>

(* A tick at the end of a window in which there was something.              *)
Flush(i) ==
  /\ Chain[i] = "logsum" /\ hand[i] = <<>> /\ DOMAIN open # {}
  /\ \E s \in Summaries : hand' = [hand EXCEPT ![i] = s]
  /\ open' = <<>>
  /\ window' = window + 1
  /\ UNCHANGED <<stats, work, exported, scored, sent, gone, restarts>>

-----------------------------------------------------------------------------
(* iforest.                                                                 *)

featuresOf(a) ==
  [k \in DOMAIN Features |->
     CASE Features[k] = "p50" -> a.p50
       [] Features[k] = "p95" -> a.p95
       [] Features[k] = "p99" -> a.p99
       [] Features[k] = "rps" -> (100 * a.count) \div WindowSeconds
       [] Features[k] = "error_rate" -> (100 * a.errs) \div a.count
       [] Features[k] = "count" -> a.count
       [] OTHER -> 0]

(* Welford's recurrence in whole numbers: the mean is sum / n, and m2 is    *)
(* spread / n.                                                              *)
Fresh == [n |-> 0, sum |-> 0, spread |-> 0]
add(w, x) ==
  [n |-> w.n + 1, sum |-> w.sum + x,
   spread |-> IF w.n = 0 THEN 0
              ELSE ((w.n + 1) * w.spread + (w.n * x - w.sum) * (w.n * x - w.sum)) \div w.n]

(* (x - mean) / stddev as its sign and its square num / den; 0 when nothing *)
(* varies.  The value is among those the statistics are of.                 *)
Standing(w, x) ==
  LET d == w.n * x - w.sum
  IN IF w.spread = 0 THEN [d |-> 0, num |-> 0, den |-> 1]
     ELSE [d |-> d, num |-> d * d * (w.n - 1), den |-> w.n * w.spread]
Plain(x) == [d |-> x, num |-> x * x, den |-> 1]
AtMost(z, t) ==
  IF t >= 0 THEN z.d <= 0 \/ z.num <= t * t * z.den ELSE z.d < 0 /\ z.num >= t * t * z.den

\* variant: one set of statistics for all services
statsOfAll(svc) ==
  IF DOMAIN stats = {} THEN [k \in DOMAIN Features |-> Fresh]
  ELSE stats[CHOOSE s \in DOMAIN stats :
               \A t \in DOMAIN stats : stats[t][1].n <= stats[s][1].n]

statsOf(svc) ==
  IF svc \in DOMAIN stats THEN stats[svc] ELSE [k \in DOMAIN Features |-> Fresh]

(* A node with nothing but zeros counts as a leaf; an index outside the     *)
(* tree, or MaxDepth steps, end the walk; a feature that is not there is 0. *)
pathLength(tree, x) ==
  LET Ends(i) == \/ i < 0 \/ i >= Len(tree)
                 \/ tree[i + 1].leaf
                 \/ tree[i + 1].l = 0 /\ tree[i + 1].r = 0 /\ tree[i + 1].f = 0 /\ tree[i + 1].t = 0
      Value(n) == IF n.f >= 0 /\ n.f < Len(x) THEN x[n.f + 1] ELSE Plain(0)
      Child(n) == IF AtMost(Value(n), n.t) THEN n.l ELSE n.r
      depth[i \in Int, k \in 0 .. MaxDepth] ==
        IF k = 0 \/ Ends(i) THEN 0 ELSE 1 + depth[Child(tree[i + 1]), k - 1]
  IN depth[0, MaxDepth]

(* exp(-average depth / c(n)) falls with the depth, by which it is known    *)
(* here; without a model the score is 0.                                    *)
score(x) == IF Forest = <<>> THEN None ELSE <<SumOf([t \in DOMAIN Forest |-> pathLength(Forest[t], x)])>>

Score(i) ==
  /\ Takes(i, "iforest")
  /\ LET a == Head(hand[i - 1])
     IN IF a.kind # "aggregate" THEN PassThrough(i, a)
        ELSE LET x == featuresOf(a)
                 now == [k \in DOMAIN x |-> add(statsOf(a.svc)[k], x[k])]
                 z == [k \in DOMAIN x |-> IF Normalise THEN Standing(now[k], x[k]) ELSE Plain(x[k])]
             IN /\ stats' = IF Normalise
                            THEN [s \in DOMAIN stats \cup {a.svc} |-> IF s = a.svc THEN now ELSE stats[s]]
                            ELSE stats
                /\ Moves(i, <<[a EXCEPT !.score = score(z)]>>)
                /\ scored' = Append(scored, [svc |-> a.svc, x |-> x, score |-> score(z)])
                /\ UNCHANGED <<open, window, work, exported, sent, gone, restarts>>

-----------------------------------------------------------------------------
(* vectorizer.  No stage sets the label "source", so an Aggregate's summary *)
(* is what is embedded, whichever pipeline it is of.                        *)

\* embedHashing: a vector is known by where it comes from
Hashed(a) == [a EXCEPT !.vector = "hash"]

Vectorise(i) ==
  /\ Takes(i, "vectorizer")
  /\ work = None
  /\ LET a == Head(hand[i - 1])
     IN IF a.kind # "aggregate" THEN PassThrough(i, a)
        ELSE IF Mode = "hash" THEN PassThrough(i, Hashed(a))
        ELSE /\ work' = <<[a |-> a, attempt |-> 0]>>
             /\ Moves(i, <<>>)
             /\ UNCHANGED <<open, window, stats, exported, scored, sent, gone, restarts>>

Embedded(i, a) ==
  /\ work' = None
  /\ hand' = [hand EXCEPT ![i] = <<a>>]
  /\ UNCHANGED <<open, window, stats, exported, scored, sent, gone, restarts>>

EmbedOk(i) == Chain[i] = "vectorizer" /\ work # None /\ Embedded(i, [work[1].a EXCEPT !.vector = "ollama"])

\* variant: every failed attempt is followed by another
EmbedFailsRetrying(i) ==
  /\ Chain[i] = "vectorizer" /\ work # None
  /\ work' = <<[work[1] EXCEPT !.attempt = (@ + 1) % (Retries + 1)]>>
  /\ UNCHANGED <<hand, open, window, stats, exported, scored, sent, gone, restarts>>

(* No answer, a status, or no embedding in it; after the last attempt the   *)
(* words are hashed, or there is no vector.                                 *)
EmbedFails(i) ==
  /\ Chain[i] = "vectorizer" /\ work # None
  /\ IF work[1].attempt < Retries
     THEN /\ work' = <<[work[1] EXCEPT !.attempt = @ + 1]>>
          /\ UNCHANGED <<hand, open, window, stats, exported, scored, sent, gone, restarts>>
     ELSE Embedded(i, IF AllowFallback \/ Mode # "ollama" THEN Hashed(work[1].a) ELSE work[1].a)

-----------------------------------------------------------------------------
\* the bridge behind the last stage discards what is no Aggregate
Leave ==
  LET last == Len(Chain) IN
  /\ hand[last] # <<>>
  /\ hand' = [hand EXCEPT ![last] = Tail(@)]
  /\ LET item == Head(hand[last])
     IN IF item.kind = "aggregate" THEN exported' = Append(exported, item) /\ UNCHANGED gone
        ELSE gone' = gone \cup Of(item) /\ UNCHANGED exported
  /\ UNCHANGED <<open, window, stats, work, scored, sent, restarts>>

Reported == UNION {ToSet(exported[k].from) : k \in DOMAIN exported}

(* All of it is in memory.                                                  *)
Restart ==
  /\ restarts < MaxRestarts
  /\ restarts' = restarts + 1
  /\ hand' = [i \in {0} \cup Stages |-> <<>>]
  /\ open' = <<>> /\ stats' = <<>> /\ work' = None /\ scored' = <<>>
  /\ window' = window + 1
  /\ gone' = DOMAIN sent \ Reported
  /\ UNCHANGED <<exported, sent>>

StageStep(i) ==
  \/ Flatten(i) \/ Filter(i) \/ Summarise(i) \/ Score(i)
  \/ Vectorise(i) \/ EmbedOk(i) \/ EmbedFails(i)

Work == Leave \/ \E i \in Stages : StageStep(i) \/ Flush(i)

Next == Arrive \/ Restart \/ Work

Spec == Init /\ [][Next]_vars

(* Whatever can go on somewhere in the chain does: stages run, ticks come,  *)
(* an attempt ends (the client has a timeout).                              *)
FairSpec == Spec /\ WF_vars(Work)

-----------------------------------------------------------------------------
(* Properties.                                                              *)

Aggregates ==
  ToSet(exported)
    \cup {a \in UNION {ToSet(hand[i]) : i \in Stages} : a.kind = "aggregate"}
    \cup {work[k].a : k \in DOMAIN work}

\* what a list of records says, by their numbers
Errors(ids) == Cardinality({k \in DOMAIN ids : sent[ids[k]].level \in ErrLevels})
Users(ids) == {sent[ids[k]].user : k \in DOMAIN ids} \ {""}
Times(ids, v) == Cardinality({k \in DOMAIN ids : sent[ids[k]].top = v})
Named(ids) == {sent[ids[k]].top : k \in DOMAIN ids} \ {""}
ValuesOf(ids) == {sent[id].value[1] : id \in {i \in ToSet(ids) : sent[i].value # None}}

CountsMatch(a) ==
  /\ IsInjective(a.from) /\ \A id \in ToSet(a.from) : sent[id].svc = a.svc
  /\ a.count = Len(a.from)
  /\ a.errs = Errors(a.from)
  /\ a.users = Cardinality(Users(a.from))

TopMatches(a) ==
  /\ \A t \in ToSet(a.top) : t.n = Times(a.from, t.value)
  /\ \A v \in Named(a.from) \ {t.value : t \in ToSet(a.top)} :
       Len(a.top) = TopLimit /\ \A t \in ToSet(a.top) : Times(a.from, v) <= t.n

QuantilesMatch(a) ==
  /\ a.p50 <= a.p95 /\ a.p95 <= a.p99
  /\ ValuesOf(a.from) # {} => /\ \E v \in ValuesOf(a.from) : 100 * v <= a.p50
                              /\ \E v \in ValuesOf(a.from) : a.p99 <= 100 * v

\* logsum: whatever the order of records, windows and restarts, an Aggregate
\* says of its service what the records of one window say: how many they are,
\* how many are errors, how many users they name, which values are the most
\* frequent and how often they came, and where the quantiles lie; and it counts
\* no record twice, nor one that is in another Aggregate
SummariesMatchRecords ==
  /\ \A a \in Aggregates : CountsMatch(a) /\ TopMatches(a) /\ QuantilesMatch(a)
  /\ \A a, b \in Aggregates : a # b => ToSet(a.from) \cap ToSet(b.from) = {}

\* of what was scored, which of the first k are of the service; their number,
\* and the sums of feature f and of its square
Own(svc, k) == {m \in 1 .. k : scored[m].svc = svc}
Row(svc, f, k) == [m \in 1 .. k |-> IF scored[m].svc = svc THEN scored[m].x[f] ELSE 0]
Square(s) == [m \in DOMAIN s |-> s[m] * s[m]]

\* iforest: a score is that of the Aggregate's standing among all Aggregates of
\* its own service since the start of the process, itself included, and of
\* nothing else; so the first of a service, and one like all before it, are at
\* the mean however bad they are
ScoresFollowHistory ==
  \A k \in DOMAIN scored :
    LET svc == scored[k].svc
        n == Cardinality(Own(svc, k))
        z == [f \in DOMAIN Features |->
                IF ~Normalise THEN Plain(scored[k].x[f])
                ELSE LET x == scored[k].x[f]
                         total == SumOf(Row(svc, f, k))
                         d == n * x - total
                         spread == n * SumOf(Square(Row(svc, f, k))) - total * total
                     IN IF spread = 0 THEN Plain(0)
                        ELSE [d |-> d, num |-> d * d * (n - 1), den |-> n * spread]]
    IN scored[k].score = score(z)

\* every record that arrived comes to be reported in an Aggregate, or was
\* filtered out, unreadable or lost in a restart: no stage keeps one for ever,
\* also when Ollama never answers
EveryRecordLeaves == []<>(DOMAIN sent \subseteq Reported \cup gone)
=============================================================================
