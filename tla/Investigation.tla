---------------------------- MODULE Investigation ----------------------------
(***************************************************************************)
(* mirador-rca at work: concurrent calls of InvestigateIncident,            *)
(* GetPatterns, ListCorrelations and SubmitFeedback                         *)
(* (internal/services, internal/api), the cache-aside reads of the          *)
(* repositories (internal/repo) through Valkey with its retries             *)
(* (internal/cache), the correlations they store in Weaviate, and the       *)
(* shutdown of the process (cmd/rca-engine).  What an investigation makes   *)
(* of its signals is in Analysis.                                           *)
(*                                                                          *)
(* One tenant, one list of symptoms, one service: each kind of entry has    *)
(* one key.  mirador-core, Weaviate and Valkey answer, fail, or do what     *)
(* they were asked without the answer arriving.                             *)
(***************************************************************************)
EXTENDS Analysis

CONSTANTS
  Clients,              \* handlers that may be at work at once
  Readers,              \* bound: those that call more than InvestigateIncident
  Requests, FewRequests, \* requests a client may send; see scope
  Signals, FewSignals,  \* what mirador-core may answer
  Graphs, FewGraphs,    \* service graphs it may answer, the empty one included
  OldRecords,           \* correlations stored before, newest first
  Patterns,             \* patterns a miner may store
  PageSizes,            \* page sizes a client may ask for
  DefaultPage, MaxPage, \* 20 and 100 in the code
  Retries,              \* attempts of a cache operation
  MaxCalls,             \* bound: calls begun in all
  MaxFaults             \* bound: failures, timeouts and clients that give up

Ids(records) == {records[i].id : i \in DOMAIN records}
Timed(s) == s \in Seq(ToSet(s)) /\ \A x \in ToSet(s) : x.t \in Nat

ASSUME InvestigationAssumption ==
  /\ DefaultPage \in Nat \ {0} /\ MaxPage \in Nat /\ PageSizes \subseteq Int
  /\ Retries \in Nat \ {0} /\ MaxCalls \in Nat /\ MaxFaults \in Nat
  /\ OldRecords \in Seq(ToSet(OldRecords)) /\ Ids(OldRecords) \cap (0 .. MaxCalls) = {}
  /\ \A i, j \in DOMAIN OldRecords : OldRecords[i].id = OldRecords[j].id => i = j
  /\ \A g \in Graphs \cup FewGraphs : g \in Seq(ToSet(g))
  /\ \A sig \in Signals \cup FewSignals : Timed(sig.metrics) /\ Timed(sig.logs) /\ Timed(sig.traces)

VARIABLES
  scope,     \* bound: many calls and few answers, or one call and all answers
  phase,     \* of the process
  call,      \* per client: the handler's state
  pager,     \* per client: what it has read of the list of correlations
  store,     \* Weaviate: correlations, newest first
  patterns,  \* Weaviate: failure patterns
  feedback,  \* Weaviate: calls whose feedback it holds
  cache,     \* Valkey: per key the value, as a sequence of at most one
  late,      \* Valkey: SET commands it has received and not yet executed
  stamp,     \* createdAt of the last analysis
  answered,  \* history: per call, what its client was told
  begun,     \* number of calls begun
  faults,    \* number of faults
  outage     \* history: Weaviate has failed a read of a living call

vars == <<scope, phase, call, pager, store, patterns, feedback, cache, late, stamp,
          answered, begun, faults, outage>>
weaviate == <<store, patterns, feedback>>
bookkeeping == <<scope, phase, begun>>

Keys == {"graph", "similar", "patterns"}
CallIds == 1 .. MaxCalls
Idle == [id |-> 0, at |-> "idle", key |-> "none", try |-> 0, val |-> <<>>, gone |-> FALSE,
         req |-> <<>>, graph |-> <<>>, sig |-> <<>>, result |-> <<>>]
Closed == [open |-> FALSE, next |-> 0, limit |-> 1, seen |-> {}, snap |-> {}, repeats |-> 0,
           clean |-> TRUE]

SyntheticIncidents == <<[id |-> 0, stamp |-> 0, recs |-> <<"synthetic">>]>>
SyntheticPatterns == {"synthetic"}

Init ==
  /\ scope \in {"many", "one"}
  /\ phase = "serving"
  /\ call = [c \in Clients |-> Idle]
  /\ pager = [c \in Clients |-> Closed]
  /\ store = OldRecords
  /\ patterns = {}
  /\ feedback = {}
  /\ cache = [k \in Keys |-> <<>>]
  /\ late = {}
  /\ stamp = 0
  /\ answered = [i \in CallIds |-> "none"]
  /\ begun = 0
  /\ faults = 0
  /\ outage = FALSE

Fault == scope = "many" /\ faults < MaxFaults /\ faults' = faults + 1
At(c, place) == call[c].at = place

-----------------------------------------------------------------------------
(* Clients.                                                                 *)

Begins(c, place, key, req) ==
  /\ phase = "serving"
  /\ At(c, "idle")
  /\ begun < IF scope = "one" THEN Least(1, MaxCalls) ELSE MaxCalls
  /\ begun' = begun + 1
  /\ call' = [call EXCEPT ![c] = [Idle EXCEPT !.id = begun + 1, !.at = place, !.key = key,
                                              !.req = req]]

InvestigateIncident(c) ==
  /\ \E r \in IF scope = "one" THEN Requests ELSE FewRequests : Begins(c, "get", "graph", r)
  /\ UNCHANGED <<scope, phase, pager, weaviate, cache, late, stamp, answered, faults, outage>>

GetPatterns(c) ==
  /\ c \in Readers
  /\ Begins(c, "get", "patterns", <<>>)
  /\ UNCHANGED <<scope, phase, pager, weaviate, cache, late, stamp, answered, faults, outage>>

SubmitFeedback(c) ==
  /\ c \in Readers
  /\ Begins(c, "feedback", "none", <<>>)
  /\ UNCHANGED <<scope, phase, pager, weaviate, cache, late, stamp, answered, faults, outage>>

\* variant: a size that was not asked for is taken as it is
PageLimitUnchecked(size) == IF size > MaxPage THEN DefaultPage ELSE size

PageLimit(size) == IF size <= 0 \/ size > MaxPage THEN DefaultPage ELSE size

ListCorrelations(c) ==
  /\ c \in Readers
  /\ Begins(c, "list", "none", <<>>)
  /\ \E size \in PageSizes :
       pager' = [pager EXCEPT ![c] = [Closed EXCEPT !.open = TRUE, !.limit = PageLimit(size)]]
  /\ UNCHANGED <<scope, phase, weaviate, cache, late, stamp, answered, faults, outage>>

(* With the token of the last page, or once more after an error.            *)
NextPage(c) ==
  /\ phase = "serving"
  /\ At(c, "idle")
  /\ pager[c].open
  /\ call' = [call EXCEPT ![c].at = "list"]
  /\ UNCHANGED <<bookkeeping, pager, weaviate, cache, late, stamp, answered, faults, outage>>

(* The deadline of the client passes: the context is cancelled, and nobody  *)
(* is told what comes of the call.                                          *)
GiveUp(c) ==
  /\ ~At(c, "idle") /\ ~call[c].gone
  /\ Fault
  /\ call' = [call EXCEPT ![c].gone = TRUE]
  /\ UNCHANGED <<bookkeeping, pager, weaviate, cache, late, stamp, answered, outage>>

Answer(c, outcome) ==
  /\ call' = [call EXCEPT ![c] = Idle]
  /\ answered' = IF call[c].gone \/ call[c].id = 0 THEN answered
                 ELSE [answered EXCEPT ![call[c].id] = outcome]

-----------------------------------------------------------------------------
(* Cache-aside: Get, else query, else Set, then go on with the value.       *)

Analysed(c, similar) ==
  Analyze(call[c].req, call[c].sig, call[c].graph, similar)

Concludes(c, value) ==
  /\ stamp' \in {stamp, stamp + 1}
  /\ \E out \in {Analysed(c, value)} :
       call' = [call EXCEPT ![c].at = "persist", ![c].val = <<>>,
                            ![c].result = <<[out |-> out, stamp |-> stamp']>>]
  /\ UNCHANGED answered

Continues(c, value) ==
  /\ call' = [call EXCEPT ![c].at = "signals", ![c].graph = value, ![c].val = <<>>]
  /\ UNCHANGED <<stamp, answered>>

\* variant: the correlation is stored under a context of its own
GoOnDetached(c, value) ==
  CASE call[c].key = "graph" -> Continues(c, value)
    [] call[c].key = "similar" -> Concludes(c, value)
    [] OTHER -> Answer(c, "ok") /\ UNCHANGED stamp

(* With a cancelled context the correlation is not sent to Weaviate.        *)
GoOn(c, value) ==
  CASE call[c].key = "graph" -> Continues(c, value)
    [] call[c].key = "similar" /\ ~call[c].gone -> Concludes(c, value)
    [] OTHER -> Answer(c, "ok") /\ UNCHANGED stamp

ToQuery(c) == call' = [call EXCEPT ![c].at = "query", ![c].try = 0]
Again(c) == call[c].try + 1 < Retries /\ call' = [call EXCEPT ![c].try = @ + 1]

CacheHit(c) ==
  /\ At(c, "get") /\ ~call[c].gone
  /\ \E v \in ToSet(cache[call[c].key]) : GoOn(c, v)
  /\ UNCHANGED <<bookkeeping, pager, weaviate, cache, late, faults, outage>>

(* A miss, or a context that is done, which withConn looks at before every  *)
(* attempt.                                                                 *)
CacheMiss(c) ==
  /\ At(c, "get")
  /\ cache[call[c].key] = <<>> \/ call[c].gone
  /\ ToQuery(c)
  /\ UNCHANGED <<bookkeeping, pager, weaviate, cache, late, stamp, answered, faults, outage>>

(* Only a timeout is tried again.                                           *)
GetFails(c) ==
  /\ At(c, "get") /\ ~call[c].gone
  /\ Fault
  /\ Again(c) \/ ToQuery(c)
  /\ UNCHANGED <<bookkeeping, pager, weaviate, cache, late, stamp, answered, outage>>

ToSetOrGoOn(c, value, keep) ==
  IF keep THEN /\ call' = [call EXCEPT ![c].at = "set", ![c].val = value]
               /\ UNCHANGED <<stamp, answered>>
          ELSE GoOn(c, value)

(* An empty graph is cached as well; an empty list is not.                  *)
QueryGraph(c) ==
  /\ At(c, "query") /\ ~call[c].gone /\ call[c].key = "graph"
  /\ \E g \in IF scope = "one" THEN Graphs ELSE FewGraphs : ToSetOrGoOn(c, g, TRUE)
  /\ UNCHANGED <<bookkeeping, pager, weaviate, cache, late, faults, outage>>

(* The query has a limit of three, no order and no filter but the tenant.   *)
Rows == {r \in [1 .. Least(3, Len(store)) -> ToSet(store)] : IsInjective(r)}

QuerySimilar(c) ==
  /\ At(c, "query") /\ ~call[c].gone /\ call[c].key = "similar"
  /\ \E r \in Rows : ToSetOrGoOn(c, r, r # <<>>)
  /\ UNCHANGED <<bookkeeping, pager, weaviate, cache, late, faults, outage>>

QueryPatterns(c) ==
  /\ At(c, "query") /\ ~call[c].gone /\ call[c].key = "patterns"
  /\ ToSetOrGoOn(c, patterns, patterns # {})
  /\ UNCHANGED <<bookkeeping, pager, weaviate, cache, late, faults, outage>>

\* variant: what was made up is cached like an answer
QueryFailsCaching(c) ==
  /\ At(c, "query")
  /\ \/ call[c].gone /\ UNCHANGED <<faults, outage>>
     \/ ~call[c].gone /\ Fault /\ outage' = (outage \/ call[c].key # "graph")
  /\ CASE call[c].key = "graph" -> GoOn(c, <<>>)
       [] call[c].key = "similar" -> ToSetOrGoOn(c, SyntheticIncidents, TRUE)
       [] OTHER -> ToSetOrGoOn(c, SyntheticPatterns, TRUE)
  /\ UNCHANGED <<bookkeeping, pager, weaviate, cache, late>>

(* A graph that cannot be had is done without; for incidents and patterns   *)
(* made-up ones are answered, and not cached.                               *)
QueryFails(c) ==
  /\ At(c, "query")
  /\ \/ call[c].gone /\ UNCHANGED <<faults, outage>>
     \/ ~call[c].gone /\ Fault /\ outage' = (outage \/ call[c].key # "graph")
  /\ GoOn(c, CASE call[c].key = "graph" -> <<>>
               [] call[c].key = "similar" -> SyntheticIncidents
               [] OTHER -> SyntheticPatterns)
  /\ UNCHANGED <<bookkeeping, pager, weaviate, cache, late>>

(* Weaviate reports a query it refuses as errors of a reply with status 200 *)
(* and no data, which decodes to an empty list: it is not told from one,    *)
(* and not cached.                                                          *)
ReadsNothing(c) ==
  /\ At(c, "query") /\ ~call[c].gone /\ call[c].key # "graph"
  /\ Fault
  /\ GoOn(c, IF call[c].key = "similar" THEN <<>> ELSE {})
  /\ UNCHANGED <<bookkeeping, pager, weaviate, cache, late, outage>>

CacheSet(c) ==
  /\ At(c, "set") /\ ~call[c].gone
  /\ cache' = [cache EXCEPT ![call[c].key] = <<call[c].val>>]
  /\ GoOn(c, call[c].val)
  /\ UNCHANGED <<bookkeeping, pager, weaviate, late, faults, outage>>

(* The command was not executed, was, or will be later; a timeout is tried  *)
(* again, and in the end the error is ignored.                              *)
SetFails(c) ==
  /\ At(c, "set")
  /\ \/ call[c].gone /\ UNCHANGED <<cache, late, faults>> /\ GoOn(c, call[c].val)
     \/ /\ ~call[c].gone /\ Fault
        /\ \/ UNCHANGED <<cache, late>>
           \/ cache' = [cache EXCEPT ![call[c].key] = <<call[c].val>>] /\ UNCHANGED late
           \/ late' = late \cup {[key |-> call[c].key, val |-> call[c].val]} /\ UNCHANGED cache
        /\ \/ Again(c) /\ UNCHANGED <<stamp, answered>>
           \/ GoOn(c, call[c].val)
  /\ UNCHANGED <<bookkeeping, pager, weaviate, outage>>

-----------------------------------------------------------------------------
(* The other calls to mirador-core and Weaviate.                            *)

FetchSignals(c) ==
  /\ At(c, "signals") /\ ~call[c].gone
  /\ \E s \in IF scope = "one" THEN Signals ELSE FewSignals :
       call' = [call EXCEPT ![c].at = "get", ![c].key = "similar", ![c].try = 0, ![c].sig = s]
  /\ UNCHANGED <<bookkeeping, pager, weaviate, cache, late, stamp, answered, faults, outage>>

(* An error, or no metrics, no logs or no spans.                            *)
FetchFails(c) ==
  /\ At(c, "signals")
  /\ IF call[c].gone THEN UNCHANGED faults ELSE Fault
  /\ Answer(c, "error")
  /\ UNCHANGED <<bookkeeping, pager, weaviate, cache, late, stamp, outage>>

Record(c) ==
  [id |-> call[c].id, stamp |-> call[c].result[1].stamp, recs |-> call[c].result[1].out.recs]

(* The list is by createdAt, newest first; records of one second are in any *)
(* order.                                                                   *)
Inserted(record) ==
  {InsertAt(store, i, record) : i \in {k \in 1 .. Len(store) + 1 :
     /\ \A j \in 1 .. k - 1 : store[j].stamp >= record.stamp
     /\ \A j \in k .. Len(store) : store[j].stamp <= record.stamp}}

PersistResult(c) ==
  /\ At(c, "persist") /\ ~call[c].gone
  /\ store' \in Inserted(Record(c))
  /\ Answer(c, "ok")
  /\ UNCHANGED <<bookkeeping, pager, patterns, feedback, cache, late, stamp, faults, outage>>

\* variant: the store is tried again, under the same id, after a timeout
PersistFailsRetrying(c) ==
  /\ At(c, "persist")
  /\ IF call[c].gone THEN UNCHANGED faults ELSE Fault
  /\ store' \in Inserted(Record(c))
  /\ UNCHANGED <<bookkeeping, call, answered, pager, patterns, feedback, cache, late, stamp, outage>>

(* Best effort: the result is answered whether or not it was stored.        *)
PersistFails(c) ==
  /\ At(c, "persist")
  /\ IF call[c].gone THEN UNCHANGED faults ELSE Fault
  /\ store' \in {store} \cup Inserted(Record(c))
  /\ Answer(c, "ok")
  /\ UNCHANGED <<bookkeeping, pager, patterns, feedback, cache, late, stamp, outage>>

StoreFeedback(c) ==
  /\ At(c, "feedback") /\ ~call[c].gone
  /\ feedback' = feedback \cup {call[c].id}
  /\ Answer(c, "accepted")
  /\ UNCHANGED <<bookkeeping, pager, store, patterns, cache, late, stamp, faults, outage>>

FeedbackFails(c) ==
  /\ At(c, "feedback")
  /\ IF call[c].gone THEN UNCHANGED faults ELSE Fault
  /\ feedback' \in {feedback, feedback \cup {call[c].id}}
  /\ Answer(c, "error")
  /\ UNCHANGED <<bookkeeping, pager, store, patterns, cache, late, stamp, outage>>

\* variant: the first correlation of the next page is skipped
AfterPageSkipping(offset, page) == offset + Len(page) + 1

(* The token is an offset; a page that is not full is the last.             *)
AfterPage(offset, page) == offset + Len(page)

ListPage(c) ==
  /\ At(c, "list") /\ ~call[c].gone
  /\ LET p == pager[c]
         page == SubSeq(store, p.next + 1, Least(p.next + p.limit, Len(store)))
     IN pager' = [pager EXCEPT ![c] =
          [p EXCEPT !.open = Len(page) = p.limit, !.next = AfterPage(@, page),
                    !.seen = @ \cup Ids(page),
                    !.repeats = @ + Cardinality(Ids(page) \cap p.seen),
                    !.snap = IF p.next = 0 THEN Ids(store) ELSE @]]
  /\ Answer(c, "ok")
  /\ UNCHANGED <<bookkeeping, weaviate, cache, late, stamp, faults, outage>>

(* A failed read is answered with a made-up page and no token, a reply that *)
(* cannot be decoded with an error.                                         *)
ListFails(c) ==
  /\ At(c, "list")
  /\ \/ call[c].gone /\ UNCHANGED <<faults, outage, pager>> /\ Answer(c, "none")
     \/ ~call[c].gone /\ Fault /\ UNCHANGED <<outage, pager>> /\ Answer(c, "error")
     \/ /\ ~call[c].gone /\ Fault /\ outage' = TRUE
        /\ pager' = [pager EXCEPT ![c].open = FALSE, ![c].clean = FALSE]
        /\ Answer(c, "ok")
  /\ UNCHANGED <<bookkeeping, weaviate, cache, late, stamp>>

(* Errors of a reply with status 200, for example to an offset past the     *)
(* most results Weaviate looks at: an empty page, and so the last.          *)
ListReadsNothing(c) ==
  /\ At(c, "list") /\ ~call[c].gone
  /\ Fault
  /\ pager' = [pager EXCEPT ![c].open = FALSE, ![c].clean = FALSE]
  /\ Answer(c, "ok")
  /\ UNCHANGED <<bookkeeping, weaviate, cache, late, stamp, outage>>

Handler(c) ==
  \/ CacheHit(c) \/ CacheMiss(c) \/ GetFails(c)
  \/ QueryGraph(c) \/ QuerySimilar(c) \/ QueryPatterns(c) \/ QueryFails(c)
  \/ ReadsNothing(c)
  \/ CacheSet(c) \/ SetFails(c)
  \/ FetchSignals(c) \/ FetchFails(c) \/ PersistResult(c) \/ PersistFails(c)
  \/ StoreFeedback(c) \/ FeedbackFails(c) \/ ListPage(c) \/ ListFails(c)
  \/ ListReadsNothing(c)

-----------------------------------------------------------------------------
(* Valkey and the miner.                                                    *)

Expire(k) ==
  /\ scope = "many" /\ cache[k] # <<>>
  /\ cache' = [cache EXCEPT ![k] = <<>>]
  /\ UNCHANGED <<bookkeeping, call, pager, weaviate, late, stamp, answered, faults, outage>>

ExecuteLate(cmd) ==
  /\ late' = late \ {cmd}
  /\ cache' = [cache EXCEPT ![cmd.key] = <<cmd.val>>]
  /\ UNCHANGED <<bookkeeping, call, pager, weaviate, stamp, answered, faults, outage>>

\* StorePatterns stores them one by one and stops at the first that fails
StorePattern(p) ==
  /\ scope = "many" /\ p \notin patterns
  /\ patterns' = patterns \cup {p}
  /\ UNCHANGED <<bookkeeping, call, pager, store, feedback, cache, late, stamp, answered, faults,
                 outage>>

-----------------------------------------------------------------------------
(* Shutdown: GracefulStop takes no new calls and waits for those at work;   *)
(* when the grace period ends first, Stop cancels them.                     *)

Signal ==
  /\ scope = "many" /\ phase = "serving"
  /\ phase' = "draining"
  /\ UNCHANGED <<scope, begun, call, pager, weaviate, cache, late, stamp, answered, faults, outage>>

Drained ==
  /\ phase = "draining"
  /\ \A c \in Clients : At(c, "idle")
  /\ phase' = "closing"
  /\ UNCHANGED <<scope, begun, call, pager, weaviate, cache, late, stamp, answered, faults, outage>>

\* variant: Shutdown waits for GracefulStop only
NoTimeout == FALSE /\ UNCHANGED vars

GraceTimeout ==
  /\ phase = "draining"
  /\ phase' = "closing"
  /\ call' = [c \in Clients |-> IF At(c, "idle") THEN call[c] ELSE [call[c] EXCEPT !.gone = TRUE]]
  /\ UNCHANGED <<scope, begun, pager, weaviate, cache, late, stamp, answered, faults, outage>>

Exit ==
  /\ phase = "closing"
  /\ phase' = "exited"
  /\ call' = [c \in Clients |-> Idle]
  /\ UNCHANGED <<scope, begun, pager, weaviate, cache, late, stamp, answered, faults, outage>>

Next ==
  \/ \E c \in Clients :
       \/ InvestigateIncident(c) \/ GetPatterns(c) \/ SubmitFeedback(c)
       \/ ListCorrelations(c) \/ NextPage(c) \/ GiveUp(c) \/ Handler(c)
  \/ \E k \in Keys : Expire(k)
  \/ \E cmd \in late : ExecuteLate(cmd)
  \/ \E p \in Patterns : StorePattern(p)
  \/ Signal \/ Drained \/ GraceTimeout \/ Exit

Spec == Init /\ [][Next]_vars

(* Only main is fair: it waits for no handler longer than the grace period. *)
FairSpec == Spec /\ WF_vars(Drained \/ GraceTimeout) /\ WF_vars(Exit)

-----------------------------------------------------------------------------
(* Properties.                                                              *)

Places == {"idle", "get", "query", "set", "signals", "persist", "feedback", "list"}

HandlerOK(h) ==
  /\ h.id \in 0 .. MaxCalls /\ h.at \in Places /\ h.key \in Keys \cup {"none"}
  /\ h.try \in 0 .. Retries - 1 /\ h.gone \in BOOLEAN
  /\ h.at \in {"get", "query", "set"} => h.key \in Keys
  /\ h.at = "persist" <=> h.result # <<>>

\* every variable is of its type, and a handler that waits for the cache or for
\* a query has a key
TypeOK ==
  /\ scope \in {"many", "one"}
  /\ phase \in {"serving", "draining", "closing", "exited"}
  /\ \A c \in Clients : HandlerOK(call[c])
  /\ \A c \in Clients : pager[c].next \in Nat /\ pager[c].limit \in Nat \ {0}
  /\ feedback \subseteq CallIds
  /\ \A k \in Keys : Len(cache[k]) <= 1
  /\ stamp \in Nat /\ begun \in 0 .. MaxCalls /\ faults \in 0 .. MaxFaults
  /\ answered \in [CallIds -> {"none", "ok", "accepted", "error"}]

(* What Valkey holds, has yet to execute, or is about to be sent, under key. *)
Kept(key) ==
  ToSet(cache[key])
    \cup {cmd.val : cmd \in {x \in late : x.key = key}}
    \cup {call[c].val : c \in {x \in Clients : At(x, "set") /\ call[x].key = key}}

\* SimilarIncidents and FetchPatterns: whatever the order of failures, retries,
\* late SETs and expiries, the cache answers with incidents and patterns that
\* Weaviate has, never with an empty list and never with made-up ones
CachedWasStored ==
  /\ \A v \in Kept("similar") : v # <<>> /\ ToSet(v) \subseteq ToSet(store)
  /\ \A v \in Kept("patterns") : v # {} /\ v \subseteq patterns

\* made-up advice is stored with a correlation, from where it is the advice of
\* later ones, only when Weaviate has failed a read of a call that was alive
MadeUpOnlyAfterOutage ==
  (\E i \in DOMAIN store : store[i].recs = SyntheticIncidents[1].recs) => outage

\* InvestigateIncident and SubmitFeedback: a correlation is stored at most once
\* and not for a call that was answered with an error; accepted feedback is kept
AnswersMatchStore ==
  /\ \A i, j \in DOMAIN store : store[i].id = store[j].id => i = j
  /\ \A i \in CallIds :
       /\ answered[i] = "error" => i \notin Ids(store)
       /\ answered[i] = "accepted" => i \in feedback

\* of the correlations there were when it read the first page, a client that
\* has seen one has seen every newer one
Unbroken(p, records) ==
  \A i, j \in DOMAIN records :
    i < j /\ records[i].id \in p.snap /\ records[j].id \in p.seen => records[i].id \in p.seen

\* ListCorrelations: pages shift while correlations are stored, and still a
\* client never misses one between two it has seen, and sees at most as many
\* twice as were stored meanwhile.  It has seen all there were when it read the
\* last page, unless a read of this list failed or was refused: such a list ends
\* early, and its client is not told
PagesCoverSnapshot ==
  \A c \in Clients : LET p == pager[c] IN
    /\ Unbroken(p, store)
    /\ ~p.open /\ p.clean => p.snap \subseteq p.seen
    /\ p.repeats <= Cardinality(Ids(store) \ p.snap)

Concluded == {c \in Clients : At(c, "persist")}

\* the anomalies of a service, by the names on the spans
OfService(anomalies, service) == {i \in DOMAIN anomalies : Same(anomalies[i].svc, service)}

\* ten or more other anomalies are not later than anomaly i
Crowded(anomalies, i) ==
  Cardinality({j \in DOMAIN anomalies : anomalies[j].t <= anomalies[i].t}) > 10

\* an anomaly of the upstream service, with a time, comes before all of the service
ComesFirst(anomalies, upstream, service) ==
  /\ OfService(anomalies, service) # {}
  /\ \E i \in OfService(anomalies, upstream) :
       /\ anomalies[i].t # Zero
       /\ \A j \in OfService(anomalies, service) : anomalies[i].t < anomalies[j].t

\* the upstream service has no anomaly with a time among the first ten of all
OutOfSight(anomalies, upstream) ==
  \/ \A i \in OfService(anomalies, upstream) : Crowded(anomalies, i)
  \/ \E i \in OfService(anomalies, upstream) : anomalies[i].t = Zero

Explained(cause, service, anomalies, graph) ==
  cause.why = "upstream" =>
    \E e \in ToSet(graph) :
      /\ e.src = cause.svc /\ Same(e.dst, service)
      /\ \/ ComesFirst(anomalies, cause.svc, service)
         \/ e.err > 0 /\ OutOfSight(anomalies, cause.svc)

SeenBy(c) == Anomalies(call[c].sig, call[c].req.threshold)
RootCause(c) == call[c].result[1].out.rootCause

\* Evaluate and Analyze: whatever buildTimeline cuts off, an upstream service is
\* named as the root cause only when it calls the service and, of all the
\* anomalies, one of its own is before every one of the service's spans, or its
\* calls fail and none of its own is seen with a time before ten others
RootCauseExplained ==
  \A c \in Concluded : Explained(RootCause(c), DetermineService(call[c].req), SeenBy(c), call[c].graph)

\* Shutdown: once told to stop the process exits, also when every handler hangs
ShutdownEnds == phase = "draining" ~> phase = "exited"
=============================================================================
