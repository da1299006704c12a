# Verification of the Mirador NRT aggregator

The repository is a small observability platform. Its core is
`mirador-nrt-aggregator`, a Go process that takes telemetry from receivers,
summarises it per service in short windows and stores one *Aggregate* per service
and window in Weaviate. `mirador-rca` is a gRPC service that investigates
incidents over such data. The remaining directories are a UI, Grafana plugins,
example applications and charts.

This directory holds TLA+ modules that model the logic of both, TLC
configurations that check them on small instances, and proofs of the main
properties for all instances. Paths in the parts on the aggregator are relative to
`src/mirador-nrt-aggregator-main/`, in those on root-cause analysis to
`src/mirador-rca-main/`.

## 1. Inventory

### Aggregator

| component | state | operations | talks to |
|---|---|---|---|
| receivers `internal/receivers/*` | none beyond sockets and consumers | accept a request or message, decode, put an `Envelope` on the shared channel: **wait** for room (JSON logs, Kafka, OTLP/gRPC) or **drop and acknowledge** when full (OTLP/HTTP, PromRW, Pulsar) | shared channel (64) |
| fan-out `pipeline.go:88-110` | envelope in hand, next subscriber | copy each envelope to each subscriber in turn, giving up on `ctx.Done` | pipelines' input channels (64) |
| pipeline chain `pipeline.go:160-253` | one item in each goroutine's hand | `envelopeToAny`, processors, bridge, dispatcher, joined by unbuffered channels | exporters |
| summarizer, logsum | `winStart`, per-service state, delta map | take an item; tick; flush one Aggregate per service; end without flushing | next stage |
| spanmetrics | none | spans to delta counters and a histogram | summarizer |
| otlplogs, filter | none | an OTLP batch becomes one item per record; an item is kept or dropped | next stage |
| iforest | rolling statistics per service | normalise the features of an Aggregate, score it | next stage |
| vectorizer | none that a pipeline reaches | embed an Aggregate's summary, with attempts and a fallback | Ollama, next stage |
| Weaviate exporter | none | one POST per Aggregate; "exists" is success; failure is logged | Weaviate |
| `main`, `BuildAndRun` | `ready`, root context, errgroup, `errCh` | build, run, signal, shut down | all of the above |

What is hard here: every hand-over is a channel operation that may block, only
some of them look at the context; receivers are shared by pipelines, so one
pipeline's trouble is another's; the window loop sends while it still owns what it
sends, and reads a clock through a ticker channel that holds a stale tick;
everything is in memory; start-up can fail half-way with goroutines already
running.

What makes each part correct:

* window loop: a sample is counted in one window only; windows of a service do not
  overlap; a window is not reported before its end and does not stay open; nothing
  disappears that the end of the process does not explain;
* counters: what the windows add up to is what the sources counted, as far as their
  exports come in order;
* data plane: each exporter is handed, in order and once, a prefix of what was
  accepted; without cancellation it gets all of it; shutdown frees exporters;
* lifecycle: errors are not dropped, the process ends on a signal and only then,
  after its pipelines;
* processors: an Aggregate says of its window what its records say; a score
  depends on its service's own history; no stage keeps a record.

### Root-cause analysis service (`src/mirador-rca-main`)

| component | state | operations |
|---|---|---|
| Valkey cache `internal/cache` | a connection per command | Get and Set with retry and backoff; the context is looked at before each attempt only |
| repositories `internal/repo` | cache entries with TTL | cache-aside reads of the service graph, similar incidents, patterns; stores without invalidation; made-up answers when Weaviate fails; offset paging |
| engine `internal/engine` | none | fetch graph and signals, detect, rank, judge causality, recommend, persist |
| extractors `internal/extractors` | none | z-scores, medians and thresholds over one response |
| pattern miner | none | counting over correlations; not wired in |
| service, gRPC server, `main` | ring of latencies | translate, delegate, shut down with a grace period |

It is stateless between requests but for cache and store. What is hard is
staleness between the two, commands that time out and are executed all the same,
results of one investigation that feed the next, pages of a list that grows, and
an analysis that cuts and sorts events of three sources before it compares their
times. What makes it correct:

* cache: what it answers is what the store has, never what was made up;
* store: a correlation is there at most once, and not for a call that was told an
  error; made-up advice is stored only after an outage;
* pages: nothing that was there when paging began is skipped between two pages;
* analysis: the service it blames did go wrong, before the one it is blamed for;
* shutdown: the process ends, whatever a handler waits for.

### Everything else

UI, Grafana data source and app, playground, charts and generated code have no
concurrent state of their own; `mirador-core` is an empty submodule.
`PROJECT.json` lists each with the reason it is left out.

## 2. Modules

| module | models | extends |
|---|---|---|
| `SampleLedger` | abstract: a sample is taken once and leaves once, reported or lost | |
| `Summarizer` | window loop of `summarizer.go` (and of `logsum.go`) | |
| `SummarizerProofs` | its proofs | `Summarizer` |
| `RedCounters` | counters, delta map, spanmetrics and Prometheus inputs | |
| `RedCountersProofs` | its proofs | `RedCounters` |
| `Pipelines` | data plane of `pipeline.go` with receivers and exporters at its ends | |
| `PipelinesProofs` | its proofs | `Pipelines` |
| `Processors` | a chain of otlplogs, filter, logsum, iforest and vectorizer | `Lists` |
| `ProcessorsProofs` | its proofs | `Processors`, `ListsProofs` |
| `Delivery` | a message from broker or client to the store, across crashes | |
| `DeliveryProofs` | proofs of its order, of what a source is told, and of how often it counts, skips and stores | `Delivery` |
| `Lifecycle` | `main.go` and the control flow of `BuildAndRun` | |
| `LifecycleProofs` | its proofs | `Lifecycle` |
| `Lists` | sorting and adding up, as the processors and the analysis do | |
| `ListsProofs` | facts about sums, ranks and sorted lists | `Lists` |
| `Analysis` | extractors, causality, rules and advice, as operators | `Lists` |
| `Investigation` | calls of `mirador-rca` over cache and store, and its shutdown | `Analysis` |
| `InvestigationProofs` | its proofs | `Investigation`, `ListsProofs` |
| `MC...` | instances for TLC | the module of that name |

In each module the comment of an action names the code it is, and definitions
named in a comment `variant:` are faulty versions kept beside the right one: they
are used by no specification, and every checked property is known to fail when one
of them replaces the definition it stands before.

### Summarizer

One goroutine, `pc`: `select` (the `select` of `Start`), `pass` (blocked on
`out <- v` of something it does not summarise), `flush` (in the range loop of
`flush`), `down`. `state[s]` is the set of envelopes that contributed to service
`s`; an absent map entry is the empty set. The counters are abstracted to these
identities, so that double counting and loss become visible; `accepted`, `lost`,
`emitted` and `readAt` are histories the code does not have.

* `TickerFires` / `TickTooEarly` / `TickClosesWindow`: the runtime's timer channel
  holds one tick with the time it was produced, which may be read much later.
  This is where the order of `flush(winStart)` and
  `winStart = trunc(now)` matters.
* `EmitAggregate` is one iteration of the range loop in any order of services; the
  send on the unbuffered channel is the step, so "blocked" is the step not being
  taken.
* `Stop` is the return from the select, `Crash` the end of the process anywhere
  else; both forget the state. `Restart` is a new process at the same clock.

The clock is Unix seconds and does not go back; a ticker tick is at most one per
state, not one per 200ms: any number of ticks per second is possible.

### RedCounters

Cumulative counters of exporting processes (`total`), what each has exported so far
(`sent`), the delta map (`last`, 0 where absent, as a Go map reads), the per-service
record `st`, and as history what each counter counted in all (`made`) and what was
added for it (`counted`). `TakeCounter` takes any export there ever was: one is lost
when it is never taken, comes late when a newer one was taken before it (`late` counts
these), and comes again as after a client's retry. `delta` makes any value the last
one, as the code does, so that a late export is counted again by the next:
totals 2, 1, 3 give 4. `TakeDelta` is a sum of delta temporality, which the code adds
unclamped, below zero too.
Series keys are a parameter: `KeyOf` may map two counters to one key, as
`seriesKey` does for replicas. A span is its status and whether it has an
exception event; its way through `buildDimensions` and `consumeSum` is one step,
since the two data points stay in one envelope. Label conversion is modelled by
what it does: `StatusName` is `strings.ToLower(code.String())`.

### Pipelines

Each goroutine is modelled by the item in its hand and, where it loops over
receivers of its output, the next index. A send and its receive on an unbuffered
channel are one step. `fault` says whether `runSinglePipeline` returned an error,
for a missing processor or a missing exporter; `Started` is what then runs. A
pipeline has one processor stage; more of them only lengthen the chain, and each
holds one more envelope. `Summarised` is the set of envelopes that become
Aggregates: the bridge discards the others, as `pipeline.go:194` does.

The goroutines of `envelopeToAny` and of the fan-out's end-of-input branch
(`pipeline.go:105-108`) have no way to end, since no receiver closes its channel;
the model has no such step either.

### Processors

`hand[i]` is what stage `i` has yet to send, so that a stage takes an item only
when it has sent all it made of the last one, as the loops do with their unbuffered
channels. The chain, the filters' expressions, the features and the forest are
constants, as they are to the process. Records are numbers into `sent`, and an
Aggregate carries in `from` the records it was made of, which the code does not:
this is what its counts are compared with.

* `Summarise` is `consume` with its maps and its reservoir. The code replaces the
  value at `UnixNano() % cap` of a full reservoir: any value, in the model. Of the
  three top lists, which are counted alike, there is one; equal counts are in any
  order, as `sort.Slice` leaves what a map's range gave it.
* `Flush` stands for the tick; *when* it comes is in `Summarizer`. All Aggregates of
  a flush are in the hand at once, and the next item waits for the last of them.
* `Score` updates the rolling statistics and then takes the score. Welford's mean
  and m2 are kept as whole numbers (`sum`, `spread`), so that `Standing` is exact;
  a comparison with a threshold squares both sides. A score is
  `exp(-depth / c(n))` and known by the depth. `pathLength` ends a walk at a leaf,
  at an index outside the tree or after `MaxDepth` nodes.
* `Vectorise`, `EmbedOk`, `EmbedFails` are the attempts of `embedText`.

### Analysis and Investigation

`Analysis` is pure: `Analyze` is a function of the request, the signals, the graph
and the similar incidents. Scores are in hundredths and confidences in percent; a
z-score is the whole root of a quotient, so that each threshold is compared as in
the code. A time is a number of half seconds, since the code moves events by 500 ms
at most; `time.Time{}` is 0. Names are compared by a constant function `Fold` where
the code uses `EqualFold`, and exactly where it uses `==`. Events of one time keep their
order, as `sort.Slice` leaves them in a list of up to twelve.

`Investigation` is the process. `call[c]` is one handler: where it is, the entry it
is after, the attempt it is at, and whether its context is done (`gone`). A read is
`get`, `query`, `set` in this order, for the graph first, then, after the signals,
for similar incidents; what `Analyze` made of them waits at `persist`.

* `CacheMiss` is also what a context that is done gives; `GetFails`, `SetFails` are
  the attempts of `withConn`. A SET that timed out is executed, is not, or is left in
  `late`, from where `ExecuteLate` takes it at any time.
* `QuerySimilar` answers any three correlations in any order: the query has no
  order, and no filter but the tenant.
* `ReadsNothing`, `ListReadsNothing`: Weaviate answers a query it refuses with status
  200, `errors` and no data. The code decodes no errors, so an empty list is read, by a
  client of `ListCorrelations` as a last page. An offset past the most results
  Weaviate looks at is such a query.
* `QueryFails` answers made-up incidents or patterns and does not cache them. A call
  whose context is done gets them too, and is then told nothing.
* `PersistFails` is "best effort": the client is told a result whether or not it was
  stored. `FeedbackFails` tells the client.
* `ListPage` reads an offset of the list as it is then. `pager` holds what the client
  has seen since its first page, the ids that were there then, and whether all its
  reads were good (`clean`).
* `GraceTimeout` is `Server.Stop` when the grace period ends before
  `GracefulStop` returns: the contexts of all handlers are cancelled.

`scope` bounds the instance, not the program: either several calls with few answers
and faults, or one call with every combination of answers.

### Delivery

One receiver of one of four kinds, chosen in `Init`, and everything behind it.
The kinds are the orders in which the receivers of the code forward a message and
tell its source: Kafka commits first, Pulsar and the HTTP receivers for OTLP and
Prometheus offer the message to the channel and then acknowledge or answer 200
whatever came of it, OTLP/gRPC and JSON logs over HTTP wait for room and then
answer. `hands` holds what the receiver's goroutines are working on and the next
call each will make; brokers have one such goroutine, servers one for each
request. `told` is what the source believes is done; `puts`, `order` and `dropped`
are histories. Behind the channel are one window (`window`), the Aggregate the
exporter is posting (`post`) and the objects stored; items carry the number of
their put, so that a repeat is told from its original.

* `Commit` / `CommitFails`: `ReadMessage` of kafka-go, with a consumer group,
  commits before it returns. On an error of the commit the loop reads on with the
  next offset, and the failed commit may have reached the broker.
* `Rebalance`: with a new generation of the group the reader starts again at the
  committed offset, while what it holds is committed and forwarded all the same.
* `Receive` / `Reconnect`: a Pulsar consumer is given each message that is not
  acknowledged, by the broker, once for each connection (`due`): after a lost one in
  the same process again, also what its goroutine holds, and in addition to what
  the client has queued. An acknowledgement that fails is ignored (`Ack`).
* `Arrive` / `GiveUp` / `Answer`: a client sends again only when it has no answer
  and waits for none; it stops waiting when it gives up or the process ends.
* `Refuse`: a body that breaks off, or has a line beyond the scanner's limit, is
  answered 400 after its first lines were sent; the client may send it all again.
* `Upsert`: the object is stored or it is not, whatever the exporter thinks of it.
* `Crash` empties everything in memory, and a POST on the wire may still be served.
  A stop on a signal is the same step: nothing is flushed then either.

`again` counts, for each message, the occasions other than a crash on which its source
had a reason to send it a second time. A message is one envelope: an NDJSON body is
many, and the same order holds for each. Requests that are refused before the
hand-over (400, 405) are no messages. One partition is read: between partitions
Kafka promises no order. The window loop, whose
details are in `Summarizer`, is `Take`, `Close`, `HandOver`.

### Lifecycle

`BuildAndRun` as a program counter, a goroutine per pipeline, `errCh` with its
capacity, the signal watcher, the metrics shutdown and `g.Wait`. `bad` are the
pipelines that name a stage that does not exist, `cfgBad` a factory error.

## 3. What is checked

| run | instance | question |
|---|---|---|
| `summarizer_windows` | 2 services, window of 2s, clock 0..4, 2 envelopes, 1 restart | are windows disjoint, ordered, closed; is each sample counted once; does the loop implement `SampleLedger` |
| `summarizer_event_time` | the same without restart | does a window hold the samples that arrived in it, as `architecture.md:179` and `model.go:35-36` say (**no**) |
| `pipelines_flow` | 2 waiting receivers, 2 pipelines (1 and 2 exporters), 3 envelopes, channels of 1, pipeline 1 may be broken | order, lockstep, delivery to every exporter |
| `pipelines_stop` | 1 dropping receiver, 2 pipelines, the second broken, 6 envelopes, cancellation anywhere | does the fan-out run ahead; how many envelopes can a neighbour of a broken pipeline still get; do exporters end |
| `pipelines_no_exporters` | pipeline 2 has no exporters | are its Aggregates dropped, as the log line says (**no**) |
| `red_counters` | 2 counters, one with 3 exports and one late, the other with one, 2 resets, 1 direct sample | how far the windows can be from what was counted; do requests split into good and bad |
| `red_span_status` | the same | is `err` the number of error spans (**no**) |
| `delivery` | each kind of receiver, 4 messages or 2 clients, a channel of 1, 1 crash, 1 fault | is Kafka once and in order, but for rebalances, and how much does it skip; what does "done" mean to a source; what is counted again and why; what is stored; does the line move on |
| `processors` | the logs chain of `config.example.yaml` with a filter before logsum, 4 records, a reservoir and a top list of one, 2 trees, 1 restart | do Aggregates say what their records say; what does a score depend on; does each record leave |
| `investigation` | 2 clients, 2 calls, 1 fault; or 1 call over 48 sets of signals, 6 graphs, 2 requests | what may the cache hold, what is stored and answered, what do pages show, whom does the analysis blame, does the process end |
| `lifecycle` | 3 pipelines, any of them bad | no error dropped, ends on a signal and only then, after its pipelines |
| `lifecycle_first_error` | the same | is a reported error returned, as `pipeline.go:146` says (**no**) |

### What the answers mean

* *Windows.* `WindowsDisjoint` holds because a window is closed only by a tick at
  or after its end and the next one starts at that tick's truncation; it would not
  if the tick were compared with anything else. `SampleNotBeforeWindow` is one half
  of what a reader expects of `[WindowStart, WindowEnd)`. The other half is false:
  samples taken between the end and the tick are in the window that is over.
* *Ledger.* The only ways a sample is lost are the end of the process and the
  half-finished flush it interrupts.
* *Data plane.* `HandedInOrder` is stated per receiver: two receivers of one
  pipeline interleave freely. It speaks of what an exporter was handed and tried;
  what is *stored* has holes, since a failed upsert is logged and its Aggregate gone
  (`weaviate.go:55`). `FanOutLockstep` and `DispatchLockstep` say how
  tightly the parts are coupled: one slow exporter or pipeline sets the pace of all.
  `BrokenPipelineStopsReceiver` gives the exact number a healthy neighbour gets:
  the capacity of the broken one's input channel, plus the hands that still take.
* *Processors.* Whatever the order of records, flushes and restarts, an Aggregate's
  counts, users, top values and quantiles come from the records of its own window.
  A score is that of the Aggregate's standing among those of its own service since
  the start, itself included: the first one of a service, and any that equals all
  before it, stands at the mean however bad it is. An Ollama that never answers
  holds no Aggregate for ever.
* *Investigations.* The cache answers with what Weaviate has, however late a SET is
  executed and whatever fails: made-up incidents and empty lists are never kept.
  Made-up advice is stored with a correlation, and handed on from there, only after
  Weaviate failed a read of a call that was alive. Pages may repeat an entry when
  the list grows between two calls, never more often than correlations were
  stored, and skip none between two that were shown. A list whose read failed or was
  refused ends early, with a made-up or an empty page and success, and its client
  cannot tell; every other list shows all there was when it began. Of the service an
  analysis blames for another, `RootCauseExplained` says what the code guarantees
  although it compares no more than the ten first anomalies, and of these only those
  with a service's name: it calls the other in the graph and, of *all* anomalies, one
  of its own is before every span of the other's; or its calls fail and it has no
  anomaly with a time that ten others are not before. It does not say that the blamed
  service precedes the metrics and logs of the other, which carry no service: it need not
  (section 6).
* *Counters.* A counter that is alone under its series key is counted exactly up to
  the export taken last, when its process does not restart and no export is taken
  after a newer one. Lost and repeated exports and resets never make it too much; each
  late one may cost the whole count once more, and no more. With two counters under
  one key nothing bounds the sums.
* *Delivery.* No receiver delivers for certain. Kafka's messages are counted at most
  once and in order, but for those a rebalance has fetched again before their commit,
  and each crash, failed commit or rebalance skips at most one of them
  before the channel; what the other sources are told means "in the channel", or,
  where the receiver drops, "in the channel or dropped". A message is counted twice
  only after a crash, or when its source had a reason to send it again: a client that
  gave up while the handler was still blocked or got a 400 for the rest of its body, a
  Pulsar connection lost before the acknowledgement. From the channel on a crash or a failed upsert loses what they held, but
  nothing is stored twice and nothing stays: an exporter whose store is down keeps
  emptying the line.
* *Lifecycle.* The process stays up, and ready, when its pipelines have failed; only
  a signal ends it.

### Bounds

The bounds are the constants of the modules and appear as guards.

* `Summarizer`: a window of 2 is the shortest with an inside and an end that
  differ; five seconds hold two full windows and part of a third, and so a window
  closed late by a whole window; two envelopes and two services give two
  contributions to one Aggregate, one flush with two sends, and a stop between
  them; one restart can fall inside a window, after its end or in its flush, and
  the windows before and after it must be disjoint.
* `Pipelines`: channels of 1 are full with one envelope, which is when something
  happens; three envelopes fill a channel and the hands before it. Two pipelines
  and two exporters are the smallest on which order between them can be seen.
  `pipelines_stop` needs six envelopes, more than the `RxCap + 2 + 2` places of the
  pipeline that failed plus one.
* `Processors`: two services, of which one has an error rate of its own; four
  records fill one service's window twice, or two windows of two services, before
  and after a restart; a reservoir and a top list of one are full with the first
  value, and a tie follows. One tree sends its walk in a circle, which `MaxDepth`
  ends. One attempt after the first is the shortest retry.
* `Investigation`: two calls let one fill the cache or the store for the other, and
  one fault is a timeout, an outage, or a client that gives up at any point. Page
  sizes of 0, 1 and 3 are the default, a page shorter than the list, and one past the
  limit of 2; a refused read ends a list of two. The signals have each extractor find nothing, something below and
  something above each severity, points without a time, and lists of spans of which
  some are past the ten events kept; no list has more than twelve anomalies, up to which
  `sort.Slice` leaves equal times in order; the
  graphs have no, one and three callers, callers that fail, differ in case, or have
  no event, and an edge that does not name the service.
* `RedCounters`: a counter that counts to 3 in three exports with two resets rises,
  falls and rises past its old value, by a reset or by a late export, and an export
  may be skipped or taken any number of times; the restart of the aggregator shares
  the bound of two.
  Two counters under one key are left out of the instance, not of the module:
  their sums have no bound.
* `Delivery`: four messages are two before, one during and one after a crash, a failed
  commit or a rebalance; two clients compete for the one place of the channel. One crash
  and one fault let a message be repeated for either reason and for both.
* `Lifecycle` has no bound but the number of pipelines: three allow one to fail
  before the select, one after it, and one to keep running.

`CHECK_DEADLOCK FALSE` is in every configuration: all of these systems may stop,
when the clock, the envelopes, the records or the calls are used up or the process
has ended.

## 4. Fairness

Only weak fairness, and only for what the Go runtime or the surroundings must do:
a goroutine whose channel operation can proceed eventually runs; time passes and
the ticker ticks; an upsert returns, since its client has a timeout of 10 s
(`weaviate.go:41`; in `Delivery` the steps `Take`, `Close`, `HandOver` and `Upsert`,
and nothing for sources and receivers); the metrics server's shutdown has one too
(`main.go:118`).
Actions of one goroutine share one fairness condition, as its `select` does. No
fairness for requests, cancellation, signals, crashes or restarts.

In `Processors` one condition covers the chain: some stage that can go on does, a
tick comes, an attempt at Ollama ends, since its client has a timeout. It says
nothing of which: `EveryRecordLeaves` holds since each step brings what there is
nearer to its end. In `Investigation` only `main` is fair, `WF(Drained \/
GraceTimeout)` and `WF(Exit)`: a handler may hang in a call for ever, and
`ShutdownEnds` holds without it.

`EveryWindowCloses` is stated for windows that end within the modelled clock, and
allows the loss of the sample: nothing obliges the process to stay up.

In `Summarizer` the next stage is assumed to take what is offered; `Pipelines`
shows when it does (`EveryAggregateExported`) and when it does not
(`pipelines_stop`, `pipelines_no_exporters`).

## 5. What is proved

All proofs hold for every value of the constants under the modules' named
assumptions, which only say what kind of value each constant is. Two hypotheses
say more, and the theorems that need them name them: `OncePerReceiver`, for the flow
of envelopes in `Pipelines`, and `FallbackOnlyMadeUp`, for `MadeUpAdvice`.

* **Summarizer.** Type correctness is inductive by itself. `WindowsDisjoint` is
  not: a state may satisfy it with a `winStart` that lies behind what was reported
  already. `WindowInv` adds that `winStart` is a multiple of the window length and
  not after the clock (`Aligned`, `LoopFacts`), that a tick in hand or in the
  channel is not after the clock, and that all that was ever reported, before any
  number of restarts, ends by `winStart`, or by the end of the window being sent,
  for services not yet sent (`ReportedBehind`), and ends at a multiple of the
  window length (`EndsAligned`): a restart truncates the clock, and no multiple
  lies between. The arithmetic is in `TruncFacts` and `TruncPastStart`.
  `EachSampleCountedOnce` needs that every open contribution was accepted and that
  accepted ones come from envelopes already numbered (`SampleInv`); the effect of
  each kind of step on the sets `Unsent`, `Reported` and `lost` is a lemma
  (`QuietSteps`, `ConsumeEffect`, `EmitEffect`, `ForgetEffect`), used again for the
  refinement. `SampleNotBeforeWindow` adds that open samples were taken after
  `winStart` (`ReadInv`).
* **Refinement.** `SummarizerImplementsLedger`: every step maps to `Take`, `Report`,
  `GiveUp` or a stutter of `SampleLedger`.
* **RedCounters.** `RequestsSplit` is inductive with the types, which hold below zero
  too, since a delta sum may be negative. For the other two, `DeltaInv` says of the
  exports of a counter that from one to a later one, and to now, it shows no more than
  it made meanwhile, and falls only by a reset (`Exported`); and of a lone counter that
  what was added for it is at most what it had made by the export taken last, and
  all it has made once more for every late one (`Taken`).
* **Lifecycle.** Types, `NoErrorDropped` (from `ErrInv`: the errors in the channel
  are of distinct pipelines that have failed, so there are fewer than its capacity
  when another one fails), `ReturnsAfterPipelines` and `ExitsOnlyOnSignal`
  (from `OrderInv`), for any finite number of pipelines.

* **Delivery.** `KafkaOnceInOrder` speaks of what was forwarded only; `KafkaInv`
  adds where the reader is. A message may still come (`Comes`) if it is not behind both
  the reader and the committed offset, or is in hand, or lies past one in hand that is
  not committed; what may still come lies behind all that was forwarded, but for what a
  rebalance brings again. A restart goes back to the committed offset and so before
  nothing that was forwarded. `ToldIsAccounted` needs that a goroutine about to tell its source
  has handed its message over (`ToldInv`). Both rest on the part of the types they
  use (`Shape`), and hold for any number of messages, crashes and faults.

  How often a message is counted (`RepeatsHaveACause`) follows from `CountInv`: what
  was put of a message and what the receiver still has in hand to put
  (`Pending`) are together no more than it was sent, for clients, or than consumers and
  connections were made that saw it, without the copies still to come, for Pulsar
  (`Limit`); and a client sends again only after a crash or a reason of its own. For
  Kafka, `KafkaCount` says that a message is forwarded once and once more for each
  rebalance that has it fetched again, and that what may still come is not counted
  yet. `SkipInv` counts the
  messages the reader is past, has not forwarded and does not hold: one more for
  each crash, failed commit or rebalance, and none by any other step. `StoredOnce` needs
  `ItemInv`: an item is at one place of the channel, or in the window, or in the
  exporter's hand, or stored, and never in two of these, since its number is that of
  its put. `RestInv` and these give the types.
* **Pipelines.** The types follow from themselves and the domains of the
  functions. `DispatchLockstep` needs what a dispatcher is at (`DispInv`): one with an
  Aggregate in hand has given it to the exporters before `dispAt` and to no other, one
  with an empty hand has given all of them the same number, and one that returned
  gives no more. Only `DispSend` changes what was given (`ReceivedStays`).

  `HandedInOrder` speaks of the two ends of a line of seven stages. The invariant
  behind it says of every stage that what is with it follows, in the receiver's
  order, what is further down the line: `NumInv` numbers the envelopes of a
  receiver as they are logged, `FanInv` goes from the receiver over its channel and
  the fan-out to what entered a pipeline, `LineInv` from there over converter,
  processor, bridge and dispatcher to each exporter. An envelope that entered and is
  not with an exporter is with a stage before it, unless the dispatcher has
  returned, and then it follows all the exporter got (`Follows`): so what an
  exporter was handed has no hole. `FanOutLockstep` follows with `StepInv` (of two subscribers
  the earlier was sent what the later was, and at most the envelope in the fan-out's
  hand besides), which must be an invariant of its own because a fan-out that returned
  has lost its hand.
  `BrokenPipelineStopsReceiver` follows with `StuckInv`: the envelopes a pipeline with
  a failed stage has taken lie in the channel and the hands before that stage, and
  these have room for `ChanCap` and a few; by `StepInv` the other subscribers of the
  receiver were sent one more at most. All three are proved under
  `OncePerReceiver`: `BuildAndRun` subscribes a receiver once for every time a
  pipeline lists it (`pipeline.go:67-69`), so a configuration that repeats one gives
  every envelope twice, and the statements are false of it.
* **Processors.** `SummariesMatchRecords` compares an Aggregate with its records after
  it was made; `SumInv` says the same of it wherever it is (`AggOK`), and of a window
  still open that its counts, users and reservoir are those of the records it took
  (`StateOK`). That no two Aggregates share a record is not inductive for Aggregates
  alone: a record may be in an envelope, in a batch, in a window or in an Aggregate, so
  the invariant gives each record one place (`Apart`), and one within that place
  (`OnceInv`), among the hands of the stages, the windows, the attempt at an embedding
  and what was exported. A step moves records from some places to others, and
  `ApartKept` and `HandsMoved` say when that keeps them apart. One more record in a
  window is `OneMoreRecord` and `ConsumedOK`: one more in the count, one more or as
  many errors and values, for any content of the reservoir after it. `FlushedOK` has
  the top list (`TopsFacts`) and the quantiles: the reservoir sorted is in order
  (`SortedNumbers`), the positions of the quantiles rise (`PositionsRise`), and between
  two neighbours the value is between theirs (`Weighted`). What a record says does not
  change (`SentGrows`).

  `ScoresFollowHistory` needs `StatInv`: for every service there could be, the rolling
  statistics are those of all its Aggregates that were scored. `Welford` is the
  recurrence behind it, `n * squares - total * total` after one more value, and
  `StatsGrow` gives count, sum and squares after one more Aggregate, of this service or
  another. A score once given is of the first `k` only, and so stays right
  (`JudgedKept`); the new one is of the statistics after its own value (`JudgedLast`).
  Nothing is assumed of the trees or features: the score is that of the standing,
  whatever the forest makes of it.
* **Lists.** Sums are recursive functions; `UptoExists` and `SumAnother` get their
  partial sums by induction over a set of numbers (`SetInduction`, from the least
  element of its complement). `EveryRank` says that in a finite order there is an
  element for every rank, so that what `Sorted` and `Nth` choose exists
  (`EveryPlace`, `NthMember`).
* **Investigation.** `CacheInv`: every value in the cache, in a SET not yet executed
  or in the hand of a handler about to send one is good to keep (`Good`); since
  Weaviate forgets nothing, what was good stays so. `IdInv`: a call at work has a number
  no other has, that no correlation carries and of which no client was told; so the
  correlation stored for it is the only one, and the outcome told the only outcome.
  Both rest on the types; the effect of each step of a handler on store, cache and
  answers is one lemma (`HandlerEffect`). They hold for any `Analyze`, signals and
  graphs.

  `PagesCoverSnapshot` says nothing of a client that is half through. `PagerInv` says
  that what was there when it began is among what it has seen and what lies at or
  behind its offset (`Ahead`), that nothing is missing between two it has seen
  (`Unbroken`), that the offset is not past the end of the list, and
  that what it has seen twice and has still before it though seen is no more than
  what was stored since. A correlation stored in front of the offset pushes one
  that was seen behind it (`InsertedKeepsPager`): one more in the second number, and
  one more stored. A page takes from the second number what it adds to the first
  (`TurnedKeepsPager`).
  `MadeUpOnlyAfterOutage` needs that the result a handler is about to store has not
  the fallback's advice either (`AdviceInv`); that goes back through `Analyze` to the
  similar incidents, which are those of the store or old ones, or the rules. It
  holds under `FallbackOnlyMadeUp`: neither a record of before the start nor the rules
  give exactly the advice of the fallback incidents (`weaviate_repo.go:635-655`),
  as `configs/rules/default.yaml` does not. With rules that do, advice of the rules
  could not be told from it.

  `RootCauseExplained` is about what `Analyze` makes of signals and graph, and about the
  handler that must still have the ones it was made of when it stores the result. The
  second is `CauseInv`: a handler keeps graph and signals until it concludes, and a
  graph, also one from the cache or from a late SET, is a list (`Good`). The first is
  `CauseExplained`, which follows the analysis: anomalies have the times of the points
  they are of (`DetectedTimed`), sorting gives each a place (`ByTimePlaces`) in order of
  time (`PlacedOrdered`), so the ten events kept are first of all anomalies, and one that
  is not kept has ten that are not later (`TimelineSummary`, `LateCrowded`). The first
  event of a service is its earliest (`EventTimeFirst`). Hence an upstream event that
  counts as before the root's is before all anomalies on the service's spans, kept or not
  (`SupportsFirst`), and one that counts as none has none in sight
  (`SupportsUnseen`); and the suggestion, whichever rate it was chosen by, is one of the
  edges that support it (`SuggestedSupports`). Points without a time are included:
  `time.Time{}` (`mirador_core.go:99`) is what the causality takes for no event, the
  last case of `OutOfSight`.

Every invariant and action property of the passing runs is stated by a theorem.
Checked by TLC only:

* liveness (`EveryWindowCloses`, `EveryAggregateExported`, `ExportersStop`,
  `SignalStops`, `NothingStuck`, `EveryRecordLeaves`, `ShutdownEnds`), which is beyond
  the prover, as is `ENABLED`, on which the fairness rests;
* what the analysis makes of a request besides the root cause and the source of its
  advice: the scores, the confidence, the order of anchors and the events of the
  topology. No property of a run is about these, so TLC only evaluates them;
* that the four disagreements below are there: a behaviour that violates a statement is
  for TLC to show.

The prover knows nothing of `SelectSeq`, `SortSeq` and `FoldLeft`, which are defined by
recursion. Where a proof needs what they return, the modules sort by rank, pick with
`Nth` and add up or choose with a recursive function instead.

## 6. Disagreements between the code and its documents

1. A window holds what was taken while it was open, not what arrived in
   `[WindowStart, WindowEnd)` (`summarizer_event_time`).
2. "no exporters; aggregates will be dropped": they block the pipeline and its
   receiver instead (`pipelines_no_exporters`).
3. Every span counts as an error, since the label `status_code_ok` is not an OK
   status for the summarizer; spans with status ERROR yield no `errors_total`
   (`red_span_status`).
4. "if any error was reported, return the first": not when the context is
   cancelled at the same time (`lifecycle_first_error`).

Each of these four is a run that TLC finds violated. Others, met while modelling,
can be read off one definition and have no run (paths of `src/mirador-rca-main/`
unless they say otherwise):

* `README.md:10` says that investigations fail when the service graph is missing or
  empty. `FetchSignals` logs it and goes on without one (`pipeline.go:125-130`;
  `QueryFails` and `QueryGraph` of `Investigation`). An empty graph is an error
  when mirador-core answers it and a success when the cache does
  (`mirador_core.go:262-269`), to the same effect.
* `docs/rules.md:24` speaks of the first rule that matches; all that match add their
  advice (`recommend.go:68-78`; `Recommend`).
* `docs/perf-validation.md:7` has a p95 logged every 20 investigations. The condition
  is on the number of samples in a ring of 1024 (`rca_service.go:49,79`), which is not
  a multiple of 20: once the ring is full, nothing is logged.
* When Weaviate fails, made-up incidents and patterns are answered
  (`weaviate_repo.go:254-260`), while `README.md:12` says that the service performs no
  synthetic fallbacks; it lists telemetry and the graph.
* `indicent-analysis.md:52` says that the causality engine can override the root cause
  "when an upstream dependency consistently precedes the symptoms". `Evaluate` compares
  the upstream's first event with the first one that names the service
  (`causality.go:64`), and metric and log events name none (`pipeline.go:274,285`): with
  an anomaly of the service's logs first, then a span of the upstream, then one of
  the service, the upstream is named (`Supports` and `EventTime` of `Analysis`).
* An upstream service that is blamed because its calls fail has no event; the
  timeline then gets one half a second before year one, and is sorted again only if
  the graph names the service exactly (`pipeline.go:179-193`, `457-507`).
* An error span is of severity *high* even with a score that would be *critical*.
* No stage sets the label `source`, so the vectorizer's branches for logs, metrics
  and traces are never taken (the aggregator's `vectorizer.go:227`). A hashed
  vector that stands in for one of Ollama's has another dimension.
* The aggregator's `config.example.yaml` filters on `anomaly_score` before iforest has
  set it, and nests `pipelines` under `service`, where `config.Load` does not look.

## 7. Not modelled, and why

* **Floating point.** The t-digest and histograms of the summarizer, and the
  vectorizer's EMA and PCA, which no pipeline reaches. What iforest and the extractors
  compute is modelled in whole numbers, up to rounding.
* **Wire formats**: OTLP, Prometheus Remote Write, RESP, GraphQL, JSON and YAML, with
  TLS and authentication. Their failures are the faults of the models.
* **Receivers' servers.** Their shutdown, which may wait for a handler that is blocked
  on a channel nobody reads, and the split of NDJSON bodies into lines.
* **Ids of stored objects**, made from a template: two pipelines that write one class
  may collide.
* **Pattern miner and `correlate.go`**, which nothing calls, and `SetNX` and `Del` of
  the cache, which have no caller.
* **Latency tracker and metrics** of the RCA service: they change no answer.
* **UI, Grafana data source and app, playground, charts, generated code, test
  sender**: no concurrent state of their own. `mirador-core` is an empty submodule.
