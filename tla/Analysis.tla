------------------------------ MODULE Analysis ------------------------------
(***************************************************************************)
(* The analysis of mirador-rca: anomaly extractors (internal/extractors),   *)
(* anchors, timeline, causality, rules and advice (internal/engine).  It is *)
(* a function of the request, the signals, the service graph and the        *)
(* similar incidents, and keeps no state of its own.                        *)
(*                                                                          *)
(* Scores are in hundredths and confidences in percent, rounded towards     *)
(* zero, so that every threshold of the code is compared exactly.  A time   *)
(* is a number of half seconds; time.Time{} is Zero.                        *)
(***************************************************************************)
EXTENDS Integers, Sequences, FiniteSets, SequencesExt, Lists

CONSTANTS
  Fold,     \* lower case of every name: EqualFold(a, b) is Fold[a] = Fold[b]
  Rules,    \* the rule pack, in file order; empty when there is none
  Now       \* time.Now(), later than every time in a signal

ASSUME AnalysisAssumption ==
  /\ \A n \in DOMAIN Fold : Fold[n] \in DOMAIN Fold /\ Fold[Fold[n]] = Fold[n]
  /\ Now \in Nat

Zero == 0
Same(a, b) == Fold[a] = Fold[b]

Least(a, b) == IF a < b THEN a ELSE b
Greatest(a, b) == IF a < b THEN b ELSE a
Clamp(x, lo, hi) == Greatest(lo, Least(x, hi))
MaxOf(s) == FoldLeft(Greatest, 0, s)
First(s, n) == SubSeq(s, 1, Least(n, Len(s)))

-----------------------------------------------------------------------------
(* Extractors: points, entries and spans to anomalies.                      *)

(* The z-score of x among the values; a deviation of zero becomes 0.01, and *)
(* then every score is 0.  With d and v, n times the distance from the mean *)
(* and n * n times the variance, it is the whole root of a quotient.        *)
WholeScore(n, d, v) ==
  IF v = 0 THEN 0
  ELSE CHOOSE k \in 0 .. 100 * n : k * k * v <= 10000 * d * d /\ (k + 1) * (k + 1) * v > 10000 * d * d
SignedScore(n, d, v) == IF d < 0 THEN -WholeScore(n, d, v) ELSE WholeScore(n, d, v)
Squared(values) == [i \in DOMAIN values |-> values[i] * values[i]]

ZScore(values, x) ==
  SignedScore(Len(values), Len(values) * x - SumOf(values),
              Len(values) * SumOf(Squared(values)) - SumOf(values) * SumOf(values))

Anomaly(kind, p, svc, score) ==
  [kind |-> kind, t |-> p.t, svc |-> svc, score |-> score,
   error |-> kind = "traces" /\ p.error]

(* An anomaly for each of the points that are kept, in their order.         *)
Detected(kind, points, scores, kept) ==
  [n \in 1 .. Cardinality(kept) |->
     Anomaly(kind, points[Nth(kept, n)],
             IF kind = "traces" THEN points[Nth(kept, n)].svc ELSE "", scores[Nth(kept, n)])]

Values(points) == [i \in DOMAIN points |-> points[i].x]

ZScores(points) == [i \in DOMAIN points |-> ZScore(Values(points), points[i].x)]

DetectMetrics(series, threshold) ==
  LET scores == ZScores(series)
  IN Detected("metrics", series, scores,
              {i \in DOMAIN series : scores[i] >= IF threshold <= 0 THEN 250 ELSE threshold})

Median(values) == Sorted(values, <)[Len(values) \div 2 + 1]
Off(x, median) == IF x < median THEN median - x ELSE x - median

(* How many mean deviations, of total in all, x is off; 0 becomes 1.        *)
Deviation(x, n, median, total) ==
  IF total = 0 THEN 100 * Off(x, median) ELSE (100 * n * Off(x, median)) \div total

LogsBeyond(entries, n, median, total) ==
  LET off == [i \in DOMAIN entries |-> Deviation(entries[i].x, n, median, total)]
  IN Detected("logs", entries, [i \in DOMAIN entries |-> Greatest(300, off[i])],
              {i \in DOMAIN entries :
                 \/ off[i] >= 300
                 \/ entries[i].error /\ entries[i].x > (13 * median) \div 10})

LogsAround(entries, median) ==
  LogsBeyond(entries, Len(entries), median,
             SumOf([i \in DOMAIN entries |-> Off(entries[i].x, median)]))

DetectLogs(entries) == LogsAround(entries, Median(Values(entries)))

DetectTraces(spans) ==
  LET scores == ZScores(spans)
  IN Detected("traces", spans, scores, {i \in DOMAIN spans : scores[i] >= 200 \/ spans[i].error})

Anomalies(sig, threshold) ==
  DetectMetrics(sig.metrics, threshold) \o DetectLogs(sig.logs) \o DetectTraces(sig.traces)

-----------------------------------------------------------------------------
(* Anchors, timeline, confidence.                                           *)

buildAnchors(service, anomalies) ==
  LET anchors == [i \in DOMAIN anomalies |->
        [svc |-> IF anomalies[i].kind = "traces" THEN anomalies[i].svc ELSE service,
         kind |-> anomalies[i].kind, score |-> anomalies[i].score]]
  IN First(Sorted(anchors, LAMBDA a, b : a.score > b.score), 5)

severityFromScore(score) ==
  CASE score >= 400 -> "critical"
    [] score >= 300 -> "high"
    [] score >= 200 -> "medium"
    [] OTHER -> "low"

Event(t, svc, severity) == [t |-> t, svc |-> svc, severity |-> severity]

ByTime(timeline) == Sorted(timeline, LAMBDA a, b : a.t < b.t)

(* Metric and log events carry no service.  An error span is of severity    *)
(* high, also when its score alone would make it critical.                  *)
buildTimeline(anomalies) ==
  First(ByTime([i \in DOMAIN anomalies |->
          LET a == anomalies[i] IN
            Event(a.t, a.svc, IF a.error THEN "high" ELSE severityFromScore(a.score))]), 10)

computeConfidence(anomalies) ==
  LET Of(kind) == SelectSeq(anomalies, LAMBDA a : a.kind = kind)
      Part(kind, scale, most) ==
        IF Of(kind) = <<>> THEN 0
        ELSE 25 + Clamp(MaxOf([i \in DOMAIN Of(kind) |-> Of(kind)[i].score]) \div scale, 0, most)
  IN Least(100, Part("metrics", 8, 25) + Part("logs", 6, 20) + Part("traces", 6, 20))

calibrateConfidence(base, causality) ==
  IF causality <= 0 THEN (base * 7) \div 10
  ELSE Clamp((base * 6 + causality * 4) \div 10, 0, 100)

deriveRootCause(service, anchors) ==
  IF anchors = <<>> THEN [svc |-> service, why |-> "no dominant anchor", kind |-> "none"]
  ELSE [svc |-> anchors[1].svc, why |-> "anomaly", kind |-> anchors[1].kind]

-----------------------------------------------------------------------------
(* Causality over the service graph.                                        *)

EventTime(service, timeline) ==
  LET at == {i \in DOMAIN timeline : Same(timeline[i].svc, service)}
  IN IF at = {} THEN Zero ELSE timeline[CHOOSE i \in at : \A j \in at : i <= j].t

RootTime(service, timeline) ==
  LET t == EventTime(service, timeline) IN IF t = Zero THEN timeline[1].t ELSE t

\* variant: an upstream service that comes after the root supports it as well
SupportsAnyOrder(edge, service, timeline) ==
  /\ Same(edge.dst, service)
  /\ \/ EventTime(edge.src, timeline) = Zero /\ edge.err > 0
     \/ EventTime(edge.src, timeline) # Zero

(* An upstream service supports when its first event comes before the       *)
(* root's, or when it has no event and its calls fail.                      *)
Supports(edge, service, timeline) ==
  /\ Same(edge.dst, service)
  /\ LET t == EventTime(edge.src, timeline)
     IN IF t = Zero THEN edge.err > 0 ELSE t < RootTime(service, timeline)

(* Supporting edges are compared with the best one so far by error rate or  *)
(* by call rate, whichever it is that made them support.                    *)
Better(best, edge, timeline) ==
  IF best = <<>> THEN <<edge>>
  ELSE IF EventTime(edge.src, timeline) = Zero
       THEN IF edge.err > best[1].err THEN <<edge>> ELSE best
       ELSE IF edge.rate > best[1].rate THEN <<edge>> ELSE best

Suggested(service, timeline, edges) ==
  LET upto[k \in 0 .. Len(edges)] ==
        IF k = 0 THEN <<>>
        ELSE IF Supports(edges[k], service, timeline) THEN Better(upto[k - 1], edges[k], timeline)
        ELSE upto[k - 1]
  IN upto[Len(edges)]

Evaluate(service, timeline, edges) ==
  LET upstream == SelectSeq(edges, LAMBDA e : Same(e.dst, service))
      supporting == SelectSeq(edges, LAMBDA e : Supports(e, service, timeline))
      best == Suggested(service, timeline, edges)
  IN IF timeline = <<>> \/ upstream = <<>> THEN [score |-> 0, svc |-> ""]
     ELSE [score |-> 40 + (60 * Len(supporting)) \div Len(upstream),
           svc |-> IF best = <<>> THEN "" ELSE best[1].src]

(* The two busiest edges that name the service exactly; only then is the    *)
(* timeline sorted again.                                                   *)
appendTopologyEvents(timeline, service, edges) ==
  LET related == First(Sorted(SelectSeq(edges, LAMBDA e : service \in {e.src, e.dst}),
                              LAMBDA a, b : a.rate > b.rate), 2)
      found == EventTime(service, timeline)
      at == IF found = Zero THEN Now ELSE found
      Of(e) == IF e.dst = service THEN Event(at - 1, e.src, "low") ELSE Event(at + 1, e.dst, "low")
  IN IF related = <<>> THEN timeline
     ELSE ByTime(timeline \o [i \in DOMAIN related |-> Of(related[i])])

neighborServices(edges, service) ==
  {e.dst : e \in {x \in ToSet(edges) : x.src = service}}
    \cup {e.src : e \in {x \in ToSet(edges) : x.dst = service}}

-----------------------------------------------------------------------------
(* Advice.                                                                  *)

serviceMatches(name, req, anchors) ==
  \/ \E s \in ToSet(req.affected) : Same(name, s)
  \/ \E a \in ToSet(anchors) : Same(name, a.svc)

Matches(rule, req, anchors, timeline) ==
  /\ rule.service # "" => serviceMatches(rule.service, req, anchors)
  /\ rule.severity # "" => \E e \in ToSet(timeline) : e.severity = rule.severity
  /\ rule.selectors # {} => \E a \in ToSet(anchors) : a.kind \in rule.selectors

appendUnique(recs, more) ==
  FoldLeft(LAMBDA acc, r : IF r = "" \/ r \in ToSet(acc) THEN acc ELSE Append(acc, r), recs, more)

(* Every rule that matches adds its recommendations.                        *)
Recommend(req, anchors, timeline) ==
  FoldLeft(LAMBDA acc, rule : IF Matches(rule, req, anchors, timeline)
                              THEN appendUnique(acc, rule.recs) ELSE acc, <<>>, Rules)

defaultRecommendations == <<"review deployments", "check upstream">>

recommendFromRules(req, anchors, timeline) ==
  LET recs == Recommend(req, anchors, timeline)
  IN IF recs = <<>> THEN defaultRecommendations ELSE recs

(* The advice of the first similar incident, whatever that was about.       *)
fetchRecommendations(req, anchors, timeline, similar) ==
  IF similar # <<>> /\ similar[1].recs # <<>> THEN similar[1].recs
  ELSE recommendFromRules(req, anchors, timeline)

-----------------------------------------------------------------------------
firstNonEmpty(names) ==
  LET kept == SelectSeq(names, LAMBDA n : n # "") IN IF kept = <<>> THEN "" ELSE kept[1]

DetermineService(req) ==
  LET named == firstNonEmpty(req.affected)
  IN IF named # "" THEN named
     ELSE IF req.symptoms # <<>> /\ req.symptoms[1] # "" THEN req.symptoms[1]
     ELSE "unknown-service"

Upstream(cause, service) == cause.svc # "" /\ ~Same(cause.svc, service)

\* of the cause Evaluate suggests
Concluding(req, service, anomalies, anchors, timeline, cause, graph, similar) ==
  LET influence == IF Upstream(cause, service)
                   THEN <<Event(EventTime(cause.svc, timeline) - 1, cause.svc, "medium")>>
                   ELSE <<>>
  IN [rootCause |-> IF Upstream(cause, service)
                    THEN [svc |-> cause.svc, why |-> "upstream", kind |-> "none"]
                    ELSE deriveRootCause(service, anchors),
      confidence |-> calibrateConfidence(computeConfidence(anomalies), cause.score),
      affected |-> ({service} \cup ToSet(req.affected) \cup neighborServices(graph, service)
                      \cup (IF Upstream(cause, service) THEN {cause.svc} ELSE {})) \ {""},
      recs |-> fetchRecommendations(req, anchors, timeline, similar),
      anchors |-> anchors,
      timeline |-> appendTopologyEvents(timeline \o influence, service, graph)]

\* of the order the anomalies are seen in
Judging(req, service, anomalies, timeline, graph, similar) ==
  Concluding(req, service, anomalies, buildAnchors(service, anomalies), timeline,
             Evaluate(service, timeline, graph), graph, similar)

Ordering(req, service, anomalies, graph, similar) ==
  Judging(req, service, anomalies, buildTimeline(anomalies), graph, similar)

\* Analyze, of the request, the signals, the graph and the similar incidents
Analyze(req, sig, graph, similar) ==
  Ordering(req, DetermineService(req), Anomalies(sig, req.threshold), graph, similar)
=============================================================================
