--------------------------- MODULE MCInvestigation ---------------------------
EXTENDS Investigation

Names == {"", "api", "API", "db", "DB", "web", "unknown-service"}
MCFold == [n \in Names |-> CASE n = "API" -> "api" [] n = "DB" -> "db" [] OTHER -> n]
MCNow == 200
MCRules == <<
  [service |-> "API", severity |-> "", selectors |-> {}, recs |-> <<"scale", "">>],
  [service |-> "", severity |-> "high", selectors |-> {"logs"}, recs |-> <<"scale", "rotate">>]>>

MCClients == {"c1", "c2"}
MCReaders == {"c2"}
MCRequests == {
  [affected |-> <<"", "api">>, symptoms |-> <<>>, threshold |-> 0],
  [affected |-> <<>>, symptoms |-> <<"API">>, threshold |-> 100]}
MCFewRequests == {[affected |-> <<"api">>, symptoms |-> <<>>, threshold |-> 0]}

\* points of a series: their values, the last at time t
Series(xs, t) == [i \in DOMAIN xs |-> [t |-> t + i - Len(xs), x |-> xs[i]]]
Flat(n, x) == [i \in 1 .. n |-> x]
Logged(xs, t, errors) == [i \in DOMAIN xs |->
  [t |-> t + i - Len(xs), x |-> xs[i], error |-> i \in errors]]
Span(t, x, svc, error) == [t |-> t, x |-> x, svc |-> svc, error |-> error]

Metrics == {Series(<<5>>, 40), Series(Flat(17, 1) \o <<3>>, 60), Series(<<1, 1, 1, 9>>, 40)}
Logs == {Logged(<<1, 1, 2>>, 30, {3}), Logged(<<2, 2, 2, 2, 2, 2, 90>>, 50, {7})}
Traces == {
  <<Span(30, 1, "db", FALSE)>>,
  <<Span(45, 2, "api", TRUE), Span(35, 3, "DB", TRUE), Span(44, 5, "web", TRUE)>>,
  <<Span(30, 1, "API", TRUE), Span(46, 9, "db", TRUE)>>,
  [i \in 1 .. 11 |-> Span(60 - i, IF i = 11 THEN 30 ELSE i, IF i = 10 THEN "db" ELSE "api", i # 3)]}
\* upstream spans that are the last of many, or have no time
CutOff == [i \in 1 .. 10 |-> Span(IF i = 10 THEN 70 ELSE 40 + i, i, IF i = 10 THEN "db" ELSE "api", TRUE)]
Timeless == {
  <<Span(Zero, 1, "db", TRUE), Span(45, 2, "api", TRUE), Span(46, 2, "DB", TRUE)>>,
  <<Span(Zero, 1, "api", TRUE), Span(44, 5, "db", TRUE), Span(45, 5, "api", TRUE)>>}
MCSignals ==
  {[metrics |-> m, logs |-> l, traces |-> t] : m \in Metrics, l \in Logs, t \in Traces}
    \cup {[metrics |-> m, logs |-> l, traces |-> t] :
            m \in Metrics \cup {<<[t |-> Zero, x |-> 1]>>}, l \in Logs, t \in Timeless \cup {CutOff}}
MCFewSignals == {[metrics |-> Series(<<5>>, 40), logs |-> Logged(<<2>>, 30, {}),
                  traces |-> <<Span(45, 2, "api", FALSE)>>]}

Edge(src, dst, rate, err) == [src |-> src, dst |-> dst, rate |-> rate, err |-> err]
MCGraphs == {
  <<>>,
  <<Edge("db", "api", 5, 0)>>,
  <<Edge("", "api", 9, 1), Edge("web", "API", 7, 2), Edge("db", "api", 5, 0)>>,
  <<Edge("DB", "API", 5, 1), Edge("api", "web", 3, 0)>>,
  <<Edge("unknown-service", "api", 2, 1), Edge("web", "api", 1, 3), Edge("api", "db", 4, 0)>>,
  <<Edge("api", "API", 2, 1), Edge("web", "db", 1, 3)>>}
MCFewGraphs == {<<Edge("db", "api", 5, 0)>>}

MCOldRecords == <<[id |-> 102, stamp |-> 0, recs |-> <<"restart">>],
                  [id |-> 101, stamp |-> 0, recs |-> <<>>]>>
MCPatterns == {"pattern"}
MCPageSizes == {0, 1, 3}
=============================================================================
