---------------------------- MODULE MCProcessors ----------------------------
(* The logs pipeline of config.example.yaml with a filter for log lines     *)
(* before logsum; one tree of its forest runs in a circle.                  *)
EXTENDS Processors

LogsChain == <<"otlplogs", "filter", "logsum", "filter", "iforest", "vectorizer">>
LogsFilters == [i \in {2, 4} |-> IF i = 2 THEN [stage |-> "pre", on |-> "logs", drop |-> TRUE]
                                 ELSE [stage |-> "post", on |-> "aggregates", drop |-> TRUE]]

(* log.level != "debug", and error_rate > 0.05 || count > 1                 *)
LogsVerdict(i, item, record) ==
  IF i = 2 THEN IF item.kind # "log" \/ record.form # "fine" THEN "error"
                ELSE IF record.level = "debug" THEN "false" ELSE "true"
  ELSE IF 20 * item.errs > item.count \/ item.count > 1 THEN "true" ELSE "false"

LogsFeatures == <<"p99", "error_rate", "count">>
Leaf == [leaf |-> TRUE, f |-> 0, t |-> 0, l |-> 0, r |-> 0]
Node(f, t, l, r) == [leaf |-> FALSE, f |-> f, t |-> t, l |-> l, r |-> r]
LogsForest == << <<Node(0, 0, 1, 2), Leaf, Node(2, 0, 1, 1)>>, <<Node(1, -1, 0, 1), Leaf>> >>

Record(svc, level, user, top, value) ==
  [svc |-> svc, level |-> level, user |-> user, top |-> top, value |-> value,
   form |-> "fine"]
Failed == Record("a", "error", "u", "x", <<3>>)
Slow   == Record("a", "info", "v", "y", <<9>>)
Other  == Record("b", "error", "", "", <<>>)
Debug  == Record("b", "debug", "u", "x", <<1>>)
LogBatches == {<<Failed>>, <<Slow, Failed>>, <<Other, [Slow EXCEPT !.form = "nan"]>>, <<Debug>>}
                \cup {<<[Debug EXCEPT !.form = f]>> : f \in {"text", "other"}}
ErrorLevels == {"error", "fatal"}
=============================================================================
