----------------------------- MODULE MCPipelines -----------------------------
(***************************************************************************)
(* Instances of Pipelines.  Flow: two receivers that wait; two pipelines,   *)
(* of which the second listens to both and has two exporters, and the first *)
(* may fail to start.  Stop: one receiver that drops, two pipelines with    *)
(* one exporter each, of which the second fails to start, enough            *)
(* envelopes to fill it up, and a context that may be cancelled any time.   *)
(***************************************************************************)
EXTENDS Pipelines

CONSTANTS r1, r2, p1, p2

MCPipelineSet == {p1, p2}
MCSummarised == Msgs \ {2}

FlowReceivers == {r1, r2}
FlowSubs == [r \in FlowReceivers |-> IF r = r1 THEN <<p1, p2>> ELSE <<p2>>]
FlowExporters == [p \in MCPipelineSet |-> IF p = p1 THEN 1 ELSE 2]
FlowBlocking == {r1, r2}
FlowFaults == [p \in MCPipelineSet |-> IF p = p1 THEN Kinds ELSE {"none"}]

StopReceivers == {r1}
StopSubs == [r \in StopReceivers |-> <<p1, p2>>]
StopExporters == [p \in MCPipelineSet |-> 1]

StopFaults == [p \in MCPipelineSet |-> IF p = p2 THEN {"processor", "exporter"} ELSE {"none"}]
AllSummarised == Msgs

NoFaults == [p \in MCPipelineSet |-> {"none"}]

\* the second pipeline lists no exporters
NoExporters == [p \in MCPipelineSet |-> IF p = p1 THEN 1 ELSE 0]
=============================================================================
