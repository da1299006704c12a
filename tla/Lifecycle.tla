----------------------------- MODULE Lifecycle ------------------------------
(***************************************************************************)
(* Start and end of the aggregator process: main                            *)
(* (cmd/mirador-nrt-aggregator/main.go) with its errgroup of three, and     *)
(* BuildAndRun (internal/pipeline/pipeline.go) with the goroutines of the   *)
(* pipelines, their error channel and the select at its end.                *)
(*                                                                          *)
(* What a pipeline does while it runs is in Pipelines.tla.  Here it either  *)
(* returns an error at once, because it names a stage that does not exist,  *)
(* or returns nil when the context is cancelled.                            *)
(***************************************************************************)
EXTENDS Integers, Sequences, FiniteSets, SequencesExt

CONSTANTS Pipelines, None

ASSUME LifecycleAssumption ==
  /\ IsFiniteSet(Pipelines)
  /\ Pipelines # {}
  /\ None \notin Pipelines

VARIABLES
  bad,        \* pipelines that name a stage that does not exist
  cfgBad,     \* a factory or a receiver lookup fails
  ready,      \* what /readyz answers
  signalled,  \* SIGINT or SIGTERM has been sent
  ctxDone,    \* the root context is cancelled
  watcher,    \* has the signal watcher returned
  metrics,    \* has the goroutine that shuts the metrics server down returned
  pc,         \* where BuildAndRun is
  pl,         \* per pipeline: its goroutine
  errCh,      \* errors not received yet
  errs,       \* history: every error that was put into errCh
  got,        \* the error received from errCh
  result,     \* what BuildAndRun returned: an error's pipeline or None
  exited      \* main has returned

vars == <<bad, cfgBad, ready, signalled, ctxDone, watcher, metrics, pc, pl, errCh, errs,
          got, result, exited>>

config == <<bad, cfgBad>>
process == <<ready, signalled, ctxDone, watcher, metrics, exited>>

Init ==
  /\ bad \in SUBSET Pipelines
  /\ cfgBad \in BOOLEAN
  /\ ready = FALSE
  /\ signalled = FALSE
  /\ ctxDone = FALSE
  /\ watcher = FALSE
  /\ metrics = FALSE
  /\ pc = "init"
  /\ pl = [p \in Pipelines |-> "off"]
  /\ errCh = <<>>
  /\ errs = <<>>
  /\ got = None
  /\ result = None
  /\ exited = FALSE

-----------------------------------------------------------------------------
(* BuildAndRun                                                              *)

(* ready.Store(true) comes before the call *)
Enter ==
  /\ pc = "init"
  /\ ready' = TRUE
  /\ pc' = "building"
  /\ UNCHANGED <<signalled, ctxDone, watcher, metrics, exited, pl, errCh, errs, got, result>>
  /\ UNCHANGED config

(* An unknown receiver, processor or exporter type, or a receiver that is   *)
(* not configured: no pipeline has started, since the factories fail for    *)
(* the first pipeline or for none.                                          *)
BuildFails ==
  /\ pc = "building"
  /\ cfgBad
  /\ pc' = "failed"
  /\ UNCHANGED <<pl, errCh, errs, got, result>>
  /\ UNCHANGED config /\ UNCHANGED process

StartPipeline(p) ==
  /\ pc = "building"
  /\ ~cfgBad
  /\ pl[p] = "off"
  /\ pl' = [pl EXCEPT ![p] = "running"]
  /\ UNCHANGED <<pc, errCh, errs, got, result>>
  /\ UNCHANGED config /\ UNCHANGED process

Built ==
  /\ pc = "building"
  /\ \A p \in Pipelines : pl[p] # "off"
  /\ pc' = "select"
  /\ UNCHANGED <<pl, errCh, errs, got, result>>
  /\ UNCHANGED config /\ UNCHANGED process

SelectDone ==
  /\ pc = "select"
  /\ ctxDone
  /\ pc' = "drain"
  /\ UNCHANGED <<pl, errCh, errs, got, result>>
  /\ UNCHANGED config /\ UNCHANGED process

SelectErr ==
  /\ pc = "select"
  /\ errCh # <<>>
  /\ got' = Head(errCh)
  /\ errCh' = Tail(errCh)
  /\ pc' = "drain"
  /\ UNCHANGED <<pl, errs, result>>
  /\ UNCHANGED config /\ UNCHANGED process

\* variant: an error is returned without waiting for the other pipelines
ReturnAtOnce ==
  /\ pc = "drain"
  /\ got # None \/ \A p \in Pipelines : pl[p] = "done"
  /\ result' = got
  /\ pc' = "returned"
  /\ UNCHANGED <<pl, errCh, errs, got>>
  /\ UNCHANGED config /\ UNCHANGED process

(* <-done: the wait group is at zero *)
Return ==
  /\ pc = "drain"
  /\ \A p \in Pipelines : pl[p] = "done"
  /\ result' = got
  /\ pc' = "returned"
  /\ UNCHANGED <<pl, errCh, errs, got>>
  /\ UNCHANGED config /\ UNCHANGED process

-----------------------------------------------------------------------------
(* The goroutine of a pipeline: runSinglePipeline, the send that falls back *)
(* to default when errCh is full, wg.Done.                                  *)

\* variant: the channel has room for one error
CapacityOne == 1

Capacity == Cardinality(Pipelines)

Fails(p) ==
  /\ pl[p] = "running"
  /\ p \in bad
  /\ pl' = [pl EXCEPT ![p] = "failing"]
  /\ IF Len(errCh) < Capacity
       THEN errCh' = Append(errCh, p) /\ errs' = Append(errs, p)
       ELSE UNCHANGED <<errCh, errs>>
  /\ UNCHANGED <<pc, got, result>>
  /\ UNCHANGED config /\ UNCHANGED process

\* variant: a cancelled pipeline returns ctx.Err()
StopsWithError(p) ==
  /\ pl[p] = "running"
  /\ p \notin bad
  /\ ctxDone
  /\ pl' = [pl EXCEPT ![p] = "failing"]
  /\ errCh' = Append(errCh, p) /\ errs' = Append(errs, p)
  /\ UNCHANGED <<pc, got, result>>
  /\ UNCHANGED config /\ UNCHANGED process

Stops(p) ==
  /\ pl[p] = "running"
  /\ p \notin bad
  /\ ctxDone
  /\ pl' = [pl EXCEPT ![p] = "done"]
  /\ UNCHANGED <<pc, errCh, errs, got, result>>
  /\ UNCHANGED config /\ UNCHANGED process

Done(p) ==
  /\ pl[p] = "failing"
  /\ pl' = [pl EXCEPT ![p] = "done"]
  /\ UNCHANGED <<pc, errCh, errs, got, result>>
  /\ UNCHANGED config /\ UNCHANGED process

-----------------------------------------------------------------------------
(* main                                                                     *)

Signal ==
  /\ ~signalled
  /\ signalled' = TRUE
  /\ UNCHANGED <<ready, ctxDone, watcher, metrics, exited, pc, pl, errCh, errs, got, result>>
  /\ UNCHANGED config

\* variant: the watcher returns and leaves the context alone
WatchWithoutCancel ==
  /\ signalled
  /\ ~watcher
  /\ watcher' = TRUE
  /\ UNCHANGED <<ready, signalled, ctxDone, metrics, exited, pc, pl, errCh, errs, got, result>>
  /\ UNCHANGED config

Watch ==
  /\ signalled
  /\ ~watcher
  /\ watcher' = TRUE
  /\ ctxDone' = TRUE
  /\ UNCHANGED <<ready, signalled, metrics, exited, pc, pl, errCh, errs, got, result>>
  /\ UNCHANGED config

(* Shutdown gives up after its timeout *)
ShutMetrics ==
  /\ ctxDone
  /\ ~metrics
  /\ metrics' = TRUE
  /\ UNCHANGED <<ready, signalled, ctxDone, watcher, exited, pc, pl, errCh, errs, got, result>>
  /\ UNCHANGED config

\* variant: main ends with the first member of the group that returns an error
ExitOnError ==
  /\ ~exited
  /\ \/ pc = "failed" \/ (pc = "returned" /\ result # None)
     \/ pc = "returned" /\ watcher /\ metrics
  /\ exited' = TRUE
  /\ UNCHANGED <<ready, signalled, ctxDone, watcher, metrics, pc, pl, errCh, errs, got, result>>
  /\ UNCHANGED config

(* g.Wait waits for all three; the group has no context that an error of    *)
(* one of them could cancel.                                                *)
Exit ==
  /\ ~exited
  /\ pc \in {"failed", "returned"} /\ watcher /\ metrics
  /\ exited' = TRUE
  /\ UNCHANGED <<ready, signalled, ctxDone, watcher, metrics, pc, pl, errCh, errs, got, result>>
  /\ UNCHANGED config

-----------------------------------------------------------------------------
BuildAndRun ==
  \/ Enter \/ BuildFails \/ Built \/ SelectDone \/ SelectErr \/ Return
  \/ \E p \in Pipelines : StartPipeline(p)

Pipeline(p) == Fails(p) \/ Stops(p) \/ Done(p)

Next ==
  /\ ~exited
  /\ \/ BuildAndRun
     \/ \E p \in Pipelines : Pipeline(p)
     \/ Signal \/ Watch \/ ShutMetrics \/ Exit

Spec == Init /\ [][Next]_vars

(* Each goroutine that can go on does; nobody has to send a signal.         *)
Fairness ==
  /\ WF_vars(~exited /\ BuildAndRun)
  /\ \A p \in Pipelines : WF_vars(~exited /\ Pipeline(p))
  /\ WF_vars(~exited /\ Watch)
  /\ WF_vars(~exited /\ ShutMetrics)
  /\ WF_vars(Exit)

FairSpec == Spec /\ Fairness

-----------------------------------------------------------------------------
(* Properties                                                               *)

(* Every variable keeps its shape; only misconfigured pipelines report an   *)
(* error, so a shutdown on a signal alone is not one.                       *)
TypeOK ==
  /\ bad \in SUBSET Pipelines
  /\ {cfgBad, ready, signalled, ctxDone, watcher, metrics, exited} \subseteq BOOLEAN
  /\ pc \in {"init", "building", "failed", "select", "drain", "returned"}
  /\ pl \in [Pipelines -> {"off", "running", "failing", "done"}]
  /\ errCh \in Seq(bad)
  /\ errs \in Seq(bad)
  /\ got \in bad \cup {None}
  /\ result \in bad \cup {None}

(* errCh has room for an error of every pipeline (pipeline.go:117), so the  *)
(* default that drops one (140) is never taken, even when all fail before   *)
(* the select is reached or after it has been left.                         *)
NoErrorDropped ==
  \A p \in bad : pl[p] \in {"failing", "done"} => p \in ToSet(errs)

(* When BuildAndRun returns after its select, every pipeline has returned:  *)
(* main never ends under a pipeline that still runs.                        *)
ReturnsAfterPipelines ==
  (pc = "returned" \/ (exited /\ ~cfgBad)) => \A p \in Pipelines : pl[p] = "done"

(* The process ends only on a signal: a pipeline, or all of them, may fail  *)
(* and the process stays up and answers that it is ready.                   *)
ExitsOnlyOnSignal == exited => signalled /\ ready

(* And on a signal it ends, wherever it is: while it builds, after a failed *)
(* build, in the select, or blocked on the pipelines with an error in hand. *)
SignalStops == signalled ~> exited

(* "Wait for all pipelines; if any error was reported, return the first."   *)
(* (pipeline.go:146)                                                        *)
FirstErrorReturned ==
  (pc = "returned" /\ errs # <<>>) => result = errs[1]
=============================================================================
