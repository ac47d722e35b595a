------------------------------- MODULE Prober -------------------------------
(***************************************************************************)
(* internal/health/prober.go: one goroutine per provider entry probes its  *)
(* upstream, records what it saw in the health runtime, and reports the    *)
(* initial sweep complete once every goroutine has been through its first  *)
(* probe.  Cancelling the prober's context ends the goroutines, and Start  *)
(* returns when the last one has ended (runtimeDone in internal/app).      *)
(*                                                                         *)
(* A probe takes its timestamp when it starts and records it when it ends; *)
(* between the two anything may happen, and the network decides how it     *)
(* ends.  Its timeout only bounds how long that takes.                     *)
(***************************************************************************)
EXTENDS Integers, FiniteSets

CONSTANTS
    Upstreams, FailureThreshold, RecoverySuccessThreshold, OpenInterval, MaxTime,
    Targets,       \* p.targets: the provider entries with a name
    UpstreamOf,    \* target.name: two entries may have the same name
    FailFast       \* targets with a failFastError: no API key to probe with

ASSUME RuntimeAssumption ==
    /\ {FailureThreshold, RecoverySuccessThreshold, OpenInterval} \subseteq Int
    /\ MaxTime \in Nat \ {0}

ASSUME TargetsAssumption ==
    /\ UpstreamOf \in [Targets -> Upstreams]
    /\ FailFast \subseteq Targets
    /\ IsFiniteSet(Targets)

VARIABLES
    clock, started, initialProbeComplete, upstreams,   \* the health runtime
    ctxDone,      \* the prober's context is cancelled
    startPC,      \* Start: "new", "started", "running", "returned"
    loop,         \* per target: where its goroutine is
    probeAt,      \* per target: the timestamp of its latest probe
    marked        \* targets with firstResultRecorded; firstResults is their number

runtimeVars == <<clock, started, initialProbeComplete, upstreams>>
proberVars  == <<ctxDone, startPC, loop, probeAt, marked>>
vars        == <<runtimeVars, proberVars>>

Runtime == INSTANCE HealthRuntime

\* "none": not launched; "probe": about to call probeOnce; "inflight": in
\* client.Do; "result": probeOnce has returned; "select": waiting for the ticker
\* or the context; "ended".
LoopStates == {"none", "probe", "inflight", "result", "select", "ended"}

Init ==
    /\ Runtime!NewRuntime
    /\ ctxDone = FALSE
    /\ startPC = "new"
    /\ loop = [t \in Targets |-> "none"]
    /\ probeAt = [t \in Targets |-> 0]
    /\ marked = {}

Goto(t, pc) == loop' = [loop EXCEPT ![t] = pc]

----------------------------------------------------------------------------
\* Start marks the runtime started.
Start ==
    /\ startPC = "new"
    /\ startPC' = "started"
    /\ Runtime!MarkStarted
    /\ UNCHANGED <<ctxDone, loop, probeAt, marked>>

\* It launches the goroutines; with nothing to probe the sweep is complete
\* before it begins.
Launch ==
    /\ startPC = "started"
    /\ startPC' = "running"
    /\ loop' = [t \in Targets |-> "probe"]
    /\ initialProbeComplete' = (initialProbeComplete \/ Targets = {})
    /\ UNCHANGED <<clock, started, upstreams, ctxDone, probeAt, marked>>

\* Mutant: Start does not wait for its goroutines.
Return_NoWait ==
    /\ startPC = "running"
    /\ startPC' = "returned"
    /\ UNCHANGED <<runtimeVars, ctxDone, loop, probeAt, marked>>

\* wg.Wait returns.
Return ==
    /\ startPC = "running"
    /\ \A t \in Targets : loop[t] = "ended"
    /\ startPC' = "returned"
    /\ UNCHANGED <<runtimeVars, ctxDone, loop, probeAt, marked>>

\* Mutant: the timestamp is the probe's deadline.
BeginProbe_StampsDeadline(t) ==
    /\ loop[t] = "probe"
    /\ ~ctxDone
    /\ probeAt' = [probeAt EXCEPT ![t] = clock + 1]
    /\ Goto(t, "inflight")
    /\ UNCHANGED <<runtimeVars, ctxDone, startPC, marked>>

\* probeOnce begins under a live context: the timestamp is taken here.
BeginProbe(t) ==
    /\ loop[t] = "probe"
    /\ ~ctxDone
    /\ probeAt' = [probeAt EXCEPT ![t] = clock]
    /\ Goto(t, "inflight")
    /\ UNCHANGED <<runtimeVars, ctxDone, startPC, marked>>

\* Mutant: the loop starts over instead of going on to the select.
SkipProbe_Retries(t) ==
    /\ loop[t] = "probe"
    /\ ctxDone
    /\ UNCHANGED vars

\* probeOnce finds the context cancelled and records nothing.
SkipProbe(t) ==
    /\ loop[t] = "probe"
    /\ ctxDone
    /\ Goto(t, "result")
    /\ UNCHANGED <<runtimeVars, ctxDone, startPC, probeAt, marked>>

\* An expected status: success, with the timestamp of the start.
ProbeSucceeds(t) ==
    /\ loop[t] = "inflight"
    /\ t \notin FailFast
    /\ Runtime!RecordProbeSuccess(UpstreamOf[t], probeAt[t])
    /\ Goto(t, "result")
    /\ UNCHANGED <<ctxDone, startPC, probeAt, marked>>

\* No key, no connection, a timeout or an unexpected status.
ProbeFails(t) ==
    /\ loop[t] = "inflight"
    /\ Runtime!RecordProbeFailure(UpstreamOf[t], probeAt[t])
    /\ Goto(t, "result")
    /\ UNCHANGED <<ctxDone, startPC, probeAt, marked>>

\* client.Do ends with context.Canceled: nothing is recorded.
ProbeCancelled(t) ==
    /\ loop[t] = "inflight"
    /\ ctxDone
    /\ t \notin FailFast
    /\ Goto(t, "result")
    /\ UNCHANGED <<runtimeVars, ctxDone, startPC, probeAt, marked>>

\* Mutant: the sweep is complete at the first goroutine's first result.
MarkFirstResult_AnyTarget(t) ==
    /\ loop[t] = "result"
    /\ t \notin marked
    /\ marked' = marked \cup {t}
    /\ initialProbeComplete' = TRUE
    /\ Goto(t, "select")
    /\ UNCHANGED <<clock, started, upstreams, ctxDone, startPC, probeAt>>

\* Mutant: the count never reaches the number of targets.
MarkFirstResult_OneShort(t) ==
    /\ loop[t] = "result"
    /\ t \notin marked
    /\ marked' = marked \cup {t}
    /\ initialProbeComplete' =
           (initialProbeComplete \/ Cardinality(marked') > Cardinality(Targets))
    /\ Goto(t, "select")
    /\ UNCHANGED <<clock, started, upstreams, ctxDone, startPC, probeAt>>

\* markFirstResult: called after the first probeOnce however that ended.
MarkFirstResult(t) ==
    /\ loop[t] = "result"
    /\ t \notin marked
    /\ marked' = marked \cup {t}
    /\ initialProbeComplete' =
           (initialProbeComplete \/ Cardinality(marked') = Cardinality(Targets))
    /\ Goto(t, "select")
    /\ UNCHANGED <<clock, started, upstreams, ctxDone, startPC, probeAt>>

\* Later probes return straight to the select.
BackToSelect(t) ==
    /\ loop[t] = "result"
    /\ t \in marked
    /\ Goto(t, "select")
    /\ UNCHANGED <<runtimeVars, ctxDone, startPC, probeAt, marked>>

\* Mutant: ejected upstreams are not probed.
TickerFires_WhileServing(t) ==
    /\ loop[t] = "select"
    /\ upstreams[UpstreamOf[t]].state \notin {"open", "half_open"}
    /\ Goto(t, "probe")
    /\ UNCHANGED <<runtimeVars, ctxDone, startPC, probeAt, marked>>

\* The ticker fires.  select may take this branch with the context cancelled.
TickerFires(t) ==
    /\ loop[t] = "select"
    /\ Goto(t, "probe")
    /\ UNCHANGED <<runtimeVars, ctxDone, startPC, probeAt, marked>>

EndLoop(t) ==
    /\ loop[t] = "select"
    /\ ctxDone
    /\ Goto(t, "ended")
    /\ UNCHANGED <<runtimeVars, ctxDone, startPC, probeAt, marked>>

\* The owner cancels the context (stopRuntimeWork).
Cancel ==
    /\ ~ctxDone
    /\ ctxDone' = TRUE
    /\ UNCHANGED <<runtimeVars, startPC, loop, probeAt, marked>>

ProbeEnds(t) == ProbeSucceeds(t) \/ ProbeFails(t) \/ ProbeCancelled(t)

LoopStep(t) ==
    \/ BeginProbe(t) \/ SkipProbe(t)
    \/ ProbeEnds(t)
    \/ MarkFirstResult(t) \/ BackToSelect(t)
    \/ TickerFires(t)
    \/ EndLoop(t)

ProberStep == Start \/ Launch \/ Return \/ Cancel \/ \E t \in Targets : LoopStep(t)

TimePasses == Runtime!Tick /\ UNCHANGED proberVars

Next == ProberStep \/ TimePasses

\* The goroutines run; every probe ends, at its timeout if not before; tickers
\* go on firing; select does not ignore a cancelled context for ever.
Fairness ==
    /\ WF_vars(TimePasses)
    /\ WF_vars(Start) /\ WF_vars(Launch) /\ WF_vars(Return)
    /\ \A t \in Targets :
           /\ WF_vars(BeginProbe(t) \/ SkipProbe(t))
           /\ WF_vars(ProbeEnds(t))
           /\ WF_vars(MarkFirstResult(t) \/ BackToSelect(t))
           /\ WF_vars(TickerFires(t))
           /\ SF_vars(EndLoop(t))

Spec == Init /\ [][Next]_vars /\ Fairness

----------------------------------------------------------------------------
\* The type invariant.
ProberTypeOK ==
    /\ Runtime!TypeOK
    /\ ctxDone \in BOOLEAN
    /\ startPC \in {"new", "started", "running", "returned"}
    /\ loop \in [Targets -> LoopStates]
    /\ probeAt \in [Targets -> 0..MaxTime]
    /\ marked \subseteq Targets

\* The sweep is reported complete only when the runtime holds a probe result
\* for every upstream the prober has, as /readyz assumes of
\* initialProbeComplete - unless the prober was told to stop meanwhile.
SweepMeansProbed ==
    initialProbeComplete /\ ~ctxDone =>
        \A t \in Targets : upstreams[UpstreamOf[t]].lastProbeAt # 0

\* Once Start has returned no probe is in flight and none is recorded any
\* more: whoever waited for runtimeDone may tear down what probes use.
QuietAfterReturn ==
    [][startPC = "returned" =>
          \A u \in Upstreams :
              /\ upstreams'[u].lastProbeAt = upstreams[u].lastProbeAt
              /\ upstreams'[u].halfOpenSuccesses = upstreams[u].halfOpenSuccesses
      ]_vars

\* The initial sweep always completes: slow, dead or cancelled targets delay it
\* by their first probe at most.
SweepCompletes == <>initialProbeComplete

\* A cancelled prober winds down wherever its goroutines were, so that
\* stopRuntimeWork, which waits for it, returns.
CancelledProberReturns == ctxDone ~> startPC = "returned"

\* No upstream is left on trial: every ejection that ends within the clock's
\* bound is followed by a verdict - readmission or a new ejection - unless the
\* prober is stopped.  Nobody has to read the runtime for that: a probe's report
\* makes the move to half-open itself.  (With RecoverySuccessThreshold 1, where
\* every counted probe is a verdict.)
TrialsEndInAVerdict ==
    \A u \in Upstreams, w \in 1..MaxTime :
        (upstreams[u].openWindowUntil = w)
            ~> (upstreams[u].openWindowUntil # w \/ ctxDone)
=============================================================================
