--------------------------- MODULE HealthRuntime ---------------------------
(***************************************************************************)
(* internal/health/runtime.go: the Runtime every other component shares.   *)
(* Planner (IsEligible), /readyz and the admin pages (Snapshot), the       *)
(* prober (MarkStarted, MarkInitialProbeComplete, RecordProbe...) and the  *)
(* executor (RecordRequest...) call it from many goroutines.  Each method  *)
(* runs under r.mu, so each is one step.  A caller reads its timestamp     *)
(* before it asks for the lock: a report may carry any time up to now, and *)
(* reports arrive in any order.                                            *)
(***************************************************************************)
EXTENDS UpstreamState

CONSTANTS
    Upstreams,   \* the names in r.order
    MaxTime      \* bound on the clock

ASSUME MaxTimeAssumption == MaxTime \in Nat \ {0}

VARIABLES
    clock,                  \* what r.now() returns
    started,                \* r.started
    initialProbeComplete,   \* r.initialProbeComplete
    upstreams               \* r.upstreams

vars == <<clock, started, initialProbeComplete, upstreams>>

NewRuntime ==
    /\ clock = 1
    /\ started = FALSE
    /\ initialProbeComplete = FALSE
    /\ upstreams = [u \in Upstreams |-> NewUpstream]

Init == NewRuntime

Tick ==
    /\ clock < MaxTime
    /\ clock' = clock + 1
    /\ UNCHANGED <<started, initialProbeComplete, upstreams>>

MarkStarted ==
    /\ started' = TRUE
    /\ UNCHANGED <<clock, initialProbeComplete, upstreams>>

MarkInitialProbeComplete ==
    /\ initialProbeComplete' = TRUE
    /\ UNCHANGED <<clock, started, upstreams>>

Update(u, s) ==
    /\ upstreams' = [upstreams EXCEPT ![u] = s]
    /\ UNCHANGED <<clock, started, initialProbeComplete>>

IsEligible(u) == Update(u, Refreshed(upstreams[u], clock))

Snapshot ==
    /\ upstreams' = [u \in Upstreams |-> Refreshed(upstreams[u], clock)]
    /\ UNCHANGED <<clock, started, initialProbeComplete>>

RecordProbeSuccess(u, at) == Update(u, AfterProbeSuccess(upstreams[u], at))

RecordProbeFailure(u, at) == Update(u, AfterProbeFailure(upstreams[u], at))

RecordRequestSuccess(u, at) == Update(u, AfterRequestSuccess(upstreams[u], at))

RecordRequestFailure(u, at, retryable, outputCommitted) ==
    Update(u, AfterRequestFailure(upstreams[u], at, retryable, outputCommitted))

Next ==
    \/ Tick
    \/ MarkStarted
    \/ MarkInitialProbeComplete
    \/ Snapshot
    \/ \E u \in Upstreams :
        \/ IsEligible(u)
        \/ \E at \in 1..clock :
            \/ RecordProbeSuccess(u, at)
            \/ RecordProbeFailure(u, at)
            \/ RecordRequestSuccess(u, at)
            \/ \E retryable, outputCommitted \in BOOLEAN :
                   RecordRequestFailure(u, at, retryable, outputCommitted)

Spec == Init /\ [][Next]_vars

----------------------------------------------------------------------------
(* Invariants.  Each is a predicate on one upstreamState, for all of them. *)

\* The type invariant of the runtime and of every upstreamState in it.
TypeOK ==
    /\ clock \in Nat \ {ZeroTime}
    /\ started \in BOOLEAN
    /\ initialProbeComplete \in BOOLEAN
    /\ upstreams \in [Upstreams -> UpstreamStateType]

CleanIfServing(s) ==
    s.state \in {"unknown", "healthy"} =>
        /\ s.consecutiveFailures < failureThreshold
        /\ s.openWindowUntil = ZeroTime
        /\ s.ejectedUntil = ZeroTime
        /\ s.halfOpenSuccesses = 0

\* An upstream that is not ejected carries nothing over from an earlier
\* ejection - no window, no trial successes - and is short of the threshold:
\* whatever order failures, successes and recoveries come in, RecordX never
\* leaves a healthy upstream one report away from an ejection it should
\* already have had, nor with a window that would reject live reports.
ServingIsClean == \A u \in Upstreams : CleanIfServing(upstreams[u])

UntouchedIfOpen(s) ==
    s.state = "open" =>
        /\ s.openWindowUntil = s.lastAppliedEventAt + openInterval
        /\ s.ejectedUntil = s.openWindowUntil
        /\ s.halfOpenSuccesses = 0

\* An open upstream has applied nothing since the report that opened it, and
\* its two copies of the end of the window agree and lie one full
\* OpenInterval after that report.
OpenSinceLastReport == \A u \in Upstreams : UntouchedIfOpen(upstreams[u])

CooledIfHalfOpen(s, now) ==
    s.state = "half_open" =>
        /\ s.openWindowUntil # ZeroTime
        /\ s.openWindowUntil <= now
        /\ s.ejectedUntil = ZeroTime
        /\ s.halfOpenSuccesses < recoverySuccessThreshold
        /\ s.halfOpenSuccesses > 0 =>
               s.lastProbeOK /\ s.lastProbeAt >= s.openWindowUntil

\* An upstream is half-open only once its cool-down is over on the clock,
\* whichever of a read or a report moved it there; it still remembers the end
\* of the window, and its successes are fewer than readmission takes and all
\* come from after that end.
HalfOpenAfterCooldown ==
    \A u \in Upstreams : CooledIfHalfOpen(upstreams[u], clock)

DistinctFailures(s, now) ==
    /\ s.consecutiveFailures <= s.lastAppliedEventAt
    /\ s.lastAppliedEventAt <= now

\* Every failure in a streak has a timestamp of its own, no later than the
\* last report applied and no later than now: a report delivered twice, or two
\* with the same clock reading, is counted once, so the streak is bounded by
\* the time that passed.
FailuresAreDistinct ==
    \A u \in Upstreams : DistinctFailures(upstreams[u], clock)

----------------------------------------------------------------------------
(* Action properties, each a relation between an upstreamState s and the   *)
(* same upstream's state t one step later.                                 *)

Frozen(s, t, now) ==
    (s.state = "open" /\ now < s.openWindowUntil) => t = s

\* Until the cool-down ends nothing moves an ejected upstream: no read, no
\* late request outcome, no probe that began before the end, in any order.
CooldownIsRespected ==
    [][\A u \in Upstreams : Frozen(upstreams[u], upstreams'[u], clock)]_vars

FreshReadmission(s, t) ==
    (/\ s.state \in {"open", "half_open"}
     /\ t.state \notin {"open", "half_open"}) =>
        /\ t.state = "healthy"
        /\ t.source = "probe"
        /\ t.lastProbeOK
        /\ t.lastProbeAt = t.lastAppliedEventAt
        /\ t.lastProbeAt > s.lastAppliedEventAt
        /\ t.lastProbeAt >= s.openWindowUntil
        /\ s.halfOpenSuccesses + 1 >= recoverySuccessThreshold
        /\ t.consecutiveFailures = 0

\* Only a probe readmits an ejected upstream, and only one that began after
\* the cool-down of the latest ejection and after everything applied so far;
\* the failures that ejected it are forgotten.
OnlyFreshProbesReadmit ==
    [][\A u \in Upstreams : FreshReadmission(upstreams[u], upstreams'[u])]_vars

----------------------------------------------------------------------------
(* Refinement: the half-open state, and whether a read or a report entered *)
(* it, cannot be told from outside.                                        *)

Down(u) == upstreams[u].state \in {"open", "half_open"}

modeBar == [u \in Upstreams |->
               CASE Down(u)                        -> "ejected"
                 [] upstreams[u].state = "healthy" -> "serving"
                 [] OTHER                          -> "untested"]

scoreBar == [u \in Upstreams |-> IF Down(u)
                                 THEN upstreams[u].halfOpenSuccesses
                                 ELSE upstreams[u].consecutiveFailures]

Breaker == INSTANCE CooldownBreaker WITH
    Threshold <- failureThreshold,
    Recovery  <- recoverySuccessThreshold,
    Cooldown  <- openInterval,
    mode      <- modeBar,
    until     <- [u \in Upstreams |-> upstreams[u].openWindowUntil],
    score     <- scoreBar,
    seen      <- [u \in Upstreams |-> upstreams[u].lastAppliedEventAt]

\* The runtime implements the breaker: reads are invisible (IsEligible and
\* Snapshot change the state they report on, and no later decision differs
\* for it), and reports count in timestamp order.
ImplementsBreaker == Breaker!Spec
=============================================================================
