--------------------------- MODULE UpstreamState ---------------------------
(***************************************************************************)
(* The record internal/health/runtime.go keeps per upstream                *)
(* (upstreamState) and what each method of Runtime does to it under r.mu.  *)
(*                                                                         *)
(* A time.Time is a natural number of clock units; the zero time, which    *)
(* the code tests with IsZero, is 0, and no clock reading is 0.  The       *)
(* fields no decision reads and no property is about (name, provider,      *)
(* lastError, lastRequestEventAt) are left out.                            *)
(***************************************************************************)
EXTENDS Integers

CONSTANTS
    FailureThreshold,          \* RuntimeOptions.FailureThreshold, as passed
    RecoverySuccessThreshold,  \* RuntimeOptions.RecoverySuccessThreshold
    OpenInterval               \* RuntimeOptions.OpenInterval

ASSUME OptionsAssumption ==
    /\ FailureThreshold \in Int
    /\ RecoverySuccessThreshold \in Int
    /\ OpenInterval \in Int

ZeroTime == 0

\* 30 * time.Second, in clock units.
DefaultOpenInterval == 30

failureThreshold == IF FailureThreshold <= 0 THEN 1 ELSE FailureThreshold

recoverySuccessThreshold ==
    IF RecoverySuccessThreshold <= 0 THEN 1 ELSE RecoverySuccessThreshold

openInterval == IF OpenInterval <= 0 THEN DefaultOpenInterval ELSE OpenInterval

States  == {"unknown", "healthy", "open", "half_open"}
Sources == {"startup", "probe", "request"}

UpstreamStateType ==
    [ state               : States,
      consecutiveFailures : Nat,
      ejectedUntil        : Nat,
      openWindowUntil     : Nat,
      lastProbeAt         : Nat,
      lastProbeOK         : BOOLEAN,
      source              : Sources,
      halfOpenSuccesses   : Nat,
      lastAppliedEventAt  : Nat ]

\* Mutant: the state is left at Go's zero value.
NewUpstream_NoState ==
    [ state               |-> "",
      consecutiveFailures |-> 0,
      ejectedUntil        |-> ZeroTime,
      openWindowUntil     |-> ZeroTime,
      lastProbeAt         |-> ZeroTime,
      lastProbeOK         |-> FALSE,
      source              |-> "startup",
      halfOpenSuccesses   |-> 0,
      lastAppliedEventAt  |-> ZeroTime ]

NewUpstream ==
    [ state               |-> "unknown",
      consecutiveFailures |-> 0,
      ejectedUntil        |-> ZeroTime,
      openWindowUntil     |-> ZeroTime,
      lastProbeAt         |-> ZeroTime,
      lastProbeOK         |-> FALSE,
      source              |-> "startup",
      halfOpenSuccesses   |-> 0,
      lastAppliedEventAt  |-> ZeroTime ]

----------------------------------------------------------------------------
(* Transitions shared by the record methods.                               *)

\* Mutant: half-opening forgets the end of the window.
HalfOpened_ForgetsWindow(s) == [s EXCEPT !.state             = "half_open",
                                         !.ejectedUntil      = ZeroTime,
                                         !.openWindowUntil   = ZeroTime,
                                         !.halfOpenSuccesses = 0]

HalfOpened(s) == [s EXCEPT !.state             = "half_open",
                           !.ejectedUntil      = ZeroTime,
                           !.halfOpenSuccesses = 0]

Ejected(s, at, src) == [s EXCEPT !.state             = "open",
                                 !.source            = src,
                                 !.halfOpenSuccesses = 0,
                                 !.ejectedUntil      = at + openInterval,
                                 !.openWindowUntil   = at + openInterval]

Cleared(s) == [s EXCEPT !.consecutiveFailures = 0,
                        !.halfOpenSuccesses   = 0,
                        !.ejectedUntil        = ZeroTime,
                        !.openWindowUntil     = ZeroTime]

Readmitted(s, src) == [Cleared(s) EXCEPT !.state = "healthy", !.source = src]

\* A success outside the open and half-open states: the source changes only
\* with the state.
Confirmed(s, src) == IF s.state = "healthy" THEN Cleared(s) ELSE Readmitted(s, src)

\* Mutant: the threshold is off by one.
CountedFailure_OneTooMany(s, at, src) ==
    LET counted == [s EXCEPT !.consecutiveFailures = @ + 1]
    IN  IF counted.consecutiveFailures > failureThreshold
        THEN Ejected(counted, at, src)
        ELSE counted

\* A failure outside the open and half-open states.
CountedFailure(s, at, src) ==
    LET counted == [s EXCEPT !.consecutiveFailures = @ + 1]
    IN  IF counted.consecutiveFailures >= failureThreshold
        THEN Ejected(counted, at, src)
        ELSE counted

----------------------------------------------------------------------------
(* refreshLocked: the transition IsEligible and Snapshot make on reading.  *)

\* Mutant: a read half-opens without looking at the clock.
Refreshed_IgnoresClock(s, now) ==
    IF s.state = "open" /\ s.ejectedUntil # ZeroTime THEN HalfOpened(s) ELSE s

Refreshed(s, now) ==
    IF s.state = "open" /\ s.ejectedUntil # ZeroTime /\ now >= s.ejectedUntil
    THEN HalfOpened(s)
    ELSE s

(* acceptEventLocked and refreshForEventLocked.                            *)

OpenBoundary(s) ==
    IF s.openWindowUntil # ZeroTime THEN s.openWindowUntil ELSE s.ejectedUntil

InsideOpenWindow(s, at) ==
    /\ s.state \in {"open", "half_open"}
    /\ OpenBoundary(s) # ZeroTime
    /\ at < OpenBoundary(s)

\* Mutant: a report with the timestamp of the last one applied is accepted.
Accepts_SameTimestamp(s, at) ==
    /\ s.lastAppliedEventAt # ZeroTime => at >= s.lastAppliedEventAt
    /\ ~InsideOpenWindow(s, at)

\* Mutant: the open window is not looked at.
Accepts_NoWindow(s, at) ==
    s.lastAppliedEventAt # ZeroTime => at > s.lastAppliedEventAt

Accepts(s, at) ==
    /\ s.lastAppliedEventAt # ZeroTime => at > s.lastAppliedEventAt
    /\ ~InsideOpenWindow(s, at)

\* Mutant: an accepted report does not half-open an open upstream.
Accepted_StaysOpen(s, at) == [s EXCEPT !.lastAppliedEventAt = at]

Accepted(s, at) ==
    [ (IF s.state = "open" /\ OpenBoundary(s) # ZeroTime THEN HalfOpened(s) ELSE s)
      EXCEPT !.lastAppliedEventAt = at ]

----------------------------------------------------------------------------
(* What the four Record methods make of an accepted event e, where e is    *)
(* already Accepted(s, at).                                                *)

ProbeSuccess(e, at) ==
    LET s == [e EXCEPT !.lastProbeAt = at, !.lastProbeOK = TRUE]
        scored == [s EXCEPT !.halfOpenSuccesses = @ + 1]
    IN  CASE s.state = "open"      -> s
          [] s.state = "half_open" ->
                 IF scored.halfOpenSuccesses >= recoverySuccessThreshold
                 THEN Readmitted(scored, "probe")
                 ELSE scored
          [] OTHER                 -> Confirmed(s, "probe")

ProbeFailure(e, at) ==
    LET s == [e EXCEPT !.lastProbeAt = at, !.lastProbeOK = FALSE]
    IN  CASE s.state = "open"      -> s
          [] s.state = "half_open" ->
                 Ejected([s EXCEPT !.consecutiveFailures = @ + 1], at, "probe")
          [] OTHER                 -> CountedFailure(s, at, "probe")

\* Mutant: a request's success readmits a half-open upstream.
RequestSuccess_Readmits(e) ==
    IF e.state = "open" THEN e ELSE Confirmed(e, "request")

RequestSuccess(e) ==
    IF e.state \in {"open", "half_open"} THEN e ELSE Confirmed(e, "request")

RequestFailure(e, at, retryable, outputCommitted) ==
    IF \/ ~retryable
       \/ outputCommitted
       \/ e.state \in {"open", "half_open"}
    THEN e
    ELSE CountedFailure(e, at, "request")

(* The Record methods: an event that is not accepted leaves no trace.      *)

AfterProbeSuccess(s, at) ==
    IF Accepts(s, at) THEN ProbeSuccess(Accepted(s, at), at) ELSE s

AfterProbeFailure(s, at) ==
    IF Accepts(s, at) THEN ProbeFailure(Accepted(s, at), at) ELSE s

AfterRequestSuccess(s, at) ==
    IF Accepts(s, at) THEN RequestSuccess(Accepted(s, at)) ELSE s

AfterRequestFailure(s, at, retryable, outputCommitted) ==
    IF Accepts(s, at)
    THEN RequestFailure(Accepted(s, at), at, retryable, outputCommitted)
    ELSE s

IsHealthy(s) == s.state = "healthy"
=============================================================================
