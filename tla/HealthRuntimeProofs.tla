------------------------ MODULE HealthRuntimeProofs ------------------------
(***************************************************************************)
(* Proofs about HealthRuntime, for any set of upstreams and any options    *)
(* NewRuntime may be given.                                                *)
(*                                                                         *)
(* Every method changes each upstreamState by a function of that record    *)
(* and the clock alone.  So the argument is made once per function, on one *)
(* record (section 2), and lifted to the runtime's map (section 3).        *)
(***************************************************************************)
EXTENDS HealthRuntime, TLAPS

----------------------------------------------------------------------------
(* 1. The inductive invariant.                                             *)

\* The four invariants, on one record.  None is inductive alone: that a report
\* accepted by an open upstream finds its cool-down over needs the window to be
\* one interval after the last report; that a readmitted upstream is clean
\* needs what half-open remembers.
UpstreamInv(s, now) ==
    /\ CleanIfServing(s)
    /\ UntouchedIfOpen(s)
    /\ CooledIfHalfOpen(s, now)
    /\ DistinctFailures(s, now)

IInv == TypeOK /\ \A u \in Upstreams : UpstreamInv(upstreams[u], clock)

\* What every method does to a record s: the result t keeps the invariant and
\* relates to s as the action properties say.
GoodStep(s, t, now) ==
    /\ t \in UpstreamStateType
    /\ UpstreamInv(t, now)
    /\ Frozen(s, t, now)
    /\ FreshReadmission(s, t)

----------------------------------------------------------------------------
(* 2. One record.                                                          *)

\* NewRuntime replaces options that are not positive, so the thresholds and
\* the interval the methods use are positive whatever the configuration says.
LEMMA OptionsArePositive ==
    /\ failureThreshold \in Nat /\ failureThreshold > 0
    /\ recoverySuccessThreshold \in Nat /\ recoverySuccessThreshold > 0
    /\ openInterval \in Nat /\ openInterval > 0
BY OptionsAssumption
   DEF failureThreshold, recoverySuccessThreshold, openInterval,
       DefaultOpenInterval

\* What opening a record half-way changes and keeps.
LEMMA HalfOpenedFields ==
    ASSUME NEW s \in UpstreamStateType
    PROVE  LET h == HalfOpened(s)
           IN  /\ h \in UpstreamStateType
               /\ h.state = "half_open" /\ h.ejectedUntil = ZeroTime
               /\ h.halfOpenSuccesses = 0
               /\ h.openWindowUntil = s.openWindowUntil
               /\ h.consecutiveFailures = s.consecutiveFailures
               /\ h.lastAppliedEventAt = s.lastAppliedEventAt
BY DEF HalfOpened, UpstreamStateType, States, ZeroTime

\* A method that changes nothing is a good step.
LEMMA UnchangedIsGood ==
    ASSUME NEW now \in Nat, NEW s \in UpstreamStateType, UpstreamInv(s, now)
    PROVE  GoodStep(s, s, now)
BY DEF GoodStep, Frozen, FreshReadmission, UpstreamInv, CleanIfServing,
       UpstreamStateType, States

\* refreshLocked: reading is a good step.
LEMMA RefreshedIsGood ==
    ASSUME NEW now \in Nat, NEW s \in UpstreamStateType, UpstreamInv(s, now)
    PROVE  GoodStep(s, Refreshed(s, now), now)
<1>1. CASE Refreshed(s, now) = s
  BY <1>1, UnchangedIsGood
<1>2. CASE /\ s.state = "open" /\ s.ejectedUntil # ZeroTime
           /\ now >= s.ejectedUntil
           /\ Refreshed(s, now) = HalfOpened(s)
  <2>. DEFINE t == HalfOpened(s)
  <2>1. /\ t \in UpstreamStateType
        /\ t.state = "half_open" /\ t.ejectedUntil = ZeroTime
        /\ t.halfOpenSuccesses = 0
        /\ t.openWindowUntil = s.openWindowUntil
        /\ t.consecutiveFailures = s.consecutiveFailures
        /\ t.lastAppliedEventAt = s.lastAppliedEventAt
    BY HalfOpenedFields
  <2>2. s.openWindowUntil # ZeroTime /\ s.openWindowUntil <= now
    BY <1>2, OptionsArePositive
       DEF UpstreamInv, UntouchedIfOpen, ZeroTime, UpstreamStateType
  <2>3. UpstreamInv(t, now)
    BY <2>1, <2>2, OptionsArePositive
       DEF UpstreamInv, CleanIfServing, UntouchedIfOpen, CooledIfHalfOpen,
           DistinctFailures
  <2>4. Frozen(s, t, now) /\ FreshReadmission(s, t)
    BY <2>1, <2>2 DEF Frozen, FreshReadmission, UpstreamStateType
  <2>. QED  BY <1>2, <2>1, <2>3, <2>4 DEF GoodStep
<1>. QED  BY <1>1, <1>2 DEF Refreshed

\* acceptEventLocked: an accepted report is newer than everything applied, and
\* the record it is then applied to is not open; if it is half-open, the report
\* is from after the cool-down.
LEMMA AcceptedFacts ==
    ASSUME NEW now \in Nat, NEW s \in UpstreamStateType, UpstreamInv(s, now),
           NEW at \in 1..now, Accepts(s, at)
    PROVE  LET e == Accepted(s, at)
           IN  /\ e \in UpstreamStateType
               /\ UpstreamInv(e, now)
               /\ e.state \in {"unknown", "healthy", "half_open"}
               /\ e.state = "half_open" <=> s.state \in {"open", "half_open"}
               /\ e.state = "half_open" => at >= e.openWindowUntil
               /\ e.openWindowUntil = s.openWindowUntil
               /\ s.state = "open" => now >= s.openWindowUntil
               /\ e.halfOpenSuccesses = s.halfOpenSuccesses
               /\ at > s.lastAppliedEventAt
               /\ e.lastAppliedEventAt = at
               /\ e.consecutiveFailures = s.consecutiveFailures
               /\ e.consecutiveFailures + 1 <= at
<1>1. at > s.lastAppliedEventAt
  BY DEF Accepts, ZeroTime, UpstreamStateType
<1>2. s.consecutiveFailures + 1 <= at
  BY <1>1 DEF UpstreamInv, DistinctFailures, UpstreamStateType
<1>3. CASE s.state = "open"
  <2>. DEFINE h == HalfOpened(s)
              e == [h EXCEPT !.lastAppliedEventAt = at]
  <2>1. s.openWindowUntil # ZeroTime /\ OpenBoundary(s) = s.openWindowUntil
    BY <1>3, OptionsArePositive
       DEF UpstreamInv, UntouchedIfOpen, OpenBoundary, ZeroTime,
           UpstreamStateType
  <2>2. at >= s.openWindowUntil
    BY <1>3, <2>1 DEF Accepts, InsideOpenWindow, UpstreamStateType
  <2>3. Accepted(s, at) = e
    BY <1>3, <2>1 DEF Accepted
  <2>4. /\ e \in UpstreamStateType
        /\ e.state = "half_open" /\ e.ejectedUntil = ZeroTime
        /\ e.halfOpenSuccesses = 0 /\ e.lastAppliedEventAt = at
        /\ e.openWindowUntil = s.openWindowUntil
        /\ e.consecutiveFailures = s.consecutiveFailures
    <3>. HIDE DEF h
    <3>. QED  BY HalfOpenedFields DEF h, UpstreamStateType
  <2>5. UpstreamInv(e, now)
    BY <1>2, <2>1, <2>2, <2>4, OptionsArePositive
       DEF UpstreamInv, CleanIfServing, UntouchedIfOpen, CooledIfHalfOpen,
           DistinctFailures, UpstreamStateType
  <2>6. s.halfOpenSuccesses = 0
    BY <1>3 DEF UpstreamInv, UntouchedIfOpen
  <2>. QED
    BY <1>1, <1>2, <1>3, <2>2, <2>3, <2>4, <2>5, <2>6 DEF UpstreamStateType
<1>4. ASSUME s.state # "open"
      PROVE  LET e == Accepted(s, at)
             IN  /\ e \in UpstreamStateType
                 /\ UpstreamInv(e, now)
                 /\ e.state = s.state
                 /\ e.openWindowUntil = s.openWindowUntil
                 /\ e.halfOpenSuccesses = s.halfOpenSuccesses
                 /\ e.lastAppliedEventAt = at
                 /\ e.consecutiveFailures = s.consecutiveFailures
  <2>. DEFINE e == [s EXCEPT !.lastAppliedEventAt = at]
  <2>1. Accepted(s, at) = e
    BY <1>4 DEF Accepted
  <2>2. /\ e \in UpstreamStateType
        /\ e.lastAppliedEventAt = at
        /\ e.state = s.state /\ e.ejectedUntil = s.ejectedUntil
        /\ e.openWindowUntil = s.openWindowUntil
        /\ e.halfOpenSuccesses = s.halfOpenSuccesses
        /\ e.consecutiveFailures = s.consecutiveFailures
        /\ e.lastProbeAt = s.lastProbeAt /\ e.lastProbeOK = s.lastProbeOK
    BY DEF UpstreamStateType
  <2>3. UpstreamInv(e, now)
    BY <1>2, <1>4, <2>2
       DEF UpstreamInv, CleanIfServing, UntouchedIfOpen, CooledIfHalfOpen,
           DistinctFailures, UpstreamStateType
  <2>. QED  BY <2>1, <2>2, <2>3
<1>5. s.state = "half_open" => at >= s.openWindowUntil
  BY DEF UpstreamInv, CooledIfHalfOpen, OpenBoundary, ZeroTime, Accepts,
         InsideOpenWindow, UpstreamStateType
<1>6. CASE s.state # "open"
  BY <1>1, <1>2, <1>4, <1>5, <1>6 DEF UpstreamStateType, States
<1>. QED  BY <1>3, <1>6

\* Ejecting at an applied report's timestamp.
LEMMA EjectedIsGood ==
    ASSUME NEW now \in Nat, NEW s \in UpstreamStateType,
           s.state = "open" => now >= s.openWindowUntil,
           NEW x \in UpstreamStateType, NEW at \in 1..now, NEW src \in Sources,
           x.lastAppliedEventAt = at, x.consecutiveFailures <= at
    PROVE  GoodStep(s, Ejected(x, at, src), now)
<1>. DEFINE t == Ejected(x, at, src)
<1>1. /\ t \in UpstreamStateType
      /\ t.state = "open" /\ t.halfOpenSuccesses = 0
      /\ t.openWindowUntil = at + openInterval
      /\ t.ejectedUntil = at + openInterval
      /\ t.lastAppliedEventAt = x.lastAppliedEventAt
      /\ t.consecutiveFailures = x.consecutiveFailures
  <2>1. at + openInterval \in Nat
    BY OptionsArePositive
  <2>. QED  BY <2>1 DEF Ejected, UpstreamStateType, States
<1>2. UpstreamInv(t, now)
  BY <1>1 DEF UpstreamInv, CleanIfServing, UntouchedIfOpen, CooledIfHalfOpen,
              DistinctFailures
<1>3. Frozen(s, t, now) /\ FreshReadmission(s, t)
  BY <1>1 DEF Frozen, FreshReadmission, UpstreamStateType
<1>. QED  BY <1>1, <1>2, <1>3 DEF GoodStep

\* Readmitting: harmless for an upstream that was serving, and allowed to an
\* ejected one on the terms of FreshReadmission.
LEMMA ReadmittedIsGood ==
    ASSUME NEW now \in Nat, NEW s \in UpstreamStateType,
           s.state = "open" => now >= s.openWindowUntil,
           NEW x \in UpstreamStateType, NEW src \in Sources,
           x.lastAppliedEventAt <= now,
           s.state \in {"open", "half_open"} =>
               /\ src = "probe" /\ x.lastProbeOK
               /\ x.lastProbeAt = x.lastAppliedEventAt
               /\ x.lastProbeAt > s.lastAppliedEventAt
               /\ x.lastProbeAt >= s.openWindowUntil
               /\ s.halfOpenSuccesses + 1 >= recoverySuccessThreshold
    PROVE  GoodStep(s, Readmitted(x, src), now)
<1>. DEFINE c == Cleared(x)
            t == Readmitted(x, src)
<1>1. /\ c \in UpstreamStateType
      /\ c.consecutiveFailures = 0 /\ c.halfOpenSuccesses = 0
      /\ c.ejectedUntil = ZeroTime /\ c.openWindowUntil = ZeroTime
      /\ c.lastAppliedEventAt = x.lastAppliedEventAt
      /\ c.lastProbeOK = x.lastProbeOK /\ c.lastProbeAt = x.lastProbeAt
  BY DEF Cleared, UpstreamStateType, ZeroTime
<1>2. /\ t \in UpstreamStateType
      /\ t.state = "healthy" /\ t.source = src
      /\ t.consecutiveFailures = 0 /\ t.halfOpenSuccesses = 0
      /\ t.ejectedUntil = ZeroTime /\ t.openWindowUntil = ZeroTime
      /\ t.lastAppliedEventAt = x.lastAppliedEventAt
      /\ t.lastProbeOK = x.lastProbeOK /\ t.lastProbeAt = x.lastProbeAt
  <2>. HIDE DEF c
  <2>1. t = [c EXCEPT !.state = "healthy", !.source = src]
    BY DEF c, Readmitted
  <2>. HIDE DEF t
  <2>. QED  BY <1>1, <2>1 DEF UpstreamStateType, States
<1>3. UpstreamInv(t, now)
  BY <1>2, OptionsArePositive
     DEF UpstreamInv, CleanIfServing, UntouchedIfOpen, CooledIfHalfOpen,
         DistinctFailures, UpstreamStateType
<1>4. Frozen(s, t, now)
  BY DEF Frozen, UpstreamStateType
<1>5. FreshReadmission(s, t)
  BY <1>2 DEF FreshReadmission
<1>. QED  BY <1>2, <1>3, <1>4, <1>5 DEF GoodStep

\* Applying a report without a change of state beyond acceptance.
LEMMA KeptIsGood ==
    ASSUME NEW now \in Nat, NEW s \in UpstreamStateType,
           s.state = "open" => now >= s.openWindowUntil,
           NEW t \in UpstreamStateType, UpstreamInv(t, now),
           s.state \in {"open", "half_open"} => t.state = "half_open"
    PROVE  GoodStep(s, t, now)
BY DEF GoodStep, Frozen, FreshReadmission, UpstreamStateType

\* A success that reaches a serving upstream.
LEMMA ConfirmedIsGood ==
    ASSUME NEW now \in Nat, NEW s \in UpstreamStateType,
           s.state \notin {"open", "half_open"},
           NEW x \in UpstreamStateType, NEW src \in Sources,
           x.lastAppliedEventAt <= now
    PROVE  GoodStep(s, Confirmed(x, src), now)
<1>1. CASE x.state # "healthy"
  BY <1>1, ReadmittedIsGood DEF Confirmed
<1>2. CASE x.state = "healthy"
  <2>. DEFINE c == Cleared(x)
  <2>1. /\ c \in UpstreamStateType /\ c.state = "healthy"
        /\ c.consecutiveFailures = 0 /\ c.halfOpenSuccesses = 0
        /\ c.ejectedUntil = ZeroTime /\ c.openWindowUntil = ZeroTime
        /\ c.lastAppliedEventAt = x.lastAppliedEventAt
    BY <1>2 DEF Cleared, UpstreamStateType, ZeroTime
  <2>2. UpstreamInv(c, now)
    BY <2>1, OptionsArePositive
       DEF UpstreamInv, CleanIfServing, UntouchedIfOpen, CooledIfHalfOpen,
           DistinctFailures, UpstreamStateType
  <2>3. GoodStep(s, c, now)
    BY <2>1, <2>2, KeptIsGood
  <2>. QED  BY <1>2, <2>3 DEF Confirmed
<1>. QED  BY <1>1, <1>2

\* A failure that reaches a serving upstream.
LEMMA CountedFailureIsGood ==
    ASSUME NEW now \in Nat, NEW s \in UpstreamStateType,
           s.state \notin {"open", "half_open"},
           NEW x \in UpstreamStateType, UpstreamInv(x, now),
           x.state \in {"unknown", "healthy"},
           NEW at \in 1..now, NEW src \in Sources,
           x.lastAppliedEventAt = at, x.consecutiveFailures + 1 <= at
    PROVE  GoodStep(s, CountedFailure(x, at, src), now)
<1>. DEFINE c == [x EXCEPT !.consecutiveFailures = @ + 1]
<1>1. /\ c \in UpstreamStateType
      /\ c.consecutiveFailures = x.consecutiveFailures + 1
      /\ c.state = x.state /\ c.lastAppliedEventAt = at
      /\ c.openWindowUntil = x.openWindowUntil
      /\ c.ejectedUntil = x.ejectedUntil
      /\ c.halfOpenSuccesses = x.halfOpenSuccesses
  BY DEF UpstreamStateType
<1>2. CountedFailure(x, at, src) =
          IF c.consecutiveFailures >= failureThreshold
          THEN Ejected(c, at, src) ELSE c
  BY DEF CountedFailure
<1>. HIDE DEF c
<1>3. CASE c.consecutiveFailures >= failureThreshold
  BY <1>1, <1>2, <1>3, EjectedIsGood
<1>4. CASE ~(c.consecutiveFailures >= failureThreshold)
  <2>1. UpstreamInv(c, now)
    BY <1>1, <1>4, OptionsArePositive
       DEF UpstreamInv, CleanIfServing, UntouchedIfOpen, CooledIfHalfOpen,
           DistinctFailures, UpstreamStateType
  <2>. QED  BY <1>1, <1>2, <1>4, <2>1, KeptIsGood
<1>. QED  BY <1>3, <1>4

\* The four Record methods.
LEMMA ProbeSuccessIsGood ==
    ASSUME NEW now \in Nat, NEW s \in UpstreamStateType, UpstreamInv(s, now),
           NEW at \in 1..now
    PROVE  GoodStep(s, AfterProbeSuccess(s, at), now)
<1>1. CASE ~Accepts(s, at)
  BY <1>1, UnchangedIsGood DEF AfterProbeSuccess
<1>2. CASE Accepts(s, at)
  <2>. DEFINE e == Accepted(s, at)
              x == [e EXCEPT !.lastProbeAt = at, !.lastProbeOK = TRUE]
              y == [x EXCEPT !.halfOpenSuccesses = @ + 1]
  <2>1. /\ e \in UpstreamStateType /\ UpstreamInv(e, now)
        /\ e.state \in {"unknown", "healthy", "half_open"}
        /\ e.state = "half_open" <=> s.state \in {"open", "half_open"}
        /\ e.state = "half_open" => at >= e.openWindowUntil
        /\ e.openWindowUntil = s.openWindowUntil
        /\ s.state = "open" => now >= s.openWindowUntil
        /\ e.halfOpenSuccesses = s.halfOpenSuccesses
        /\ at > s.lastAppliedEventAt /\ e.lastAppliedEventAt = at
    BY <1>2, AcceptedFacts
  <2>2. AfterProbeSuccess(s, at) = ProbeSuccess(e, at)
    BY <1>2 DEF AfterProbeSuccess
  <2>. HIDE DEF e
  <2>3. /\ x \in UpstreamStateType
        /\ x.state = e.state /\ x.lastAppliedEventAt = at
        /\ x.lastProbeAt = at /\ x.lastProbeOK
        /\ x.ejectedUntil = e.ejectedUntil
        /\ x.openWindowUntil = e.openWindowUntil
        /\ x.halfOpenSuccesses = e.halfOpenSuccesses
        /\ x.consecutiveFailures = e.consecutiveFailures
    BY <2>1 DEF UpstreamStateType
  <2>4. ProbeSuccess(e, at) =
          CASE x.state = "open"      -> x
            [] x.state = "half_open" ->
                   IF y.halfOpenSuccesses >= recoverySuccessThreshold
                   THEN Readmitted(y, "probe") ELSE y
            [] OTHER                 -> Confirmed(x, "probe")
    BY DEF ProbeSuccess
  <2>. HIDE DEF x
  <2>5. /\ y \in UpstreamStateType
        /\ y.state = x.state /\ y.lastAppliedEventAt = at
        /\ y.lastProbeAt = at /\ y.lastProbeOK
        /\ y.ejectedUntil = x.ejectedUntil
        /\ y.openWindowUntil = x.openWindowUntil
        /\ y.halfOpenSuccesses = x.halfOpenSuccesses + 1
        /\ y.consecutiveFailures = x.consecutiveFailures
    BY <2>3 DEF UpstreamStateType
  <2>. HIDE DEF y
  <2>6. CASE e.state \in {"unknown", "healthy"}
    <3>1. ProbeSuccess(e, at) = Confirmed(x, "probe")
      BY <2>3, <2>4, <2>6
    <3>2. GoodStep(s, Confirmed(x, "probe"), now)
      BY <2>1, <2>3, <2>6, ConfirmedIsGood DEF Sources
    <3>. QED  BY <2>2, <3>1, <3>2
  <2>7. CASE e.state = "half_open" /\ y.halfOpenSuccesses >= recoverySuccessThreshold
    <3>1. ProbeSuccess(e, at) = Readmitted(y, "probe")
      BY <2>3, <2>4, <2>7
    <3>2. GoodStep(s, Readmitted(y, "probe"), now)
      BY <2>1, <2>3, <2>5, <2>7, ReadmittedIsGood DEF Sources
    <3>. QED  BY <2>2, <3>1, <3>2
  <2>8. CASE e.state = "half_open" /\ ~(y.halfOpenSuccesses >= recoverySuccessThreshold)
    <3>1. ProbeSuccess(e, at) = y
      BY <2>3, <2>4, <2>8
    <3>2. UpstreamInv(y, now)
      BY <2>1, <2>3, <2>5, <2>8, OptionsArePositive
         DEF UpstreamInv, CleanIfServing, UntouchedIfOpen, CooledIfHalfOpen,
             DistinctFailures, UpstreamStateType
    <3>. QED  BY <2>1, <2>2, <2>3, <2>5, <2>8, <3>1, <3>2, KeptIsGood
  <2>. QED  BY <2>1, <2>6, <2>7, <2>8
<1>. QED  BY <1>1, <1>2

LEMMA ProbeFailureIsGood ==
    ASSUME NEW now \in Nat, NEW s \in UpstreamStateType, UpstreamInv(s, now),
           NEW at \in 1..now
    PROVE  GoodStep(s, AfterProbeFailure(s, at), now)
<1>1. CASE ~Accepts(s, at)
  BY <1>1, UnchangedIsGood DEF AfterProbeFailure
<1>2. CASE Accepts(s, at)
  <2>. DEFINE e == Accepted(s, at)
              x == [e EXCEPT !.lastProbeAt = at, !.lastProbeOK = FALSE]
              y == [x EXCEPT !.consecutiveFailures = @ + 1]
  <2>1. /\ e \in UpstreamStateType /\ UpstreamInv(e, now)
        /\ e.state \in {"unknown", "healthy", "half_open"}
        /\ e.state = "half_open" <=> s.state \in {"open", "half_open"}
        /\ s.state = "open" => now >= s.openWindowUntil
        /\ e.lastAppliedEventAt = at
        /\ e.consecutiveFailures + 1 <= at
    BY <1>2, AcceptedFacts
  <2>2. AfterProbeFailure(s, at) = ProbeFailure(e, at)
    BY <1>2 DEF AfterProbeFailure
  <2>. HIDE DEF e
  <2>3. /\ x \in UpstreamStateType
        /\ x.state = e.state /\ x.lastAppliedEventAt = at
        /\ x.ejectedUntil = e.ejectedUntil
        /\ x.openWindowUntil = e.openWindowUntil
        /\ x.halfOpenSuccesses = e.halfOpenSuccesses
        /\ x.consecutiveFailures = e.consecutiveFailures
    BY <2>1 DEF UpstreamStateType
  <2>4. ProbeFailure(e, at) =
          CASE x.state = "open"      -> x
            [] x.state = "half_open" -> Ejected(y, at, "probe")
            [] OTHER                 -> CountedFailure(x, at, "probe")
    BY DEF ProbeFailure
  <2>. HIDE DEF x
  <2>5. /\ y \in UpstreamStateType /\ y.lastAppliedEventAt = at
        /\ y.consecutiveFailures = x.consecutiveFailures + 1
    BY <2>3 DEF UpstreamStateType
  <2>. HIDE DEF y
  <2>6. CASE e.state \in {"unknown", "healthy"}
    <3>1. ProbeFailure(e, at) = CountedFailure(x, at, "probe")
      BY <2>3, <2>4, <2>6
    <3>2. UpstreamInv(x, now)
      BY <2>1, <2>3, <2>6
         DEF UpstreamInv, CleanIfServing, UntouchedIfOpen, CooledIfHalfOpen,
             DistinctFailures
    <3>3. GoodStep(s, CountedFailure(x, at, "probe"), now)
      BY <2>1, <2>3, <2>6, <3>2, CountedFailureIsGood DEF Sources
    <3>. QED  BY <2>2, <3>1, <3>3
  <2>7. CASE e.state = "half_open"
    <3>1. ProbeFailure(e, at) = Ejected(y, at, "probe")
      BY <2>3, <2>4, <2>7
    <3>2. GoodStep(s, Ejected(y, at, "probe"), now)
      BY <2>1, <2>3, <2>5, EjectedIsGood DEF Sources
    <3>. QED  BY <2>2, <3>1, <3>2
  <2>. QED  BY <2>1, <2>6, <2>7
<1>. QED  BY <1>1, <1>2

LEMMA RequestSuccessIsGood ==
    ASSUME NEW now \in Nat, NEW s \in UpstreamStateType, UpstreamInv(s, now),
           NEW at \in 1..now
    PROVE  GoodStep(s, AfterRequestSuccess(s, at), now)
<1>1. CASE ~Accepts(s, at)
  BY <1>1, UnchangedIsGood DEF AfterRequestSuccess
<1>2. CASE Accepts(s, at)
  <2>. DEFINE e == Accepted(s, at)
  <2>1. /\ e \in UpstreamStateType /\ UpstreamInv(e, now)
        /\ e.state \in {"unknown", "healthy", "half_open"}
        /\ e.state = "half_open" <=> s.state \in {"open", "half_open"}
        /\ s.state = "open" => now >= s.openWindowUntil
        /\ e.lastAppliedEventAt = at
    BY <1>2, AcceptedFacts
  <2>2. AfterRequestSuccess(s, at) = RequestSuccess(e)
    BY <1>2 DEF AfterRequestSuccess
  <2>. HIDE DEF e
  <2>3. CASE e.state \in {"unknown", "healthy"}
    BY <2>1, <2>2, <2>3, ConfirmedIsGood DEF RequestSuccess, Sources
  <2>4. CASE e.state = "half_open"
    BY <2>1, <2>2, <2>4, KeptIsGood DEF RequestSuccess
  <2>. QED  BY <2>1, <2>3, <2>4
<1>. QED  BY <1>1, <1>2

LEMMA RequestFailureIsGood ==
    ASSUME NEW now \in Nat, NEW s \in UpstreamStateType, UpstreamInv(s, now),
           NEW at \in 1..now,
           NEW retryable \in BOOLEAN, NEW outputCommitted \in BOOLEAN
    PROVE  GoodStep(s, AfterRequestFailure(s, at, retryable, outputCommitted), now)
<1>1. CASE ~Accepts(s, at)
  BY <1>1, UnchangedIsGood DEF AfterRequestFailure
<1>2. CASE Accepts(s, at)
  <2>. DEFINE e == Accepted(s, at)
  <2>1. /\ e \in UpstreamStateType /\ UpstreamInv(e, now)
        /\ e.state \in {"unknown", "healthy", "half_open"}
        /\ e.state = "half_open" <=> s.state \in {"open", "half_open"}
        /\ s.state = "open" => now >= s.openWindowUntil
        /\ e.lastAppliedEventAt = at
        /\ e.consecutiveFailures + 1 <= at
    BY <1>2, AcceptedFacts
  <2>2. AfterRequestFailure(s, at, retryable, outputCommitted) =
            RequestFailure(e, at, retryable, outputCommitted)
    BY <1>2 DEF AfterRequestFailure
  <2>. HIDE DEF e
  <2>3. CASE RequestFailure(e, at, retryable, outputCommitted) = e
    BY <2>1, <2>2, <2>3, KeptIsGood
  <2>4. CASE /\ e.state \notin {"open", "half_open"}
             /\ RequestFailure(e, at, retryable, outputCommitted) =
                    CountedFailure(e, at, "request")
    BY <2>1, <2>2, <2>4, CountedFailureIsGood DEF Sources
  <2>. QED  BY <2>3, <2>4 DEF RequestFailure
<1>. QED  BY <1>1, <1>2

----------------------------------------------------------------------------
(* 3. The runtime.                                                         *)

\* One step of the whole map is good when it is good for every upstream.
StepIsGood ==
    /\ upstreams' \in [Upstreams -> UpstreamStateType]
    /\ \A u \in Upstreams : GoodStep(upstreams[u], upstreams'[u], clock)

\* The state NewRuntime builds satisfies the invariant.
LEMMA InitIInv == Init => IInv
<1>1. NewUpstream \in UpstreamStateType /\ UpstreamInv(NewUpstream, 1)
  BY OptionsArePositive
     DEF NewUpstream, UpstreamStateType, States, Sources, ZeroTime, UpstreamInv,
         CleanIfServing, UntouchedIfOpen, CooledIfHalfOpen, DistinctFailures
<1>. SUFFICES ASSUME Init  PROVE IInv
  OBVIOUS
<1>2. TypeOK
  <2>1. clock \in Nat \ {ZeroTime}
    BY DEF Init, NewRuntime, ZeroTime
  <2>2. started \in BOOLEAN /\ initialProbeComplete \in BOOLEAN
    BY DEF Init, NewRuntime
  <2>3. upstreams \in [Upstreams -> UpstreamStateType]
    BY <1>1 DEF Init, NewRuntime
  <2>. QED  BY <2>1, <2>2, <2>3 DEF TypeOK
<1>3. ASSUME NEW u \in Upstreams  PROVE UpstreamInv(upstreams[u], clock)
  BY <1>1 DEF Init, NewRuntime
<1>. QED  BY <1>2, <1>3 DEF IInv

\* A method that touches one upstream: it is enough that its own record steps
\* well.
LEMMA UpdateIsGood ==
    ASSUME IInv, NEW u \in Upstreams, NEW s, Update(u, s),
           GoodStep(upstreams[u], s, clock)
    PROVE  StepIsGood
<1>. USE DEF IInv, TypeOK
<1>1. s \in UpstreamStateType /\ clock \in Nat
  BY DEF GoodStep
<1>2. upstreams' = [upstreams EXCEPT ![u] = s]
  BY DEF Update
<1>3. ASSUME NEW v \in Upstreams
      PROVE  GoodStep(upstreams[v], upstreams'[v], clock)
  <2>1. CASE v = u
    BY <1>2, <2>1
  <2>2. CASE v # u
    BY <1>1, <1>2, <2>2, UnchangedIsGood
  <2>. QED  BY <2>1, <2>2
<1>. QED  BY <1>1, <1>2, <1>3 DEF StepIsGood

\* A step that leaves every record alone.
LEMMA IdleIsGood ==
    ASSUME IInv, UNCHANGED upstreams
    PROVE  StepIsGood
BY UnchangedIsGood DEF IInv, TypeOK, StepIsGood

\* Every step of the runtime, action by action.
LEMMA NextIsGood ==
    ASSUME IInv, Next
    PROVE  StepIsGood /\ clock' \in Nat \ {ZeroTime} /\ clock' >= clock
<1>. USE DEF IInv, TypeOK
<1>1. ASSUME Tick  PROVE StepIsGood /\ clock' = clock + 1
  BY <1>1, IdleIsGood DEF Tick
<1>2. ASSUME MarkStarted  PROVE StepIsGood /\ clock' = clock
  BY <1>2, IdleIsGood DEF MarkStarted
<1>3. ASSUME MarkInitialProbeComplete  PROVE StepIsGood /\ clock' = clock
  BY <1>3, IdleIsGood DEF MarkInitialProbeComplete
<1>4. ASSUME Snapshot  PROVE StepIsGood /\ clock' = clock
  <2>1. ASSUME NEW u \in Upstreams
        PROVE  GoodStep(upstreams[u], upstreams'[u], clock)
    BY <1>4, <2>1, RefreshedIsGood DEF Snapshot
  <2>2. ASSUME NEW u \in Upstreams
        PROVE  Refreshed(upstreams[u], clock) \in UpstreamStateType
    BY <2>2, RefreshedIsGood DEF GoodStep
  <2>. QED  BY <1>4, <2>1, <2>2 DEF Snapshot, StepIsGood
<1>5. ASSUME NEW u \in Upstreams, IsEligible(u)
      PROVE  StepIsGood /\ clock' = clock
  BY <1>5, RefreshedIsGood, UpdateIsGood DEF IsEligible, Update
<1>6. ASSUME NEW u \in Upstreams, NEW at \in 1..clock, RecordProbeSuccess(u, at)
      PROVE  StepIsGood /\ clock' = clock
  BY <1>6, ProbeSuccessIsGood, UpdateIsGood DEF RecordProbeSuccess, Update
<1>7. ASSUME NEW u \in Upstreams, NEW at \in 1..clock, RecordProbeFailure(u, at)
      PROVE  StepIsGood /\ clock' = clock
  BY <1>7, ProbeFailureIsGood, UpdateIsGood DEF RecordProbeFailure, Update
<1>8. ASSUME NEW u \in Upstreams, NEW at \in 1..clock, RecordRequestSuccess(u, at)
      PROVE  StepIsGood /\ clock' = clock
  BY <1>8, RequestSuccessIsGood, UpdateIsGood DEF RecordRequestSuccess, Update
<1>9. ASSUME NEW u \in Upstreams, NEW at \in 1..clock,
             NEW retryable \in BOOLEAN, NEW outputCommitted \in BOOLEAN,
             RecordRequestFailure(u, at, retryable, outputCommitted)
      PROVE  StepIsGood /\ clock' = clock
  BY <1>9, RequestFailureIsGood, UpdateIsGood DEF RecordRequestFailure, Update
<1>. QED
  BY <1>1, <1>2, <1>3, <1>4, <1>5, <1>6, <1>7, <1>8, <1>9 DEF Next, ZeroTime

\* What holds of a record now still holds of it when time has passed.
LEMMA InvKeepsWithTime ==
    ASSUME NEW now \in Nat, NEW later \in Nat, later >= now,
           NEW s \in UpstreamStateType, UpstreamInv(s, now)
    PROVE  UpstreamInv(s, later)
BY DEF UpstreamInv, CooledIfHalfOpen, DistinctFailures, UpstreamStateType

\* The step of the induction.
LEMMA NextIInv == IInv /\ [Next]_vars => IInv'
<1>. SUFFICES ASSUME IInv, [Next]_vars  PROVE IInv'
  OBVIOUS
<1>1. StepIsGood /\ clock' \in Nat \ {ZeroTime} /\ clock' >= clock
  BY NextIsGood, IdleIsGood DEF vars, IInv, TypeOK
<1>2. started' \in BOOLEAN /\ initialProbeComplete' \in BOOLEAN
  BY DEF IInv, TypeOK, Next, vars, Tick, MarkStarted, MarkInitialProbeComplete,
         Snapshot, IsEligible, RecordProbeSuccess, RecordProbeFailure,
         RecordRequestSuccess, RecordRequestFailure, Update
<1>3. ASSUME NEW u \in Upstreams
      PROVE  UpstreamInv(upstreams'[u], clock')
  BY <1>1, <1>3, InvKeepsWithTime DEF StepIsGood, GoodStep, IInv, TypeOK
<1>. QED  BY <1>1, <1>2, <1>3 DEF StepIsGood, IInv, TypeOK

----------------------------------------------------------------------------
(* 4. The theorems.                                                        *)

\* The inductive invariant holds in every reachable state of the runtime.
THEOREM InvariantHolds == Spec => []IInv
BY InitIInv, NextIInv, PTL DEF Spec

\* Every field keeps its type, the clock is never the zero time, and no method
\* adds or loses an upstream, whatever callers report and in whatever order.
THEOREM TypeCorrect == Spec => []TypeOK
BY InvariantHolds, PTL DEF IInv

\* A serving upstream carries nothing over from an earlier ejection.
THEOREM ServingUpstreamsAreClean == Spec => []ServingIsClean
<1>1. IInv => ServingIsClean
  BY DEF IInv, UpstreamInv, ServingIsClean
<1>. QED  BY <1>1, InvariantHolds, PTL

\* An open upstream has applied nothing since the report that opened it.
THEOREM OpenUpstreamsAreUntouched == Spec => []OpenSinceLastReport
<1>1. IInv => OpenSinceLastReport
  BY DEF IInv, UpstreamInv, OpenSinceLastReport
<1>. QED  BY <1>1, InvariantHolds, PTL

\* No upstream is half-open before its cool-down is over.
THEOREM HalfOpenUpstreamsHaveCooled == Spec => []HalfOpenAfterCooldown
<1>1. IInv => HalfOpenAfterCooldown
  BY DEF IInv, UpstreamInv, HalfOpenAfterCooldown
<1>. QED  BY <1>1, InvariantHolds, PTL

\* Failures of one streak have distinct timestamps.
THEOREM StreaksCountDistinctFailures == Spec => []FailuresAreDistinct
<1>1. IInv => FailuresAreDistinct
  BY DEF IInv, UpstreamInv, FailuresAreDistinct
<1>. QED  BY <1>1, InvariantHolds, PTL

\* Nothing moves an ejected upstream before its cool-down ends.
THEOREM CooldownHolds == Spec => CooldownIsRespected
<1>1. IInv /\ [Next]_vars
        => [\A u \in Upstreams : Frozen(upstreams[u], upstreams'[u], clock)]_vars
  <2>. SUFFICES ASSUME IInv, Next, NEW u \in Upstreams
                PROVE  Frozen(upstreams[u], upstreams'[u], clock)
    OBVIOUS
  <2>. QED  BY NextIsGood DEF StepIsGood, GoodStep
<1>. QED  BY <1>1, InvariantHolds, PTL DEF Spec, CooldownIsRespected

\* Only a fresh probe success readmits an ejected upstream.
THEOREM ReadmissionIsByFreshProbe == Spec => OnlyFreshProbesReadmit
<1>1. IInv /\ [Next]_vars
        => [\A u \in Upstreams : FreshReadmission(upstreams[u], upstreams'[u])]_vars
  <2>. SUFFICES ASSUME IInv, Next, NEW u \in Upstreams
                PROVE  FreshReadmission(upstreams[u], upstreams'[u])
    OBVIOUS
  <2>. QED  BY NextIsGood DEF StepIsGood, GoodStep
<1>. QED  BY <1>1, InvariantHolds, PTL DEF Spec, OnlyFreshProbesReadmit

----------------------------------------------------------------------------
(* 5. What the runtime's callers rely on, on one record.                   *)

\* No probe has reported on it, and nobody else has.
Unprobed(s) == s.lastProbeAt = ZeroTime =>
                   s.state = "unknown" /\ s.lastAppliedEventAt = ZeroTime

\* The fields of a record an accepted report has been stamped on.
LEMMA AcceptedFields ==
    ASSUME NEW s \in UpstreamStateType, NEW at \in Nat
    PROVE  LET e == Accepted(s, at)
           IN  /\ e \in UpstreamStateType
               /\ e.lastProbeAt = s.lastProbeAt
               /\ e.state = s.state \/ e.state = "half_open"
               /\ s.state \in {"open", "half_open"} => e.state \in {"open", "half_open"}
<1>. DEFINE h == HalfOpened(s)
<1>1. /\ h \in UpstreamStateType /\ h.state = "half_open"
      /\ h.lastProbeAt = s.lastProbeAt
  BY DEF HalfOpened, UpstreamStateType, States, ZeroTime
<1>. HIDE DEF h
<1>2. Accepted(s, at) \in {[h EXCEPT !.lastAppliedEventAt = at],
                          [s EXCEPT !.lastAppliedEventAt = at]}
  BY DEF Accepted, h
<1>. QED  BY <1>1, <1>2 DEF UpstreamStateType

\* After a probe's report a record that was unprobed holds a probe's result: the
\* first one is never refused as late.
LEMMA FirstProbeIsKept ==
    ASSUME NEW s \in UpstreamStateType, NEW at \in Nat \ {0}, Unprobed(s)
    PROVE  /\ AfterProbeSuccess(s, at).lastProbeAt # ZeroTime
           /\ AfterProbeFailure(s, at).lastProbeAt # ZeroTime
<1>. DEFINE e == Accepted(s, at)
            ok == [e EXCEPT !.lastProbeAt = at, !.lastProbeOK = TRUE]
            ko == [e EXCEPT !.lastProbeAt = at, !.lastProbeOK = FALSE]
<1>1. CASE ~Accepts(s, at)
  <2>1. s.lastProbeAt # ZeroTime
    BY <1>1 DEF Accepts, InsideOpenWindow, Unprobed
  <2>. QED  BY <1>1, <2>1 DEF AfterProbeSuccess, AfterProbeFailure
<1>2. CASE Accepts(s, at)
  <2>1. /\ ok \in UpstreamStateType /\ ok.lastProbeAt = at
        /\ ko \in UpstreamStateType /\ ko.lastProbeAt = at
    BY AcceptedFields DEF UpstreamStateType
  <2>2. /\ AfterProbeSuccess(s, at) = ProbeSuccess(e, at)
        /\ AfterProbeFailure(s, at) = ProbeFailure(e, at)
    BY <1>2 DEF AfterProbeSuccess, AfterProbeFailure
  <2>. HIDE DEF e
  <2>3. ProbeSuccess(e, at).lastProbeAt = ok.lastProbeAt
    BY <2>1 DEF ProbeSuccess, Readmitted, Confirmed, Cleared, UpstreamStateType
  <2>4. ProbeFailure(e, at).lastProbeAt = ko.lastProbeAt
    BY <2>1 DEF ProbeFailure, CountedFailure, Ejected, UpstreamStateType
  <2>. QED  BY <2>1, <2>2, <2>3, <2>4 DEF ZeroTime
<1>. QED  BY <1>1, <1>2

\* A read leaves the probe's result alone, and an unprobed record unprobed.
LEMMA ReadsKeepProbes ==
    ASSUME NEW s \in UpstreamStateType, NEW now \in Nat
    PROVE  /\ Refreshed(s, now).lastProbeAt = s.lastProbeAt
           /\ Unprobed(s) => Unprobed(Refreshed(s, now))
           /\ s.state \in {"open", "half_open"}
                  => Refreshed(s, now).state \in {"open", "half_open"}
BY DEF Refreshed, HalfOpened, Unprobed, UpstreamStateType

\* A request's outcome leaves the probe's result alone and readmits nothing.
LEMMA RequestsReadmitNothing ==
    ASSUME NEW s \in UpstreamStateType, NEW at \in Nat,
           NEW retryable, NEW outputCommitted,
           NEW t \in {AfterRequestSuccess(s, at),
                      AfterRequestFailure(s, at, retryable, outputCommitted)}
    PROVE  /\ t.lastProbeAt = s.lastProbeAt
           /\ s.state \in {"open", "half_open"} => t.state \in {"open", "half_open"}
<1>. DEFINE e == Accepted(s, at)
<1>1. CASE ~Accepts(s, at)
  BY <1>1 DEF AfterRequestSuccess, AfterRequestFailure
<1>2. CASE Accepts(s, at)
  <2>1. /\ e \in UpstreamStateType /\ e.lastProbeAt = s.lastProbeAt
        /\ s.state \in {"open", "half_open"} => e.state \in {"open", "half_open"}
    BY AcceptedFields
  <2>2. t \in {RequestSuccess(e), RequestFailure(e, at, retryable, outputCommitted)}
    BY <1>2 DEF AfterRequestSuccess, AfterRequestFailure
  <2>. HIDE DEF e
  <2>3. CASE e.state \in {"open", "half_open"}
    BY <2>1, <2>2, <2>3 DEF RequestSuccess, RequestFailure
  <2>4. CASE e.state \notin {"open", "half_open"}
    <3>1. Confirmed(e, "request").lastProbeAt = e.lastProbeAt
      BY <2>1 DEF Confirmed, Readmitted, Cleared, UpstreamStateType
    <3>2. CountedFailure(e, at, "request").lastProbeAt = e.lastProbeAt
      BY <2>1 DEF CountedFailure, Ejected, UpstreamStateType
    <3>. QED  BY <2>1, <2>2, <2>4, <3>1, <3>2 DEF RequestSuccess, RequestFailure
  <2>. QED  BY <2>3, <2>4
<1>. QED  BY <1>1, <1>2
=============================================================================
