---------------------- MODULE HealthRuntimeRefinement ----------------------
(***************************************************************************)
(* HealthRuntime implements CooldownBreaker, for any set of upstreams and  *)
(* any options.  What the breaker sees of an upstreamState is a view of    *)
(* that record alone (section 1); every method leaves the view as it is or *)
(* changes it as one of the breaker's actions does (section 2); and that   *)
(* is a step of the breaker (section 3).                                   *)
(***************************************************************************)
EXTENDS HealthRuntimeProofs

----------------------------------------------------------------------------
(* 1. The breaker's view of one record.                                    *)

IsDown(s) == s.state \in {"open", "half_open"}

Mode(s) == CASE IsDown(s)            -> "ejected"
             [] s.state = "healthy" -> "serving"
             [] OTHER               -> "untested"

Score(s) == IF IsDown(s) THEN s.halfOpenSuccesses ELSE s.consecutiveFailures

SameStanding(s, t) ==
    /\ Mode(t) = Mode(s)
    /\ t.openWindowUntil = s.openWindowUntil
    /\ Score(t) = Score(s)

SameView(s, t) ==
    SameStanding(s, t) /\ t.lastAppliedEventAt = s.lastAppliedEventAt

Serves(t) == Mode(t) = "serving" /\ t.openWindowUntil = 0 /\ Score(t) = 0

Ejects(t, at) ==
    Mode(t) = "ejected" /\ t.openWindowUntil = at + openInterval /\ Score(t) = 0

Scores(s, t) ==
    /\ Mode(t) = Mode(s)
    /\ t.openWindowUntil = s.openWindowUntil
    /\ Score(t) = Score(s) + 1

\* The report counts, and its effect is that of one of the breaker's actions.
Counted(s, t, at) ==
    /\ at > s.lastAppliedEventAt
    /\ IsDown(s) => at >= s.openWindowUntil
    /\ t.lastAppliedEventAt = at
    /\ \/ SameStanding(s, t)
       \/ ~IsDown(s) /\ Serves(t)
       \/ /\ ~IsDown(s)
          /\ IF Score(s) + 1 >= failureThreshold THEN Ejects(t, at) ELSE Scores(s, t)
       \/ /\ IsDown(s)
          /\ IF Score(s) + 1 >= recoverySuccessThreshold THEN Serves(t) ELSE Scores(s, t)
       \/ IsDown(s) /\ Ejects(t, at)

----------------------------------------------------------------------------
(* 2. What the methods make of the view.                                   *)

\* refreshLocked cannot be seen: an open record has no trial successes, and
\* half-opening it keeps the end of its window.
LEMMA RefreshedView ==
    ASSUME NEW now \in Nat, NEW s \in UpstreamStateType, UpstreamInv(s, now)
    PROVE  SameView(s, Refreshed(s, now))
<1>1. CASE Refreshed(s, now) = s
  BY <1>1 DEF SameView, SameStanding
<1>2. CASE s.state = "open" /\ Refreshed(s, now) = HalfOpened(s)
  BY <1>2, HalfOpenedFields
     DEF SameView, SameStanding, Mode, Score, IsDown, UpstreamInv, UntouchedIfOpen
<1>. QED  BY <1>1, <1>2 DEF Refreshed

\* acceptEventLocked lets a report through when the breaker counts it, and what
\* it does to the record on the way cannot be seen either.
LEMMA AcceptedView ==
    ASSUME NEW now \in Nat, NEW s \in UpstreamStateType, UpstreamInv(s, now),
           NEW at \in 1..now, Accepts(s, at)
    PROVE  LET e == Accepted(s, at)
           IN  /\ e \in UpstreamStateType
               /\ e.state \in {"unknown", "healthy", "half_open"}
               /\ IsDown(e) <=> IsDown(s)
               /\ SameStanding(s, e)
               /\ e.lastAppliedEventAt = at
               /\ at > s.lastAppliedEventAt
               /\ IsDown(s) => at >= s.openWindowUntil
<1>. DEFINE e == Accepted(s, at)
<1>1. /\ e \in UpstreamStateType
      /\ e.state \in {"unknown", "healthy", "half_open"}
      /\ e.state = "half_open" <=> s.state \in {"open", "half_open"}
      /\ e.state = "half_open" => at >= e.openWindowUntil
      /\ e.openWindowUntil = s.openWindowUntil
      /\ e.halfOpenSuccesses = s.halfOpenSuccesses
      /\ at > s.lastAppliedEventAt /\ e.lastAppliedEventAt = at
      /\ e.consecutiveFailures = s.consecutiveFailures
  BY AcceptedFacts
<1>2. s.state # "open" => e.state = s.state
  BY DEF Accepted, UpstreamStateType
<1>3. IsDown(e) <=> IsDown(s)
  BY <1>1 DEF IsDown
<1>. HIDE DEF e
<1>4. SameStanding(s, e)
  BY <1>1, <1>2, <1>3 DEF SameStanding, Mode, Score, IsDown
<1>. QED  BY <1>1, <1>3, <1>4 DEF IsDown, e

\* A readmission or a confirmation serves.
LEMMA ConfirmedServes ==
    ASSUME NEW x \in UpstreamStateType, NEW src \in Sources
    PROVE  /\ Serves(Readmitted(x, src)) /\ Serves(Confirmed(x, src))
           /\ Readmitted(x, src).lastAppliedEventAt = x.lastAppliedEventAt
           /\ Confirmed(x, src).lastAppliedEventAt = x.lastAppliedEventAt
<1>. DEFINE c == Cleared(x)
            r == Readmitted(x, src)
<1>1. /\ c \in UpstreamStateType /\ c.state = x.state
      /\ c.consecutiveFailures = 0 /\ c.openWindowUntil = 0
      /\ c.lastAppliedEventAt = x.lastAppliedEventAt
  BY DEF Cleared, UpstreamStateType, ZeroTime
<1>2. /\ r.state = "healthy"
      /\ r.consecutiveFailures = 0 /\ r.openWindowUntil = 0
      /\ r.lastAppliedEventAt = x.lastAppliedEventAt
  <2>. HIDE DEF c
  <2>1. r = [c EXCEPT !.state = "healthy", !.source = src]
    BY DEF c, Readmitted
  <2>. HIDE DEF r
  <2>. QED  BY <1>1, <2>1 DEF UpstreamStateType
<1>3. Serves(r)
  BY <1>2 DEF Serves, Mode, Score, IsDown
<1>4. CASE x.state = "healthy"
  BY <1>1, <1>2, <1>3, <1>4 DEF Serves, Mode, Score, IsDown, Confirmed
<1>5. CASE x.state # "healthy"
  BY <1>2, <1>3, <1>5 DEF Confirmed
<1>. QED  BY <1>2, <1>3, <1>4, <1>5

\* An ejection ejects.
LEMMA EjectedEjects ==
    ASSUME NEW x \in UpstreamStateType, NEW at \in Nat, NEW src \in Sources
    PROVE  /\ Ejects(Ejected(x, at, src), at)
           /\ Ejected(x, at, src).lastAppliedEventAt = x.lastAppliedEventAt
<1>. DEFINE t == Ejected(x, at, src)
<1>1. /\ t.state = "open" /\ t.halfOpenSuccesses = 0
      /\ t.openWindowUntil = at + openInterval
      /\ t.lastAppliedEventAt = x.lastAppliedEventAt
  BY DEF Ejected, UpstreamStateType
<1>. QED  BY <1>1 DEF Ejects, Mode, Score, IsDown

\* A failure that reaches a serving record x, which looks like s.
LEMMA CountedFailureView ==
    ASSUME NEW s \in UpstreamStateType, NEW x \in UpstreamStateType,
           ~IsDown(s), ~IsDown(x), SameStanding(s, x),
           NEW at \in Nat, at > s.lastAppliedEventAt,
           x.lastAppliedEventAt = at, NEW src \in Sources
    PROVE  Counted(s, CountedFailure(x, at, src), at)
<1>. DEFINE c == [x EXCEPT !.consecutiveFailures = @ + 1]
<1>1. /\ c \in UpstreamStateType
      /\ c.consecutiveFailures = x.consecutiveFailures + 1
      /\ c.state = x.state /\ c.lastAppliedEventAt = at
      /\ c.openWindowUntil = x.openWindowUntil
  BY DEF UpstreamStateType
<1>2. CountedFailure(x, at, src) =
          IF c.consecutiveFailures >= failureThreshold
          THEN Ejected(c, at, src) ELSE c
  BY DEF CountedFailure
<1>. HIDE DEF c
<1>3. Scores(s, c) /\ c.consecutiveFailures = Score(s) + 1
  BY <1>1 DEF Scores, SameStanding, Mode, Score, IsDown
<1>4. CASE c.consecutiveFailures >= failureThreshold
  BY <1>1, <1>2, <1>3, <1>4, EjectedEjects DEF Counted
<1>5. CASE ~(c.consecutiveFailures >= failureThreshold)
  BY <1>1, <1>2, <1>3, <1>5 DEF Counted
<1>. QED  BY <1>4, <1>5

\* The four Record methods: refused, the report leaves the record alone;
\* accepted, it is counted.
LEMMA ProbeSuccessView ==
    ASSUME NEW now \in Nat, NEW s \in UpstreamStateType, UpstreamInv(s, now),
           NEW at \in 1..now, Accepts(s, at)
    PROVE  Counted(s, AfterProbeSuccess(s, at), at)
<1>. DEFINE e == Accepted(s, at)
            x == [e EXCEPT !.lastProbeAt = at, !.lastProbeOK = TRUE]
            y == [x EXCEPT !.halfOpenSuccesses = @ + 1]
<1>1. /\ e \in UpstreamStateType
      /\ e.state \in {"unknown", "healthy", "half_open"}
      /\ IsDown(e) <=> IsDown(s)
      /\ SameStanding(s, e) /\ e.lastAppliedEventAt = at
      /\ at > s.lastAppliedEventAt
      /\ IsDown(s) => at >= s.openWindowUntil
  BY AcceptedView
<1>2. AfterProbeSuccess(s, at) = ProbeSuccess(e, at)
  BY DEF AfterProbeSuccess
<1>. HIDE DEF e
<1>3. /\ x \in UpstreamStateType
      /\ x.state = e.state /\ x.lastAppliedEventAt = at
      /\ x.openWindowUntil = e.openWindowUntil
      /\ x.halfOpenSuccesses = e.halfOpenSuccesses
  BY <1>1 DEF UpstreamStateType
<1>4. ProbeSuccess(e, at) =
        CASE x.state = "open"      -> x
          [] x.state = "half_open" ->
                 IF y.halfOpenSuccesses >= recoverySuccessThreshold
                 THEN Readmitted(y, "probe") ELSE y
          [] OTHER                 -> Confirmed(x, "probe")
  BY DEF ProbeSuccess
<1>. HIDE DEF x
<1>5. /\ y \in UpstreamStateType
      /\ y.state = x.state /\ y.lastAppliedEventAt = at
      /\ y.openWindowUntil = x.openWindowUntil
      /\ y.halfOpenSuccesses = x.halfOpenSuccesses + 1
  BY <1>3 DEF UpstreamStateType
<1>. HIDE DEF y
<1>6. CASE ~IsDown(s)
  <2>1. ProbeSuccess(e, at) = Confirmed(x, "probe")
    BY <1>1, <1>3, <1>4, <1>6 DEF IsDown
  <2>. QED  BY <1>1, <1>2, <1>3, <1>6, <2>1, ConfirmedServes DEF Counted, Sources
<1>7. CASE IsDown(s)
  <2>1. /\ x.state = "half_open"
        /\ Scores(s, y) /\ y.halfOpenSuccesses = Score(s) + 1
    BY <1>1, <1>3, <1>5, <1>7 DEF Scores, SameStanding, Mode, Score, IsDown
  <2>2. ProbeSuccess(e, at) = IF y.halfOpenSuccesses >= recoverySuccessThreshold
                              THEN Readmitted(y, "probe") ELSE y
    BY <1>4, <2>1
  <2>. QED
    BY <1>1, <1>2, <1>5, <1>7, <2>1, <2>2, ConfirmedServes DEF Counted, Sources
<1>. QED  BY <1>6, <1>7

LEMMA ProbeFailureView ==
    ASSUME NEW now \in Nat, NEW s \in UpstreamStateType, UpstreamInv(s, now),
           NEW at \in 1..now, Accepts(s, at)
    PROVE  Counted(s, AfterProbeFailure(s, at), at)
<1>. DEFINE e == Accepted(s, at)
            x == [e EXCEPT !.lastProbeAt = at, !.lastProbeOK = FALSE]
            y == [x EXCEPT !.consecutiveFailures = @ + 1]
<1>1. /\ e \in UpstreamStateType
      /\ e.state \in {"unknown", "healthy", "half_open"}
      /\ IsDown(e) <=> IsDown(s)
      /\ SameStanding(s, e) /\ e.lastAppliedEventAt = at
      /\ at > s.lastAppliedEventAt
      /\ IsDown(s) => at >= s.openWindowUntil
  BY AcceptedView
<1>2. AfterProbeFailure(s, at) = ProbeFailure(e, at)
  BY DEF AfterProbeFailure
<1>. HIDE DEF e
<1>3. /\ x \in UpstreamStateType
      /\ x.state = e.state /\ x.lastAppliedEventAt = at
      /\ x.openWindowUntil = e.openWindowUntil
      /\ x.consecutiveFailures = e.consecutiveFailures
  BY <1>1 DEF UpstreamStateType
<1>4. ProbeFailure(e, at) =
        CASE x.state = "open"      -> x
          [] x.state = "half_open" -> Ejected(y, at, "probe")
          [] OTHER                 -> CountedFailure(x, at, "probe")
  BY DEF ProbeFailure
<1>. HIDE DEF x
<1>5. y \in UpstreamStateType /\ y.lastAppliedEventAt = at
  BY <1>3 DEF UpstreamStateType
<1>. HIDE DEF y
<1>6. CASE ~IsDown(s)
  <2>1. ~IsDown(x) /\ SameStanding(s, x)
    BY <1>1, <1>3, <1>6 DEF SameStanding, Mode, Score, IsDown
  <2>2. ProbeFailure(e, at) = CountedFailure(x, at, "probe")
    BY <1>4, <2>1 DEF IsDown
  <2>. QED  BY <1>1, <1>2, <1>3, <1>6, <2>1, <2>2, CountedFailureView DEF Sources
<1>7. CASE IsDown(s)
  <2>1. ProbeFailure(e, at) = Ejected(y, at, "probe")
    BY <1>1, <1>3, <1>4, <1>7 DEF IsDown
  <2>. QED  BY <1>1, <1>2, <1>5, <1>7, <2>1, EjectedEjects DEF Counted, Sources
<1>. QED  BY <1>6, <1>7

LEMMA RequestSuccessView ==
    ASSUME NEW now \in Nat, NEW s \in UpstreamStateType, UpstreamInv(s, now),
           NEW at \in 1..now, Accepts(s, at)
    PROVE  Counted(s, AfterRequestSuccess(s, at), at)
<1>. DEFINE e == Accepted(s, at)
<1>1. /\ e \in UpstreamStateType
      /\ IsDown(e) <=> IsDown(s)
      /\ SameStanding(s, e) /\ e.lastAppliedEventAt = at
      /\ at > s.lastAppliedEventAt
      /\ IsDown(s) => at >= s.openWindowUntil
  BY AcceptedView
<1>2. AfterRequestSuccess(s, at) = IF IsDown(e) THEN e ELSE Confirmed(e, "request")
  BY DEF AfterRequestSuccess, RequestSuccess, IsDown
<1>. HIDE DEF e
<1>3. CASE IsDown(s)
  BY <1>1, <1>2, <1>3 DEF Counted
<1>4. CASE ~IsDown(s)
  BY <1>1, <1>2, <1>4, ConfirmedServes DEF Counted, Sources
<1>. QED  BY <1>3, <1>4

LEMMA RequestFailureView ==
    ASSUME NEW now \in Nat, NEW s \in UpstreamStateType, UpstreamInv(s, now),
           NEW at \in 1..now, Accepts(s, at),
           NEW retryable \in BOOLEAN, NEW outputCommitted \in BOOLEAN
    PROVE  Counted(s, AfterRequestFailure(s, at, retryable, outputCommitted), at)
<1>. DEFINE e == Accepted(s, at)
            t == AfterRequestFailure(s, at, retryable, outputCommitted)
<1>1. /\ e \in UpstreamStateType
      /\ IsDown(e) <=> IsDown(s)
      /\ SameStanding(s, e) /\ e.lastAppliedEventAt = at
      /\ at > s.lastAppliedEventAt
      /\ IsDown(s) => at >= s.openWindowUntil
  BY AcceptedView
<1>2. t = e \/ (~IsDown(e) /\ t = CountedFailure(e, at, "request"))
  BY DEF AfterRequestFailure, RequestFailure, IsDown
<1>. HIDE DEF e, t
<1>3. CASE t = e
  BY <1>1, <1>3 DEF Counted, t
<1>4. CASE ~IsDown(e) /\ t = CountedFailure(e, at, "request")
  BY <1>1, <1>4, CountedFailureView DEF Sources, t
<1>. QED  BY <1>2, <1>3, <1>4

----------------------------------------------------------------------------
(* 3. The runtime.                                                         *)

\* One step of the breaker for upstream u, seen on the whole map.
LEMMA CountedIsBreakerStep ==
    ASSUME TypeOK, NEW u \in Upstreams, NEW at \in 1..clock, NEW t,
           Counted(upstreams[u], t, at), Update(u, t)
    PROVE  Breaker!Next
<1>. DEFINE s == upstreams[u]
            until == [v \in Upstreams |-> upstreams[v].openWindowUntil]
            seen == [v \in Upstreams |-> upstreams[v].lastAppliedEventAt]
<1>1. /\ upstreams' = [upstreams EXCEPT ![u] = t]
      /\ upstreams \in [Upstreams -> UpstreamStateType]
      /\ clock' = clock
  BY DEF Update, TypeOK
<1>2. /\ modeBar' = [modeBar EXCEPT ![u] = Mode(t)]
      /\ modeBar[u] = Mode(s)
      /\ modeBar = [modeBar EXCEPT ![u] = Mode(s)]
  <2>1. modeBar = [v \in Upstreams |-> Mode(upstreams[v])]
    BY DEF modeBar, Mode, Down, IsDown
  <2>2. modeBar' = [v \in Upstreams |-> Mode(upstreams'[v])]
    BY DEF modeBar, Mode, Down, IsDown
  <2>. HIDE DEF s
  <2>. QED  BY <1>1, <2>1, <2>2 DEF s
<1>3. /\ scoreBar' = [scoreBar EXCEPT ![u] = Score(t)]
      /\ scoreBar[u] = Score(s)
      /\ scoreBar = [scoreBar EXCEPT ![u] = Score(s)]
  <2>1. scoreBar = [v \in Upstreams |-> Score(upstreams[v])]
    BY DEF scoreBar, Score, Down, IsDown
  <2>2. scoreBar' = [v \in Upstreams |-> Score(upstreams'[v])]
    BY DEF scoreBar, Score, Down, IsDown
  <2>. HIDE DEF s
  <2>. QED  BY <1>1, <2>1, <2>2 DEF s
<1>4. /\ until' = [until EXCEPT ![u] = t.openWindowUntil]
      /\ until[u] = s.openWindowUntil
      /\ until = [until EXCEPT ![u] = s.openWindowUntil]
  BY <1>1
<1>5. /\ seen' = [seen EXCEPT ![u] = t.lastAppliedEventAt]
      /\ seen[u] = s.lastAppliedEventAt
  BY <1>1
<1>6. Mode(s) = "ejected" <=> IsDown(s)
  BY DEF Mode, IsDown
<1>7. Breaker!Count(u, at)
  BY <1>1, <1>2, <1>4, <1>5, <1>6 DEF Counted, Breaker!Count
<1>8. CASE SameStanding(s, t)
  <2>1. modeBar' = modeBar /\ scoreBar' = scoreBar /\ until' = until
    BY <1>2, <1>3, <1>4, <1>8 DEF SameStanding
  <2>. QED  BY <1>7, <2>1 DEF Breaker!Next, Breaker!Noted
<1>9. ASSUME Serves(t)  PROVE Breaker!Serve(u)
  BY <1>2, <1>3, <1>4, <1>9 DEF Serves, Breaker!Serve
<1>10. ASSUME Ejects(t, at)  PROVE Breaker!Eject(u, at)
  BY <1>2, <1>3, <1>4, <1>10 DEF Ejects, Breaker!Eject
<1>11. ASSUME Scores(s, t)  PROVE Breaker!Score(u)
  BY <1>2, <1>3, <1>4, <1>11 DEF Scores, Breaker!Score
<1>12. CASE ~IsDown(s) /\ Serves(t)
  BY <1>2, <1>6, <1>7, <1>9, <1>12 DEF Breaker!Next, Breaker!Succeed
<1>13. CASE /\ ~IsDown(s)
            /\ IF Score(s) + 1 >= failureThreshold THEN Ejects(t, at) ELSE Scores(s, t)
  BY <1>2, <1>3, <1>6, <1>7, <1>10, <1>11, <1>13 DEF Breaker!Next, Breaker!Fail
<1>14. CASE /\ IsDown(s)
            /\ IF Score(s) + 1 >= recoverySuccessThreshold THEN Serves(t) ELSE Scores(s, t)
  BY <1>2, <1>3, <1>6, <1>7, <1>9, <1>11, <1>14 DEF Breaker!Next, Breaker!TrialSuccess
<1>15. CASE IsDown(s) /\ Ejects(t, at)
  BY <1>2, <1>6, <1>7, <1>10, <1>15 DEF Breaker!Next, Breaker!TrialFailure
<1>. QED  BY <1>8, <1>12, <1>13, <1>14, <1>15 DEF Counted

\* A step no upstream's view is changed by is invisible.
LEMMA SameViewsAreAStutter ==
    ASSUME TypeOK, clock' = clock, upstreams' \in [Upstreams -> UpstreamStateType],
           \A u \in Upstreams : SameView(upstreams[u], upstreams'[u])
    PROVE  UNCHANGED Breaker!vars
<1>1. modeBar' = modeBar
  BY DEF SameView, SameStanding, modeBar, Mode, Down, IsDown
<1>2. scoreBar' = scoreBar
  BY DEF SameView, SameStanding, scoreBar, Score, Down, IsDown
<1>. QED  BY <1>1, <1>2 DEF SameView, SameStanding, Breaker!vars

\* A Record method of upstream u that makes t of its record.
LEMMA RecordIsBreakerStep ==
    ASSUME IInv, NEW u \in Upstreams, NEW at \in 1..clock, NEW t, Update(u, t),
           t \in UpstreamStateType,
           ~Accepts(upstreams[u], at) => t = upstreams[u],
           Accepts(upstreams[u], at) => Counted(upstreams[u], t, at)
    PROVE  [Breaker!Next]_(Breaker!vars)
<1>1. CASE Accepts(upstreams[u], at)
  BY <1>1, CountedIsBreakerStep DEF IInv
<1>2. CASE ~Accepts(upstreams[u], at)
  <2>1. upstreams' = upstreams /\ clock' = clock
    BY <1>2 DEF Update, IInv, TypeOK
  <2>. QED  BY <2>1, SameViewsAreAStutter DEF IInv, TypeOK, SameView, SameStanding
<1>. QED  BY <1>1, <1>2

\* Every step of the runtime, action by action.
LEMMA NextIsBreakerStep ==
    ASSUME IInv, Next
    PROVE  [Breaker!Next]_(Breaker!vars)
<1>. USE DEF IInv, TypeOK
<1>1. CASE Tick
  <2>1. UNCHANGED <<modeBar, scoreBar>>
    BY <1>1 DEF Tick, modeBar, scoreBar, Down
  <2>. QED  BY <1>1, <2>1 DEF Tick, Breaker!Next, Breaker!Tick
<1>2. CASE MarkStarted \/ MarkInitialProbeComplete
  BY <1>2, SameViewsAreAStutter
     DEF MarkStarted, MarkInitialProbeComplete, SameView, SameStanding
<1>3. CASE Snapshot
  <2>1. upstreams' \in [Upstreams -> UpstreamStateType]
    BY NextIsGood DEF StepIsGood
  <2>. QED  BY <1>3, <2>1, RefreshedView, SameViewsAreAStutter DEF Snapshot
<1>4. ASSUME NEW u \in Upstreams, IsEligible(u)
      PROVE  [Breaker!Next]_(Breaker!vars)
  <2>1. upstreams' \in [Upstreams -> UpstreamStateType]
    BY NextIsGood DEF StepIsGood
  <2>2. ASSUME NEW v \in Upstreams  PROVE SameView(upstreams[v], upstreams'[v])
    <3>1. CASE v = u
      BY <1>4, <3>1, RefreshedView DEF IsEligible, Update
    <3>2. CASE v # u
      BY <1>4, <3>2 DEF IsEligible, Update, SameView, SameStanding
    <3>. QED  BY <3>1, <3>2
  <2>. QED  BY <1>4, <2>1, <2>2, SameViewsAreAStutter DEF IsEligible, Update
<1>5. ASSUME NEW u \in Upstreams, NEW at \in 1..clock, RecordProbeSuccess(u, at)
      PROVE  [Breaker!Next]_(Breaker!vars)
  <2>. DEFINE t == AfterProbeSuccess(upstreams[u], at)
  <2>1. t \in UpstreamStateType
    BY ProbeSuccessIsGood DEF GoodStep
  <2>2. ~Accepts(upstreams[u], at) => t = upstreams[u]
    BY DEF AfterProbeSuccess
  <2>3. Accepts(upstreams[u], at) => Counted(upstreams[u], t, at)
    BY ProbeSuccessView
  <2>. QED  BY <1>5, <2>1, <2>2, <2>3, RecordIsBreakerStep DEF RecordProbeSuccess
<1>6. ASSUME NEW u \in Upstreams, NEW at \in 1..clock, RecordProbeFailure(u, at)
      PROVE  [Breaker!Next]_(Breaker!vars)
  <2>. DEFINE t == AfterProbeFailure(upstreams[u], at)
  <2>1. t \in UpstreamStateType
    BY ProbeFailureIsGood DEF GoodStep
  <2>2. ~Accepts(upstreams[u], at) => t = upstreams[u]
    BY DEF AfterProbeFailure
  <2>3. Accepts(upstreams[u], at) => Counted(upstreams[u], t, at)
    BY ProbeFailureView
  <2>. QED  BY <1>6, <2>1, <2>2, <2>3, RecordIsBreakerStep DEF RecordProbeFailure
<1>7. ASSUME NEW u \in Upstreams, NEW at \in 1..clock, RecordRequestSuccess(u, at)
      PROVE  [Breaker!Next]_(Breaker!vars)
  <2>. DEFINE t == AfterRequestSuccess(upstreams[u], at)
  <2>1. t \in UpstreamStateType
    BY RequestSuccessIsGood DEF GoodStep
  <2>2. ~Accepts(upstreams[u], at) => t = upstreams[u]
    BY DEF AfterRequestSuccess
  <2>3. Accepts(upstreams[u], at) => Counted(upstreams[u], t, at)
    BY RequestSuccessView
  <2>. QED  BY <1>7, <2>1, <2>2, <2>3, RecordIsBreakerStep DEF RecordRequestSuccess
<1>8. ASSUME NEW u \in Upstreams, NEW at \in 1..clock,
             NEW retryable \in BOOLEAN, NEW outputCommitted \in BOOLEAN,
             RecordRequestFailure(u, at, retryable, outputCommitted)
      PROVE  [Breaker!Next]_(Breaker!vars)
  <2>. DEFINE t == AfterRequestFailure(upstreams[u], at, retryable, outputCommitted)
  <2>1. t \in UpstreamStateType
    BY RequestFailureIsGood DEF GoodStep
  <2>2. ~Accepts(upstreams[u], at) => t = upstreams[u]
    BY DEF AfterRequestFailure
  <2>3. Accepts(upstreams[u], at) => Counted(upstreams[u], t, at)
    BY RequestFailureView
  <2>. QED  BY <1>8, <2>1, <2>2, <2>3, RecordIsBreakerStep DEF RecordRequestFailure
<1>. QED
  BY <1>1, <1>2, <1>3, <1>4, <1>5, <1>6, <1>7, <1>8 DEF Next

\* The runtime implements the breaker: no behaviour of its eight methods, called
\* by anyone in any order, can be told from a breaker that has no half-open state
\* and counts reports in the order of their timestamps.
THEOREM RuntimeImplementsBreaker == Spec => ImplementsBreaker
<1>1. Init => Breaker!Init
  <2>. SUFFICES ASSUME Init  PROVE Breaker!Init
    OBVIOUS
  <2>1. upstreams = [u \in Upstreams |-> NewUpstream] /\ clock = 1
    BY DEF Init, NewRuntime
  <2>2. modeBar = [u \in Upstreams |-> "untested"]
    BY <2>1 DEF modeBar, Down, NewUpstream
  <2>3. scoreBar = [u \in Upstreams |-> 0]
    BY <2>1 DEF scoreBar, Down, NewUpstream
  <2>. QED  BY <2>1, <2>2, <2>3 DEF Breaker!Init, NewUpstream, ZeroTime
<1>2. IInv /\ [Next]_vars => [Breaker!Next]_(Breaker!vars)
  <2>1. CASE Next
    BY <2>1, NextIsBreakerStep
  <2>2. ASSUME UNCHANGED vars  PROVE UNCHANGED Breaker!vars
    BY <2>2 DEF vars, Breaker!vars, modeBar, scoreBar, Down
  <2>. QED  BY <2>1, <2>2
<1>. QED  BY <1>1, <1>2, InvariantHolds, PTL DEF Spec, ImplementsBreaker, Breaker!Spec
=============================================================================
