---------------------------- MODULE GatewayProofs ---------------------------
(***************************************************************************)
(* Proofs about Gateway, for any number of requests with any candidates,   *)
(* any provider entries, and with or without an initial probe.             *)
(*                                                                         *)
(* ProberProofs is used for the steps of the prober and, through it,       *)
(* HealthRuntimeProofs for the records; what is new here is what requests, *)
(* readers and seeding do in between.                                      *)
(***************************************************************************)
EXTENDS Gateway, SequenceTheorems, TLAPS

\* Prober and, as Facts!Proved, HealthRuntime, with the theorems about them.
Facts == INSTANCE ProberProofs

----------------------------------------------------------------------------
(* 1. The inductive invariant.                                             *)

\* A call is made for a planned attempt, and an outcome's timestamp is a clock
\* reading.
RequestsInv ==
    /\ req \in [Requests -> RequestType]
    /\ \A r \in Requests :
           /\ req[r].at <= clock
           /\ req[r].phase = "report" => req[r].at # 0
           /\ req[r].phase \in {"call", "report"} => req[r].attempts # <<>>

\* New seeds at most, and only before anything else runs.
SeedInv ==
    /\ seeded \subseteq Upstreams
    /\ RequireInitialProbe => seeded = {}
    /\ startPC # "new" => NewReturned

Probed == {u \in Upstreams : upstreams[u].lastProbeAt # 0}

\* Where an initial probe is required: no upstream hears from anyone before a
\* probe has reported on it, since requests are planned for such upstreams only.
ProbedInv ==
    RequireInitialProbe =>
        /\ Facts!UnprobedInv
        /\ Facts!ResultsInv
        /\ \A r \in Requests : req[r].attempts \in Seq(Probed)

PartsInv == Facts!CallerInv /\ RequestsInv /\ SeedInv

GInv == PartsInv /\ ProbedInv
----------------------------------------------------------------------------
(* 2. The parts of the composition are the modules the facts are about.    *)

LEMMA FactsApply ==
    /\ Facts!RuntimeAssumption /\ Facts!TargetsAssumption
    /\ Facts!Proved!OptionsAssumption /\ Facts!Proved!MaxTimeAssumption
BY RuntimeAssumption, GatewayAssumption
   DEF Facts!RuntimeAssumption, Facts!TargetsAssumption, Facts!IsFiniteSet, IsFiniteSet,
       Facts!Proved!OptionsAssumption, Facts!Proved!MaxTimeAssumption

LEMMA SameRuntime ==
    /\ Runtime!Init <=> Facts!Proved!Init
    /\ Runtime!TypeOK <=> Facts!Proved!TypeOK
    /\ Runtime!Tick <=> Facts!Proved!Tick
    /\ Runtime!Snapshot <=> Facts!Proved!Snapshot
    /\ Runtime!Next <=> Facts!Proved!Next
    /\ Runtime!vars = Facts!Proved!vars
BY Zenon
   DEF Runtime!vars, Runtime!NewRuntime, Runtime!Init, Runtime!Tick,
       Runtime!MarkStarted, Runtime!MarkInitialProbeComplete, Runtime!Update,
       Runtime!IsEligible, Runtime!Snapshot, Runtime!RecordProbeSuccess,
       Runtime!RecordProbeFailure, Runtime!RecordRequestSuccess,
       Runtime!RecordRequestFailure, Runtime!Next, Runtime!TypeOK,
       Runtime!ZeroTime, Runtime!DefaultOpenInterval,
       Runtime!failureThreshold, Runtime!recoverySuccessThreshold,
       Runtime!openInterval, Runtime!States, Runtime!Sources,
       Runtime!UpstreamStateType, Runtime!NewUpstream, Runtime!HalfOpened,
       Runtime!Ejected, Runtime!Cleared, Runtime!Readmitted,
       Runtime!Confirmed, Runtime!CountedFailure, Runtime!Refreshed,
       Runtime!OpenBoundary, Runtime!InsideOpenWindow, Runtime!Accepts,
       Runtime!Accepted, Runtime!ProbeSuccess, Runtime!ProbeFailure,
       Runtime!RequestSuccess, Runtime!RequestFailure,
       Runtime!AfterProbeSuccess, Runtime!AfterProbeFailure,
       Runtime!AfterRequestSuccess, Runtime!AfterRequestFailure,
       Facts!Proved!vars, Facts!Proved!NewRuntime, Facts!Proved!Init,
       Facts!Proved!Tick, Facts!Proved!MarkStarted,
       Facts!Proved!MarkInitialProbeComplete, Facts!Proved!Update,
       Facts!Proved!IsEligible, Facts!Proved!Snapshot,
       Facts!Proved!RecordProbeSuccess, Facts!Proved!RecordProbeFailure,
       Facts!Proved!RecordRequestSuccess, Facts!Proved!RecordRequestFailure,
       Facts!Proved!Next, Facts!Proved!TypeOK, Facts!Proved!ZeroTime,
       Facts!Proved!DefaultOpenInterval, Facts!Proved!failureThreshold,
       Facts!Proved!recoverySuccessThreshold, Facts!Proved!openInterval,
       Facts!Proved!States, Facts!Proved!Sources,
       Facts!Proved!UpstreamStateType, Facts!Proved!NewUpstream,
       Facts!Proved!HalfOpened, Facts!Proved!Ejected, Facts!Proved!Cleared,
       Facts!Proved!Readmitted, Facts!Proved!Confirmed,
       Facts!Proved!CountedFailure, Facts!Proved!Refreshed,
       Facts!Proved!OpenBoundary, Facts!Proved!InsideOpenWindow,
       Facts!Proved!Accepts, Facts!Proved!Accepted, Facts!Proved!ProbeSuccess,
       Facts!Proved!ProbeFailure, Facts!Proved!RequestSuccess,
       Facts!Proved!RequestFailure, Facts!Proved!AfterProbeSuccess,
       Facts!Proved!AfterProbeFailure, Facts!Proved!AfterRequestSuccess,
       Facts!Proved!AfterRequestFailure

LEMMA SameReports ==
    ASSUME NEW u, NEW at
    PROVE  /\ Runtime!RecordRequestSuccess(u, at) <=> Facts!Proved!RecordRequestSuccess(u, at)
           /\ Path!Runtime!RecordRequestSuccess(u, at)
                  <=> Facts!Proved!RecordRequestSuccess(u, at)
           /\ \A retryable, committed :
                  Path!Runtime!RecordRequestFailure(u, at, retryable, committed)
                      <=> Facts!Proved!RecordRequestFailure(u, at, retryable, committed)
BY Zenon
   DEF Runtime!RecordRequestSuccess, Runtime!RecordRequestFailure,
       Runtime!Update, Runtime!AfterRequestSuccess,
       Runtime!AfterRequestFailure, Runtime!Accepts, Runtime!Accepted,
       Runtime!InsideOpenWindow, Runtime!OpenBoundary, Runtime!HalfOpened,
       Runtime!RequestSuccess, Runtime!RequestFailure, Runtime!Readmitted,
       Runtime!Confirmed, Runtime!Cleared, Runtime!Ejected,
       Runtime!CountedFailure, Runtime!ZeroTime, Runtime!failureThreshold,
       Runtime!openInterval, Runtime!DefaultOpenInterval,
       Path!Runtime!RecordRequestSuccess, Path!Runtime!RecordRequestFailure,
       Path!Runtime!Update, Path!Runtime!AfterRequestSuccess,
       Path!Runtime!AfterRequestFailure, Path!Runtime!Accepts,
       Path!Runtime!Accepted, Path!Runtime!InsideOpenWindow,
       Path!Runtime!OpenBoundary, Path!Runtime!HalfOpened,
       Path!Runtime!RequestSuccess, Path!Runtime!RequestFailure,
       Path!Runtime!Readmitted, Path!Runtime!Confirmed, Path!Runtime!Cleared,
       Path!Runtime!Ejected, Path!Runtime!CountedFailure,
       Path!Runtime!ZeroTime, Path!Runtime!failureThreshold,
       Path!Runtime!openInterval, Path!Runtime!DefaultOpenInterval,
       Facts!Proved!RecordRequestSuccess, Facts!Proved!RecordRequestFailure,
       Facts!Proved!Update, Facts!Proved!AfterRequestSuccess,
       Facts!Proved!AfterRequestFailure, Facts!Proved!Accepts,
       Facts!Proved!Accepted, Facts!Proved!InsideOpenWindow,
       Facts!Proved!OpenBoundary, Facts!Proved!HalfOpened,
       Facts!Proved!RequestSuccess, Facts!Proved!RequestFailure,
       Facts!Proved!Readmitted, Facts!Proved!Confirmed, Facts!Proved!Cleared,
       Facts!Proved!Ejected, Facts!Proved!CountedFailure,
       Facts!Proved!ZeroTime, Facts!Proved!failureThreshold,
       Facts!Proved!openInterval, Facts!Proved!DefaultOpenInterval

LEMMA SameReads ==
    ASSUME NEW u
    PROVE  Path!Runtime!IsEligible(u) <=> Facts!Proved!IsEligible(u)
BY Zenon
   DEF Path!Runtime!IsEligible, Path!Runtime!Refreshed,
       Path!Runtime!HalfOpened, Path!Runtime!ZeroTime, Path!Runtime!Update,
       Facts!Proved!IsEligible, Facts!Proved!Refreshed,
       Facts!Proved!HalfOpened, Facts!Proved!ZeroTime, Facts!Proved!Update

LEMMA SameProbeReports ==
    ASSUME NEW u, NEW at
    PROVE  /\ Prober!Runtime!RecordProbeSuccess(u, at)
                  <=> Facts!Runtime!RecordProbeSuccess(u, at)
           /\ Prober!Runtime!RecordProbeFailure(u, at)
                  <=> Facts!Runtime!RecordProbeFailure(u, at)
BY Zenon
   DEF Prober!Runtime!RecordProbeSuccess, Prober!Runtime!RecordProbeFailure,
       Prober!Runtime!Update, Prober!Runtime!AfterProbeSuccess,
       Prober!Runtime!AfterProbeFailure, Prober!Runtime!Accepts,
       Prober!Runtime!Accepted, Prober!Runtime!InsideOpenWindow,
       Prober!Runtime!OpenBoundary, Prober!Runtime!HalfOpened,
       Prober!Runtime!ProbeSuccess, Prober!Runtime!ProbeFailure,
       Prober!Runtime!Readmitted, Prober!Runtime!Confirmed,
       Prober!Runtime!Cleared, Prober!Runtime!Ejected,
       Prober!Runtime!CountedFailure, Prober!Runtime!ZeroTime,
       Prober!Runtime!failureThreshold,
       Prober!Runtime!recoverySuccessThreshold, Prober!Runtime!openInterval,
       Prober!Runtime!DefaultOpenInterval, Facts!Runtime!RecordProbeSuccess,
       Facts!Runtime!RecordProbeFailure, Facts!Runtime!Update,
       Facts!Runtime!AfterProbeSuccess, Facts!Runtime!AfterProbeFailure,
       Facts!Runtime!Accepts, Facts!Runtime!Accepted,
       Facts!Runtime!InsideOpenWindow, Facts!Runtime!OpenBoundary,
       Facts!Runtime!HalfOpened, Facts!Runtime!ProbeSuccess,
       Facts!Runtime!ProbeFailure, Facts!Runtime!Readmitted,
       Facts!Runtime!Confirmed, Facts!Runtime!Cleared, Facts!Runtime!Ejected,
       Facts!Runtime!CountedFailure, Facts!Runtime!ZeroTime,
       Facts!Runtime!failureThreshold, Facts!Runtime!recoverySuccessThreshold,
       Facts!Runtime!openInterval, Facts!Runtime!DefaultOpenInterval

LEMMA SameProber ==
    /\ Prober!Init <=> Facts!Init
    /\ Prober!ProberStep <=> Facts!ProberStep
    /\ Prober!SweepMeansProbed <=> Facts!SweepMeansProbed
    /\ Prober!ProberTypeOK <=> Facts!ProberTypeOK
<1>1. Prober!Init <=> Facts!Init
  BY Zenon DEF Prober!Init, Prober!Runtime!NewRuntime,
               Prober!Runtime!NewUpstream, Prober!Runtime!ZeroTime,
               Facts!Init, Facts!Runtime!NewRuntime,
               Facts!Runtime!NewUpstream, Facts!Runtime!ZeroTime
<1>2. /\ Prober!SweepMeansProbed <=> Facts!SweepMeansProbed
      /\ Prober!ProberTypeOK <=> Facts!ProberTypeOK
  BY Zenon DEF Prober!SweepMeansProbed, Prober!ProberTypeOK,
               Prober!LoopStates, Prober!Runtime!TypeOK,
               Prober!Runtime!UpstreamStateType, Prober!Runtime!States,
               Prober!Runtime!Sources, Prober!Runtime!ZeroTime,
               Facts!SweepMeansProbed, Facts!ProberTypeOK, Facts!LoopStates,
               Facts!Runtime!TypeOK, Facts!Runtime!UpstreamStateType,
               Facts!Runtime!States, Facts!Runtime!Sources,
               Facts!Runtime!ZeroTime
<1>3. ASSUME NEW t  PROVE Prober!LoopStep(t) <=> Facts!LoopStep(t)
  <2>1. /\ Prober!ProbeSucceeds(t) <=> Facts!ProbeSucceeds(t)
        /\ Prober!ProbeFails(t) <=> Facts!ProbeFails(t)
    BY SameProbeReports DEF Prober!ProbeSucceeds, Prober!ProbeFails,
                           Prober!Goto, Facts!ProbeSucceeds, Facts!ProbeFails,
                           Facts!Goto
  <2>2. Prober!MarkFirstResult(t) <=> Facts!MarkFirstResult(t)
    BY Zenon DEF Prober!MarkFirstResult, Prober!Goto, Prober!Cardinality,
                 Prober!IsFiniteSet, Facts!MarkFirstResult, Facts!Goto,
                 Facts!Cardinality, Facts!IsFiniteSet
  <2>3. /\ Prober!BeginProbe(t) <=> Facts!BeginProbe(t)
        /\ Prober!SkipProbe(t) <=> Facts!SkipProbe(t)
        /\ Prober!ProbeCancelled(t) <=> Facts!ProbeCancelled(t)
        /\ Prober!BackToSelect(t) <=> Facts!BackToSelect(t)
        /\ Prober!TickerFires(t) <=> Facts!TickerFires(t)
        /\ Prober!EndLoop(t) <=> Facts!EndLoop(t)
    BY Zenon DEF Prober!BeginProbe, Prober!SkipProbe, Prober!ProbeCancelled,
                 Prober!BackToSelect, Prober!TickerFires, Prober!EndLoop,
                 Prober!Goto, Prober!runtimeVars, Facts!BeginProbe,
                 Facts!SkipProbe, Facts!ProbeCancelled, Facts!BackToSelect,
                 Facts!TickerFires, Facts!EndLoop, Facts!Goto,
                 Facts!runtimeVars
  <2>. QED  BY <2>1, <2>2, <2>3 DEF Prober!LoopStep, Prober!ProbeEnds, Facts!LoopStep,
                           Facts!ProbeEnds
<1>4. /\ Prober!Start <=> Facts!Start
      /\ Prober!Launch <=> Facts!Launch
      /\ Prober!Return <=> Facts!Return
      /\ Prober!Cancel <=> Facts!Cancel
  BY Zenon DEF Prober!Start, Prober!Launch, Prober!Return, Prober!Cancel,
               Prober!Runtime!MarkStarted, Prober!runtimeVars, Facts!Start,
               Facts!Launch, Facts!Return, Facts!Cancel,
               Facts!Runtime!MarkStarted, Facts!runtimeVars
<1>. QED  BY <1>1, <1>2, <1>3, <1>4 DEF Prober!ProberStep, Facts!ProberStep
----------------------------------------------------------------------------
(* 3. Each step is a step of the runtime, and keeps PartsInv.              *)

\* A report of a call's outcome, and a read of one record, as HealthRuntime has
\* them.
Reports(u, at) ==
    \/ Facts!Proved!RecordRequestSuccess(u, at)
    \/ \E retryable, committed \in BOOLEAN :
           Facts!Proved!RecordRequestFailure(u, at, retryable, committed)

\* What a request's step may do to the runtime.
RuntimeSide(r) ==
    \/ UNCHANGED runtimeVars
    \/ \E u \in Upstreams : Facts!Proved!IsEligible(u)
    \/ /\ req[r].attempts # <<>>
       /\ \E at \in 1..clock : Reports(Head(req[r].attempts), at)

\* What a request's step may do to the attempts it has planned.
AttemptsSide(r) ==
    \/ req'[r].attempts = req[r].attempts
    \/ /\ req[r].attempts # <<>>
       /\ req'[r].attempts = Tail(req[r].attempts)
    \/ \E u \in Upstreams :
           /\ Facts!Proved!IsEligible(u)
           /\ upstreams'[u].state = "healthy"
           /\ req'[r].attempts = Append(req[r].attempts, u)

LEMMA SetIsTyped ==
    ASSUME RequestsInv, NEW r \in Requests, NEW q \in RequestType,
           q.at <= clock,
           q.phase = "report" => q.at # 0,
           q.phase \in {"call", "report"} => q.attempts # <<>>,
           Path!Set(r, q), clock' = clock
    PROVE  /\ RequestsInv'
           /\ req'[r] = q
           /\ \A p \in Requests \ {r} : req'[p] = req[p]
BY DEF RequestsInv, Path!Set

LEMMA RequestMoves ==
    ASSUME PartsInv, NEW r \in Requests, Path!RequestStep(r)
    PROVE  /\ RequestsInv'
           /\ RuntimeSide(r)
           /\ AttemptsSide(r)
           /\ \A p \in Requests \ {r} : req'[p] = req[p]
<1>. DEFINE q == req[r]
<1>0. /\ q \in RequestType /\ q.at <= clock /\ clock \in 1..MaxTime
      /\ q.phase = "report" => q.at # 0
      /\ q.phase \in {"call", "report"} => q.attempts # <<>>
      /\ RequestsInv
  BY DEF PartsInv, RequestsInv, Facts!CallerInv, Facts!TimesInv
<1>. USE DEF RequestType, Path!Phases, Path!Outcomes
<1>1. CASE Path!Arrive(r)
  <2>. DEFINE n == [q EXCEPT !.phase = "plan", !.todo = CandidatesFor[r]]
  <2>1. /\ n \in RequestType /\ n.at = q.at /\ n.phase = "plan"
        /\ n.attempts = q.attempts
    BY <1>0, GatewayAssumption
  <2>2. Path!Set(r, n) /\ UNCHANGED runtimeVars
    BY <1>1 DEF Path!Arrive, Path!runtimeVars, runtimeVars
  <2>. HIDE DEF n
  <2>. QED  BY <1>0, <2>1, <2>2, SetIsTyped DEF RuntimeSide, AttemptsSide, runtimeVars
<1>2. CASE Path!Ask(r)
  <2>. DEFINE u == Head(q.todo)
              n == [q EXCEPT !.todo = Tail(@),
                             !.attempts = IF upstreams'[u].state = "healthy"
                                          THEN Append(@, u) ELSE @]
  <2>1. /\ q.todo \in Seq(Upstreams) /\ q.todo # <<>> /\ q.phase = "plan"
        /\ Path!Runtime!IsEligible(u) /\ Path!Set(r, n)
    BY <1>0, <1>2 DEF Path!Ask, Path!Runtime!IsHealthy
  <2>2. u \in Upstreams /\ Tail(q.todo) \in Seq(Upstreams)
    BY <2>1, HeadTailProperties
  <2>3. /\ Facts!Proved!IsEligible(u)
        /\ clock' = clock
    BY <2>1, SameReads DEF Facts!Proved!IsEligible, Facts!Proved!Update
  <2>4. /\ n \in RequestType /\ n.at = q.at /\ n.phase = "plan"
        /\ n.attempts = IF upstreams'[u].state = "healthy"
                        THEN Append(q.attempts, u) ELSE q.attempts
    <3>1. q.attempts \in Seq(Upstreams) /\ Append(q.attempts, u) \in Seq(Upstreams)
      BY <1>0, <2>2
    <3>. HIDE DEF u
    <3>. QED  BY <1>0, <2>1, <2>2, <3>1
  <2>. HIDE DEF n, u
  <2>. QED  BY <1>0, <2>1, <2>2, <2>3, <2>4, SetIsTyped DEF RuntimeSide, AttemptsSide
<1>3. CASE \/ Path!Planned(r) \/ Path!Call(r) \/ Path!CallWithoutAdapter(r)
           \/ Path!Exhausted(r) \/ Path!ClientGoes(r)
  <2>0. \/ Path!Set(r, [q EXCEPT !.phase = "next"])
        \/ /\ Path!Set(r, [q EXCEPT !.phase = "call", !.late = q.gone])
           /\ q.attempts # <<>>
        \/ Path!Set(r, [q EXCEPT !.phase = "done", !.outcome = "fatal"])
        \/ Path!Set(r, [q EXCEPT !.phase = "done"])
        \/ Path!Set(r, [q EXCEPT !.gone = TRUE])
    BY <1>3 DEF Path!Planned, Path!Call, Path!CallWithoutAdapter, Path!Exhausted,
                Path!ClientGoes
  <2>. PICK n :
          /\ Path!Set(r, n)
          /\ \/ n = [q EXCEPT !.phase = "next"]
             \/ /\ n = [q EXCEPT !.phase = "call", !.late = q.gone]
                /\ q.attempts # <<>>
             \/ n = [q EXCEPT !.phase = "done", !.outcome = "fatal"]
             \/ n = [q EXCEPT !.phase = "done"]
             \/ n = [q EXCEPT !.gone = TRUE]
    BY <2>0
  <2>1. UNCHANGED runtimeVars
    BY <1>3 DEF Path!Planned, Path!Call, Path!CallWithoutAdapter, Path!Exhausted,
                Path!ClientGoes, Path!runtimeVars, runtimeVars
  <2>2. /\ n \in RequestType /\ n.at = q.at /\ n.attempts = q.attempts
        /\ n.phase = "report" => q.phase = "report"
        /\ n.phase = "call" => q.attempts # <<>>
    BY <1>0
  <2>. QED  BY <1>0, <2>1, <2>2, SetIsTyped DEF RuntimeSide, AttemptsSide, runtimeVars
<1>4. CASE Path!AdapterReturns(r)
  <2>1. PICK o \in Path!Outcomes :
            Path!Set(r, [q EXCEPT !.phase = "report", !.outcome = o, !.at = clock])
    BY <1>4 DEF Path!AdapterReturns
  <2>. DEFINE n == [q EXCEPT !.phase = "report", !.outcome = o, !.at = clock]
  <2>2. UNCHANGED runtimeVars /\ q.phase = "call" /\ Path!Set(r, n)
    BY <1>4, <2>1 DEF Path!AdapterReturns, Path!runtimeVars, runtimeVars
  <2>3. /\ n \in RequestType /\ n.at = clock /\ n.attempts = q.attempts
        /\ n.phase = "report"
    <3>1. o \in Path!Outcomes /\ clock \in 0..MaxTime
      BY <1>0, <2>1, RuntimeAssumption
    <3>. QED  BY <1>0, <3>1
  <2>. HIDE DEF n
  <2>. QED  BY <1>0, <2>1, <2>2, <2>3, SetIsTyped DEF RuntimeSide, AttemptsSide, runtimeVars
<1>5. CASE Path!Report(r)
  <2>1. /\ q.attempts # <<>> /\ q.at \in 1..clock /\ q.attempts \in Seq(Upstreams)
        /\ Path!Record(r)
    BY <1>0, <1>5 DEF Path!Report
  <2>2. Reports(Head(q.attempts), q.at)
    <3>. DEFINE retryable == q.outcome \in {"retryable", "committed"}
                committed == q.outcome = "committed"
                u         == Head(q.attempts)
    <3>1. \/ Path!Runtime!RecordRequestSuccess(u, q.at)
          \/ Path!Runtime!RecordRequestFailure(u, q.at, retryable, committed)
      BY <2>1 DEF Path!Record, Path!Current
    <3>2. retryable \in BOOLEAN /\ committed \in BOOLEAN
      OBVIOUS
    <3>. HIDE DEF retryable, committed, u
    <3>3. \/ Facts!Proved!RecordRequestSuccess(u, q.at)
          \/ Facts!Proved!RecordRequestFailure(u, q.at, retryable, committed)
      BY <3>1, SameReports
    <3>4. Reports(u, q.at)
      BY <3>2, <3>3 DEF Reports
    <3>. QED  BY <3>4 DEF u
  <2>3. clock' = clock
    BY <2>2 DEF Reports, Facts!Proved!RecordRequestSuccess, Facts!Proved!RecordRequestFailure,
                Facts!Proved!Update
  <2>4. PICK n :
          /\ Path!Set(r, n)
          /\ \/ n = [q EXCEPT !.phase = "next", !.attempts = Tail(q.attempts)]
             \/ n = [q EXCEPT !.phase = "done"]
    BY <1>5 DEF Path!Report
  <2>5. Tail(q.attempts) \in Seq(Upstreams)
    BY <2>1, HeadTailProperties
  <2>6. /\ n \in RequestType /\ n.at = q.at /\ n.phase \in {"next", "done"}
        /\ n.attempts = q.attempts \/ n.attempts = Tail(q.attempts)
    BY <1>0, <2>4, <2>5
  <2>. QED  BY <1>0, <2>1, <2>2, <2>3, <2>4, <2>6, SetIsTyped DEF RuntimeSide, AttemptsSide
<1>. QED  BY <1>1, <1>2, <1>3, <1>4, <1>5 DEF Path!RequestStep, Path!HandlerStep
LEMMA ProberMoves ==
    ASSUME PartsInv, ProberRuns
    PROVE  /\ Facts!ProberStep
           /\ Facts!CallerInv'
           /\ [Facts!Proved!Next]_(Facts!Proved!vars)
<1>1. Facts!ProberStep
  BY SameProber DEF ProberRuns
<1>2. [Facts!Next]_(Facts!vars)
  BY <1>1 DEF Facts!Next
<1>3. Facts!CallerInv'
  BY <1>2, FactsApply, Facts!CallerNext DEF PartsInv, Facts!CallerNext
<1>4. [Facts!Runtime!Next]_(Facts!Runtime!vars)
  BY <1>2, FactsApply, Facts!StepsAreTheRuntimes DEF PartsInv, Facts!StepsAreTheRuntimes
<1>5. [Facts!Proved!Next]_(Facts!Proved!vars)
  BY <1>4, FactsApply, Facts!SameRuntime
     DEF Facts!SameRuntime, Facts!Proved!vars, Facts!Runtime!vars
<1>. QED  BY <1>1, <1>3, <1>5

LEMMA InitParts == Init => PartsInv
<1>. SUFFICES ASSUME Init  PROVE PartsInv
  OBVIOUS
<1>1. Facts!CallerInv
  BY FactsApply, SameProber, Facts!CallerInit DEF Init, Facts!CallerInit
<1>2. clock = 1
  BY SameProber DEF Init, Facts!Init, Facts!Runtime!NewRuntime
<1>3. RequestsInv
  BY <1>2, RuntimeAssumption
     DEF Init, Path!RequestsInit, Path!NewRequest, RequestsInv, RequestType,
         Path!Phases, Path!Outcomes
<1>4. SeedInv
  BY SameProber DEF Init, SeedInv, Facts!Init
<1>. QED  BY <1>1, <1>3, <1>4 DEF PartsInv

\* The prober's bookkeeping is about its own variables, and the clock only.
LEMMA CallerKept ==
    ASSUME PartsInv, UNCHANGED proberVars, initialProbeComplete' = initialProbeComplete,
           clock' = clock \/ (clock < MaxTime /\ clock' = clock + 1)
    PROVE  Facts!CallerInv'
BY RuntimeAssumption
   DEF PartsInv, proberVars, Facts!CallerInv, Facts!TimesInv, Facts!PhaseInv

LEMMA PartsNext == PartsInv /\ [Next]_vars => PartsInv'
<1>. SUFFICES ASSUME PartsInv, [Next]_vars  PROVE PartsInv'
  OBVIOUS
<1>1. ASSUME NEW u \in Upstreams, Seed(u)  PROVE PartsInv'
  <2>1. /\ Facts!Proved!RecordRequestSuccess(u, SeedTime)
        /\ UNCHANGED <<proberVars, req>>
        /\ ~RequireInitialProbe /\ seeded' = seeded \cup {u}
        /\ u \notin seeded
    BY <1>1, SameReports DEF Seed
  <2>2. UNCHANGED <<clock, initialProbeComplete>>
    BY <2>1 DEF Facts!Proved!RecordRequestSuccess, Facts!Proved!Update
  <2>3. Facts!CallerInv' /\ RequestsInv'
    BY <2>1, <2>2, CallerKept DEF PartsInv, RequestsInv
  <2>4. SeedInv'
    BY <2>1 DEF PartsInv, SeedInv, NewReturned, proberVars
  <2>. QED  BY <2>3, <2>4 DEF PartsInv
<1>2. CASE ProberRuns
  <2>1. Facts!CallerInv' /\ UNCHANGED <<req, seeded>> /\ NewReturned
    BY <1>2, ProberMoves DEF ProberRuns
  <2>2. clock <= clock' /\ clock \in Nat /\ clock' \in Nat
    <3>1. clock \in 1..MaxTime /\ clock' \in 1..MaxTime
      BY <2>1 DEF PartsInv, Facts!CallerInv, Facts!TimesInv
    <3>2. clock' \in {clock, clock + 1}
      BY <1>2, ProberMoves
         DEF Facts!Proved!Next, Facts!Proved!vars, Facts!Proved!Tick, Facts!Proved!MarkStarted,
             Facts!Proved!MarkInitialProbeComplete, Facts!Proved!Snapshot,
             Facts!Proved!IsEligible, Facts!Proved!RecordProbeSuccess,
             Facts!Proved!RecordProbeFailure, Facts!Proved!RecordRequestSuccess,
             Facts!Proved!RecordRequestFailure, Facts!Proved!Update
    <3>. QED  BY <3>1, <3>2, RuntimeAssumption
  <2>3. RequestsInv'
    BY <2>1, <2>2 DEF PartsInv, RequestsInv, RequestType
  <2>4. SeedInv'
    BY <2>1 DEF PartsInv, SeedInv, NewReturned
  <2>. QED  BY <2>1, <2>3, <2>4 DEF PartsInv
<1>3. ASSUME NEW r \in Requests, RequestRuns(r)  PROVE PartsInv'
  <2>1. RequestsInv' /\ RuntimeSide(r) /\ UNCHANGED <<proberVars, seeded>>
    BY <1>3, RequestMoves DEF RequestRuns
  <2>2. UNCHANGED <<clock, initialProbeComplete>>
    BY <2>1 DEF RuntimeSide, Reports, runtimeVars, Facts!Proved!RecordRequestSuccess,
                Facts!Proved!RecordRequestFailure, Facts!Proved!IsEligible,
                Facts!Proved!Update
  <2>. QED  BY <2>1, <2>2, CallerKept DEF PartsInv, SeedInv, NewReturned, proberVars
<1>4. CASE ReadSnapshot
  <2>1. UNCHANGED <<clock, initialProbeComplete, proberVars, req, seeded>>
    BY <1>4, SameRuntime DEF ReadSnapshot, Facts!Proved!Snapshot
  <2>. QED  BY <2>1, CallerKept DEF PartsInv, RequestsInv, SeedInv, NewReturned, proberVars
<1>5. CASE TimePasses
  <2>1. /\ UNCHANGED <<initialProbeComplete, proberVars, req, seeded>>
        /\ clock < MaxTime /\ clock' = clock + 1
    BY <1>5, SameRuntime DEF TimePasses, Facts!Proved!Tick
  <2>2. clock \in Nat /\ MaxTime \in Nat /\ clock' <= MaxTime
    BY <2>1, RuntimeAssumption DEF PartsInv, Facts!CallerInv, Facts!TimesInv
  <2>3. RequestsInv'
    BY <2>1, <2>2 DEF PartsInv, RequestsInv, RequestType
  <2>. QED  BY <2>1, <2>2, <2>3, CallerKept DEF PartsInv, SeedInv, NewReturned, proberVars
<1>6. CASE UNCHANGED vars
  BY <1>6, CallerKept DEF vars, runtimeVars, PartsInv, RequestsInv, SeedInv, NewReturned, proberVars
<1>. QED  BY <1>1, <1>2, <1>3, <1>4, <1>5, <1>6 DEF Next

LEMMA StepsAreTheRuntimes ==
    PartsInv /\ [Next]_vars => [Facts!Proved!Next]_(Facts!Proved!vars)
<1>. SUFFICES ASSUME PartsInv, [Next]_vars
              PROVE  Facts!Proved!Next \/ UNCHANGED Facts!Proved!vars
  OBVIOUS
<1>0. clock \in Nat \ {0}
  BY RuntimeAssumption DEF PartsInv, Facts!CallerInv, Facts!TimesInv
<1>1. ASSUME NEW u \in Upstreams, Seed(u)  PROVE Facts!Proved!Next
  <2>1. Facts!Proved!RecordRequestSuccess(u, SeedTime) /\ SeedTime \in 1..clock
    BY <1>0, <1>1, SameReports DEF Seed, SeedTime
  <2>. QED  BY <2>1 DEF Facts!Proved!Next
<1>2. CASE ProberRuns
  BY <1>2, ProberMoves
<1>3. ASSUME NEW r \in Requests, RequestRuns(r)
      PROVE  Facts!Proved!Next \/ UNCHANGED Facts!Proved!vars
  <2>1. RuntimeSide(r) /\ req[r].attempts \in Seq(Upstreams)
    BY <1>3, RequestMoves DEF RequestRuns, PartsInv, RequestsInv, RequestType
  <2>2. req[r].attempts # <<>> => Head(req[r].attempts) \in Upstreams
    BY <2>1, HeadTailProperties
  <2>3. ASSUME NEW u \in Upstreams, NEW at \in 1..clock, Reports(u, at)
        PROVE  Facts!Proved!Next
    BY <2>3 DEF Reports, Facts!Proved!Next
  <2>. QED  BY <2>1, <2>2, <2>3
            DEF RuntimeSide, runtimeVars, Facts!Proved!vars, Facts!Proved!Next
<1>4. CASE ReadSnapshot
  BY <1>4, SameRuntime DEF ReadSnapshot, Facts!Proved!Next
<1>5. CASE TimePasses
  BY <1>5, SameRuntime DEF TimePasses, Facts!Proved!Next
<1>6. CASE UNCHANGED vars
  BY <1>6 DEF vars, runtimeVars, Facts!Proved!vars
<1>. QED  BY <1>1, <1>2, <1>3, <1>4, <1>5, <1>6 DEF Next

LEMMA PartsHold == Spec => []PartsInv
BY InitParts, PartsNext, PTL DEF Spec

LEMMA InitRuntime == Init => Facts!Proved!Init
BY SameProber DEF Init, Facts!Init, Facts!Runtime!NewRuntime, Facts!Runtime!NewUpstream,
   Facts!Runtime!ZeroTime, Facts!Proved!Init, Facts!Proved!NewRuntime,
   Facts!Proved!NewUpstream, Facts!Proved!ZeroTime

\* The service is a caller as HealthRuntime assumes them.
THEOREM ServiceUsesRuntime == Spec => UsesRuntimeAsSpecified
<1>1. Init => Runtime!Init
  BY InitRuntime, SameRuntime
<1>2. PartsInv /\ [Next]_vars => [Runtime!Next]_(Runtime!vars)
  BY StepsAreTheRuntimes, SameRuntime DEF Runtime!vars, Facts!Proved!vars
<1>. QED  BY <1>1, <1>2, PartsHold, PTL DEF Spec, UsesRuntimeAsSpecified, Runtime!Spec

\* So HealthRuntime's theorems hold of the service: its type invariant here.
LEMMA RuntimeTyped == Spec => []Facts!Proved!TypeOK
<1>1. Facts!Proved!Spec => []Facts!Proved!TypeOK
  BY FactsApply, Facts!Proved!TypeCorrect DEF Facts!Proved!TypeCorrect
<1>. QED  BY <1>1, InitRuntime, StepsAreTheRuntimes, PartsHold, PTL DEF Spec, Facts!Proved!Spec

----------------------------------------------------------------------------
(* 4. What steps other than the prober's do to the records.                *)

Down(s) == s.state \in {"open", "half_open"}

LEMMA TypeOKRecords == Facts!Proved!TypeOK => Facts!Records
BY DEF Facts!Proved!TypeOK, Facts!Records

LEMMA ReadLeavesRecords ==
    ASSUME Facts!Records, PartsInv, ReadSnapshot \/ (\E v \in Upstreams : Facts!Proved!IsEligible(v)),
           NEW u \in Upstreams
    PROVE  /\ upstreams'[u].lastProbeAt = upstreams[u].lastProbeAt
           /\ Facts!Proved!Unprobed(upstreams[u]) => Facts!Proved!Unprobed(upstreams'[u])
           /\ Down(upstreams[u]) => Down(upstreams'[u])
<1>1. clock \in Nat /\ upstreams[u] \in Facts!Proved!UpstreamStateType
  BY DEF PartsInv, Facts!CallerInv, Facts!TimesInv, Facts!Records
<1>2. upstreams'[u] \in {upstreams[u], Facts!Proved!Refreshed(upstreams[u], clock)}
  BY SameRuntime DEF ReadSnapshot, Facts!Proved!Snapshot, Facts!Proved!IsEligible, Facts!Proved!Update,
      Facts!Records
<1>. QED  BY <1>1, <1>2, FactsApply, Facts!Proved!ReadsKeepProbes
          DEF Facts!Proved!ReadsKeepProbes, Down

LEMMA ReportLeavesRecords ==
    ASSUME Facts!Records, PartsInv, NEW v \in Upstreams, NEW at \in 1..clock, Reports(v, at),
           NEW u \in Upstreams
    PROVE  /\ upstreams'[u].lastProbeAt = upstreams[u].lastProbeAt
           /\ Down(upstreams[u]) => Down(upstreams'[u])
           /\ u # v => upstreams'[u] = upstreams[u]
<1>1. at \in Nat /\ upstreams[u] \in Facts!Proved!UpstreamStateType
  BY DEF PartsInv, Facts!CallerInv, Facts!TimesInv, Facts!Records
<1>2. CASE u # v
  BY <1>2 DEF Reports, Facts!Proved!RecordRequestSuccess, Facts!Proved!RecordRequestFailure,
      Facts!Proved!Update, Facts!Records
<1>3. CASE u = v
  <2>1. PICK retryable, committed :
          upstreams'[u] \in
              {Facts!Proved!AfterRequestSuccess(upstreams[u], at),
               Facts!Proved!AfterRequestFailure(upstreams[u], at, retryable, committed)}
    BY <1>3 DEF Reports, Facts!Proved!RecordRequestSuccess, Facts!Proved!RecordRequestFailure,
        Facts!Proved!Update, Facts!Records
  <2>. QED  BY <1>1, <1>3, <2>1, FactsApply, Facts!Proved!RequestsReadmitNothing
            DEF Facts!Proved!RequestsReadmitNothing, Down
<1>. QED  BY <1>2, <1>3

----------------------------------------------------------------------------
(* 5. Traffic follows probes.                                              *)

LEMMA InitProbed == Init => ProbedInv
<1>. SUFFICES ASSUME Init  PROVE ProbedInv
  OBVIOUS
<1>1. Facts!UnprobedInv /\ Facts!ResultsInv
  BY FactsApply, SameProber, Facts!InitPInv DEF Init, Facts!InitPInv, Facts!PInv
<1>2. \A r \in Requests : req[r].attempts = <<>>
  BY DEF Init, Path!RequestsInit, Path!NewRequest
<1>. QED  BY <1>1, <1>2, EmptySeq DEF ProbedInv

\* Probe results stay, so a plan of probed upstreams stays one.
LEMMA PlansStayProbed ==
    ASSUME \A u \in Upstreams : upstreams[u].lastProbeAt # 0 => upstreams'[u].lastProbeAt # 0
    PROVE  \A s : s \in Seq(Probed) => s \in Seq(Probed')
<1>1. Probed \subseteq Probed'
  BY DEF Probed
<1>. QED  BY <1>1

\* Whatever leaves the prober and the probe results alone keeps what ProbedInv
\* says of them.
LEMMA ResultsKept ==
    ASSUME Facts!UnprobedInv, Facts!ResultsInv,
           UNCHANGED <<proberVars, initialProbeComplete>>,
           \A u \in Upstreams :
               /\ upstreams'[u].lastProbeAt = upstreams[u].lastProbeAt
               /\ Facts!Proved!Unprobed(upstreams[u]) => Facts!Proved!Unprobed(upstreams'[u])
    PROVE  Facts!UnprobedInv' /\ Facts!ResultsInv'
BY GatewayAssumption DEF Facts!UnprobedInv, Facts!ResultsInv, proberVars

LEMMA RequestKeepsProbed ==
    ASSUME RequireInitialProbe, Facts!Records, GInv,
           NEW r \in Requests, RequestRuns(r)
    PROVE  ProbedInv'
<1>1. /\ RuntimeSide(r) /\ AttemptsSide(r)
      /\ \A p \in Requests \ {r} : req'[p] = req[p]
      /\ UNCHANGED proberVars
  BY RequestMoves DEF RequestRuns, GInv
<1>2. PartsInv /\ Facts!UnprobedInv /\ Facts!ResultsInv
      /\ \A p \in Requests : req[p].attempts \in Seq(Probed)
  BY DEF GInv, ProbedInv
<1>. DEFINE ProbesKept ==
                /\ initialProbeComplete' = initialProbeComplete
                /\ \A u \in Upstreams :
                       /\ upstreams'[u].lastProbeAt = upstreams[u].lastProbeAt
                       /\ Facts!Proved!Unprobed(upstreams[u])
                              => Facts!Proved!Unprobed(upstreams'[u])
<1>3. ProbesKept
  <2>1. CASE UNCHANGED runtimeVars
    BY <2>1 DEF runtimeVars
  <2>2. ASSUME NEW u \in Upstreams, Facts!Proved!IsEligible(u)  PROVE ProbesKept
    BY <1>2, <2>2, ReadLeavesRecords DEF Facts!Proved!IsEligible, Facts!Proved!Update
  <2>3. ASSUME NEW at \in 1..clock, req[r].attempts # <<>>,
               Reports(Head(req[r].attempts), at)
        PROVE  ProbesKept
    <3>. DEFINE v == Head(req[r].attempts)
    <3>1. v \in Probed
      BY <1>2, <2>3, HeadTailProperties
    <3>2. v \in Upstreams /\ upstreams[v].lastProbeAt # 0
      BY <3>1 DEF Probed
    <3>. HIDE DEF v
    <3>3. \A u \in Upstreams : /\ upstreams'[u].lastProbeAt = upstreams[u].lastProbeAt
                               /\ u # v => upstreams'[u] = upstreams[u]
      BY <1>2, <2>3, <3>2, ReportLeavesRecords DEF v
    <3>4. initialProbeComplete' = initialProbeComplete
      BY <2>3 DEF Reports, Facts!Proved!RecordRequestSuccess,
                  Facts!Proved!RecordRequestFailure, Facts!Proved!Update
    <3>. QED  BY <3>2, <3>3, <3>4 DEF Facts!Proved!Unprobed, Facts!Proved!ZeroTime
  <2>. QED  BY <1>1, <2>1, <2>2, <2>3 DEF RuntimeSide
<1>4. Facts!UnprobedInv' /\ Facts!ResultsInv'
  BY <1>1, <1>2, <1>3, ResultsKept
<1>5. Probed' = Probed
  BY <1>3 DEF Probed
<1>6. req'[r].attempts \in Seq(Probed)
  <2>1. CASE req'[r].attempts = req[r].attempts
    BY <1>2, <2>1
  <2>2. CASE req[r].attempts # <<>> /\ req'[r].attempts = Tail(req[r].attempts)
    BY <1>2, <2>2, HeadTailProperties
  <2>3. ASSUME NEW u \in Upstreams, upstreams'[u].state = "healthy",
               req'[r].attempts = Append(req[r].attempts, u)
        PROVE  req'[r].attempts \in Seq(Probed)
    <3>1. u \in Probed
      BY <1>4, <1>5, <2>3 DEF Probed, Facts!UnprobedInv, Facts!Proved!Unprobed,
                         Facts!Proved!ZeroTime
    <3>. QED  BY <1>2, <2>3, <3>1
  <2>. QED  BY <1>1, <2>1, <2>2, <2>3 DEF AttemptsSide
<1>. QED  BY <1>1, <1>2, <1>4, <1>5, <1>6 DEF ProbedInv

LEMMA ProbedNext ==
    ASSUME Facts!Proved!TypeOK, GInv, [Next]_vars
    PROVE  ProbedInv'
<1>. SUFFICES ASSUME RequireInitialProbe  PROVE ProbedInv'
  BY DEF ProbedInv
<1>1. /\ Facts!Records /\ PartsInv /\ Facts!UnprobedInv /\ Facts!ResultsInv
      /\ \A r \in Requests : req[r].attempts \in Seq(Probed)
  BY TypeOKRecords DEF GInv, ProbedInv
<1>2. ASSUME NEW u \in Upstreams, Seed(u)  PROVE ProbedInv'
  BY <1>2 DEF Seed
<1>3. CASE ProberRuns
  <2>1. [Facts!Next]_(Facts!vars) /\ req' = req
    BY <1>1, <1>3, ProberMoves DEF ProberRuns, Facts!Next
  <2>2. /\ Facts!UnprobedInv'
        /\ \A u \in Upstreams : upstreams[u].lastProbeAt # 0 => upstreams'[u].lastProbeAt # 0
    BY <1>1, <2>1, FactsApply, Facts!UnprobedNext DEF PartsInv, Facts!UnprobedNext
  <2>3. Facts!ResultsInv'
    BY <1>1, <2>1, FactsApply, Facts!ResultsNext DEF PartsInv, Facts!PInv, Facts!ResultsNext
  <2>4. \A r \in Requests : req'[r].attempts \in Seq(Probed')
    BY <1>1, <2>1, <2>2, PlansStayProbed
  <2>. QED  BY <2>2, <2>3, <2>4 DEF ProbedInv
<1>4. ASSUME NEW r \in Requests, RequestRuns(r)  PROVE ProbedInv'
  BY <1>1, <1>4, RequestKeepsProbed
<1>5. CASE ReadSnapshot \/ TimePasses \/ UNCHANGED vars
  <2>1. /\ UNCHANGED <<proberVars, initialProbeComplete, req>>
        /\ \A u \in Upstreams :
               /\ upstreams'[u].lastProbeAt = upstreams[u].lastProbeAt
               /\ Facts!Proved!Unprobed(upstreams[u]) => Facts!Proved!Unprobed(upstreams'[u])
    <3>1. CASE ReadSnapshot
      BY <1>1, <3>1, ReadLeavesRecords, SameRuntime DEF ReadSnapshot, Facts!Proved!Snapshot
    <3>2. CASE TimePasses
      BY <3>2, SameRuntime DEF TimePasses, Facts!Proved!Tick
    <3>3. CASE UNCHANGED vars
      BY <3>3 DEF vars, runtimeVars
    <3>. QED  BY <1>5, <3>1, <3>2, <3>3
  <2>2. Facts!UnprobedInv' /\ Facts!ResultsInv'
    BY <1>1, <2>1, ResultsKept
  <2>3. \A r \in Requests : req'[r].attempts \in Seq(Probed')
    BY <1>1, <2>1, PlansStayProbed
  <2>. QED  BY <2>2, <2>3 DEF ProbedInv
<1>. QED  BY <1>2, <1>3, <1>4, <1>5 DEF Next

LEMMA GInvHolds == Spec => []GInv
<1>1. Init => GInv
  BY InitParts, InitProbed DEF GInv
<1>2. Facts!Proved!TypeOK /\ GInv /\ [Next]_vars => GInv'
  BY PartsNext, ProbedNext DEF GInv
<1>. QED  BY <1>1, <1>2, RuntimeTyped, PTL DEF Spec

----------------------------------------------------------------------------
(* 6. The theorems.                                                        *)

\* Every variable of the composition keeps its type.
THEOREM GatewayTypeCorrect == Spec => []GatewayTypeOK
<1>1. ASSUME Facts!Proved!TypeOK, GInv  PROVE GatewayTypeOK
  <2>1. Facts!ProberTypeOK
    BY <1>1, FactsApply, Facts!SameRuntime
       DEF Facts!SameRuntime, GInv, PartsInv, Facts!CallerInv, Facts!TimesInv,
           Facts!PhaseInv, Facts!ProberTypeOK
  <2>. QED  BY <1>1, <2>1, SameProber DEF GInv, PartsInv, RequestsInv, SeedInv, GatewayTypeOK
<1>. QED  BY <1>1, GInvHolds, RuntimeTyped, PTL

\* Where an initial probe is required, requests only ever go to upstreams a
\* probe has reported on.
THEOREM TrafficFollowsProbes == Spec => []NoTrafficBeforeProbe
<1>1. ASSUME GInv  PROVE NoTrafficBeforeProbe
  <2>. SUFFICES ASSUME RequireInitialProbe, NEW r \in Requests, Calling(r)
                PROVE  upstreams[Path!Current(r)].lastProbeAt # 0
    BY DEF NoTrafficBeforeProbe
  <2>1. req[r].attempts \in Seq(Probed) /\ req[r].attempts # <<>>
    BY <1>1 DEF GInv, ProbedInv, PartsInv, RequestsInv, Calling
  <2>2. Head(req[r].attempts) \in Probed
    BY <2>1, HeadTailProperties
  <2>. QED  BY <2>2 DEF Probed, Path!Current
<1>. QED  BY <1>1, GInvHolds, PTL

\* Under traffic as well, a complete sweep means a probe result for every
\* upstream.
THEOREM SweepIsTruthfulUnderTraffic == Spec => []SweepMeansProbedUnderTraffic
<1>1. ASSUME GInv  PROVE SweepMeansProbedUnderTraffic
  BY <1>1, SameProber DEF GInv, ProbedInv, Facts!ResultsInv, Facts!SweepMeansProbed,
                          SweepMeansProbedUnderTraffic
<1>. QED  BY <1>1, GInvHolds, PTL

\* While requests drain after the prober has returned, none of their outcomes
\* readmits an upstream.
THEOREM DrainIsOneWay == Spec => DrainNeverReadmits
<1>1. ASSUME Facts!Proved!TypeOK, GInv, [Next]_vars, startPC = "returned",
             NEW u \in Upstreams, Down(upstreams[u])
      PROVE  Down(upstreams'[u])
  <2>1. Facts!Records /\ PartsInv
    BY <1>1, TypeOKRecords DEF GInv
  <2>2. ASSUME NEW v \in Upstreams  PROVE ~Seed(v)
    BY <1>1, <2>1 DEF PartsInv, SeedInv, NewReturned, Seed
  <2>3. CASE ProberRuns
    <3>1. [Facts!Next]_(Facts!vars)
      BY <2>1, <2>3, ProberMoves DEF Facts!Next
    <3>2. \A t \in Targets : ~(Facts!ProbeSucceeds(t) \/ Facts!ProbeFails(t))
      BY <1>1, <2>1 DEF PartsInv, Facts!CallerInv, Facts!PhaseInv, Facts!ProbeSucceeds,
                        Facts!ProbeFails
    <3>3. upstreams' = upstreams
      BY <2>1, <3>1, <3>2, FactsApply, Facts!OtherStepsLeaveRecords
         DEF PartsInv, Facts!OtherStepsLeaveRecords
    <3>. QED  BY <1>1, <3>3
  <2>4. ASSUME NEW r \in Requests, RequestRuns(r)  PROVE Down(upstreams'[u])
    <3>1. RuntimeSide(r) /\ req[r].attempts \in Seq(Upstreams)
      BY <2>1, <2>4, RequestMoves DEF RequestRuns, PartsInv, RequestsInv, RequestType
    <3>2. req[r].attempts # <<>> => Head(req[r].attempts) \in Upstreams
      BY <3>1, HeadTailProperties
    <3>3. CASE UNCHANGED runtimeVars
      BY <1>1, <3>3 DEF runtimeVars
    <3>4. ASSUME NEW v \in Upstreams, Facts!Proved!IsEligible(v)  PROVE Down(upstreams'[u])
      BY <1>1, <2>1, <3>4, ReadLeavesRecords
    <3>5. ASSUME NEW v \in Upstreams, NEW at \in 1..clock, Reports(v, at)
          PROVE  Down(upstreams'[u])
      BY <1>1, <2>1, <3>5, ReportLeavesRecords
    <3>. QED  BY <3>1, <3>2, <3>3, <3>4, <3>5 DEF RuntimeSide
  <2>5. CASE ReadSnapshot
    BY <1>1, <2>1, <2>5, ReadLeavesRecords
  <2>6. CASE TimePasses
    BY <1>1, <2>6, SameRuntime DEF TimePasses, Facts!Proved!Tick
  <2>7. CASE UNCHANGED vars
    BY <1>1, <2>7 DEF vars, runtimeVars
  <2>. QED  BY <1>1, <2>2, <2>3, <2>4, <2>5, <2>6, <2>7 DEF Next
<1>2. Facts!Proved!TypeOK /\ GInv /\ [Next]_vars
        => [startPC = "returned" =>
              \A u \in Upstreams :
                  upstreams[u].state \in {"open", "half_open"} =>
                      upstreams'[u].state \in {"open", "half_open"}]_vars
  BY <1>1 DEF Down
<1>. QED  BY <1>2, GInvHolds, RuntimeTyped, PTL DEF Spec, DrainNeverReadmits
=============================================================================
