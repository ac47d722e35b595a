---------------------------- MODULE ProberProofs ----------------------------
(***************************************************************************)
(* Proofs about Prober, for any number of provider entries, whatever       *)
(* upstreams they name and whichever of them lack credentials.             *)
(*                                                                         *)
(* The prober takes only steps of HealthRuntime (section 2), so all that   *)
(* HealthRuntimeProofs shows of every upstreamState holds here too; what   *)
(* remains is the prober's own bookkeeping (section 3).                    *)
(***************************************************************************)
EXTENDS Prober, FiniteSetTheorems, TLAPS

\* HealthRuntime, with the theorems about it.
Proved == INSTANCE HealthRuntimeProofs

----------------------------------------------------------------------------
(* 1. The inductive invariant.                                             *)

\* A probe's timestamp is a clock reading, no later than now.
TimesInv ==
    /\ clock \in 1..MaxTime
    /\ probeAt \in [Targets -> 0..MaxTime]
    /\ \A t \in Targets : probeAt[t] <= clock
    /\ loop \in [Targets -> LoopStates]
    /\ \A t \in Targets : loop[t] = "inflight" => probeAt[t] # 0

\* Goroutines exist from Launch on, and have ended when Start returns.
PhaseInv ==
    /\ ctxDone \in BOOLEAN /\ initialProbeComplete \in BOOLEAN
    /\ marked \subseteq Targets
    /\ startPC \in {"new", "started", "running", "returned"}
    /\ startPC \in {"new", "started"} => \A t \in Targets : loop[t] = "none"
    /\ startPC = "returned" => \A t \in Targets : loop[t] = "ended"

\* An upstream no probe has reported on has had no report at all: the prober
\* is its only reporter here.
UnprobedInv == \A u \in Upstreams : Proved!Unprobed(upstreams[u])

\* Until the prober is told to stop, a goroutine that is through a probe has
\* left its result in the runtime, and only such goroutines are counted.
ResultsInv ==
    ~ctxDone =>
        /\ \A t \in Targets : (loop[t] = "result" \/ t \in marked) =>
               upstreams[UpstreamOf[t]].lastProbeAt # 0
        /\ initialProbeComplete => marked = Targets

CallerInv == TimesInv /\ PhaseInv

PInv == CallerInv /\ UnprobedInv /\ ResultsInv

----------------------------------------------------------------------------
(* 2. The prober uses the runtime as HealthRuntime describes its callers.  *)

\* Runtime in Prober and Proved here are the same module.
LEMMA SameRuntime ==
    /\ Proved!OptionsAssumption /\ Proved!MaxTimeAssumption
    /\ Runtime!Init <=> Proved!Init
    /\ Runtime!TypeOK <=> Proved!TypeOK
    /\ Runtime!Next <=> Proved!Next
    /\ Runtime!vars = Proved!vars
    /\ \A u, at : Runtime!RecordProbeSuccess(u, at) <=> Proved!RecordProbeSuccess(u, at)
    /\ \A u, at : Runtime!RecordProbeFailure(u, at) <=> Proved!RecordProbeFailure(u, at)
<1>1. /\ Runtime!Init <=> Proved!Init
      /\ Runtime!TypeOK <=> Proved!TypeOK
      /\ Runtime!Next <=> Proved!Next
      /\ Runtime!vars = Proved!vars
  BY Zenon
     DEF Runtime!vars, Runtime!NewRuntime, Runtime!Init, Runtime!Tick,
         Runtime!MarkStarted, Runtime!MarkInitialProbeComplete,
         Runtime!Update, Runtime!IsEligible, Runtime!Snapshot,
         Runtime!RecordProbeSuccess, Runtime!RecordProbeFailure,
         Runtime!RecordRequestSuccess, Runtime!RecordRequestFailure,
         Runtime!Next, Runtime!TypeOK, Runtime!ZeroTime,
         Runtime!DefaultOpenInterval, Runtime!failureThreshold,
         Runtime!recoverySuccessThreshold, Runtime!openInterval,
         Runtime!States, Runtime!Sources, Runtime!UpstreamStateType,
         Runtime!NewUpstream, Runtime!HalfOpened, Runtime!Ejected,
         Runtime!Cleared, Runtime!Readmitted, Runtime!Confirmed,
         Runtime!CountedFailure, Runtime!Refreshed, Runtime!OpenBoundary,
         Runtime!InsideOpenWindow, Runtime!Accepts, Runtime!Accepted,
         Runtime!ProbeSuccess, Runtime!ProbeFailure, Runtime!RequestSuccess,
         Runtime!RequestFailure, Runtime!AfterProbeSuccess,
         Runtime!AfterProbeFailure, Runtime!AfterRequestSuccess,
         Runtime!AfterRequestFailure, Proved!vars, Proved!NewRuntime,
         Proved!Init, Proved!Tick, Proved!MarkStarted,
         Proved!MarkInitialProbeComplete, Proved!Update, Proved!IsEligible,
         Proved!Snapshot, Proved!RecordProbeSuccess,
         Proved!RecordProbeFailure, Proved!RecordRequestSuccess,
         Proved!RecordRequestFailure, Proved!Next, Proved!TypeOK,
         Proved!ZeroTime, Proved!DefaultOpenInterval, Proved!failureThreshold,
         Proved!recoverySuccessThreshold, Proved!openInterval, Proved!States,
         Proved!Sources, Proved!UpstreamStateType, Proved!NewUpstream,
         Proved!HalfOpened, Proved!Ejected, Proved!Cleared, Proved!Readmitted,
         Proved!Confirmed, Proved!CountedFailure, Proved!Refreshed,
         Proved!OpenBoundary, Proved!InsideOpenWindow, Proved!Accepts,
         Proved!Accepted, Proved!ProbeSuccess, Proved!ProbeFailure,
         Proved!RequestSuccess, Proved!RequestFailure,
         Proved!AfterProbeSuccess, Proved!AfterProbeFailure,
         Proved!AfterRequestSuccess, Proved!AfterRequestFailure
<1>2. ASSUME NEW u, NEW at
      PROVE  /\ Runtime!RecordProbeSuccess(u, at) <=> Proved!RecordProbeSuccess(u, at)
             /\ Runtime!RecordProbeFailure(u, at) <=> Proved!RecordProbeFailure(u, at)
  BY Zenon
     DEF Runtime!RecordProbeSuccess, Runtime!RecordProbeFailure,
         Runtime!Update, Runtime!AfterProbeSuccess, Runtime!AfterProbeFailure,
         Runtime!Accepts, Runtime!Accepted, Runtime!InsideOpenWindow,
         Runtime!OpenBoundary, Runtime!HalfOpened, Runtime!ProbeSuccess,
         Runtime!ProbeFailure, Runtime!Readmitted, Runtime!Confirmed,
         Runtime!Cleared, Runtime!Ejected, Runtime!CountedFailure,
         Runtime!ZeroTime, Runtime!failureThreshold,
         Runtime!recoverySuccessThreshold, Runtime!openInterval,
         Runtime!DefaultOpenInterval, Proved!RecordProbeSuccess,
         Proved!RecordProbeFailure, Proved!Update, Proved!AfterProbeSuccess,
         Proved!AfterProbeFailure, Proved!Accepts, Proved!Accepted,
         Proved!InsideOpenWindow, Proved!OpenBoundary, Proved!HalfOpened,
         Proved!ProbeSuccess, Proved!ProbeFailure, Proved!Readmitted,
         Proved!Confirmed, Proved!Cleared, Proved!Ejected,
         Proved!CountedFailure, Proved!ZeroTime, Proved!failureThreshold,
         Proved!recoverySuccessThreshold, Proved!openInterval,
         Proved!DefaultOpenInterval
<1>3. Proved!OptionsAssumption /\ Proved!MaxTimeAssumption
  BY RuntimeAssumption DEF Proved!OptionsAssumption, Proved!MaxTimeAssumption
<1>. QED  BY <1>1, <1>2, <1>3

LEMMA CallerInit == Init => CallerInv
<1>. SUFFICES ASSUME Init  PROVE CallerInv
  OBVIOUS
<1>. USE DEF Init, Runtime!NewRuntime
<1>1. TimesInv
  BY RuntimeAssumption DEF TimesInv, LoopStates
<1>2. PhaseInv
  BY DEF PhaseInv
<1>. QED  BY <1>1, <1>2 DEF CallerInv

\* A goroutine's step moves that goroutine only, and only while Start waits.
LEMMA LoopStepMoves ==
    ASSUME CallerInv, NEW t \in Targets, LoopStep(t)
    PROVE  /\ startPC = "running" /\ startPC' = "running"
           /\ clock' = clock /\ started' = started /\ ctxDone' = ctxDone
           /\ initialProbeComplete' \in BOOLEAN /\ marked' \subseteq Targets
           /\ loop' \in [Targets -> LoopStates]
           /\ \A s \in Targets \ {t} : loop'[s] = loop[s]
<1>. USE DEF CallerInv, TimesInv, PhaseInv, LoopStates
<1>1. ASSUME BeginProbe(t) \/ SkipProbe(t) \/ ProbeCancelled(t)
      PROVE  UNCHANGED <<runtimeVars, ctxDone, startPC, marked>>
             /\ \E pc \in LoopStates : loop' = [loop EXCEPT ![t] = pc]
             /\ loop[t] \in {"probe", "inflight"}
  BY <1>1 DEF BeginProbe, SkipProbe, ProbeCancelled, Goto
<1>2. ASSUME ProbeSucceeds(t) \/ ProbeFails(t)
      PROVE  UNCHANGED <<clock, started, initialProbeComplete, ctxDone, startPC, marked>>
             /\ \E pc \in LoopStates : loop' = [loop EXCEPT ![t] = pc]
             /\ loop[t] = "inflight"
  BY <1>2 DEF ProbeSucceeds, ProbeFails, Goto, Runtime!RecordProbeSuccess,
              Runtime!RecordProbeFailure, Runtime!Update
<1>3. ASSUME MarkFirstResult(t) \/ BackToSelect(t) \/ TickerFires(t) \/ EndLoop(t)
      PROVE  UNCHANGED <<clock, started, ctxDone, startPC>>
             /\ initialProbeComplete' \in BOOLEAN /\ marked' \subseteq Targets
             /\ \E pc \in LoopStates : loop' = [loop EXCEPT ![t] = pc]
             /\ loop[t] \in {"result", "select"}
  BY <1>3 DEF MarkFirstResult, BackToSelect, TickerFires, EndLoop, Goto, runtimeVars
<1>. QED  BY <1>1, <1>2, <1>3 DEF LoopStep, ProbeEnds, runtimeVars

LEMMA CallerNext == CallerInv /\ [Next]_vars => CallerInv'
<1>. SUFFICES ASSUME CallerInv, [Next]_vars  PROVE CallerInv'
  OBVIOUS
<1>. USE DEF CallerInv, TimesInv, PhaseInv, LoopStates
<1>1. CASE Start
  BY <1>1 DEF Start, Runtime!MarkStarted
<1>2. CASE Launch
  BY <1>2 DEF Launch
<1>3. CASE Return
  BY <1>3 DEF Return, runtimeVars
<1>4. CASE Cancel
  BY <1>4 DEF Cancel, runtimeVars
<1>5. ASSUME NEW t \in Targets, LoopStep(t)  PROVE CallerInv'
  <2>1. \/ loop'[t] = "inflight" /\ probeAt' = [probeAt EXCEPT ![t] = clock]
        \/ loop'[t] # "inflight" /\ probeAt' = probeAt
    BY <1>5 DEF LoopStep, BeginProbe, SkipProbe, ProbeEnds, ProbeSucceeds, ProbeFails,
                ProbeCancelled, MarkFirstResult, BackToSelect, TickerFires, EndLoop, Goto
  <2>2. TimesInv'
    BY <1>5, <2>1, LoopStepMoves
  <2>3. PhaseInv'
    BY <1>5, LoopStepMoves
  <2>. QED  BY <2>2, <2>3
<1>6. CASE TimePasses
  BY <1>6, RuntimeAssumption DEF TimePasses, Runtime!Tick, proberVars
<1>7. CASE UNCHANGED vars
  BY <1>7 DEF vars, runtimeVars, proberVars
<1>. QED  BY <1>1, <1>2, <1>3, <1>4, <1>5, <1>6, <1>7 DEF Next, ProberStep

LEMMA StepsAreTheRuntimes ==
    CallerInv /\ [Next]_vars => [Runtime!Next]_(Runtime!vars)
<1>. SUFFICES ASSUME CallerInv, [Next]_vars
              PROVE  Runtime!Next \/ UNCHANGED Runtime!vars
  OBVIOUS
<1>. USE DEF Runtime!vars
<1>1. CASE Start
  BY <1>1 DEF Start, Runtime!Next
<1>2. CASE Launch
  BY <1>2 DEF CallerInv, PhaseInv, Launch, Runtime!Next, Runtime!MarkInitialProbeComplete
<1>3. CASE Return \/ Cancel
  BY <1>3 DEF Return, Cancel, runtimeVars
<1>4. ASSUME NEW t \in Targets, LoopStep(t)
      PROVE  Runtime!Next \/ UNCHANGED Runtime!vars
  <2>1. ASSUME ProbeSucceeds(t) \/ ProbeFails(t)  PROVE Runtime!Next
    <3>1. UpstreamOf[t] \in Upstreams /\ probeAt[t] \in 1..clock
      BY <2>1, TargetsAssumption
         DEF ProbeSucceeds, ProbeFails, CallerInv, TimesInv
    <3>. QED  BY <2>1, <3>1 DEF ProbeSucceeds, ProbeFails, Runtime!Next
  <2>2. ASSUME MarkFirstResult(t)
        PROVE  Runtime!MarkInitialProbeComplete \/ UNCHANGED Runtime!vars
    BY <2>2 DEF CallerInv, PhaseInv, MarkFirstResult, Runtime!MarkInitialProbeComplete
  <2>. QED  BY <1>4, <2>1, <2>2
            DEF LoopStep, BeginProbe, SkipProbe, ProbeEnds, ProbeCancelled,
                BackToSelect, TickerFires, EndLoop, runtimeVars, Runtime!Next
<1>5. CASE TimePasses
  BY <1>5 DEF TimePasses, Runtime!Next
<1>6. CASE UNCHANGED vars
  BY <1>6 DEF vars, runtimeVars
<1>. QED  BY <1>1, <1>2, <1>3, <1>4, <1>5, <1>6 DEF Next, ProberStep

\* The prober's own bookkeeping is sound.
LEMMA CallerHolds == Spec => []CallerInv
BY CallerInit, CallerNext, PTL DEF Spec

\* The prober is a caller as HealthRuntime assumes them.
THEOREM ProberUsesRuntime == Spec => Runtime!Spec
<1>1. Init => Runtime!Init
  BY DEF Init, Runtime!Init
<1>. QED  BY <1>1, CallerHolds, StepsAreTheRuntimes, PTL DEF Spec, Runtime!Spec

\* So HealthRuntime's type invariant holds, by the theorem about it.
LEMMA RuntimeTyped == Spec => []Runtime!TypeOK
<1>1. Proved!Spec => []Proved!TypeOK
  BY SameRuntime, Proved!TypeCorrect DEF Proved!TypeCorrect
<1>2. [Runtime!Next]_(Runtime!vars) => [Proved!Next]_(Proved!vars)
  BY SameRuntime DEF Runtime!vars, Proved!vars
<1>. QED  BY <1>1, <1>2, SameRuntime, ProberUsesRuntime, PTL DEF Runtime!Spec, Proved!Spec

----------------------------------------------------------------------------
(* 3. The sweep, and the quiet after it.                                   *)

Records == upstreams \in [Upstreams -> Proved!UpstreamStateType]

LEMMA TypeOKRecords == Runtime!TypeOK => Records
BY SameRuntime DEF Proved!TypeOK, Records

\* A probe's report leaves a probe result in the record of its upstream, and
\* touches no other.
LEMMA ReportsLeaveResults ==
    ASSUME Records, CallerInv, UnprobedInv, NEW t \in Targets,
           ProbeSucceeds(t) \/ ProbeFails(t)
    PROVE  /\ upstreams'[UpstreamOf[t]].lastProbeAt # 0
           /\ \A u \in Upstreams \ {UpstreamOf[t]} : upstreams'[u] = upstreams[u]
           /\ initialProbeComplete' = initialProbeComplete
<1>. DEFINE u == UpstreamOf[t]
            s == upstreams[u]
<1>1. u \in Upstreams /\ probeAt[t] \in Nat \ {0} /\ s \in Proved!UpstreamStateType
      /\ Proved!Unprobed(s)
  BY TargetsAssumption
     DEF ProbeSucceeds, ProbeFails, CallerInv, TimesInv, Records, UnprobedInv
<1>2. /\ Proved!AfterProbeSuccess(s, probeAt[t]).lastProbeAt # 0
      /\ Proved!AfterProbeFailure(s, probeAt[t]).lastProbeAt # 0
  BY <1>1, SameRuntime, Proved!FirstProbeIsKept DEF Proved!FirstProbeIsKept, Proved!ZeroTime
<1>3. Proved!RecordProbeSuccess(u, probeAt[t]) \/ Proved!RecordProbeFailure(u, probeAt[t])
  BY SameRuntime DEF ProbeSucceeds, ProbeFails
<1>. QED  BY <1>1, <1>2, <1>3
          DEF Proved!RecordProbeSuccess, Proved!RecordProbeFailure, Proved!Update, Records

\* No other step changes a record, nor ends a probe that goes on as a result
\* while the prober may run.
LEMMA OtherStepsLeaveRecords ==
    ASSUME CallerInv, [Next]_vars,
           \A t \in Targets : ~(ProbeSucceeds(t) \/ ProbeFails(t))
    PROVE  /\ upstreams' = upstreams
           /\ ctxDone => ctxDone'
           /\ ~ctxDone' => \A t \in Targets : loop'[t] = "result" => loop[t] = "result"
<1>1. CASE Start \/ Launch \/ Return \/ Cancel
  BY <1>1 DEF Start, Launch, Return, Cancel, Runtime!MarkStarted, runtimeVars
<1>2. ASSUME NEW t \in Targets, LoopStep(t)
      PROVE  /\ upstreams' = upstreams /\ ctxDone' = ctxDone
             /\ ~ctxDone' => \A s \in Targets : loop'[s] = "result" => loop[s] = "result"
  BY <1>2 DEF LoopStep, BeginProbe, SkipProbe, ProbeEnds, ProbeCancelled, MarkFirstResult,
              BackToSelect, TickerFires, EndLoop, Goto, runtimeVars, CallerInv, TimesInv
<1>3. CASE TimePasses
  BY <1>3 DEF TimePasses, Runtime!Tick, proberVars
<1>4. CASE UNCHANGED vars
  BY <1>4 DEF vars, runtimeVars, proberVars
<1>. QED  BY <1>1, <1>2, <1>3, <1>4 DEF Next, ProberStep

LEMMA UnprobedNext ==
    ASSUME Records, CallerInv, UnprobedInv, [Next]_vars
    PROVE  /\ UnprobedInv'
           /\ \A u \in Upstreams : upstreams[u].lastProbeAt # 0 => upstreams'[u].lastProbeAt # 0
<1>1. ASSUME NEW t \in Targets, ProbeSucceeds(t) \/ ProbeFails(t)
      PROVE  /\ UnprobedInv'
             /\ \A u \in Upstreams : upstreams[u].lastProbeAt # 0 => upstreams'[u].lastProbeAt # 0
  BY <1>1, ReportsLeaveResults, TargetsAssumption DEF UnprobedInv, Proved!Unprobed, Proved!ZeroTime
<1>2. CASE \A t \in Targets : ~(ProbeSucceeds(t) \/ ProbeFails(t))
  BY <1>2, OtherStepsLeaveRecords DEF UnprobedInv
<1>. QED  BY <1>1, <1>2

LEMMA InitPInv == Init => PInv
<1>. SUFFICES ASSUME Init  PROVE UnprobedInv /\ ResultsInv
  BY CallerInit DEF PInv
<1>1. UnprobedInv
  BY DEF Init, Runtime!NewRuntime, Runtime!NewUpstream, UnprobedInv, Proved!Unprobed,
         Proved!ZeroTime, Runtime!ZeroTime
<1>2. ResultsInv
  BY DEF Init, Runtime!NewRuntime, ResultsInv
<1>. QED  BY <1>1, <1>2

\* When the count of goroutines through their first probe reaches the number of
\* targets, it is all of them.
LEMMA CountedAll ==
    ASSUME NEW S \in SUBSET Targets, Cardinality(S) = Cardinality(Targets)
    PROVE  S = Targets
BY TargetsAssumption, FS_Subset

LEMMA ResultsNext ==
    ASSUME Records, PInv, [Next]_vars
    PROVE  ResultsInv'
<1>. USE DEF PInv, ResultsInv
<1>1. \A u \in Upstreams : upstreams[u].lastProbeAt # 0 => upstreams'[u].lastProbeAt # 0
  BY UnprobedNext
<1>2. ASSUME NEW t \in Targets, ProbeSucceeds(t) \/ ProbeFails(t)
      PROVE  ResultsInv'
  <2>1. /\ marked' = marked /\ ctxDone' = ctxDone
        /\ initialProbeComplete' = initialProbeComplete
        /\ upstreams'[UpstreamOf[t]].lastProbeAt # 0
        /\ \A s \in Targets \ {t} : loop'[s] = loop[s]
    BY <1>2, ReportsLeaveResults DEF ProbeSucceeds, ProbeFails, Goto, CallerInv, TimesInv
  <2>. QED  BY <1>1, <2>1, TargetsAssumption
<1>3. ASSUME NEW t \in Targets, MarkFirstResult(t)  PROVE ResultsInv'
  <2>1. /\ marked' = marked \cup {t} /\ ctxDone' = ctxDone /\ upstreams' = upstreams
        /\ loop[t] = "result" /\ loop'[t] = "select"
        /\ \A s \in Targets \ {t} : loop'[s] = loop[s]
        /\ initialProbeComplete' => initialProbeComplete \/ Cardinality(marked') = Cardinality(Targets)
    BY <1>3 DEF MarkFirstResult, Goto, CallerInv, TimesInv, PhaseInv
  <2>2. initialProbeComplete' /\ ~ctxDone' => marked' = Targets
    BY <2>1, CountedAll DEF CallerInv, PhaseInv
  <2>. QED  BY <2>1, <2>2
<1>4. CASE Launch
  BY <1>4 DEF Launch, CallerInv, PhaseInv
<1>5. CASE /\ \A t \in Targets : ~(ProbeSucceeds(t) \/ ProbeFails(t) \/ MarkFirstResult(t))
           /\ ~Launch
  <2>1. /\ upstreams' = upstreams
        /\ ctxDone => ctxDone'
        /\ ~ctxDone' => \A t \in Targets : loop'[t] = "result" => loop[t] = "result"
    BY <1>5, OtherStepsLeaveRecords
  <2>2. marked' = marked /\ initialProbeComplete' = initialProbeComplete
    BY <1>5 DEF Next, ProberStep, Start, Return, Cancel, LoopStep, BeginProbe, SkipProbe,
                ProbeEnds, ProbeCancelled, BackToSelect, TickerFires, EndLoop, TimePasses,
                Runtime!Tick, Runtime!MarkStarted, vars, runtimeVars, proberVars
  <2>. QED  BY <2>1, <2>2 DEF CallerInv, PhaseInv
<1>. QED  BY <1>2, <1>3, <1>4, <1>5

LEMMA NextPInv == Runtime!TypeOK /\ PInv /\ [Next]_vars => PInv'
<1>. SUFFICES ASSUME Runtime!TypeOK, PInv, [Next]_vars  PROVE PInv'
  OBVIOUS
<1>1. Records
  BY TypeOKRecords
<1>2. CallerInv'
  BY CallerNext DEF PInv
<1>3. UnprobedInv'
  BY <1>1, UnprobedNext DEF PInv
<1>4. ResultsInv'
  BY <1>1, ResultsNext
<1>. QED  BY <1>2, <1>3, <1>4 DEF PInv

LEMMA ProberInvariantHolds == Spec => []PInv
BY InitPInv, NextPInv, RuntimeTyped, PTL DEF Spec

----------------------------------------------------------------------------
(* 4. The theorems.                                                        *)

\* Every variable of the prober keeps its type.
THEOREM ProberTypeCorrect == Spec => []ProberTypeOK
<1>1. Runtime!TypeOK /\ PInv => ProberTypeOK
  BY DEF PInv, CallerInv, TimesInv, PhaseInv, ProberTypeOK
<1>. QED  BY <1>1, ProberInvariantHolds, RuntimeTyped, PTL

\* The sweep is complete only when a probe has reported on every upstream the
\* prober has.
THEOREM SweepIsTruthful == Spec => []SweepMeansProbed
<1>1. PInv => SweepMeansProbed
  BY DEF PInv, ResultsInv, SweepMeansProbed
<1>. QED  BY <1>1, ProberInvariantHolds, PTL

\* After Start has returned no probe result is recorded.
THEOREM ReturnIsQuiet == Spec => QuietAfterReturn
<1>1. PInv /\ [Next]_vars
        => [startPC = "returned" =>
              \A u \in Upstreams :
                  /\ upstreams'[u].lastProbeAt = upstreams[u].lastProbeAt
                  /\ upstreams'[u].halfOpenSuccesses = upstreams[u].halfOpenSuccesses]_vars
  <2>. SUFFICES ASSUME PInv, [Next]_vars, startPC = "returned"
                PROVE  upstreams' = upstreams
    OBVIOUS
  <2>1. \A t \in Targets : ~(ProbeSucceeds(t) \/ ProbeFails(t))
    BY DEF PInv, CallerInv, PhaseInv, ProbeSucceeds, ProbeFails
  <2>. QED  BY <2>1, OtherStepsLeaveRecords DEF PInv
<1>. QED  BY <1>1, ProberInvariantHolds, PTL DEF Spec, QuietAfterReturn
=============================================================================
