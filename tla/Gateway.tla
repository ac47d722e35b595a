------------------------------ MODULE Gateway ------------------------------
(***************************************************************************)
(* The service internal/app New puts together: one health runtime shared   *)
(* by the prober, the request path and /readyz, all running at once.  New  *)
(* seeds the runtime first when no initial probe is required, and the      *)
(* prober keeps running until its context is cancelled; requests may       *)
(* outlive it (Shutdown stops the prober before it drains the servers).    *)
(***************************************************************************)
EXTENDS Integers, Sequences, FiniteSets

CONSTANTS
    Upstreams, FailureThreshold, RecoverySuccessThreshold, OpenInterval, MaxTime,
    Targets, UpstreamOf, FailFast,
    Requests, CandidatesFor, NoAdapter,
    RequireInitialProbe   \* cfg.Health.RequireInitialProbe

ASSUME RuntimeAssumption ==
    /\ {FailureThreshold, RecoverySuccessThreshold, OpenInterval} \subseteq Int
    /\ MaxTime \in Nat \ {0}

ASSUME GatewayAssumption ==
    /\ UpstreamOf \in [Targets -> Upstreams]
    /\ FailFast \subseteq Targets
    /\ IsFiniteSet(Targets)
    /\ RequireInitialProbe \in BOOLEAN
    /\ CandidatesFor \in [Requests -> Seq(Upstreams)]
    /\ NoAdapter \subseteq Upstreams

VARIABLES
    clock, started, initialProbeComplete, upstreams,
    ctxDone, startPC, loop, probeAt, marked,
    req,
    seeded   \* upstreams New has seeded

runtimeVars == <<clock, started, initialProbeComplete, upstreams>>
proberVars  == <<ctxDone, startPC, loop, probeAt, marked>>
vars        == <<runtimeVars, proberVars, req, seeded>>

Runtime  == INSTANCE HealthRuntime
Prober   == INSTANCE Prober
Path     == INSTANCE RequestPath

Init ==
    /\ Prober!Init
    /\ Path!RequestsInit
    /\ seeded = {}

\* New seeds with a single clock reading, taken at the start.
SeedTime == 1

Seed(u) ==
    /\ ~RequireInitialProbe
    /\ u \notin seeded
    /\ Runtime!RecordRequestSuccess(u, SeedTime)
    /\ seeded' = seeded \cup {u}
    /\ UNCHANGED <<proberVars, req>>

NewReturned == RequireInitialProbe \/ seeded = Upstreams

ProberRuns ==
    /\ NewReturned
    /\ Prober!ProberStep
    /\ UNCHANGED <<req, seeded>>

RequestRuns(r) ==
    /\ NewReturned
    /\ Path!RequestStep(r)
    /\ UNCHANGED <<proberVars, seeded>>

\* /readyz or /admin/upstreams is read.
ReadSnapshot ==
    /\ NewReturned
    /\ Runtime!Snapshot
    /\ UNCHANGED <<proberVars, req, seeded>>

TimePasses ==
    /\ Runtime!Tick
    /\ UNCHANGED <<proberVars, req, seeded>>

Next ==
    \/ \E u \in Upstreams : Seed(u)
    \/ ProberRuns
    \/ \E r \in Requests : RequestRuns(r)
    \/ ReadSnapshot
    \/ TimePasses

Spec == Init /\ [][Next]_vars

\* The handler's goroutine runs, and a call under a cancelled context returns.
\* Nothing makes an upstream answer a client that waits.
RequestFairness ==
    \A r \in Requests :
        /\ WF_vars(NewReturned /\ Path!HandlerStep(r) /\ UNCHANGED <<proberVars, seeded>>)
        /\ WF_vars(/\ req[r].gone
                   /\ NewReturned /\ Path!AdapterReturns(r)
                   /\ UNCHANGED <<proberVars, seeded>>)

FairSpec == Spec /\ RequestFairness

----------------------------------------------------------------------------
RequestType ==
    [ phase    : Path!Phases,
      todo     : Seq(Upstreams),
      attempts : Seq(Upstreams),
      outcome  : Path!Outcomes \cup {"none"},
      at       : 0..MaxTime,
      gone     : BOOLEAN,
      late     : BOOLEAN ]

\* The type invariant of the composition.
GatewayTypeOK ==
    /\ Prober!ProberTypeOK
    /\ req \in [Requests -> RequestType]
    /\ seeded \subseteq Upstreams

\* The service uses the health runtime as HealthRuntime assumes it is used:
\* every report names an upstream and carries a time its caller had read, and
\* nothing reaches into the runtime but through its methods.  All that is shown
\* of HealthRuntime therefore holds of the service.
UsesRuntimeAsSpecified == Runtime!Spec

Calling(r) == req[r].phase \in {"call", "report"}

\* Where an initial probe is required, no user traffic goes to an upstream that
\* no probe has reported on, whatever it found, not even through a plan made
\* while others came up.
NoTrafficBeforeProbe ==
    RequireInitialProbe =>
        \A r \in Requests : Calling(r) =>
            upstreams[Path!Current(r)].lastProbeAt # 0

\* The sweep means what /readyz takes it to mean under traffic as well: outcomes
\* of requests do not crowd out an upstream's first probe result.
SweepMeansProbedUnderTraffic == RequireInitialProbe => Prober!SweepMeansProbed

\* Once the prober has wound down, an upstream that is ejected stays ejected
\* however the requests still draining come out.
DrainNeverReadmits ==
    [][startPC = "returned" =>
          \A u \in Upstreams :
              upstreams[u].state \in {"open", "half_open"} =>
                  upstreams'[u].state \in {"open", "half_open"}]_vars

\* No request is sent to a half-open upstream.
HalfOpenGetsNoTraffic ==
    [][\A r \in Requests :
          (req'[r].phase = "call" /\ req[r].phase = "next") =>
              upstreams[Path!Current(r)].state # "half_open"]_vars

\* What ejects an upstream through a request is a failure of the upstream: when
\* the call that failed began, the client was there to be answered.
DepartedClientsEjectNobody ==
    [][\A r \in Requests, u \in Upstreams :
          (/\ req[r].phase = "report" /\ req'[r].phase # "report"
           /\ upstreams[u].state = "healthy" /\ upstreams'[u].state = "open") =>
              ~req[r].late]_vars

\* A request whose client has gone ends, after at most its planned attempts.
DepartedRequestsEnd ==
    \A r \in Requests : req[r].gone ~> req[r].phase = "done"
=============================================================================
