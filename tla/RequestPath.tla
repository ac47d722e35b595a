---------------------------- MODULE RequestPath ----------------------------
(***************************************************************************)
(* A client request from the handler to its answer: internal/service hands *)
(* it to orchestrator.Run, which plans once and then tries the planned     *)
(* attempts through runtime.Executor, which reports every outcome to the   *)
(* health runtime.                                                         *)
(*                                                                         *)
(* Requests run concurrently with one another and with the prober.  The    *)
(* planner asks for eligibility one upstream at a time, an adapter call    *)
(* takes as long as the upstream does (the HTTP client has no timeout of   *)
(* its own), and the outcome's timestamp is read before the runtime's lock *)
(* is taken.                                                               *)
(***************************************************************************)
EXTENDS Integers, Sequences

CONSTANTS
    Upstreams, FailureThreshold, RecoverySuccessThreshold, OpenInterval, MaxTime,
    Requests,        \* the requests clients make
    CandidatesFor,   \* per request, Routing!Candidates of its model
    NoAdapter        \* upstreams of a family the executor has no adapter for

VARIABLES
    clock, started, initialProbeComplete, upstreams,   \* the health runtime
    req    \* per request, the locals of Run and Execute

runtimeVars == <<clock, started, initialProbeComplete, upstreams>>

Runtime == INSTANCE HealthRuntime

\* How an adapter call ends: with a result; with a failure another upstream may
\* be tried for (no connection, 429, 502, 503, 504, a stream that breaks before
\* its first event); with one that must not be retried; or with a stream that
\* breaks after its first event (retryable, output committed).
Outcomes == {"ok", "retryable", "fatal", "committed"}

\* "idle": not made yet; "plan": in Plan, todo left to ask about; "next": at the
\* head of Run's loop; "call": in adapter.Execute; "report": about to record the
\* outcome; "done".
Phases == {"idle", "plan", "next", "call", "report", "done"}

NewRequest ==
    [ phase    |-> "idle",
      todo     |-> <<>>,     \* candidates Plan has not asked about
      attempts |-> <<>>,     \* attempts Run has not finished, the current one first
      outcome  |-> "none",   \* of the latest call
      at       |-> 0,        \* its timestamp
      gone     |-> FALSE,    \* the client has disconnected: r.Context() is done
      late     |-> FALSE ]   \* it had when the current call began

RequestsInit == req = [r \in Requests |-> NewRequest]

Current(r) == Head(req[r].attempts)

Set(r, q) == req' = [req EXCEPT ![r] = q]

----------------------------------------------------------------------------
\* The handler passes authentication, decoding and capability checks.
Arrive(r) ==
    /\ req[r].phase = "idle"
    /\ Set(r, [req[r] EXCEPT !.phase = "plan", !.todo = CandidatesFor[r]])
    /\ UNCHANGED runtimeVars

\* Mutant: an upstream that is not known to be bad will do.
Ask_NotEjected(r) ==
    /\ req[r].phase = "plan" /\ req[r].todo # <<>>
    /\ LET u == Head(req[r].todo)
       IN  /\ Runtime!IsEligible(u)
           /\ Set(r, [req[r] EXCEPT
                  !.todo = Tail(@),
                  !.attempts = IF upstreams'[u].state \in {"healthy", "unknown"}
                               THEN Append(@, u) ELSE @])

\* One turn of Plan's loop: IsEligible, under the runtime's lock.
Ask(r) ==
    /\ req[r].phase = "plan" /\ req[r].todo # <<>>
    /\ LET u == Head(req[r].todo)
       IN  /\ Runtime!IsEligible(u)
           /\ Set(r, [req[r] EXCEPT
                  !.todo = Tail(@),
                  !.attempts = IF Runtime!IsHealthy(upstreams'[u])
                               THEN Append(@, u) ELSE @])

Planned(r) ==
    /\ req[r].phase = "plan" /\ req[r].todo = <<>>
    /\ Set(r, [req[r] EXCEPT !.phase = "next"])
    /\ UNCHANGED runtimeVars

\* Run calls the executor for the next attempt, whatever has become of the
\* upstream since it was planned.
Call(r) ==
    /\ req[r].phase = "next" /\ req[r].attempts # <<>>
    /\ Current(r) \notin NoAdapter
    /\ Set(r, [req[r] EXCEPT !.phase = "call", !.late = req[r].gone])
    /\ UNCHANGED runtimeVars

\* The executor knows no adapter: a plain error, which is not recorded and which
\* Run does not fail over from.
CallWithoutAdapter(r) ==
    /\ req[r].phase = "next" /\ req[r].attempts # <<>>
    /\ Current(r) \in NoAdapter
    /\ Set(r, [req[r] EXCEPT !.phase = "done", !.outcome = "fatal"])
    /\ UNCHANGED runtimeVars

\* No attempt is left, or none was planned.
Exhausted(r) ==
    /\ req[r].phase = "next" /\ req[r].attempts = <<>>
    /\ Set(r, [req[r] EXCEPT !.phase = "done"])
    /\ UNCHANGED runtimeVars

\* The adapter returns and the executor reads the clock.  Under a context that
\* was done before the call, client.Do fails and is classified retryable.
AdapterReturns(r) ==
    /\ req[r].phase = "call"
    /\ \E o \in Outcomes :
           /\ req[r].late => o \in {"retryable", "fatal"}
           /\ Set(r, [req[r] EXCEPT !.phase = "report", !.outcome = o, !.at = clock])
    /\ UNCHANGED runtimeVars

Record(r) ==
    LET q == req[r]
    IN  \/ /\ q.outcome = "ok"
           /\ Runtime!RecordRequestSuccess(Current(r), q.at)
        \/ /\ q.outcome # "ok"
           /\ Runtime!RecordRequestFailure(Current(r), q.at,
                  q.outcome \in {"retryable", "committed"}, q.outcome = "committed")

\* Mutant: Run calls the same upstream again.
Report_SameAttempt(r) ==
    /\ req[r].phase = "report"
    /\ Record(r)
    /\ \/ /\ req[r].outcome = "retryable"
          /\ Set(r, [req[r] EXCEPT !.phase = "next"])
       \/ /\ req[r].outcome # "retryable"
          /\ Set(r, [req[r] EXCEPT !.phase = "done"])

\* Execute records the outcome and Run decides: a retryable failure with no
\* output committed moves on to the next attempt, anything else is the answer.
Report(r) ==
    /\ req[r].phase = "report"
    /\ Record(r)
    /\ \/ /\ req[r].outcome = "retryable"
          /\ Set(r, [req[r] EXCEPT !.phase = "next", !.attempts = Tail(@)])
       \/ /\ req[r].outcome # "retryable"
          /\ Set(r, [req[r] EXCEPT !.phase = "done"])

\* The client disconnects; net/http cancels the request's context.
ClientGoes(r) ==
    /\ req[r].phase \notin {"idle", "done"}
    /\ ~req[r].gone
    /\ Set(r, [req[r] EXCEPT !.gone = TRUE])
    /\ UNCHANGED runtimeVars

\* Everything but the client's own moves and the upstream's answer.
HandlerStep(r) ==
    \/ Ask(r) \/ Planned(r)
    \/ Call(r) \/ CallWithoutAdapter(r) \/ Exhausted(r)
    \/ Report(r)

RequestStep(r) ==
    Arrive(r) \/ HandlerStep(r) \/ AdapterReturns(r) \/ ClientGoes(r)
=============================================================================
