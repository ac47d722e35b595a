----------------------------- MODULE Lifecycle -----------------------------
(***************************************************************************)
(* The life of the process: cmd/nexus-router/main.go and the Service of    *)
(* internal/app (Start, Serve, serveAll, Shutdown, stopRuntimeWork).       *)
(*                                                                         *)
(* Two goroutines share the Service without a lock: main, which calls      *)
(* Shutdown once it is interrupted, and the one that runs Start.  Both can *)
(* be inside stopRuntimeWork at the same time, whose reads and writes of   *)
(* s.runtimeCancel and s.runtimeDone are therefore steps of their own.     *)
(* The prober appears as runtimeDone only: module Prober shows that it is  *)
(* closed once the context is cancelled (CancelledProberReturns).          *)
(***************************************************************************)
EXTENDS Naturals, FiniteSets

CONSTANTS
    Requests,      \* client requests, on any server
    MayFail,       \* of "listen", "admin_listen" and "serve"
    MayInterrupt,  \* SIGINT may be delivered
    Rereads        \* values rereads may have

ASSUME LifecycleAssumption ==
    /\ MayFail \subseteq {"listen", "admin_listen", "serve"}
    /\ MayInterrupt \in BOOLEAN
    /\ Rereads \subseteq BOOLEAN

VARIABLES
    hasAdmin,        \* s.adminServer # nil
    rereads,         \* the build reads a field again between "x != nil" and its use
    main, start,     \* where main and the Start goroutine are
    stop,            \* where each of them is in stopRuntimeWork
    runtimeCancel, runtimeDone,   \* these fields are not nil
    cancelled,       \* runtimeCancel has been called
    proberDone,      \* the channel runtimeDone is closed
    serve,           \* per server, serveHTTP: not called, serving, or its error
    shut,            \* per server: Shutdown or Close was called
    first,           \* the server whose error serveAll received first
    startErr,        \* what Start is to return
    errCh,           \* main's channel: "empty", or Start's error
    interrupted, deadline,   \* ctx and shutdownCtx are done
    shutdownErr,     \* Shutdown's firstErr
    req,             \* per request: "new", "done", "cut", or the server it is at
    exit             \* "running", "ok" (status 0), "fatal" or "panic"

stopVars  == <<stop, runtimeCancel, runtimeDone, cancelled>>
serveVars == <<serve, shut, req>>
startVars == <<start, first, startErr, errCh>>
mainVars  == <<main, shutdownErr, exit>>
envVars   == <<hasAdmin, rereads, proberDone, interrupted, deadline>>
vars      == <<stopVars, serveVars, startVars, mainVars, envVars>>

Procs   == {"main", "start"}
Servers == IF hasAdmin THEN {"public", "admin"} ELSE {"public"}
AllServers == {"public", "admin"}

Returned(s) == serve[s] \in {"closed", "failed"}
At(s)       == {r \in Requests : req[r] = s}

Init ==
    /\ hasAdmin \in BOOLEAN /\ rereads \in Rereads
    /\ main = "select" /\ start = "listen"
    /\ stop = [p \in Procs |-> "out"]
    /\ runtimeCancel = TRUE /\ runtimeDone = TRUE
    /\ cancelled = FALSE /\ proberDone = FALSE
    /\ serve = [s \in AllServers |-> "idle"]
    /\ shut = [s \in AllServers |-> FALSE]
    /\ first = "none" /\ startErr = "none" /\ errCh = "empty"
    /\ interrupted = FALSE /\ deadline = FALSE /\ shutdownErr = FALSE
    /\ req = [r \in Requests |-> "new"]
    /\ exit = "running"

----------------------------------------------------------------------------
(* stopRuntimeWork, called by p.                                           *)

StopAt(p, pc)  == stop[p] = pc
StopGoto(p, pc) == stop' = [stop EXCEPT ![p] = pc]

CheckCancel(p) ==
    /\ StopAt(p, "check_cancel")
    /\ StopGoto(p, IF runtimeCancel THEN "call_cancel" ELSE "check_done")
    /\ UNCHANGED <<runtimeCancel, runtimeDone, cancelled, mainVars>>

\* A nil function is called when the field changed and is read again.
CallCancel(p) ==
    /\ StopAt(p, "call_cancel")
    /\ \/ /\ runtimeCancel \/ ~rereads
          /\ cancelled' = TRUE
          /\ StopGoto(p, "clear_cancel")
          /\ UNCHANGED exit
       \/ /\ ~runtimeCancel /\ rereads
          /\ exit' = "panic"
          /\ UNCHANGED <<cancelled, stop>>
    /\ UNCHANGED <<runtimeCancel, runtimeDone, main, shutdownErr>>

ClearCancel(p) ==
    /\ StopAt(p, "clear_cancel")
    /\ runtimeCancel' = FALSE
    /\ StopGoto(p, "check_done")
    /\ UNCHANGED <<runtimeDone, cancelled, mainVars>>

CheckDone(p) ==
    /\ StopAt(p, "check_done")
    /\ StopGoto(p, IF runtimeDone THEN "eval_done" ELSE "returned")
    /\ UNCHANGED <<runtimeCancel, runtimeDone, cancelled, mainVars>>

\* The channel to receive from: nil, which blocks for ever, when the field
\* changed and is read again.
EvalDone(p) ==
    /\ StopAt(p, "eval_done")
    /\ StopGoto(p, IF ~runtimeDone /\ rereads THEN "stuck" ELSE "receive")
    /\ UNCHANGED <<runtimeCancel, runtimeDone, cancelled, mainVars>>

\* Mutant: nobody waits for the prober.
ReceiveDone_NoWait(p) ==
    /\ StopAt(p, "receive")
    /\ StopGoto(p, "clear_done")
    /\ UNCHANGED <<runtimeCancel, runtimeDone, cancelled, mainVars>>

ReceiveDone(p) ==
    /\ StopAt(p, "receive")
    /\ proberDone
    /\ StopGoto(p, "clear_done")
    /\ UNCHANGED <<runtimeCancel, runtimeDone, cancelled, mainVars>>

ClearDone(p) ==
    /\ StopAt(p, "clear_done")
    /\ runtimeDone' = FALSE
    /\ StopGoto(p, "returned")
    /\ UNCHANGED <<runtimeCancel, cancelled, mainVars>>

StopStep(p) ==
    /\ \/ CheckCancel(p) \/ CallCancel(p) \/ ClearCancel(p)
       \/ CheckDone(p) \/ EvalDone(p) \/ ReceiveDone(p) \/ ClearDone(p)
    /\ UNCHANGED <<serveVars, startVars, envVars>>

CallStop(p) == StopAt(p, "out") /\ StopGoto(p, "check_cancel")

----------------------------------------------------------------------------
(* The Start goroutine.                                                    *)

StartFails ==
    /\ startErr' = "failed"
    /\ start' = "stopping"
    /\ CallStop("start")
    /\ UNCHANGED <<first, errCh, serve>>

\* serveHTTP is called for every server.
ServeAllServers ==
    /\ start' = "serving"
    /\ serve' = [s \in AllServers |-> IF s \in Servers THEN "serving" ELSE serve[s]]
    /\ UNCHANGED <<first, startErr, errCh, stop>>

Listen ==
    /\ start = "listen"
    /\ \/ /\ "listen" \in MayFail /\ StartFails
       \/ /\ hasAdmin
          /\ start' = "admin_listen"
          /\ UNCHANGED <<first, startErr, errCh, stop, serve>>
       \/ ~hasAdmin /\ ServeAllServers

AdminListen ==
    /\ start = "admin_listen"
    /\ \/ "admin_listen" \in MayFail /\ StartFails
       \/ ServeAllServers

\* Mutant: the first error closes both servers whatever it is.
FirstResult_AlwaysCloses ==
    /\ start = "serving" /\ first = "none"
    /\ \E s \in Servers :
           /\ Returned(s)
           /\ first' = s
           /\ start' = IF hasAdmin THEN "close_admin" ELSE "serving"
    /\ UNCHANGED <<startErr, errCh, stop, serve>>

\* Mutant: a failed server leaves the other one running.
FirstResult_NeverCloses ==
    /\ start = "serving" /\ first = "none"
    /\ \E s \in Servers : Returned(s) /\ first' = s
    /\ UNCHANGED <<start, startErr, errCh, stop, serve>>

\* serveAll receives its first error: one that is not ErrServerClosed closes
\* both servers.  (With one server, the first error is the last.)
FirstResult ==
    /\ start = "serving" /\ first = "none"
    /\ \E s \in Servers :
           /\ Returned(s)
           /\ first' = s
           /\ start' = IF hasAdmin /\ serve[s] = "failed"
                       THEN "close_admin" ELSE "serving"
    /\ UNCHANGED <<startErr, errCh, stop, serve>>

\* Mutant: ErrServerClosed is no error.
LastResult_ClosedIsNil ==
    /\ start = "serving" /\ first # "none"
    /\ \A s \in Servers : Returned(s)
    /\ startErr' = IF \E s \in Servers : serve[s] = "failed"
                   THEN "failed" ELSE "none"
    /\ start' = "stopping"
    /\ CallStop("start")
    /\ UNCHANGED <<first, errCh, serve>>

\* Every server has returned: selectServeError prefers a failure, and any error
\* stops the runtime.
LastResult ==
    /\ start = "serving" /\ first # "none"
    /\ \A s \in Servers : Returned(s)
    /\ startErr' = IF \E s \in Servers : serve[s] = "failed"
                   THEN "failed" ELSE "closed"
    /\ start' = "stopping"
    /\ CallStop("start")
    /\ UNCHANGED <<first, errCh, serve>>

StartReturns ==
    /\ start = "stopping" /\ StopAt("start", "returned")
    /\ start' = "returned"
    /\ errCh' = startErr
    /\ UNCHANGED <<first, startErr, stop, serve>>

\* http.Server.Close: the listener and every connection.
Close(s) ==
    /\ shut' = [shut EXCEPT ![s] = TRUE]
    /\ req' = [r \in Requests |-> IF req[r] = s THEN "cut" ELSE req[r]]

CloseBoth ==
    /\ \/ /\ start = "close_admin" /\ Close("admin") /\ start' = "close_public"
       \/ /\ start = "close_public" /\ Close("public") /\ start' = "serving"
    /\ UNCHANGED <<first, startErr, errCh, serve, stop>>

StartStep ==
    /\ \/ /\ Listen \/ AdminListen \/ FirstResult \/ LastResult \/ StartReturns
          /\ UNCHANGED <<shut, req>>
       \/ CloseBoth
    /\ UNCHANGED <<runtimeCancel, runtimeDone, cancelled, mainVars, envVars>>

----------------------------------------------------------------------------
(* main.                                                                   *)

\* The select takes Start's error: log.Fatal.
StartEnded ==
    /\ main = "select" /\ errCh # "empty"
    /\ exit' = "fatal"
    /\ UNCHANGED <<main, shutdownErr, shut, stop>>

\* Shutdown is called; its first act is stopRuntimeWork.
CallShutdown ==
    /\ main = "select" /\ interrupted
    /\ main' = "stopping"
    /\ CallStop("main")
    /\ UNCHANGED <<shutdownErr, exit, shut>>

\* http.Server.Shutdown begins with the admin server, if there is one.
BeginDrain(s) ==
    /\ main' = (IF s = "admin" THEN "drain_admin" ELSE "drain_public")
    /\ shut' = [shut EXCEPT ![s] = TRUE]

RuntimeStopped ==
    /\ main = "stopping" /\ StopAt("main", "returned")
    /\ BeginDrain(IF hasAdmin THEN "admin" ELSE "public")
    /\ UNCHANGED <<shutdownErr, exit, stop>>

\* Mutant: Shutdown is given no deadline.
DrainEnds_NoDeadline(s) == At(s) = {} /\ UNCHANGED shutdownErr

\* A server's Shutdown returns when no connection is active, or with
\* shutdownCtx's error at the deadline.
DrainEnds(s) ==
    \/ At(s) = {} /\ UNCHANGED shutdownErr
    \/ deadline /\ shutdownErr' = TRUE

AdminDrained ==
    /\ main = "drain_admin"
    /\ DrainEnds("admin")
    /\ BeginDrain("public")
    /\ UNCHANGED <<exit, stop>>

PublicDrained ==
    /\ main = "drain_public"
    /\ DrainEnds("public")
    /\ main' = "await"
    /\ exit' = IF shutdownErr' THEN "fatal" ELSE exit
    /\ UNCHANGED <<shut, stop>>

\* The last receive: ErrServerClosed is a clean end.
AwaitStart ==
    /\ main = "await" /\ errCh # "empty"
    /\ exit' = IF errCh = "closed" THEN "ok" ELSE "fatal"
    /\ UNCHANGED <<main, shutdownErr, shut, stop>>

MainStep ==
    /\ \/ StartEnded \/ CallShutdown \/ RuntimeStopped
       \/ AdminDrained \/ PublicDrained \/ AwaitStart
    /\ UNCHANGED <<runtimeCancel, runtimeDone, cancelled, serve, req,
                   startVars, envVars>>

----------------------------------------------------------------------------
(* The servers, their clients, the prober and the operating system.        *)

\* serveHTTP returns: ErrServerClosed once the server is shut, or a failure of
\* its listener or of its certificate.
ServeReturns(s) ==
    /\ serve[s] = "serving"
    /\ \/ shut[s] /\ serve' = [serve EXCEPT ![s] = "closed"]
       \/ /\ ~shut[s] /\ "serve" \in MayFail
          /\ serve' = [serve EXCEPT ![s] = "failed"]
    /\ UNCHANGED <<shut, req, stopVars, startVars, mainVars, envVars>>

RequestArrives(r) ==
    /\ req[r] = "new"
    /\ \E s \in Servers :
           /\ serve[s] = "serving" /\ ~shut[s]
           /\ req' = [req EXCEPT ![r] = s]
    /\ UNCHANGED <<serve, shut, stopVars, startVars, mainVars, envVars>>

RequestFinishes(r) ==
    /\ req[r] \in AllServers
    /\ req' = [req EXCEPT ![r] = "done"]
    /\ UNCHANGED <<serve, shut, stopVars, startVars, mainVars, envVars>>

Interrupt ==
    /\ MayInterrupt /\ ~interrupted
    /\ interrupted' = TRUE
    /\ UNCHANGED <<hasAdmin, rereads, proberDone, deadline,
                   stopVars, serveVars, startVars, mainVars>>

DeadlinePasses ==
    /\ main # "select" /\ ~deadline
    /\ deadline' = TRUE
    /\ UNCHANGED <<hasAdmin, rereads, proberDone, interrupted,
                   stopVars, serveVars, startVars, mainVars>>

ProberReturns ==
    /\ cancelled /\ ~proberDone
    /\ proberDone' = TRUE
    /\ UNCHANGED <<hasAdmin, rereads, interrupted, deadline,
                   stopVars, serveVars, startVars, mainVars>>

Running == exit = "running"

Next ==
    /\ Running
    /\ \/ \E p \in Procs : StopStep(p)
       \/ StartStep
       \/ MainStep
       \/ \E s \in AllServers : ServeReturns(s)
       \/ \E r \in Requests : RequestArrives(r) \/ RequestFinishes(r)
       \/ Interrupt \/ DeadlinePasses \/ ProberReturns

\* Goroutines run, timers fire, a server that is shut returns and a cancelled
\* prober ends.  A request need not finish: nothing bounds an upstream's answer.
Fairness ==
    /\ \A p \in Procs : WF_vars(Running /\ StopStep(p))
    /\ WF_vars(Running /\ StartStep)
    /\ WF_vars(Running /\ MainStep)
    /\ \A s \in AllServers : WF_vars(Running /\ shut[s] /\ ServeReturns(s))
    /\ WF_vars(Running /\ DeadlinePasses)
    /\ WF_vars(Running /\ ProberReturns)

Spec == Init /\ [][Next]_vars /\ Fairness

----------------------------------------------------------------------------
StopPCs == {"out", "check_cancel", "call_cancel", "clear_cancel", "check_done",
            "eval_done", "receive", "clear_done", "stuck", "returned"}

\* The type invariant.
LifecycleTypeOK ==
    /\ {hasAdmin, rereads, runtimeCancel, runtimeDone, cancelled, proberDone,
        interrupted, deadline, shutdownErr} \subseteq BOOLEAN
    /\ main \in {"select", "stopping", "drain_admin", "drain_public", "await"}
    /\ start \in {"listen", "admin_listen", "serving", "close_admin",
                  "close_public", "stopping", "returned"}
    /\ stop \in [Procs -> StopPCs]
    /\ serve \in [AllServers -> {"idle", "serving", "closed", "failed"}]
    /\ shut \in [AllServers -> BOOLEAN]
    /\ first \in AllServers \cup {"none"}
    /\ startErr \in {"none", "closed", "failed"}
    /\ errCh \in {"empty", "closed", "failed"}
    /\ req \in [Requests -> {"new", "done", "cut"} \cup AllServers]
    /\ exit \in {"running", "ok", "fatal", "panic"}

\* Status 0 means that every request the process took was answered: none was cut
\* by Close and none is cut by the exit itself.
CleanExitCutsNobody ==
    exit = "ok" => \A r \in Requests : req[r] \in {"new", "done"}

\* However the process ends by itself - a listener that cannot be had, a server
\* that fails, a drain that does or does not make its deadline - the prober has
\* stopped before.
ProberStopsBeforeExit == exit \in {"ok", "fatal"} => proberDone

\* An interrupted process exits, whatever requests are in flight and whatever
\* Start was doing, unless the build reads a field again.
ExitsAfterInterrupt == (interrupted /\ ~rereads) ~> ~Running

\* When one of the servers fails the process does not linger with the other.
FailureEndsTheProcess ==
    ((\E s \in AllServers : serve[s] = "failed") /\ ~rereads) ~> ~Running

\* Shutdown gets past stopRuntimeWork once the prober has stopped.
ShutdownPassesStoppedRuntime ==
    (main = "stopping" /\ proberDone) ~> (main # "stopping" \/ ~Running)
=============================================================================
