-------------------------- MODULE LifecycleProofs --------------------------
(***************************************************************************)
(* Proofs about Lifecycle, for any number of requests, whatever may fail,  *)
(* with and without an admin server, and for builds that read the          *)
(* Service's fields again as well as those that do not.                    *)
(***************************************************************************)
EXTENDS Lifecycle, TLAPS

----------------------------------------------------------------------------
(* 1. The inductive invariant.                                             *)

\* Whoever is past the wait in stopRuntimeWork, or will find nothing to wait
\* for, is so because the prober has ended.
StopInv ==
    /\ ~runtimeDone => proberDone
    /\ \A p \in Procs : stop[p] \in {"clear_done", "returned"} => proberDone

\* Start has its error when it stops the runtime and has handed it over when it
\* returns; main and Start are through stopRuntimeWork when they go on.
PhasesInv ==
    /\ start \in {"stopping", "returned"} => startErr # "none"
    /\ start = "returned" => stop["start"] = "returned" /\ errCh = startErr
    /\ start # "returned" => errCh = "empty"
    /\ main \in {"drain_admin", "drain_public", "await"} => stop["main"] = "returned"

\* A server has an outcome only once it was served, serveAll closes the servers
\* for a failure only, and Start's error is ErrServerClosed only if every server
\* was shut.
ServersInv ==
    /\ start \in {"listen", "admin_listen"} => \A s \in AllServers : serve[s] = "idle"
    /\ start \in {"close_admin", "close_public"} =>
           first \in Servers /\ serve[first] = "failed"
    /\ startErr = "closed" => \A s \in Servers : serve[s] = "closed"

\* What main has shut, and drained if no error is noted, has no request left
\* and gets none.
DrainInv ==
    /\ \A r \in Requests : req[r] \in AllServers => req[r] \in Servers
    /\ main = "drain_admin" => shut["admin"]
    /\ main \in {"drain_public", "await"} =>
           /\ shut["public"]
           /\ hasAdmin => shut["admin"]
           /\ hasAdmin /\ ~shutdownErr => At("admin") = {}
    /\ main = "await" /\ ~shutdownErr => At("public") = {}

\* Connections are cut for a server's failure only.
CutInv ==
    (\E r \in Requests : req[r] = "cut") => \E s \in Servers : serve[s] = "failed"

\* What an exit status was decided on.
ExitInv ==
    /\ exit = "ok" => main = "await" /\ ~shutdownErr /\ errCh = "closed"
    /\ exit = "fatal" => proberDone
    /\ Running /\ main = "await" => ~shutdownErr

LInv ==
    /\ LifecycleTypeOK
    /\ StopInv /\ PhasesInv /\ ServersInv /\ DrainInv /\ CutInv /\ ExitInv

LEMMA InitLInv == Init => LInv
<1>. SUFFICES ASSUME Init  PROVE LInv
  OBVIOUS
<1>. USE DEF Init, AllServers, Procs
<1>1. LifecycleTypeOK
  BY LifecycleAssumption DEF LifecycleTypeOK, StopPCs
<1>. QED  BY <1>1 DEF LInv, StopInv, PhasesInv, ServersInv, DrainInv, CutInv, ExitInv, Running
----------------------------------------------------------------------------
(* 2. Every step keeps it.                                                 *)

\* Both goroutines' steps in stopRuntimeWork.
LEMMA StopStepKeeps ==
    ASSUME LInv, Running, NEW p \in Procs, StopStep(p)
    PROVE  LInv'
<1>. USE DEF LInv, LifecycleTypeOK, Procs, StopPCs
<1>0. /\ UNCHANGED <<serve, shut, req, start, first, startErr, errCh, main, shutdownErr,
                     hasAdmin, rereads, proberDone, interrupted, deadline>>
      /\ stop[p] \notin {"out", "returned"}
  BY DEF StopStep, CheckCancel, CallCancel, ClearCancel, CheckDone, EvalDone, ReceiveDone,
         ClearDone, StopAt, serveVars, startVars, envVars, mainVars
<1>a. /\ \E pc \in StopPCs : stop' = [stop EXCEPT ![p] = pc]
      /\ runtimeCancel' = runtimeCancel \/ runtimeCancel' = FALSE
      /\ runtimeDone' = runtimeDone \/ runtimeDone' = FALSE
      /\ cancelled' = cancelled \/ cancelled' = TRUE
      /\ exit' = exit \/ exit' = "panic"
  <2>. USE DEF StopAt, StopGoto, mainVars
  <2>1. CASE CheckCancel(p)
    BY <2>1 DEF CheckCancel
  <2>2. CASE CallCancel(p)
    <3>1. CASE exit' = "panic" /\ UNCHANGED <<cancelled, stop>>
      <4>1. stop' = [stop EXCEPT ![p] = stop[p]] /\ stop[p] \in StopPCs
        BY <3>1
      <4>. QED  BY <2>2, <3>1, <4>1 DEF CallCancel
    <3>2. CASE cancelled' = TRUE /\ StopGoto(p, "clear_cancel") /\ UNCHANGED exit
      BY <2>2, <3>2 DEF CallCancel
    <3>. QED  BY <2>2, <3>1, <3>2 DEF CallCancel
  <2>3. CASE ClearCancel(p)
    BY <2>3 DEF ClearCancel
  <2>4. CASE CheckDone(p)
    BY <2>4 DEF CheckDone
  <2>5. CASE EvalDone(p)
    BY <2>5 DEF EvalDone
  <2>6. CASE ReceiveDone(p)
    BY <2>6 DEF ReceiveDone
  <2>7. CASE ClearDone(p)
    BY <2>7 DEF ClearDone
  <2>. QED  BY <2>1, <2>2, <2>3, <2>4, <2>5, <2>6, <2>7 DEF StopStep
<1>1. /\ {runtimeCancel', runtimeDone', cancelled'} \subseteq BOOLEAN
      /\ stop' \in [Procs -> StopPCs] /\ \A o \in Procs \ {p} : stop'[o] = stop[o]
      /\ exit' \in {"running", "panic"}
  <2>1. {runtimeCancel, runtimeDone, cancelled} \subseteq BOOLEAN /\ exit = "running"
    BY DEF Running
  <2>2. {runtimeCancel', runtimeDone', cancelled'} \subseteq BOOLEAN
    BY <1>a, <2>1
  <2>3. exit' \in {"running", "panic"}
    BY <1>a, <2>1
  <2>4. stop' \in [Procs -> StopPCs] /\ \A o \in Procs \ {p} : stop'[o] = stop[o]
    <3>1. PICK pc \in StopPCs : stop' = [stop EXCEPT ![p] = pc]
      BY <1>a
    <3>. QED  BY <3>1
  <2>. QED  BY <2>2, <2>3, <2>4
<1>2. StopInv'
  BY DEF StopInv, StopStep, CheckCancel, CallCancel, ClearCancel, CheckDone, EvalDone,
         ReceiveDone, ClearDone, StopAt, StopGoto, envVars
<1>3. LifecycleTypeOK'
  BY <1>0, <1>1
<1>4. PhasesInv'
  BY <1>0, <1>1 DEF PhasesInv
<1>5. ServersInv' /\ DrainInv' /\ CutInv'
  BY <1>0 DEF ServersInv, DrainInv, CutInv, Servers, At
<1>6. ExitInv'
  BY <1>0, <1>1 DEF ExitInv, Running
<1>. QED  BY <1>2, <1>3, <1>4, <1>5, <1>6

\* The Start goroutine outside stopRuntimeWork.
LEMMA StartStepKeeps ==
    ASSUME LInv, Running, StartStep
    PROVE  LInv'
<1>. USE DEF LInv, LifecycleTypeOK, Procs, StopPCs, AllServers, Running
<1>0. UNCHANGED <<runtimeCancel, runtimeDone, cancelled, main, shutdownErr, exit,
                  hasAdmin, rereads, proberDone, interrupted, deadline>>
  BY DEF StartStep, mainVars, envVars
<1>1. CASE (Listen \/ AdminListen) /\ UNCHANGED <<shut, req>>
  <2>1. /\ start \in {"listen", "admin_listen"} /\ \A s \in AllServers : serve[s] = "idle"
        /\ errCh' = errCh /\ errCh = "empty" /\ first' = first
    BY <1>1 DEF Listen, AdminListen, StartFails, ServeAllServers, PhasesInv, ServersInv
  <2>2. \/ /\ start' = "stopping" /\ startErr' = "failed" /\ serve' = serve
           /\ StopAt("start", "out") /\ StopGoto("start", "check_cancel")
        \/ start' = "admin_listen" /\ UNCHANGED <<startErr, stop, serve>>
        \/ /\ start' = "serving" /\ UNCHANGED <<startErr, stop>>
           /\ serve' = [s \in AllServers |-> IF s \in Servers THEN "serving" ELSE serve[s]]
    BY <1>1 DEF Listen, AdminListen, StartFails, ServeAllServers, CallStop
  <2>3. CutInv'
    BY <1>0, <1>1, <2>1 DEF CutInv, Servers
  <2>. QED  BY <1>0, <1>1, <2>1, <2>2, <2>3
            DEF StopAt, StopGoto, StopInv, PhasesInv, ServersInv, DrainInv, ExitInv, Servers, At
<1>2. CASE FirstResult /\ UNCHANGED <<shut, req>>
  <2>1. /\ UNCHANGED <<startErr, errCh, stop, serve>>
        /\ start = "serving" /\ start' \in {"serving", "close_admin"}
        /\ first' \in Servers
        /\ start' = "close_admin" => serve[first'] = "failed"
    BY <1>2 DEF FirstResult
  <2>. QED  BY <1>0, <1>2, <2>1
            DEF StopInv, PhasesInv, ServersInv, DrainInv, CutInv, ExitInv, Servers, At
<1>3. CASE LastResult /\ UNCHANGED <<shut, req>>
  <2>1. /\ UNCHANGED <<first, errCh, serve>>
        /\ start = "serving" /\ start' = "stopping"
        /\ StopAt("start", "out") /\ StopGoto("start", "check_cancel")
        /\ startErr' \in {"closed", "failed"}
        /\ startErr' = "closed" => \A s \in Servers : serve[s] = "closed"
    BY <1>3 DEF LastResult, CallStop, Returned
  <2>. QED  BY <1>0, <1>3, <2>1
            DEF StopAt, StopGoto, StopInv, PhasesInv, ServersInv, DrainInv, CutInv, ExitInv,
                Servers, At
<1>4. CASE StartReturns /\ UNCHANGED <<shut, req>>
  <2>1. /\ UNCHANGED <<first, startErr, stop, serve>>
        /\ start = "stopping" /\ start' = "returned" /\ stop["start"] = "returned"
        /\ errCh' = startErr /\ errCh = "empty"
    BY <1>4 DEF StartReturns, StopAt, PhasesInv
  <2>. QED  BY <1>0, <1>4, <2>1
            DEF StopInv, PhasesInv, ServersInv, DrainInv, CutInv, ExitInv, Servers, At
<1>5. CASE CloseBoth
  <2>1. /\ UNCHANGED <<first, startErr, errCh, serve, stop>>
        /\ start \in {"close_admin", "close_public"}
        /\ start' \in {"close_public", "serving"}
    BY <1>5 DEF CloseBoth
  <2>2. PICK s \in AllServers : Close(s)
    BY <1>5 DEF CloseBoth
  <2>3. /\ shut' \in [AllServers -> BOOLEAN]
        /\ \A t \in AllServers : shut[t] => shut'[t]
    BY <2>2 DEF Close
  <2>4. /\ req' \in [Requests -> {"new", "done", "cut"} \cup AllServers]
        /\ \A r \in Requests : req'[r] \in AllServers => req'[r] = req[r]
    BY <2>2 DEF Close
  <2>5. CutInv'
    BY <1>0, <2>1 DEF CutInv, ServersInv, Servers
  <2>6. StopInv' /\ PhasesInv' /\ ServersInv' /\ ExitInv' /\ LifecycleTypeOK'
    BY <1>0, <2>1, <2>3, <2>4 DEF StopInv, PhasesInv, ServersInv, ExitInv, Servers
  <2>7. DrainInv'
    BY <1>0, <2>3, <2>4 DEF DrainInv, Servers, At
  <2>. QED  BY <2>5, <2>6, <2>7
<1>. QED  BY <1>1, <1>2, <1>3, <1>4, <1>5 DEF StartStep

LEMMA MainStepKeeps ==
    ASSUME LInv, Running, MainStep
    PROVE  LInv'
<1>. USE DEF LInv, LifecycleTypeOK, Procs, StopPCs, AllServers, Running
<1>0. UNCHANGED <<runtimeCancel, runtimeDone, cancelled, serve, req, start, first, startErr,
                  errCh, hasAdmin, rereads, proberDone, interrupted, deadline>>
  BY DEF MainStep, startVars, envVars
<1>1. CASE StartEnded
  <2>1. UNCHANGED <<main, shutdownErr, shut, stop>> /\ exit' = "fatal" /\ main = "select"
    BY <1>1 DEF StartEnded
  <2>2. proberDone
    BY <1>1 DEF StartEnded, PhasesInv, StopInv
  <2>. QED  BY <1>0, <2>1, <2>2
            DEF StopInv, PhasesInv, ServersInv, DrainInv, CutInv, ExitInv, Servers, At
<1>2. CASE CallShutdown
  BY <1>0, <1>2 DEF CallShutdown, CallStop, StopAt, StopGoto, StopInv, PhasesInv, ServersInv,
                    DrainInv, CutInv, ExitInv, Servers, At
<1>3. CASE RuntimeStopped
  <2>1. /\ UNCHANGED <<shutdownErr, exit, stop>> /\ stop["main"] = "returned"
        /\ \/ hasAdmin /\ main' = "drain_admin" /\ shut' = [shut EXCEPT !["admin"] = TRUE]
           \/ ~hasAdmin /\ main' = "drain_public" /\ shut' = [shut EXCEPT !["public"] = TRUE]
    BY <1>3 DEF RuntimeStopped, BeginDrain, StopAt
  <2>2. main' \in {"drain_admin", "drain_public"} /\ shut' \in [AllServers -> BOOLEAN]
    BY <2>1
  <2>3. DrainInv'
    BY <1>0, <2>1 DEF DrainInv, Servers, At
  <2>4. StopInv' /\ PhasesInv' /\ ServersInv' /\ CutInv' /\ ExitInv'
    BY <1>0, <2>1 DEF StopInv, PhasesInv, ServersInv, CutInv, ExitInv, Servers
  <2>. QED  BY <1>0, <2>1, <2>2, <2>3, <2>4
<1>4. CASE AdminDrained
  <2>1. /\ UNCHANGED <<exit, stop>> /\ main = "drain_admin" /\ main' = "drain_public"
        /\ shut' = [shut EXCEPT !["public"] = TRUE]
        /\ \/ At("admin") = {} /\ shutdownErr' = shutdownErr
           \/ shutdownErr' = TRUE
    BY <1>4 DEF AdminDrained, DrainEnds, BeginDrain
  <2>2. LifecycleTypeOK'
    BY <1>0, <2>1
  <2>3. StopInv' /\ PhasesInv'
    BY <1>0, <2>1 DEF StopInv, PhasesInv
  <2>4. ServersInv' /\ CutInv'
    BY <1>0, <2>1 DEF ServersInv, CutInv, Servers
  <2>5. DrainInv'
    BY <1>0, <2>1 DEF DrainInv, Servers, At
  <2>6. ExitInv'
    BY <1>0, <2>1 DEF ExitInv
  <2>. QED  BY <2>2, <2>3, <2>4, <2>5, <2>6
<1>5. CASE PublicDrained
  <2>1. /\ UNCHANGED <<shut, stop>> /\ main = "drain_public" /\ main' = "await"
        /\ \/ At("public") = {} /\ shutdownErr' = shutdownErr
           \/ shutdownErr' = TRUE
        /\ exit' = IF shutdownErr' THEN "fatal" ELSE exit
    BY <1>5 DEF PublicDrained, DrainEnds
  <2>2. proberDone
    BY <2>1 DEF PhasesInv, StopInv
  <2>3. LifecycleTypeOK'
    BY <1>0, <2>1
  <2>4. StopInv' /\ PhasesInv'
    BY <1>0, <2>1 DEF StopInv, PhasesInv
  <2>5. ServersInv' /\ CutInv'
    BY <1>0, <2>1 DEF ServersInv, CutInv, Servers
  <2>6. DrainInv'
    BY <1>0, <2>1 DEF DrainInv, Servers, At
  <2>7. ExitInv'
    BY <1>0, <2>1, <2>2 DEF ExitInv
  <2>. QED  BY <2>3, <2>4, <2>5, <2>6, <2>7
<1>6. CASE AwaitStart
  <2>1. /\ UNCHANGED <<main, shutdownErr, shut, stop>> /\ main = "await"
        /\ exit' = IF errCh = "closed" THEN "ok" ELSE "fatal"
    BY <1>6 DEF AwaitStart
  <2>2. proberDone
    BY <2>1 DEF PhasesInv, StopInv
  <2>3. LifecycleTypeOK'
    BY <1>0, <2>1
  <2>4. StopInv' /\ PhasesInv' /\ ServersInv' /\ CutInv'
    BY <1>0, <2>1 DEF StopInv, PhasesInv, ServersInv, CutInv, Servers
  <2>5. DrainInv'
    BY <1>0, <2>1 DEF DrainInv, Servers, At
  <2>6. ExitInv'
    BY <1>0, <2>1, <2>2 DEF ExitInv
  <2>. QED  BY <2>3, <2>4, <2>5, <2>6
<1>. QED  BY <1>1, <1>2, <1>3, <1>4, <1>5, <1>6 DEF MainStep

\* The servers, their clients, the prober and the operating system.
LEMMA WorldKeeps ==
    ASSUME LInv, Running,
           \/ \E s \in AllServers : ServeReturns(s)
           \/ \E r \in Requests : RequestArrives(r) \/ RequestFinishes(r)
           \/ Interrupt \/ DeadlinePasses \/ ProberReturns
    PROVE  LInv'
<1>. USE DEF LInv, LifecycleTypeOK, Procs, StopPCs, AllServers, Running,
             stopVars, serveVars, startVars, mainVars, envVars
<1>1. ASSUME NEW s \in AllServers, ServeReturns(s)  PROVE LInv'
  <2>1. /\ UNCHANGED <<shut, req, stopVars, startVars, mainVars, envVars>>
        /\ serve[s] = "serving"
        /\ \E e \in {"closed", "failed"} : serve' = [serve EXCEPT ![s] = e]
    BY <1>1 DEF ServeReturns
  <2>2. ServersInv' /\ CutInv'
    BY <2>1 DEF ServersInv, CutInv, Servers
  <2>3. LifecycleTypeOK'
    BY <2>1
  <2>4. StopInv' /\ PhasesInv'
    BY <2>1 DEF StopInv, PhasesInv
  <2>5. DrainInv' /\ ExitInv'
    BY <2>1 DEF DrainInv, ExitInv, Servers, At
  <2>. QED  BY <2>2, <2>3, <2>4, <2>5
<1>2. ASSUME NEW r \in Requests, RequestArrives(r)  PROVE LInv'
  <2>1. PICK s \in Servers : ~shut[s] /\ req' = [req EXCEPT ![r] = s]
    BY <1>2 DEF RequestArrives
  <2>2. UNCHANGED <<serve, shut, stopVars, startVars, mainVars, envVars>>
    BY <1>2 DEF RequestArrives
  <2>3. s \in AllServers
    BY DEF Servers
  <2>4. DrainInv'
    BY <2>1, <2>2, <2>3 DEF DrainInv, Servers, At
  <2>5. CutInv'
    BY <2>1, <2>2, <2>3 DEF CutInv, Servers
  <2>. QED  BY <2>1, <2>2, <2>3, <2>4, <2>5 DEF StopInv, PhasesInv, ServersInv, ExitInv, Servers
<1>3. ASSUME NEW r \in Requests, RequestFinishes(r)  PROVE LInv'
  <2>1. /\ UNCHANGED <<serve, shut, stopVars, startVars, mainVars, envVars>>
        /\ req' = [req EXCEPT ![r] = "done"]
    BY <1>3 DEF RequestFinishes
  <2>. QED  BY <2>1 DEF StopInv, PhasesInv, ServersInv, DrainInv, CutInv, ExitInv, Servers, At
<1>4. CASE Interrupt \/ DeadlinePasses \/ ProberReturns
  <2>1. /\ UNCHANGED <<hasAdmin, rereads, stopVars, serveVars, startVars, mainVars>>
        /\ \/ interrupted' = TRUE /\ deadline' = deadline /\ proberDone' = proberDone
           \/ interrupted' = interrupted /\ deadline' = TRUE /\ proberDone' = proberDone
           \/ interrupted' = interrupted /\ deadline' = deadline /\ proberDone' = TRUE
    BY <1>4 DEF Interrupt, DeadlinePasses, ProberReturns
  <2>2. interrupted \in BOOLEAN /\ deadline \in BOOLEAN /\ proberDone \in BOOLEAN
    OBVIOUS
  <2>3. interrupted' \in BOOLEAN /\ deadline' \in BOOLEAN /\ proberDone' \in BOOLEAN
    BY <2>1, <2>2
  <2>4. proberDone => proberDone'
    BY <2>1
  <2>. QED  BY <2>1, <2>3, <2>4 DEF StopInv, PhasesInv, ServersInv, DrainInv, CutInv, ExitInv, Servers, At
<1>. QED  BY <1>1, <1>2, <1>3, <1>4

LEMMA NextLInv == LInv /\ [Next]_vars => LInv'
<1>. SUFFICES ASSUME LInv, [Next]_vars  PROVE LInv'
  OBVIOUS
<1>1. CASE Next
  BY <1>1, StopStepKeeps, StartStepKeeps, MainStepKeeps, WorldKeeps DEF Next
<1>2. CASE UNCHANGED vars
  BY <1>2 DEF vars, stopVars, serveVars, startVars, mainVars, envVars, LInv, LifecycleTypeOK,
              StopInv, PhasesInv, ServersInv, DrainInv, CutInv, ExitInv, Servers, At, Running
<1>. QED  BY <1>1, <1>2

LEMMA LInvHolds == Spec => []LInv
BY InitLInv, NextLInv, PTL DEF Spec

----------------------------------------------------------------------------
(* 3. The theorems.                                                        *)

\* Every variable keeps its type.
THEOREM LifecycleTypeCorrect == Spec => []LifecycleTypeOK
<1>1. LInv => LifecycleTypeOK
  BY DEF LInv
<1>. QED  BY <1>1, LInvHolds, PTL

\* Status 0 is only ever given when no connection was or will be cut.
THEOREM CleanExitIsClean == Spec => []CleanExitCutsNobody
<1>1. ASSUME LInv  PROVE CleanExitCutsNobody
  <2>. SUFFICES ASSUME exit = "ok", NEW r \in Requests  PROVE req[r] \in {"new", "done"}
    BY DEF CleanExitCutsNobody
  <2>. USE <1>1 DEF LInv
  <2>1. main = "await" /\ ~shutdownErr /\ startErr = "closed"
    BY DEF ExitInv, PhasesInv
  <2>2. req[r] # "cut"
    BY <2>1 DEF ServersInv, CutInv
  <2>3. req[r] \notin AllServers
    BY <2>1 DEF DrainInv, Servers, AllServers, At, LifecycleTypeOK
  <2>. QED  BY <2>2, <2>3 DEF LifecycleTypeOK
<1>. QED  BY <1>1, LInvHolds, PTL

\* The prober has stopped before any exit the process makes by itself.
THEOREM ProberStopsFirst == Spec => []ProberStopsBeforeExit
<1>1. LInv => ProberStopsBeforeExit
  BY DEF LInv, ExitInv, PhasesInv, StopInv, ProberStopsBeforeExit, Procs
<1>. QED  BY <1>1, LInvHolds, PTL
=============================================================================
