-------------------------- MODULE CooldownBreaker --------------------------
(***************************************************************************)
(* What the runtime health component promises, with no half-open state, no *)
(* reads and no stored window flags: an upstream is either serving traffic *)
(* or not, reports about it are counted in the order of their timestamps,  *)
(* enough failures eject it until a time, and from that time on it is on   *)
(* trial: enough probe successes in a row readmit it, one probe failure    *)
(* ejects it again, and what requests report is not counted.               *)
(***************************************************************************)
EXTENDS Integers

CONSTANTS
    Upstreams,   \* the upstreams watched
    Threshold,   \* failures in a row that eject
    Recovery,    \* probe successes in a row that readmit
    Cooldown,    \* how long an ejection lasts
    MaxTime      \* bound on the clock

VARIABLES
    clock,   \* current time
    mode,    \* per upstream: "untested", "serving" or "ejected"
    until,   \* per upstream: when its ejection ends; 0 when it is not ejected
    score,   \* per upstream: failures in a row, or successes in a row on trial
    seen     \* per upstream: timestamp of the last report counted

vars == <<clock, mode, until, score, seen>>

Init ==
    /\ clock = 1
    /\ mode  = [u \in Upstreams |-> "untested"]
    /\ until = [u \in Upstreams |-> 0]
    /\ score = [u \in Upstreams |-> 0]
    /\ seen  = [u \in Upstreams |-> 0]

Eligible(u) == mode[u] = "serving"

Tick == /\ clock < MaxTime
        /\ clock' = clock + 1
        /\ UNCHANGED <<mode, until, score, seen>>

\* A report stamped at about u counts: it is newer than what was counted and
\* an ejection, if there is one, is over.
Count(u, at) ==
    /\ at > seen[u]
    /\ mode[u] = "ejected" => at >= until[u]
    /\ seen' = [seen EXCEPT ![u] = at]
    /\ UNCHANGED clock

\* The report changes nothing else.
Noted(u, at) == Count(u, at) /\ UNCHANGED <<mode, until, score>>

Serve(u) == /\ mode'  = [mode  EXCEPT ![u] = "serving"]
            /\ until' = [until EXCEPT ![u] = 0]
            /\ score' = [score EXCEPT ![u] = 0]

Eject(u, at) == /\ mode'  = [mode  EXCEPT ![u] = "ejected"]
                /\ until' = [until EXCEPT ![u] = at + Cooldown]
                /\ score' = [score EXCEPT ![u] = 0]

Score(u) == /\ score' = [score EXCEPT ![u] = @ + 1]
            /\ UNCHANGED <<mode, until>>

Succeed(u, at) == mode[u] # "ejected" /\ Count(u, at) /\ Serve(u)

Fail(u, at) ==
    /\ mode[u] # "ejected"
    /\ Count(u, at)
    /\ IF score[u] + 1 >= Threshold THEN Eject(u, at) ELSE Score(u)

TrialSuccess(u, at) ==
    /\ mode[u] = "ejected"
    /\ Count(u, at)
    /\ IF score[u] + 1 >= Recovery THEN Serve(u) ELSE Score(u)

TrialFailure(u, at) == mode[u] = "ejected" /\ Count(u, at) /\ Eject(u, at)

Next ==
    \/ Tick
    \/ \E u \in Upstreams, at \in 1..clock :
           \/ Noted(u, at)
           \/ Succeed(u, at)
           \/ Fail(u, at)
           \/ TrialSuccess(u, at)
           \/ TrialFailure(u, at)

Spec == Init /\ [][Next]_vars
=============================================================================
