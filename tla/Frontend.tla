------------------------------ MODULE Frontend ------------------------------
(***************************************************************************)
(* From the configuration file to the answer of /readyz and of a request:  *)
(* main loads a file or ends, app.New builds resolver, runtime, planner    *)
(* and prober from what was loaded, and from then on /readyz, the planner  *)
(* and the request's checks all read that one configuration, each with     *)
(* code of its own.                                                        *)
(*                                                                         *)
(* A behaviour has a client or watches health, not both: no step of a      *)
(* request reads eligible here (its plan may leave out any candidate).     *)
(***************************************************************************)
EXTENDS RequestAdmission, Configuration

CONSTANTS
    Scenes,         \* the triples <<file, header, body>> tried
    PublicModels    \* the model names clients ask for

VARIABLES
    file,           \* the configuration file
    status,         \* "loading", "refused" or "running"
    options,        \* what New made of the thresholds and durations
    started, initialProbeComplete,   \* of the health runtime
    eligible        \* upstreams the runtime holds healthy

serviceVars == <<file, status, options>>
healthVars  == <<started, initialProbeComplete, eligible>>
vars        == <<serviceVars, cfg, healthVars, requestVars>>

\* The file was decoded from YAML, the body from JSON.
ASSUME ScenesAssumption ==
    \A scene \in Scenes : scene[1] \in Files /\ scene[3] \in Bodies

NoClient == [scheme |-> "none", token |-> "none"]

Init ==
    /\ \E scene \in Scenes :
           /\ file = scene[1]
           /\ RequestInit(scene[2], scene[3])
    /\ status = "loading"
    /\ cfg = Nothing
    /\ options = Nothing
    /\ started = FALSE
    /\ initialProbeComplete = FALSE
    /\ eligible = {}

----------------------------------------------------------------------------
(* Actions.                                                                *)

\* main: log.Fatal.
LoadFails ==
    /\ status = "loading"
    /\ ~Loads(file)
    /\ status' = "refused"
    /\ UNCHANGED <<file, options, cfg, healthVars, requestVars>>

\* Load and New; without an initial probe every upstream is seeded healthy.
LoadAndNew ==
    LET loaded == Config(file)
    IN  /\ status = "loading"
        /\ Loads(file)
        /\ status' = "running"
        /\ cfg' = loaded
        /\ options' = [runtime |-> RuntimeOptions(loaded), targets |-> Targets(loaded)]
        /\ eligible' = IF loaded.health["require_initial_probe"].value
                       THEN {} ELSE KnownProviders(loaded)
        /\ UNCHANGED <<file, started, initialProbeComplete, requestVars>>

HealthMoves ==
    /\ status = "running"
    /\ header = NoClient
    /\ UNCHANGED <<serviceVars, cfg, requestVars>>

\* The prober's goroutine runs.
Start ==
    /\ HealthMoves
    /\ started' = TRUE
    /\ UNCHANGED <<initialProbeComplete, eligible>>

SweepDone ==
    /\ HealthMoves
    /\ started
    /\ initialProbeComplete' = TRUE
    /\ UNCHANGED <<started, eligible>>

\* The runtime readmits or ejects one of its upstreams.
HealthChanges ==
    /\ HealthMoves
    /\ \E u \in KnownProviders(cfg) :
           eligible' = (eligible \ {u}) \cup ({u} \ eligible)
    /\ UNCHANGED <<started, initialProbeComplete>>

Requests ==
    /\ status = "running"
    /\ header # NoClient
    /\ Receive \/ RequestStep
    /\ UNCHANGED <<serviceVars, healthVars>>

Next ==
    \/ LoadFails \/ LoadAndNew
    \/ Start \/ SweepDone \/ HealthChanges
    \/ Requests

Spec == Init /\ [][Next]_vars

----------------------------------------------------------------------------
(* Properties; those about a request are RequestAdmission's.               *)

FrontendTypeOK ==
    /\ RequestTypeOK
    /\ status \in {"loading", "refused", "running"}
    /\ {started, initialProbeComplete} \subseteq BOOLEAN
    /\ status # "running" <=> cfg = Nothing
    /\ status = "running" => eligible \subseteq KnownProviders(cfg)

UsedAsWritten(section, field, used) ==
    LET setting == section.settings[field]
    IN  \/ setting.form = "absent"
        \/ setting.form = "null" /\ section.form = "alias"
        \/ setting.form = "value" /\ setting.value = used

(* A service that runs uses every health setting written in its file, with *)
(* the value written; what cannot be used as it stands (null, the empty    *)
(* string, zero, a malformed duration) never starts it.  Four layers fall  *)
(* back to defaults of their own (applyRuntimeHealthDefaults,              *)
(* durationOrDefault, NewRuntime, buildProbeTarget), any of which would    *)
(* hide a setting the checks let through.  A null behind a YAML alias is   *)
(* the exception: the check for nulls does not see it.                     *)
OverridesAreUsedOrRefused ==
    status = "running" =>
        /\ UsedAsWritten(file.health, "require_initial_probe",
                         cfg.health["require_initial_probe"].value)
        /\ UsedAsWritten(file.breaker, "failure_threshold", options.runtime.failureThreshold)
        /\ UsedAsWritten(file.breaker, "open_interval", options.runtime.openInterval)
        /\ UsedAsWritten(file.breaker, "recovery_success_threshold",
                         options.runtime.recoverySuccessThreshold)
        /\ \A i \in DOMAIN file.providers :
               LET probe  == file.providers[i].probe
                   target == options.targets[i]
                   Used(own, shared, used) ==
                       /\ UsedAsWritten(probe, own, used)
                       /\ Present(probe.settings[own])
                              \/ UsedAsWritten(file.health, shared, used)
               IN  /\ Used("interval", "probe_interval", target.interval)
                   /\ Used("timeout", "probe_timeout", target.timeout)
                   /\ probe.path \in {"", target.path}
                   /\ probe.expectedStatuses \in {{}, target.expected}

Ready ==
    /\ status = "running"
    /\ Readyz(cfg, started, cfg.health["require_initial_probe"].value,
              initialProbeComplete, eligible)

\* Of two groups of one name the planner takes the first and /readyz the last.
GroupsAreDistinct ==
    \A i, j \in DOMAIN file.groups : file.groups[i].name = file.groups[j].name => i = j

(* 200 from /readyz means that a request for any model the configuration   *)
(* routes would be planned at least one attempt.  (The handler and the     *)
(* planner resolve groups, fallbacks and providers with separate code.)    *)
ReadyMeansPlannable ==
    Ready /\ GroupsAreDistinct =>
        \A name \in PublicModels :
            Routable(cfg, name) => Attempts(cfg, name, eligible) # <<>>

(* 503 is not raised for nothing: when every entry of models can be reached*)
(* by some public model and each of those would be planned an attempt, the *)
(* service is ready as soon as it has started and swept.                   *)
PlannableMeansReady ==
    (/\ status = "running" /\ GroupsAreDistinct
     /\ started /\ initialProbeComplete
     /\ \A i \in DOMAIN cfg.models : \E name \in PublicModels :
            /\ Routable(cfg, name)
            /\ matchModel(cfg, name) = cfg.models[i]
            /\ Attempts(cfg, name, eligible) # <<>>) => Ready
=============================================================================
