--------------------------- MODULE Configuration ---------------------------
(***************************************************************************)
(* internal/config and what app.New, NewRuntime and NewProber make of its  *)
(* result: which files start the service, and the options it runs with.    *)
(*                                                                         *)
(* health, breaker and a provider's probe are sections of a file: "inline",*)
(* "alias" (a YAML alias or merge key), "null" or "absent".  A setting is  *)
(* "absent", "null", "empty" (the string ""), "malformed" (no duration),   *)
(* or "value".  Durations are in seconds.  parses is FALSE for what yaml.v3*)
(* refuses: syntax, unknown fields, values of another type.                *)
(***************************************************************************)
EXTENDS Integers, Gathering

Durations == [form : {"absent", "null", "empty", "malformed", "value"}, value : Int]
Counts    == [form : {"absent", "null", "value"}, value : Int]
Switches  == [form : {"absent", "null", "value"}, value : BOOLEAN]

\* A section that is not there has no settings.
IsSection(s) ==
    /\ s.form \in {"inline", "alias", "null", "absent"}
    /\ s.form \in {"null", "absent"} =>
           \A f \in DOMAIN s.settings : s.settings[f].form = "absent"

Sections(settings) == {s \in [form : STRING, settings : settings] : IsSection(s)}

Probes ==
    {p \in [ form : STRING, method : STRING, path : STRING, expectedStatuses : SUBSET Int,
              settings : [interval : Durations, timeout : Durations] ] : IsSection(p)}

Files ==
    [ parses     : BOOLEAN,
      clientKeys : Seq([ secret : STRING, active : BOOLEAN, patterns : SUBSET STRING,
                         allowStreaming : BOOLEAN, allowTools : BOOLEAN,
                         allowVision : BOOLEAN, allowStructured : BOOLEAN ]),
      models     : Seq([pattern : STRING, routeGroup : STRING]),
      groups     : Seq([name : STRING, primary : STRING, fallbacks : Seq(STRING)]),
      providers  : Seq([name : STRING, provider : STRING, baseURL : STRING, probe : Probes]),
      health     : Sections([ probe_interval : Durations, probe_timeout : Durations,
                              require_initial_probe : Switches ]),
      breaker    : Sections([ failure_threshold : Counts, open_interval : Durations,
                              recovery_success_threshold : Counts ]),
      tls        : [mode : STRING, cert : BOOLEAN, key : BOOLEAN] ]

Value(x) == [form |-> "value", value |-> x]
Empty    == [form |-> "empty", value |-> 0]

ProbeFields == {"interval", "timeout"}

----------------------------------------------------------------------------
(* Load.                                                                   *)

\* The walk over the YAML nodes does not follow aliases.
NullWritten(section) ==
    section.form = "inline" /\ \E f \in DOMAIN section.settings :
                                   section.settings[f].form = "null"

validateExplicitRuntimeHealthNullOverrides(file) ==
    /\ file.health.form # "null" /\ ~NullWritten(file.health)
    /\ file.breaker.form # "null" /\ ~NullWritten(file.breaker)
    /\ \A i \in DOMAIN file.providers : ~NullWritten(file.providers[i].probe)

validateExplicitRuntimeHealthDurationOverrides(file) ==
    /\ \A f \in {"probe_interval", "probe_timeout"} :
           file.health.settings[f].form # "empty"
    /\ file.breaker.settings["open_interval"].form # "empty"
    /\ \A i \in DOMAIN file.providers : \A f \in ProbeFields :
           file.providers[i].probe.settings[f].form # "empty"

\* Presence: the pointer yaml.v3 leaves nil for a missing or a null value.
Present(setting) == setting.form \notin {"absent", "null"}

Defaults == [ probe_interval             |-> Value(15),
              probe_timeout              |-> Value(2),
              require_initial_probe      |-> Value(TRUE),
              failure_threshold          |-> Value(3),
              open_interval              |-> Value(30),
              recovery_success_threshold |-> Value(1) ]

\* Mutant: the zero value is taken for a missing one.
applyRuntimeHealthDefaults_ZeroIsMissing(settings) ==
    [f \in DOMAIN settings |->
        IF \/ ~Present(settings[f])
           \/ f = "require_initial_probe" /\ settings[f].value = FALSE
        THEN Defaults[f] ELSE settings[f]]

applyRuntimeHealthDefaults(settings) ==
    [f \in DOMAIN settings |-> IF Present(settings[f]) THEN settings[f] ELSE Defaults[f]]

\* The Go zero value of a setting without a default.
Decoded(setting) == IF Present(setting) THEN setting ELSE Empty

DecodedProvider(p) ==
    [p EXCEPT !.probe.settings = [f \in ProbeFields |-> Decoded(p.probe.settings[f])]]

\* The Config before Validate.
Config(file) ==
    [ clientKeys |-> file.clientKeys,
      models     |-> file.models,
      groups     |-> file.groups,
      providers  |-> [i \in DOMAIN file.providers |-> DecodedProvider(file.providers[i])],
      health     |-> applyRuntimeHealthDefaults(file.health.settings),
      breaker    |-> applyRuntimeHealthDefaults(file.breaker.settings),
      tls        |-> file.tls ]

----------------------------------------------------------------------------
(* Validate.                                                               *)

validatePositiveDuration(setting) == setting.form = "value" /\ setting.value > 0

OptionalDuration(setting) == setting = Empty \/ validatePositiveDuration(setting)

supportedProbeMethods == {"GET", "HEAD", "POST", "PUT", "PATCH", "DELETE",
                          "CONNECT", "OPTIONS", "TRACE"}

ValidRoutes(cfg) ==
    /\ \A i \in DOMAIN cfg.groups : cfg.groups[i].name # ""
    /\ \A i \in DOMAIN cfg.models : cfg.models[i].pattern # ""
    /\ \A i, j \in DOMAIN cfg.models :
           cfg.models[i].pattern = cfg.models[j].pattern => i = j
    /\ \A i \in DOMAIN cfg.models : \E j \in DOMAIN cfg.groups :
           cfg.groups[j].name = cfg.models[i].routeGroup

ValidProvider(p) ==
    /\ p.name # "" /\ p.provider # "" /\ p.baseURL # ""
    /\ p.probe.method \in supportedProbeMethods \cup {""}
    /\ p.probe.path # "relative"
    /\ p.probe.expectedStatuses \subseteq 100..599
    /\ \A f \in ProbeFields : OptionalDuration(p.probe.settings[f])

ValidTLS(tls) ==
    \/ tls.mode \in {"", "disabled"} /\ ~tls.cert /\ ~tls.key
    \/ tls.mode = "file" /\ tls.cert /\ tls.key

Validate(cfg) ==
    /\ cfg.clientKeys # <<>>
    /\ ValidRoutes(cfg)
    /\ \A i \in DOMAIN cfg.providers : ValidProvider(cfg.providers[i])
    /\ \A f \in {"probe_interval", "probe_timeout"} : OptionalDuration(cfg.health[f])
    /\ OptionalDuration(cfg.breaker["open_interval"])
    /\ cfg.breaker["failure_threshold"].value >= 1
    /\ cfg.breaker["recovery_success_threshold"].value >= 1
    /\ ValidTLS(cfg.tls)

\* Load's error is nil.
Loads(file) ==
    /\ file.parses
    /\ validateExplicitRuntimeHealthNullOverrides(file)
    /\ validateExplicitRuntimeHealthDurationOverrides(file)
    /\ Validate(Config(file))

----------------------------------------------------------------------------
(* What New does with a configuration.                                     *)

durationOrDefault(setting, fallback) ==
    IF setting.form = "value" /\ setting.value > 0 THEN setting.value ELSE fallback

intOrDefault(setting, fallback) == IF setting.value <= 0 THEN fallback ELSE setting.value

RuntimeOptions(cfg) ==
    [ failureThreshold         |-> intOrDefault(cfg.breaker["failure_threshold"], 3),
      recoverySuccessThreshold |-> intOrDefault(cfg.breaker["recovery_success_threshold"], 1),
      openInterval             |-> durationOrDefault(cfg.breaker["open_interval"], 30) ]

\* A known provider's models list, or the root.
defaultProbePath(family) ==
    IF family \in {"openai", "anthropic"} THEN "/v1/models" ELSE "/"

buildProbeTarget(p, interval, timeout) ==
    [ name     |-> p.name,
      method   |-> IF p.probe.method = "" THEN "GET" ELSE p.probe.method,
      path     |-> IF p.probe.path = "" THEN defaultProbePath(p.provider) ELSE p.probe.path,
      expected |-> IF p.probe.expectedStatuses = {} THEN {200} ELSE p.probe.expectedStatuses,
      interval |-> durationOrDefault(p.probe.settings["interval"], interval),
      timeout  |-> durationOrDefault(p.probe.settings["timeout"], timeout) ]

\* NewProber, with the options New passes.
Targets(cfg) ==
    LET interval == durationOrDefault(cfg.health["probe_interval"], 15)
        timeout  == durationOrDefault(cfg.health["probe_timeout"], 2)
    IN  Gather(cfg.providers, LAMBDA p :
            Only(p.name # "", buildProbeTarget(p, interval, timeout)))
=============================================================================
