------------------------------ MODULE Routing ------------------------------
(***************************************************************************)
(* How a configuration decides where a request may go: internal/router     *)
(* (matchModel, findRouteGroup, Plan), internal/runtime's registry, and the*)
(* readiness rules of internal/httpapi/handlers/health.go.                 *)
(*                                                                         *)
(* A configuration is a record                                             *)
(*   models    : sequence of [pattern, routeGroup]                         *)
(*   groups    : sequence of [name, primary, fallbacks]                    *)
(*   providers : sequence of [name, provider, ...]                         *)
(* with names as values.                                                   *)
(***************************************************************************)
EXTENDS Naturals, Gathering, Patterns

Named(seq, name) == {i \in DOMAIN seq : seq[i].name = name}

----------------------------------------------------------------------------
(* The planner.                                                            *)

\* The models entries that match, and the one matchModel returns: the first.
MatchingModels(cfg, publicModel) ==
    {i \in DOMAIN cfg.models : MatchesPattern(publicModel, cfg.models[i].pattern)}

Routable(cfg, publicModel) == MatchingModels(cfg, publicModel) # {}

matchModel(cfg, publicModel) ==
    cfg.models[Min(MatchingModels(cfg, publicModel))]

\* findRouteGroup returns the first entry of the name.
findRouteGroup(cfg, name) == cfg.groups[Min(Named(cfg.groups, name))]

CandidatesOf(group) == <<group.primary>> \o group.fallbacks

KnownProviders(cfg) == {cfg.providers[i].name : i \in DOMAIN cfg.providers}

\* The upstreams Plan considers for a routable model, in order; it asks for the
\* eligibility of each in turn.
Candidates(cfg, publicModel) ==
    Gather(CandidatesOf(findRouteGroup(cfg, matchModel(cfg, publicModel).routeGroup)),
           LAMBDA c : Only(c \in KnownProviders(cfg), c))

\* The attempts planned when the eligible upstreams do not change meanwhile.
Attempts(cfg, publicModel, eligible) ==
    Gather(Candidates(cfg, publicModel), LAMBDA c : Only(c \in eligible, c))

\* The registry's map keeps the last provider of a name.
Resolve(cfg, name) == cfg.providers[Max(Named(cfg.providers, name))]

----------------------------------------------------------------------------
(* /readyz.                                                                *)

RequiredGroups(cfg) == {cfg.models[i].routeGroup : i \in DOMAIN cfg.models}

\* Mutant: a group is ready when any upstream at all is eligible.
routeGroupHasEligibleUpstream_AnyUpstream(cfg, group, eligible) == eligible # {}

\* Mutant: fallbacks do not make a group ready.
routeGroupHasEligibleUpstream_PrimaryOnly(cfg, group, eligible) ==
    group.primary \in KnownProviders(cfg) /\ group.primary \in eligible

routeGroupHasEligibleUpstream(cfg, group, eligible) ==
    \E c \in ToSet(CandidatesOf(group)) :
        c \in KnownProviders(cfg) /\ c \in eligible

\* The handler's map of groups keeps the last entry of a name.
allRequiredRouteGroupsReady(cfg, eligible) ==
    \A g \in RequiredGroups(cfg) :
        /\ Named(cfg.groups, g) # {}
        /\ routeGroupHasEligibleUpstream(
               cfg, cfg.groups[Max(Named(cfg.groups, g))], eligible)

Readyz(cfg, started, requireInitialProbe, initialProbeComplete, eligible) ==
    /\ started
    /\ requireInitialProbe => initialProbeComplete
    /\ allRequiredRouteGroupsReady(cfg, eligible)
=============================================================================
