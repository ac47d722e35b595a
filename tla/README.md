# A verification model of NexusRouter

NexusRouter is one Go process that takes OpenAI-style requests and answers them
from one of several upstream providers. This directory holds TLA+ modules that
model it, the TLC configurations that check them on small instances, and TLAPS
proofs of every safety property they check: of the upstream health runtime, the
prober, the service that shares the runtime between prober and requests, the process
around it, the streams, and the path from a configuration file and a request's body to
what an upstream is sent. Paths below are relative to the repository root.

Run `tlc -config X.cfg M` for a run of PROJECT.json (X begins with the name of the
module M), and `tlapm M.tla` for the proofs of `HealthRuntimeProofs`,
`HealthRuntimeRefinement`, `ProberProofs`, `GatewayProofs`, `LifecycleProofs`,
`SequenceLemmas`, `StreamRelayProofs` and `FrontendProofs`.

## 1. Inventory

| Component | State it keeps | Operations | Talks to |
|---|---|---|---|
| Health runtime, `internal/health/runtime.go` | per upstream: state, failure streak, end of the open window, trial successes, last probe, last applied timestamp; started, sweep complete | `IsEligible`, `Snapshot` (both may half-open on reading), four `Record...`, two `Mark...`, all under one lock | called by everything below |
| Prober, `internal/health/prober.go` | per provider entry a goroutine; count of first results | probe, mark first result, wait for ticker or context | writes the runtime; stopped by the service |
| Router, `internal/router` | the configuration | `matchModel`, `findRouteGroup`, `Plan` | asks the runtime, one upstream at a time |
| Orchestrator and executor, `internal/orchestrator`, `internal/runtime` | locals of one request | try the plan's attempts in order, fail over, record every outcome | planner, adapters, runtime |
| Readiness, `internal/httpapi/handlers/health.go` | none | `/readyz` from one Snapshot | the runtime |
| Stream decoding and relay, `internal/providers/*`, `internal/streaming`, `internal/httpapi/openai/finalize_*`, `internal/usage` | events decoded so far, current tool id and stop reason | decode a line, break, write as SSE or JSON | upstream, client |
| Service and process, `internal/app`, `cmd/nexus-router` | cancel function and done channel, two servers, two error channels | `New`, `Start`, `Serve`, `serveAll`, `Shutdown`, `stopRuntimeWork`, `main` | everything |
| Admission, `internal/auth`, `internal/capabilities` | the policies by secret | `RequireBearer`, `ResolveBearer`, `ValidatePublicSurface`, `ValidateRequest` | before the request path |
| Request decoding and encoding, `internal/httpapi/openai`, `internal/providers/*/request.go` | none | body to canonical request, canonical request to provider body | before admission, and inside an adapter call |
| Configuration, `internal/config` | none | `Load`, defaults, `Validate`, and what `New`, `NewRuntime` and `NewProber` make of the result | start-up; read by router, resolver, `/readyz` |
| Legacy `internal/circuitbreaker`, `internal/health/manager.go` | a breaker of their own | not called by the service | none |

What is hard here, and what each component has to get right:

- Reports about an upstream reach the runtime's lock in any order. A probe is
  stamped when it starts and a request's outcome when it ends, both before the
  lock is taken, and two stamps may be equal. Required: an ejected upstream does
  not move until its cool-down is over, only a probe begun after it readmits,
  and a streak counts distinct failures.
- Reads change state: a planner's or a reader's look half-opens an upstream. It
  must make no difference to any later decision.
- Probes end late, fail, time out or are cancelled. Required: the initial sweep
  means what `/readyz` takes it for and always completes, no ejected upstream is
  left without a verdict, and a cancelled prober winds down.
- A plan is a snapshot, carried out later. Required: failover only before output
  and no traffic to what no probe has reported on.
- `/readyz` and the planner read one configuration with separate code.
- The process is stopped by a signal or by its own failures, at any moment, by
  two goroutines that share the service's fields without a lock.
- Two decoders produce canonical events that four writers read back.
- A request is decoded by one of two endpoints, checked twice and encoded for one of
  two families in three forms, all of which see different parts of it. Required: what
  was granted bounds what is sent, and what was admitted arrives whole at whichever
  upstream is tried.
- A setting passes four layers with defaults of their own. Required: it is used as
  written or the process does not start.

## 2. Modules

| Module | Models | Kind |
|---|---|---|
| `UpstreamState` | the record `upstreamState` and what each method makes of it | operators |
| `HealthRuntime` | `Runtime`, one action per method, plus the clock | specification |
| `CooldownBreaker` | what the runtime promises: no half-open state, no reads, reports in timestamp order | abstract specification |
| `HealthRuntimeProofs` | invariants and action properties of `HealthRuntime` | proofs |
| `HealthRuntimeRefinement` | `HealthRuntime` implements `CooldownBreaker` | proofs |
| `Prober` | `Prober.Start` and its goroutines, over an instance of `HealthRuntime` | specification |
| `ProberProofs` | the prober uses the runtime as `HealthRuntime` describes; its sweep and its end | proofs |
| `Gathering` | the loops that append to a slice: what each element of a sequence contributes, in order | operators |
| `SequenceLemmas` | what `Gather` makes of one more element, of a concatenation, of what was gathered | proofs |
| `Patterns` | `matchesPattern`, as a given relation | operators |
| `Routing` | planner, registry, `/readyz` | operators |
| `ClientRequest` | the chat and responses decoders, their refusals | operators |
| `Admission` | bearer, resolver, public surface, policy, schema subset | operators |
| `ProviderRequest` | the two families' request bodies | operators |
| `RequestAdmission` | one request from `RequireBearer` to its answer | actions, over the three above |
| `Configuration` | `Load`, defaults, `Validate`, runtime options, probe targets | operators |
| `Frontend` | file, start-up, health as `/readyz` sees it, and a request over one configuration | composition |
| `FrontendProofs` | settings, readiness and plan, and what a body that is sent has to do with body, key and file | proofs |
| `RequestPath` | `Plan`, `Run` and `Execute` of each request, over an instance of `HealthRuntime` | actions |
| `Gateway` | `app.New`: seeding, prober, requests and readers over one runtime | composition |
| `GatewayProofs` | the same of the whole composition; traffic follows probes; draining readmits nothing | proofs |
| `Lifecycle` | `main`, `Start`, `serveAll`, `Shutdown`, `stopRuntimeWork` | specification |
| `LifecycleProofs` | what an exit status means, and that the prober stops first | proofs |
| `StreamRelay` | the decoders, the writers, `usage.FromEvents` | specification |
| `StreamRelayProofs` | the invariants of `StreamRelay`, for every message | proofs |
| `MCProber`, `MCGateway`, `MCFrontend` | definitions the instances for TLC need | |

`Gateway` composes `Prober` and `RequestPath`: both are instantiated over the same
runtime variables, so a probe and a request meet exactly where the code lets them,
in a method of `Runtime`. `UsesRuntimeAsSpecified` says that the composition takes
only steps of `HealthRuntime` as far as the runtime is concerned (a refinement; TLC
checks it on an instance, `ServiceUsesRuntime` proves it), so what is proved of
`HealthRuntime` holds of the service.

`Frontend` composes `Configuration` with `RequestAdmission`: one loaded file is read by
the resolver, by `/readyz` and by the planner. Its requests end in attempts on the
candidates of `Routing`; any of them may be left out, because which are eligible when
a plan is made is the matter of `RequestPath`.

How state maps to code:

- A time is a number of clock units and the zero time is 0. `clock` is what
  `time.Now` returns. It never goes back, and any number of steps may happen in a
  unit, so equal timestamps occur.
- Every method of `Runtime` holds `r.mu` throughout and is one action. The reading
  of the clock that precedes it is a separate step in `Prober` (`BeginProbe`) and in
  `RequestPath` (`AdapterReturns`); in `HealthRuntime`, which knows no callers, a
  report carries any time from 1 up to now.
- `Accepts` is `acceptEventLocked`, `Accepted` the transition
  `refreshForEventLocked` makes, `Refreshed` is `refreshLocked`.
- `Prober.Start` is three actions: `Start` (`MarkStarted`), `Launch` (the goroutines, or
  the completed sweep when there is nothing to probe) and `Return` (after `Wait`).
- A goroutine of the prober is `loop[t]`; a request is the record `req[r]`, whose
  `phase` says where it is in `Plan`, `Run` or `Execute`.
- `Lifecycle` has one program counter for `main`, one for the `Start` goroutine and
  one for each of them inside `stopRuntimeWork`, because each read and write of
  `s.runtimeCancel` and `s.runtimeDone` is a step there.
- A body is the record of the fields its decoder looks at; a content item or an image
  object carries the set of its keys, because the decoders refuse unknown ones. A JSON
  schema is a sequence of nodes, each with its parent, key and kind, in the order a walk
  meets them.
- A setting of the file is a form (absent, null, empty, malformed, value) and a value,
  and a section says whether it is written in place or reached through a YAML alias.
- In `StreamRelay` a payload is the record of the fields the decoders look at, and
  an event keeps the key its text is stored under, because the writers differ in
  which key they read.

## 3. Runs

### Passing

| Run | Question | Bounds and why they are enough |
|---|---|---|
| `health_one_upstream` | The invariants of the record, what a step may never do to an ejected upstream, and the refinement to `CooldownBreaker`. | One upstream, as methods touch one record each; the clock has room for two ejections with a trial between them and for reports older than either. |
| `prober_loops` | What the sweep means and that it completes; verdicts on trials; winding down. | Three targets: one without credentials and two entries of one name, which `Validate` accepts; clock to 2: an ejection, its end, and a probe begun after it. |
| `gateway_failover` | Traffic only to probed upstreams, the sweep under traffic, conformance to `HealthRuntime`; a request whose client left ends. | A request, a primary and a fallback, two probe loops. |
| `gateway_drain` | Requests that outlive the prober readmit nothing. | Two requests on one upstream that a probe loop may eject, one with a second candidate no adapter exists for; clock to 3: ejection, cool-down, late outcomes. |
| `lifecycle_exit` | A clean exit cut nobody off; the prober stops before every exit; the process exits after an interrupt or a server's failure. | Two requests on two servers or one; all failures; builds that do and that do not read fields again. |
| `front_end` | Settings are used as written or refused; `/readyz` and the planner agree; what is sent was granted by one key; images, conversation, schemas and function tools arrive whole, and at OpenAI upstreams the controls. | Slices, each varying one part over every form the code tells apart and leaving the rest plain: routes (two models, groups and providers, every set of eligible upstreams), settings (every form, in place and behind an alias), the other clauses of `Validate`; conversations of up to three turns, images, tools, schemas up to four nodes deep, controls and formats, each under seven headers. The keys include two of one secret and one switched off after its secret was given again; the route leads over both families and one without an adapter. |
| `stream_messages` | Text survives, streamed or not; a chat stream ends once, if the upstream ended it, with the reason a client that does not stream is told too; streamed pieces of Anthropic's tool calls keep their ids; the usage told with an answer that is not streamed is the final count (the streams carry none); what is retried had said nothing. | Five lines before the end: two tool calls with a piece each, or text around one; every point of breaking or ending early, the message's end included. |

### Disagreements with the documentation or the tests

Each of these runs checks one property, which TLC finds violated; PROJECT.json
quotes the text it comes from.

| Run | What happens |
|---|---|
| `gateway_half_open` | A plan made before an ejection sends its request to the upstream after it has half-opened. |
| `gateway_client_leaves` | A client's own disconnect is recorded as a failure of every upstream its request then falls through to. |
| `lifecycle_reread` | `Shutdown` can wait on a nil channel when `Start` fails at the moment of an interrupt. This needs a build that loads a field again between `x != nil` and its use, which the language allows (the access is a data race); in one that does not, `lifecycle_exit` shows that the race does no harm. |
| `stream_tool_calls` | Tool calls of an OpenAI upstream are dropped by its decoder. |
| `front_end_dropped` | A chat body with a temperature and a tool that is no function is admitted on a route to Anthropic, and both are dropped. `MCDroppedScenes` is that one request: the Anthropic encoder sends none of temperature, top_p, output limit and stop, and the decoders skip a tool that is no function (on the responses endpoint, one without a name), where the design has the router refuse what it cannot pass on. |

Others were met in modelling and have no run of their own. They are part of the
model, and the properties are worded around them.

- With two route groups of one name, which `Validate` accepts, `/readyz` judges the
  last and the planner uses the first. `MCFrontend` has such files; the two properties
  that relate `/readyz` and the plan are claimed of groups of distinct names
  (`GroupsAreDistinct`), and without that `ReadyMeansPlannable` is violated.
- Two models or groups may lead over both families although the data-plane design says
  that route groups do not cross families (`MCFrontend`'s plain file does, on purpose);
  that a family is one the executor has an adapter for is not checked either: such a
  provider counts as ready and fails every request it is tried for
  (`AttemptWithoutAdapter`, `CallWithoutAdapter`).
- Two provider entries of one name, which `Validate` accepts, are probed by two loops at
  once, while the runtime-health design asks to prevent overlapping probes of one
  upstream. `prober_loops` shows that the sweep and the trials stand it.
- Of several system turns Anthropic is told the last one's first text only;
  `ConversationIsKept` speaks of a single system text. It is always sent a `system`
  field, so that a body with an empty system text and one with none are the same to it.
- `tool_choice` may name a function that is not offered.
- A stream that breaks before any content may count as committed, because
  `OutputCommitted` asks for any event: the usage in Anthropic's `message_start` is one,
  and so is the finish reason of an OpenAI chunk without content. The data-plane design
  lists a disconnect before response content among what is failed over from. The converse
  is `NothingSaidIsRetried`.
- Recursive schemas are to be refused according to the data-plane design; neither the
  code's list of keywords nor `SchemasStayInTheSubset`, which takes that list, looks at
  `$ref`.
- A null setting is refused, but not behind a YAML alias or merge key, where it gets the
  default. `OverridesAreUsedOrRefused` excepts it. A null `probe` section is accepted.
- An image URL is validated without its surrounding blanks and sent with them.
- `limits.max_request_bytes` is loaded and read by nothing.

### Deadlock

`CHECK_DEADLOCK FALSE` is set where a behaviour really ends: the clock reaches its
bound with nothing left to do, the process has exited, the stream or the request has
been answered, the file was refused.

## 4. Fairness

- `Prober`: goroutines are scheduled (weak fairness on each loop's steps); a probe
  ends because `context.WithTimeout` bounds it; tickers go on firing; and a `select`
  with both branches ready does not choose the ticker for ever (strong fairness on
  `EndLoop` only, as Go picks among ready branches at random). Time passes up to the
  bound.
- `Gateway`: a handler's own steps are weakly fair. `AdapterReturns` is fair only
  once the client has gone, when its context ends the call: `http.DefaultClient` has
  no timeout, so nothing else makes an upstream answer. `DepartedRequestsEnd` is
  therefore claimed of departed clients only.
- `Lifecycle`: goroutines run, the shutdown timer fires, a server that was shut
  returns, a cancelled prober ends (that is `CancelledProberReturns` of `Prober`).
  Requests need not finish.

## 5. Proofs

`HealthRuntimeProofs` proves, for every set of upstreams, every integer value of the
three options and every bound on the clock, from `OptionsAssumption` and
`MaxTimeAssumption` alone: `TypeOK`, `ServingIsClean`, `OpenSinceLastReport`,
`HalfOpenAfterCooldown`, `FailuresAreDistinct`, and the action properties
`CooldownIsRespected` and `OnlyFreshProbesReadmit`.

The four safety invariants are not inductive one by one. That a report an open
upstream accepts finds its cool-down over on the clock needs to know that the open
window is exactly one interval after the last applied report and that no report comes
from the future; that a readmitted upstream is clean needs what the half-open state
remembers; that a streak is at most the last timestamp needs timestamps to grow with
every accepted report. `IInv` is their conjunction with the type invariant, and it is
inductive. As every method changes a record by a function of that record, the clock
and the report alone, the argument is made once per function on a single record
(`GoodStep`) and lifted to the map of records; the clock's step only weakens the
conjuncts that mention it. The action properties are part of `GoodStep` and follow
with `IInv` as the invariant.

`HealthRuntimeRefinement` proves, from the same assumptions, `Spec => ImplementsBreaker`:
the runtime with its half-open state, its two copies of the end of a window and reads
that change state behaves as a breaker that has none of them and counts reports in the
order of their timestamps. The argument is again made on one record. The breaker sees of
it a mode, the end of an ejection, a score and the last timestamp counted; reading a
record leaves that view alone (this is where "an open upstream has no trial successes"
and "half-opening keeps the window" of the invariant are needed), a refused report leaves
the record alone, and an accepted one changes the view as exactly one action of the
breaker does (`Counted`). The lemmas of section 3 there lift it to the map.

`ProberProofs` and `GatewayProofs` carry this over to the callers. `HealthRuntime`
takes it as given that a report names one of the upstreams, bears a time between 1 and
now, and that nothing reaches into the records but through a method. That `Prober`, and
`Gateway` with seeding, any requests and any readers, keep to this is
`ProberUsesRuntime` and `ServiceUsesRuntime`; hence every theorem above holds of them.
It needs to be known that a probe in flight or an outcome about to be reported has a
clock reading that is not zero and not in the future (`TimesInv`, `RequestsInv`), that
there is a current attempt whenever one is called or reported, and which goroutines can
exist in which phase of `Start` (`PhaseInv`). The assumptions are `RuntimeAssumption`,
`TargetsAssumption` and `GatewayAssumption`: integer options, a finite set of provider
entries, and candidates that are upstreams of the runtime, which holds because `Plan`
drops names no provider has.

On this rest the theorems of their own:

- `SweepIsTruthful` and `SweepIsTruthfulUnderTraffic`. A probe's report may be refused as
  late, so a finished first probe leaves a result only because an upstream no probe has
  reported on has had no report at all (`UnprobedInv`, with `FirstProbeIsKept` about one
  record). In the service this holds because requests are planned for healthy upstreams
  only, and a healthy upstream without a seed has been probed (`ProbedInv`); so the sweep
  and the traffic have to be in one invariant, `GInv`. That the counter of first results
  reaches the number of targets only when all are in uses `FiniteSetTheorems`.
- `TrafficFollowsProbes`: the attempts of every request, however long ago planned, are
  upstreams with a probe result, and results stay.
- `ReturnIsQuiet` and `DrainIsOneWay`: when `Start` has returned every goroutine has
  ended and seeding is over; what is left are reads and outcomes of requests, which
  readmit no record (`ReadsKeepProbes`, `RequestsReadmitNothing`).
- `ProberTypeCorrect` and `GatewayTypeCorrect`.

Most of section 2 of `GatewayProofs` and the lemma `SameRuntime` only say that an operator
reached by two paths of `INSTANCE` is the same operator.

`LifecycleProofs` proves `LifecycleTypeOK`, `CleanExitCutsNobody` and
`ProberStopsBeforeExit` from `LifecycleAssumption`, for any number of requests, one server
or two, any failures, and builds that do and that do not read a field again: the race
on `s.runtimeDone` may block `Shutdown` but never lets anybody past a running prober,
because the field is cleared only by one who has received from the channel (`StopInv`).
For the exit status `LInv` relates main's progress to what it has shut and drained
(`DrainInv`), a cut connection to a server that failed and stays failed (`CutInv`), and
Start's error to the outcome of every server (`ServersInv`): `ErrServerClosed` excludes a
failure, hence a cut.

`StreamRelayProofs` proves the six invariants of `StreamRelay` (`InvariantHolds` and its
corollaries) from `StreamAssumption` alone, for messages of any length, both families,
both endpoints and every point of breaking. Beside the types, every property there
compares something gathered from the events (the text streamed, the final text, tool
pieces, stops, usage) with something gathered from the upstream's lines, so the argument
has three layers: what one more element adds to each of these, from `SequenceLemmas`;
what each kind of line does to the invariant (text, a tool call's opening and its
pieces, a stop, a usage report, a line that says nothing); and which kind of line each
action sends and what the decoder makes of it. The properties are not inductive alone:
that a piece of a tool call keeps its id needs to know that the decoder's current id is
the one of the block the upstream is in (`ToolInv`, `PhaseInv`); that a chat stream ends
once needs that no stop with a reason was decoded before the phase that sends it
(`StopInv`); that usage is the final count needs which of Anthropic's two reports has
come (`UsageInv`). `NothingSaidIsEverRetried` reads the same facts the other way: a
stream is retried if no event was decoded, from no events nothing is gathered, so the
upstream's lines hold no text and no piece of a tool call, and no line that ends a
message has been read.

`SequenceLemmas` has the induction this takes. The library's induction theorems have an
operator as a parameter, which the provers here cannot instantiate; a set of natural
numbers is a value, and `SetInduction` rests on `NatLessThanWellFounded` instead. From
it follow that `FlattenSeq`, defined by a recursive function, has the values its
equation gives it, what it makes of one more sequence and of two concatenated ones, and
that gathering from what was gathered is gathering once (`GatherGathered`). The loops of
the code that filter and append are written with `Gather`, not `SelectSeq`: the prover
has no definition of the latter.

`FrontendProofs` proves every property of `Frontend` from `ScenesAssumption` (a file was
decoded from YAML, a body from JSON), for any set of files, headers, bodies and model
names. The inductive invariant, `FrontendInv`, says what each stage knows: a service that
runs has loaded its file (`ServiceInv`), each stage of a request has the results of those
before it (`ProgressInv`: `Granted`, `WasDecoded`, `IsOffered`, `IsAllowed`), and whatever
was sent is an encoding of a request all four hold of (`SentInv`). No property by itself is
inductive: most of them speak of what was sent, and only the stages passed
before say what that can be. The properties follow from it by lemmas about the code's
functions:

- The decoder's first error is none exactly when no item has one (`DecodeErrors`), so a
  body that was sent was understood item by item (`SentBody`).
- What is said under some roles in the decoded conversation is, message by message, what
  the body says (`TextsSaid`, `ImagesSaid`); the OpenAI encoder keeps the conversation,
  and the Anthropic encoder gathers the turns that are not the system's, from which the
  rest is gathered again (`AnthropicTurns`). Both together give `EveryImageArrives`
  and `ConversationIsAlwaysKept`; a single system text is the one turn's one text
  (`OneSystemText`).
- A function is a tool to either decoder, so none of a body of functions is dropped
  (`FunctionsAreTools`); OpenAI's form with tools is the only one a request with tools
  reaches (`ToolsSent`), and its controls are the body's field by field.
- The key that grants a request is the last of its secret that is active
  (`KeyOfPolicy`); a request without images has none in any form of payload
  (`NoImageSaid`). That is `PolicyAlwaysBounds`.
- `SchemasAlwaysStayInTheSubset`: the walk and JSON Schema's own reading are two recursive
  functions on the nodes of a schema; that they exist is `RecursionExists`, and
  `WalkReaches` shows by induction on the nodes that wherever the one reads a schema, or
  a map or list of schemas, the other has been there, or one level above an array.
- `ReadyAlwaysMeansPlannable` and its converse: the first and the last group of a name are
  the same one, `Validate` has found a group for every model, and a plan is empty exactly
  when the handler's test of the group fails (`PlannedWhen`).
- `OverridesAreAlwaysUsedOrRefused`: a setting is present, and then loaded as it is,
  positive, and used by each layer below, or it is absent or null behind an alias
  (`DurationUsed`, `CountUsed`, `SwitchUsed`); every provider has its own target, since
  `Validate` refuses one without a name (`TargetsAre`).

TLC has checked each of these inductive invariants on the instances of the runs.

Only model-checked: the liveness properties and their fairness (`SweepCompletes`,
`CancelledProberReturns`, `TrialsEndInAVerdict`, `DepartedRequestsEnd`,
`ExitsAfterInterrupt`, `FailureEndsTheProcess`), which are outside the prover's reach.
Every other property of a passing run is a theorem.

## 6. Abstractions

- Names, URLs, headers, error texts, `lastError` and `lastRequestEventAt` of the
  runtime are left out: no decision reads them.
- An HTTP exchange is reduced to its outcome. A probe succeeds, fails, or is
  cancelled; a call gives one of `Outcomes`.
- In `RequestPath` all kinds of stream breaks are given; which of them are committed
  is `StreamRelay`'s matter.
- The upstreams' protocols in `StreamRelay` and `net/http`'s server in `Lifecycle`
  are external and modelled from how the code uses them.
- `SweepMeansProbed` excludes a prober that was told to stop: its cancelled probes
  count as first results.

- Bodies, files and schemas are reduced as section 2 says. URLs are remote, data URLs or
  neither; a pattern matches by a given relation (`Patterns`), one for both, as
  the router and the capabilities define `matchesPattern` alike.
- In `Frontend` a scene has either a client or changing health, never both: no step of
  a request reads the set of eligible upstreams there.

Not modelled: the legacy `circuitbreaker` and `health.Manager`, which nothing but their
own tests calls; the router's table, the admin pages, error bodies and logging, which
render and keep no state (a page's one effect on state is `HealthRuntime!Snapshot`); the
credential headers of a provider call, where a missing key is one more call that fails.

## 7. Plan

Done, in this order: health runtime with its abstract specification and proofs, prober,
routing, request path and gateway, process lifecycle, streams, admission with both
translations of a request, configuration, and the front end over them.

Proofs, likewise: `HealthRuntime` and its refinement, the prober, the gateway, the
process, the streams, the front end. What could follow:

1. `Lifecycle` with `Prober` in place of `ProberReturns`, so that the drain, the prober
   and the requests of `RequestPath` meet in one specification; `LInv` and `GInv` would
   be conjuncts of its invariant.
2. An abstract specification of a request (asked, answered or failed over, in the order
   of its plan) that `RequestPath` and `RequestAdmission` both refine, so that the two
   views of the attempts are one.
