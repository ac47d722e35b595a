-------------------------- MODULE RequestAdmission --------------------------
(***************************************************************************)
(* One public request from its arrival to its answer: RequireBearer, the   *)
(* handler's decoder, ExecuteService.Execute's two checks, and the attempts*)
(* the orchestrator makes with what was admitted.  The decisions are those *)
(* of ClientRequest and Admission, the bodies that go upstream those of    *)
(* ProviderRequest, the candidates those of Routing.  Which of them are    *)
(* eligible when the plan is made is RequestPath's and Gateway's matter:   *)
(* here a plan may leave any of them out.                                  *)
(***************************************************************************)
EXTENDS Routing, ClientRequest, Admission, ProviderRequest

VARIABLES
    cfg,       \* the configuration the service was built from
    stage,     \* where the request is
    header,    \* its Authorization header
    body,      \* its body
    policy,    \* the client policy in the request's context
    request,   \* the canonical request
    answer,    \* what the client was told
    tried,     \* position of the last candidate attempted
    sent       \* the bodies sent to upstreams for it, in order

requestVars == <<stage, header, body, policy, request, answer, tried, sent>>

Nothing == [none |-> TRUE]

Adapters == {"openai", "anthropic"}

RequestInit(h, b) ==
    /\ stage = "waiting"
    /\ header = h
    /\ body = b
    /\ policy = NoPolicy
    /\ request = Nothing
    /\ answer = "none"
    /\ tried = 0
    /\ sent = <<>>

----------------------------------------------------------------------------
(* Actions.                                                                *)

\* RequireBearer is called.
Receive ==
    /\ stage = "waiting"
    /\ stage' = "auth"
    /\ UNCHANGED <<cfg, header, body, policy, request, answer, tried, sent>>

\* The request goes on, or ends with an answer.
Proceed(error, next) ==
    /\ stage' = IF error = "none" THEN next ELSE "answered"
    /\ answer' = error

Authenticate ==
    LET found == IF ParseBearer(header)
                 THEN ResolveBearer(cfg.clientKeys, header.token)
                 ELSE NoPolicy
    IN  /\ stage = "auth"
        /\ policy' = found
        /\ Proceed(IF found.known THEN "none" ELSE "unauthorized", "decode")
        /\ UNCHANGED <<cfg, header, body, request, tried, sent>>

DecodeBody ==
    LET decoded == Decode(body)
    IN  /\ stage = "decode"
        /\ Proceed(decoded.error, "surface")
        /\ request' = IF decoded.error = "none" THEN decoded.request ELSE Nothing
        /\ UNCHANGED <<cfg, header, body, policy, tried, sent>>

CheckSurface ==
    /\ stage = "surface"
    /\ Proceed(ValidatePublicSurface(request), "policy")
    /\ UNCHANGED <<cfg, header, body, policy, request, tried, sent>>

\* Mutant: the error is answered and the request goes on.
CheckPolicy_GoesOn ==
    /\ stage = "policy"
    /\ stage' = "attempts"
    /\ answer' = ValidateRequest(policy, request)
    /\ UNCHANGED <<cfg, header, body, policy, request, tried, sent>>

CheckPolicy ==
    /\ stage = "policy"
    /\ Proceed(ValidateRequest(policy, request), "attempts")
    /\ UNCHANGED <<cfg, header, body, policy, request, tried, sent>>

\* Nothing, for a model no entry of the configuration matches.
Route ==
    IF Routable(cfg, request.publicModel) THEN Candidates(cfg, request.publicModel) ELSE <<>>

\* The orchestrator's next attempt; candidates between were not eligible.
Attempt(i) ==
    /\ stage = "attempts"
    /\ i \in tried + 1 .. Len(Route)
    /\ tried' = i
    /\ UNCHANGED <<cfg, header, body, policy, request>>

Send(i) ==
    LET family == Resolve(cfg, Route[i]).provider
    IN  /\ family \in Adapters
        /\ sent' = Append(sent, EncodeRequest(family, request))

AttemptSucceeds(i) ==
    /\ Attempt(i)
    /\ Send(i)
    /\ stage' = "answered"
    /\ answer' = "ok"

AttemptFails(i) ==
    /\ Attempt(i)
    /\ Send(i)
    /\ UNCHANGED <<stage, answer>>

\* The executor's error for such an upstream ends the request.
AttemptWithoutAdapter(i) ==
    /\ Attempt(i)
    /\ Resolve(cfg, Route[i]).provider \notin Adapters
    /\ Proceed("upstream_error", "answered")
    /\ UNCHANGED sent

\* There is no plan, it is used up, or the last failure was final.
GiveUp ==
    /\ stage = "attempts"
    /\ Proceed("upstream_error", "answered")
    /\ UNCHANGED <<cfg, header, body, policy, request, tried, sent>>

RequestStep ==
    \/ Authenticate \/ DecodeBody \/ CheckSurface \/ CheckPolicy \/ GiveUp
    \/ stage = "attempts" /\ \E i \in 1 .. Len(Route) :
           AttemptSucceeds(i) \/ AttemptFails(i) \/ AttemptWithoutAdapter(i)

----------------------------------------------------------------------------
(* What a body asks for, read from the body itself.                        *)

ItemsOf(message) ==
    IF message.content.form = "items" THEN message.content.items ELSE <<>>

\* Its images, as the user's.
ImagesOf(b) ==
    Gather(b.messages, LAMBDA m : Gather(ItemsOf(m), LAMBDA x :
        Only(x.type = ImageType[b.endpoint], <<"user", x.image.url>>)))

\* The texts of one message, under the role they are said in.
TextsOf(b, m) ==
    IF m.content.form = "text" THEN <<<<normalizeRole(m.role), m.content.text>>>>
    ELSE Gather(ItemsOf(m), LAMBDA x :
             Only(x.type = TextType[b.endpoint], <<normalizeRole(m.role), x.text>>))

\* Who says what in a body, and the system's words apart.
SpokenIn(b) ==
    Gather(b.messages, LAMBDA m : IF m.role # "system" THEN TextsOf(b, m) ELSE <<>>)

SystemIn(b) ==
    Gather(b.messages, LAMBDA m : IF m.role = "system" THEN TextsOf(b, m) ELSE <<>>)

\* What an upstream is told under some roles, in blocks of one type.
Said(payload, roles, type) ==
    Gather(payload.turns, LAMBDA t :
        IF t.role \in roles
        THEN Gather(t.content, LAMBDA x : Only(x.type = type, <<t.role, x.value>>))
        ELSE <<>>)

Speakers == {"user", "assistant", "tool"}

SystemTold(payload) ==
    Said(payload, {"system"}, "text")
        \o Only(payload.system # "", <<"system", payload.system>>)

\* Every tool of a body is a function.
AllFunctions(b) ==
    \A i \in DOMAIN b.tools :
        b.tools[i].type = "function" /\ b.tools[i].function /\ b.tools[i].name # ""

\* The generation controls of a payload are the body's.  (A single empty stop is
\* none.)
HasControls(g) ==
    LET tokens == IF body.endpoint = "responses" \/ body.maxCompletionTokens # Absent
                  THEN body.maxCompletionTokens ELSE body.maxTokens
    IN  /\ g.temperature = body.temperature
        /\ g.topP = body.topP
        /\ g.maxOutputTokens = tokens
        /\ body.stop.value # <<"">> => g.stop = body.stop.value

\* The nodes of a schema that stand for a schema, and those that map names
\* to schemas: JSON Schema's own reading, where the code walks everything.
SchemaNodes(schema) ==
    LET role[i \in 0..Len(schema)] ==
            IF i = 0 THEN "schema"
            ELSE LET node == schema[i] above == role[node.parent]
                 IN  CASE above = "schema" /\ node.key = "properties" -> "names"
                       [] above = "schema" /\ node.key = "items" ->
                              IF node.kind = "array" THEN "list" ELSE "schema"
                       [] above \in {"names", "list"} -> "schema"
                       [] OTHER -> "data"
    IN  {i \in 0..Len(schema) : role[i] = "schema"}

----------------------------------------------------------------------------
(* Properties.                                                             *)

Payloads == ToSet(sent)

Answers == {"none", "unauthorized", "invalid_request", "unsupported_capability",
            "upstream_error", "ok"}

\* Types; only past the decoder is there a request, only at the end an answer.
RequestTypeOK ==
    /\ stage \in {"waiting", "answered", "auth", "decode", "surface", "policy", "attempts"}
    /\ policy.known \in BOOLEAN
    /\ answer \in Answers
    /\ Len(sent) <= tried
    /\ stage \in {"surface", "policy", "attempts"} => policy.known /\ request # Nothing
    /\ stage # "answered" <=> answer = "none"

(* Whatever goes to an upstream, one active client key with the token that *)
(* came grants all of it: the model, the stream, the images, the tools.    *)
(* NewResolver (auth/policy.go) keeps one key per secret and ValidateRequest*)
(* asks for each feature elsewhere.                                        *)
PolicyBoundsWhatIsSent ==
    \A p \in Payloads :
        \E i \in DOMAIN cfg.clientKeys :
            LET key == cfg.clientKeys[i]
            IN  /\ key.active
                /\ key.secret = header.token
                /\ \/ key.patterns = {}
                   \/ \E pattern \in key.patterns : MatchesPattern(p.model, pattern)
                /\ body.stream => key.allowStreaming
                /\ Said(p, {"user"}, "image") # <<>> => key.allowVision
                /\ p.tools # <<>> => key.allowTools

(* Every image of the body reaches every upstream that is asked, in order, *)
(* and is remote.  The Anthropic encoder drops the images of system turns, *)
(* so that this rests on the decoders refusing them there.                 *)
ImagesReachEveryUpstream ==
    \A p \in Payloads :
        /\ Said(p, {"user"}, "image") = ImagesOf(body)
        /\ ToSet(ImagesOf(body)) \subseteq {"user"} \X RemoteURLs

(* What user, assistant and tool said reaches every upstream in its order  *)
(* and under its role, and so does a system text when there is one only,   *)
(* wherever in the conversation it stands.  (Anthropic is told an empty    *)
(* system text whether the body has one or none.)                          *)
ConversationIsKept ==
    \A p \in Payloads :
        /\ Said(p, Speakers, "text") = SpokenIn(body)
        /\ \/ Len(SystemIn(body)) # 1
           \/ SystemTold(p) = SystemIn(body)
           \/ p.family = "anthropic" /\ SystemIn(body)[1][2] = ""

(* An upstream is offered the tools of a body of functions, all of them, in*)
(* order and with their schemas, and the choice made among them.  The      *)
(* responses form of the OpenAI encoder has no tools: no request with tools*)
(* may get that far.  (For tools that are no functions see                 *)
(* NothingIsDropped.)                                                      *)
ToolsAreWhole ==
    \A p \in Payloads :
        /\ AllFunctions(body) =>
               p.tools = [i \in DOMAIN body.tools |-> [ name   |-> body.tools[i].name,
                                                       schema |-> body.tools[i].schema ]]
        /\ body.toolChoice.form = "function" => p.toolChoice = body.toolChoice.value

(* No schema that goes to an upstream uses a keyword outside the subset at *)
(* a place where it is a keyword, however deep: walkSchema reads a schema  *)
(* as plain JSON and must still find every such place.                     *)
SchemasStayInTheSubset ==
    \A p \in Payloads : \A t \in ToSet(p.tools) : \A i \in DOMAIN t.schema :
        t.schema[i].parent \in SchemaNodes(t.schema) => ~Refused(t.schema[i])

(* An OpenAI upstream gets the controls of the body, every one and no      *)
(* other.  max_completion_tokens and max_tokens share one field, which has *)
(* another name on each endpoint.                                          *)
ControlsAreTheClients ==
    \A p \in Payloads : p.family = "openai" => HasControls(p.generation)

(* What cannot be passed on is refused when the request is validated, so   *)
(* that each tool and each control of an admitted body reaches every       *)
(* upstream that is asked.                                                 *)
NothingIsDropped ==
    \A p \in Payloads : Len(p.tools) = Len(body.tools) /\ HasControls(p.generation)
=============================================================================
