--------------------------- MODULE FrontendProofs ---------------------------
(***************************************************************************)
(* Proofs about Frontend: what a file must be for a service to run, what   *)
(* /readyz promises, and what a body that reaches an upstream has to do    *)
(* with the body, the client and the file it came from.                    *)
(***************************************************************************)
EXTENDS Frontend, SequenceLemmas

----------------------------------------------------------------------------
(* 1. The inductive invariant: what each stage knows.                      *)

\* The service runs with what it loaded.
ServiceInv ==
    /\ file \in Files
    /\ status \in {"loading", "refused", "running"}
    /\ started \in BOOLEAN /\ initialProbeComplete \in BOOLEAN
    /\ status # "running" => cfg = Nothing
    /\ status = "running" =>
           /\ Loads(file)
           /\ cfg = Config(file)
           /\ options = [runtime |-> RuntimeOptions(cfg), targets |-> Targets(cfg)]
           /\ eligible \subseteq KnownProviders(cfg)

\* What RequireBearer, the decoder and the two checks leave behind them.
Granted    == policy.known /\ policy = ResolveBearer(cfg.clientKeys, header.token)
WasDecoded == Decode(body).error = "none" /\ request = Decode(body).request
IsOffered  == ValidatePublicSurface(request) = "none"
IsAllowed  == ValidateRequest(policy, request) = "none"

Stages == {"waiting", "answered", "auth", "decode", "surface", "policy", "attempts"}

ProgressInv ==
    /\ stage \in Stages
    /\ status # "running" => stage = "waiting"
    /\ policy.known \in BOOLEAN
    /\ answer \in Answers
    /\ stage # "answered" <=> answer = "none"
    /\ stage \in {"decode", "surface", "policy", "attempts"} => Granted
    /\ stage \in {"surface", "policy", "attempts"} => WasDecoded
    /\ stage \in {"policy", "attempts"} => IsOffered
    /\ stage = "attempts" => IsAllowed

\* A body is sent for the request, and for none that was not admitted.
SentInv ==
    /\ body \in Bodies
    /\ tried \in Nat
    /\ Len(sent) <= tried
    /\ stage \notin {"attempts", "answered"} => sent = <<>>
    /\ sent # <<>> =>
           /\ sent \in Seq({EncodeRequest(family, request) : family \in Adapters})
           /\ status = "running"
           /\ Granted /\ WasDecoded /\ IsOffered /\ IsAllowed

FrontendInv == ServiceInv /\ ProgressInv /\ SentInv

----------------------------------------------------------------------------
(* 2. The decoders' errors.                                                *)

\* A set of indexes that is not empty has a least element, which Min returns.
LEMMA LeastIndex ==
    ASSUME NEW n \in Nat, NEW T \in SUBSET (1..n), T # {}
    PROVE  Min(T) \in T /\ \A k \in T : Min(T) <= k
<1>1. \E m \in T : \A k \in T : m <= k
  <2>1. T \in SUBSET Nat
    OBVIOUS
  <2>. QED  BY <2>1, LeastElement
<1>. QED  BY <1>1 DEF Min

\* The first error is one of them, and none if none of them is an error.
LEMMA FirstOf ==
    ASSUME NEW n \in Nat, NEW errors, DOMAIN errors = 1..n,
           \A i \in 1..n : errors[i] \in Errors
    PROVE  /\ FirstError(errors) \in Errors
           /\ FirstError(errors) = "none" <=> \A i \in 1..n : errors[i] = "none"
<1>. DEFINE failing == {i \in DOMAIN errors : errors[i] # "none"}
<1>1. FirstError(errors) = IF failing = {} THEN "none" ELSE errors[Min(failing)]
  BY DEF FirstError
<1>2. failing # {} => Min(failing) \in failing
  <2>1. failing \in SUBSET (1..n)
    OBVIOUS
  <2>. HIDE DEF failing
  <2>. QED  BY <2>1, LeastIndex
<1>3. CASE failing = {}
  BY <1>1, <1>3 DEF Errors
<1>4. CASE failing # {}
  BY <1>1, <1>2, <1>4
<1>. QED  BY <1>3, <1>4

\* Of two, of three and of four.
LEMMA FirstOfTwo ==
    ASSUME NEW a \in Errors, NEW b \in Errors
    PROVE  /\ FirstError(<<a, b>>) \in Errors
           /\ FirstError(<<a, b>>) = "none" <=> a = "none" /\ b = "none"
<1>. DEFINE s == <<a, b>>
<1>1. DOMAIN s = 1..2 /\ s[1] = a /\ s[2] = b /\ \A i \in 1..2 : i = 1 \/ i = 2
  OBVIOUS
<1>. HIDE DEF s
<1>2. /\ FirstError(s) \in Errors
      /\ FirstError(s) = "none" <=> \A i \in 1..2 : s[i] = "none"
  BY <1>1, FirstOf
<1>. QED  BY <1>1, <1>2 DEF s

LEMMA FirstOfThree ==
    ASSUME NEW a \in Errors, NEW b \in Errors, NEW c \in Errors
    PROVE  /\ FirstError(<<a, b, c>>) \in Errors
           /\ FirstError(<<a, b, c>>) = "none" <=> a = "none" /\ b = "none" /\ c = "none"
<1>. DEFINE s == <<a, b, c>>
<1>1. /\ DOMAIN s = 1..3 /\ s[1] = a /\ s[2] = b /\ s[3] = c
      /\ \A i \in 1..3 : i = 1 \/ i = 2 \/ i = 3
  OBVIOUS
<1>. HIDE DEF s
<1>2. /\ FirstError(s) \in Errors
      /\ FirstError(s) = "none" <=> \A i \in 1..3 : s[i] = "none"
  BY <1>1, FirstOf
<1>. QED  BY <1>1, <1>2 DEF s

LEMMA FirstOfFour ==
    ASSUME NEW a \in Errors, NEW b \in Errors, NEW c \in Errors, NEW d \in Errors
    PROVE  /\ FirstError(<<a, b, c, d>>) \in Errors
           /\ FirstError(<<a, b, c, d>>) = "none" <=>
                  /\ a = "none" /\ b = "none" /\ c = "none" /\ d = "none"
<1>. DEFINE s == <<a, b, c, d>>
<1>1. /\ DOMAIN s = 1..4 /\ s[1] = a /\ s[2] = b /\ s[3] = c /\ s[4] = d
      /\ \A i \in 1..4 : i = 1 \/ i = 2 \/ i = 3 \/ i = 4
  OBVIOUS
<1>. HIDE DEF s
<1>2. /\ FirstError(s) \in Errors
      /\ FirstError(s) = "none" <=> \A i \in 1..4 : s[i] = "none"
  BY <1>1, FirstOf
<1>. QED  BY <1>1, <1>2 DEF s

\* What an item with an image must be, when it is taken.
LEMMA ImageItemErrors ==
    ASSUME NEW endpoint, NEW rawRole, NEW item
    PROVE  /\ validatePublicImageRole(rawRole) \in Errors
           /\ normalizeChatImageURL(item) \in Errors
           /\ normalizeResponsesImageURL(item) \in Errors
           /\ validatePublicImageURL(item.image.url) \in Errors
<1>1. /\ "none" \in Errors /\ "invalid_request" \in Errors
      /\ "unsupported_capability" \in Errors
  BY DEF Errors
<1>2. validatePublicImageRole(rawRole) \in Errors
  BY <1>1 DEF validatePublicImageRole, InvalidUnless
<1>3. validatePublicImageURL(item.image.url) \in Errors
  BY <1>1 DEF validatePublicImageURL, InvalidUnless
<1>4. ASSUME NEW keys, NEW allowed  PROVE KeysError(keys, allowed) \in Errors
  BY <1>1 DEF KeysError
<1>5. normalizeChatImageURL(item) \in Errors
  <2>1. InvalidUnless("image_url" \in item.keys /\ item.image.form = "object") \in Errors
    BY <1>1 DEF InvalidUnless
  <2>2. InvalidUnless("url" \in item.image.keys /\ item.image.url # NotString) \in Errors
    BY <1>1 DEF InvalidUnless
  <2>. QED  BY <1>4, <2>1, <2>2, FirstOfFour DEF normalizeChatImageURL
<1>6. normalizeResponsesImageURL(item) \in Errors
  <2>1. InvalidUnless("image_url" \in item.keys) \in Errors
    BY <1>1 DEF InvalidUnless
  <2>2. InvalidUnless(item.image.form = "string") \in Errors
    BY <1>1 DEF InvalidUnless
  <2>3. (IF item.image.form = "object" /\ "file_id" \in item.image.keys
         THEN "unsupported_capability" ELSE "none") \in Errors
    BY <1>1
  <2>. QED  BY <1>4, <2>1, <2>2, <2>3, FirstOfFour DEF normalizeResponsesImageURL
<1>. QED  BY <1>2, <1>3, <1>5, <1>6

\* An item is taken as a text, or as the image of a user at a remote URL.
Taken(endpoint, rawRole, item) ==
    \/ item.type = TextType[endpoint]
    \/ /\ item.type = ImageType[endpoint] /\ item.type # TextType[endpoint]
       /\ normalizeRole(rawRole) = "user"
       /\ item.image.url \in RemoteURLs

LEMMA ItemErrors ==
    ASSUME NEW endpoint \in {"chat", "responses"}, NEW rawRole, NEW item
    PROVE  /\ ItemError(endpoint, rawRole, item) \in Errors
           /\ ItemError(endpoint, rawRole, item) = "none" => Taken(endpoint, rawRole, item)
<1>. DEFINE role  == validatePublicImageRole(rawRole)
            image == IF endpoint = "chat" THEN normalizeChatImageURL(item)
                                          ELSE normalizeResponsesImageURL(item)
            url   == validatePublicImageURL(item.image.url)
<1>1. role \in Errors /\ image \in Errors /\ url \in Errors
  BY ImageItemErrors
<1>2. role = "none" => normalizeRole(rawRole) = "user"
  BY DEF validatePublicImageRole, InvalidUnless
<1>3. url = "none" => item.image.url \in RemoteURLs
  BY DEF validatePublicImageURL, InvalidUnless
<1>0. TextType[endpoint] # ImageType[endpoint]
  BY DEF TextType, ImageType
<1>4. CASE item.type = TextType[endpoint]
  <2>1. ItemError(endpoint, rawRole, item) = TextError(item)
    BY <1>0, <1>4 DEF ItemError
  <2>. QED  BY <1>4, <2>1 DEF TextError, InvalidUnless, Errors, Taken
<1>5. CASE item.type = ImageType[endpoint] /\ item.type # TextType[endpoint]
  <2>1. ItemError(endpoint, rawRole, item) = FirstError(<<role, image, url>>)
    BY <1>5 DEF ItemError
  <2>. HIDE DEF role, image, url
  <2>2. /\ FirstError(<<role, image, url>>) \in Errors
        /\ FirstError(<<role, image, url>>) = "none" => role = "none" /\ url = "none"
    BY <1>1, FirstOfThree
  <2>. QED  BY <1>2, <1>3, <1>5, <2>1, <2>2 DEF Taken
<1>6. CASE item.type # ImageType[endpoint] /\ item.type # TextType[endpoint]
  <2>1. ItemError(endpoint, rawRole, item) = "invalid_request"
    BY <1>6 DEF ItemError
  <2>. QED  BY <2>1 DEF Errors
<1>. QED  BY <1>4, <1>5, <1>6

\* A message is taken with all its items.
ContentTaken(endpoint, message) ==
    \/ message.content.form \in {"text", Absent}
    \/ /\ message.content.form = "items"
       /\ \A i \in DOMAIN message.content.items :
              Taken(endpoint, message.role, message.content.items[i])

LEMMA ContentErrors ==
    ASSUME NEW endpoint \in {"chat", "responses"}, NEW message \in Messages
    PROVE  /\ ContentError(endpoint, message) \in Errors
           /\ ContentError(endpoint, message) = "none" => ContentTaken(endpoint, message)
<1>. DEFINE items == message.content.items
            errors == [i \in DOMAIN items |-> ItemError(endpoint, message.role, items[i])]
<1>1. /\ message.content.form \in {"text", "items", "other", Absent}
      /\ items \in Seq(ContentItems)
  BY DEF Messages
<1>2. CASE message.content.form = "items"
  <2>1. ContentError(endpoint, message) = FirstError(errors)
    BY <1>2 DEF ContentError
  <2>2. Len(items) \in Nat /\ DOMAIN items = 1..Len(items)
    <3>. HIDE DEF items
    <3>. QED  BY <1>1
  <2>3. /\ DOMAIN errors = 1..Len(items)
        /\ \A i \in 1..Len(items) :
               errors[i] = ItemError(endpoint, message.role, items[i])
    BY <2>2
  <2>4. \A i \in 1..Len(items) : errors[i] \in Errors
    BY <2>3, ItemErrors
  <2>. HIDE DEF errors
  <2>5. /\ FirstError(errors) \in Errors
        /\ FirstError(errors) = "none" => \A i \in 1..Len(items) : errors[i] = "none"
    BY <2>2, <2>3, <2>4, FirstOf
  <2>. QED  BY <1>2, <2>1, <2>2, <2>3, <2>5, ItemErrors DEF ContentTaken
<1>3. CASE message.content.form = "other"
  <2>1. ContentError(endpoint, message) = "invalid_request"
    BY <1>3 DEF ContentError
  <2>. QED  BY <2>1 DEF Errors
<1>4. CASE message.content.form \in {"text", Absent}
  <2>1. ContentError(endpoint, message) = "none"
    BY <1>4 DEF ContentError, Absent
  <2>. QED  BY <1>4, <2>1 DEF Errors, ContentTaken
<1>. QED  BY <1>1, <1>2, <1>3, <1>4

\* A conversation is taken with all its messages.
LEMMA ConversationErrors ==
    ASSUME NEW b, b.messages \in Seq(Messages), b.endpoint \in {"chat", "responses"}
    PROVE  /\ ConversationError(b) \in Errors
           /\ ConversationError(b) = "none" =>
                  \A i \in DOMAIN b.messages : ContentTaken(b.endpoint, b.messages[i])
<1>. DEFINE messages == b.messages
            errors == [i \in DOMAIN messages |-> ContentError(b.endpoint, messages[i])]
<1>1. ConversationError(b) = FirstError(errors)
  BY DEF ConversationError
<1>2. /\ Len(messages) \in Nat /\ DOMAIN messages = 1..Len(messages)
      /\ \A i \in 1..Len(messages) : messages[i] \in Messages
  <2>. HIDE DEF messages
  <2>1. messages \in Seq(Messages)
    BY DEF messages
  <2>. QED  BY <2>1
<1>3. /\ DOMAIN errors = 1..Len(messages)
      /\ \A i \in 1..Len(messages) : errors[i] = ContentError(b.endpoint, messages[i])
  BY <1>2
<1>4. \A i \in 1..Len(messages) : errors[i] \in Errors
  BY <1>2, <1>3, ContentErrors
<1>. HIDE DEF errors
<1>5. /\ FirstError(errors) \in Errors
      /\ FirstError(errors) = "none" => \A i \in 1..Len(messages) : errors[i] = "none"
  BY <1>2, <1>3, <1>4, FirstOf
<1>. QED  BY <1>1, <1>2, <1>3, <1>5, ContentErrors

\* A body that is taken is taken with its whole conversation and its tool choice.
LEMMA DecodeErrors ==
    ASSUME NEW b \in Bodies
    PROVE  /\ Decode(b).error \in Errors
           /\ Decode(b).error = "none" =>
                  \A i \in DOMAIN b.messages : ContentTaken(b.endpoint, b.messages[i])
<1>1. b.messages \in Seq(Messages) /\ b.endpoint \in {"chat", "responses"}
  BY DEF Bodies
<1>2. /\ ConversationError(b) \in Errors
      /\ ConversationError(b) = "none" =>
             \A i \in DOMAIN b.messages : ContentTaken(b.endpoint, b.messages[i])
  BY <1>1, ConversationErrors
<1>3. \A c \in BOOLEAN : InvalidUnless(c) \in Errors
  BY DEF InvalidUnless, Errors
<1>4. CASE b.endpoint = "chat"
  <2>. DEFINE formed == InvalidUnless(b.wellFormed)
              choice == ToolChoiceError(b.toolChoice)
              stop   == StopError(b.stop)
  <2>1. formed \in Errors /\ stop \in Errors
    BY DEF InvalidUnless, StopError, Errors
  <2>2. choice \in Errors
    BY Zenon DEF ToolChoiceError, InvalidUnless, Errors
  <2>3. Decode(b).error = FirstError(<<formed, ConversationError(b), choice, stop>>)
    BY <1>4, Zenon DEF Decode, DecodeChatCompletionRequest
  <2>. HIDE DEF formed, choice, stop
  <2>4. /\ FirstError(<<formed, ConversationError(b), choice, stop>>) \in Errors
        /\ FirstError(<<formed, ConversationError(b), choice, stop>>) = "none" =>
               ConversationError(b) = "none"
    BY <1>2, <2>1, <2>2, FirstOfFour
  <2>. QED  BY <1>2, <2>3, <2>4
<1>5. CASE b.endpoint # "chat"
  <2>. DEFINE formed == InvalidUnless(
                  /\ b.wellFormed
                  /\ \A i \in DOMAIN b.messages :
                         b.messages[i].content.form \in {Absent, "items"})
  <2>1. formed \in Errors
    BY DEF InvalidUnless, Errors
  <2>2. Decode(b).error = FirstError(<<formed, ConversationError(b)>>)
    BY <1>5, Zenon DEF Decode, DecodeResponsesRequest
  <2>. HIDE DEF formed
  <2>3. /\ FirstError(<<formed, ConversationError(b)>>) \in Errors
        /\ FirstError(<<formed, ConversationError(b)>>) = "none" =>
               ConversationError(b) = "none"
    BY <1>2, <2>1, FirstOfTwo
  <2>. QED  BY <1>2, <2>2, <2>3
<1>. QED  BY <1>4, <1>5

----------------------------------------------------------------------------
(* 3. The inductive invariant holds.                                       *)

\* Whether a client is known, and what the checks answer.
LEMMA Verdicts ==
    /\ NoPolicy.known = FALSE
    /\ \A keys, token : ResolveBearer(keys, token).known \in BOOLEAN
    /\ \A r : ValidatePublicSurface(r) \in Errors
    /\ \A p, r : ValidateRequest(p, r) \in Errors
    /\ Errors \subseteq Answers /\ "none" \in Errors
<1>1. NoPolicy.known = FALSE
  BY DEF NoPolicy
<1>2. ASSUME NEW keys, NEW token  PROVE ResolveBearer(keys, token).known \in BOOLEAN
  BY <1>1 DEF ResolveBearer
<1>3. ASSUME NEW r  PROVE ValidatePublicSurface(r) \in Errors
  BY DEF ValidatePublicSurface, Errors
<1>4. ASSUME NEW p, NEW r  PROVE ValidateRequest(p, r) \in Errors
  BY DEF ValidateRequest, Errors
<1>5. Errors \subseteq Answers /\ "none" \in Errors
  BY DEF Errors, Answers
<1>. QED  BY <1>1, <1>2, <1>3, <1>4, <1>5

LEMMA InitInv == Init => FrontendInv
<1>. SUFFICES ASSUME Init  PROVE FrontendInv
  OBVIOUS
<1>1. PICK scene \in Scenes : file = scene[1] /\ RequestInit(scene[2], scene[3])
  BY DEF Init
<1>2. file \in Files /\ body \in Bodies
  BY <1>1, ScenesAssumption DEF RequestInit
<1>3. ServiceInv
  BY <1>2 DEF Init, ServiceInv
<1>4. ProgressInv
  BY <1>1, Verdicts DEF RequestInit, Init, ProgressInv, Stages, Answers
<1>5. SentInv
  BY <1>1, <1>2 DEF RequestInit, SentInv
<1>. QED  BY <1>3, <1>4, <1>5 DEF FrontendInv

\* Nothing changes.
LEMMA StutterInv == FrontendInv /\ UNCHANGED vars => FrontendInv'
<1>. SUFFICES ASSUME FrontendInv, UNCHANGED vars  PROVE FrontendInv'
  OBVIOUS
<1>. USE DEF vars, serviceVars, healthVars, requestVars
<1>1. ServiceInv'
  BY DEF FrontendInv, ServiceInv
<1>2. ProgressInv'
  BY DEF FrontendInv, ProgressInv, Granted, WasDecoded, IsOffered, IsAllowed
<1>3. SentInv'
  BY DEF FrontendInv, SentInv, Granted, WasDecoded, IsOffered, IsAllowed
<1>. QED  BY <1>1, <1>2, <1>3 DEF FrontendInv

\* Before the service runs, no request is under way.
LEMMA LoadInv == FrontendInv /\ (LoadFails \/ LoadAndNew) => FrontendInv'
<1>. SUFFICES ASSUME FrontendInv, LoadFails \/ LoadAndNew  PROVE FrontendInv'
  OBVIOUS
<1>1. /\ status = "loading" /\ stage = "waiting" /\ sent = <<>>
      /\ UNCHANGED <<file, started, initialProbeComplete, requestVars>>
  BY DEF FrontendInv, ProgressInv, SentInv, Stages, LoadFails, LoadAndNew, healthVars
<1>2. ServiceInv'
  <2>1. CASE LoadFails
    BY <2>1 DEF LoadFails, FrontendInv, ServiceInv, healthVars
  <2>2. CASE LoadAndNew
    BY <2>2 DEF LoadAndNew, FrontendInv, ServiceInv
  <2>. QED  BY <2>1, <2>2
<1>3. ProgressInv'
  BY <1>1 DEF FrontendInv, ProgressInv, requestVars
<1>4. SentInv'
  BY <1>1 DEF FrontendInv, SentInv, requestVars
<1>. QED  BY <1>2, <1>3, <1>4 DEF FrontendInv

\* Health moves only what the runtime holds.
LEMMA HealthInv == FrontendInv /\ (Start \/ SweepDone \/ HealthChanges) => FrontendInv'
<1>. SUFFICES ASSUME FrontendInv, Start \/ SweepDone \/ HealthChanges  PROVE FrontendInv'
  OBVIOUS
<1>1. status = "running" /\ UNCHANGED <<serviceVars, cfg, requestVars>>
  BY DEF Start, SweepDone, HealthChanges, HealthMoves
<1>2. /\ started' \in BOOLEAN /\ initialProbeComplete' \in BOOLEAN
      /\ eligible' \subseteq KnownProviders(cfg)
  BY <1>1 DEF FrontendInv, ServiceInv, Start, SweepDone, HealthChanges
<1>3. ServiceInv'
  BY <1>1, <1>2 DEF FrontendInv, ServiceInv, serviceVars
<1>4. ProgressInv'
  BY <1>1 DEF FrontendInv, ProgressInv, serviceVars, requestVars,
              Granted, WasDecoded, IsOffered, IsAllowed
<1>5. SentInv'
  BY <1>1 DEF FrontendInv, SentInv, serviceVars, requestVars,
              Granted, WasDecoded, IsOffered, IsAllowed
<1>. QED  BY <1>3, <1>4, <1>5 DEF FrontendInv

\* What a step of a request leaves to the service.
LEMMA ServiceKept ==
    ASSUME FrontendInv, UNCHANGED <<serviceVars, cfg, healthVars>>
    PROVE  ServiceInv'
BY DEF FrontendInv, ServiceInv, serviceVars, healthVars

\* The four checks, each of which knows what those before it found.
LEMMA AdmissionInv ==
    ASSUME FrontendInv, status = "running", UNCHANGED <<serviceVars, healthVars>>,
           Receive \/ Authenticate \/ DecodeBody \/ CheckSurface \/ CheckPolicy
    PROVE  FrontendInv'
<1>1. /\ UNCHANGED <<status, cfg, header, body, tried, sent>>
      /\ stage \in {"waiting", "auth", "decode", "surface", "policy"}
  BY DEF Receive, Authenticate, DecodeBody, CheckSurface, CheckPolicy, serviceVars
<1>2. sent = <<>>
  BY <1>1 DEF FrontendInv, SentInv
<1>3. ServiceInv'
  BY <1>1, ServiceKept
<1>4. SentInv'
  BY <1>1, <1>2 DEF FrontendInv, SentInv
<1>5. ProgressInv'
  <2>. USE DEF FrontendInv, ProgressInv, Stages, Granted, WasDecoded, IsOffered, IsAllowed
  <2>1. CASE Receive
    BY <1>1, <2>1 DEF Receive
  <2>2. CASE Authenticate
    <3>. DEFINE found == IF ParseBearer(header)
                         THEN ResolveBearer(cfg.clientKeys, header.token) ELSE NoPolicy
    <3>1. /\ policy' = found /\ request' = request
          /\ stage' = IF found.known THEN "decode" ELSE "answered"
          /\ answer' = IF found.known THEN "none" ELSE "unauthorized"
      BY <2>2 DEF Authenticate, Proceed
    <3>2. found.known \in BOOLEAN
      BY Verdicts
    <3>3. found.known => found = ResolveBearer(cfg.clientKeys, header.token)
      BY Verdicts
    <3>. HIDE DEF found
    <3>. QED  BY <1>1, <3>1, <3>2, <3>3 DEF Answers
  <2>3. CASE DecodeBody
    <3>1. /\ stage = "decode" /\ policy' = policy
          /\ stage' = IF Decode(body).error = "none" THEN "surface" ELSE "answered"
          /\ answer' = Decode(body).error
          /\ Decode(body).error = "none" => request' = Decode(body).request
      BY <2>3 DEF DecodeBody, Proceed
    <3>2. Decode(body).error \in Answers
      BY Verdicts, DecodeErrors DEF SentInv
    <3>. QED  BY <1>1, <3>1, <3>2
  <2>4. CASE CheckSurface
    <3>1. ValidatePublicSurface(request) \in Answers
      BY Verdicts
    <3>. QED  BY <1>1, <2>4, <3>1 DEF CheckSurface, Proceed
  <2>5. CASE CheckPolicy
    <3>1. ValidateRequest(policy, request) \in Answers
      BY Verdicts
    <3>. QED  BY <1>1, <2>5, <3>1 DEF CheckPolicy, Proceed
  <2>. QED  BY <2>1, <2>2, <2>3, <2>4, <2>5
<1>. QED  BY <1>3, <1>4, <1>5 DEF FrontendInv

\* The attempts send what was admitted.
LEMMA AttemptsInv ==
    ASSUME FrontendInv, status = "running", UNCHANGED <<serviceVars, healthVars>>,
           stage = "attempts",
           GiveUp \/ \E i \in 1 .. Len(Route) :
               AttemptSucceeds(i) \/ AttemptFails(i) \/ AttemptWithoutAdapter(i)
    PROVE  FrontendInv'
<1>. DEFINE P == {EncodeRequest(family, request) : family \in Adapters}
<1>1. Granted /\ WasDecoded /\ IsOffered /\ IsAllowed
  BY DEF FrontendInv, ProgressInv
<1>2. /\ UNCHANGED <<status, cfg, header, body, policy, request>>
      /\ \/ stage' = "attempts" /\ answer' = answer
         \/ stage' = "answered" /\ answer' \in {"ok", "upstream_error"}
  BY DEF GiveUp, AttemptSucceeds, AttemptFails, AttemptWithoutAdapter, Attempt, Proceed,
         serviceVars
<1>3. Granted' /\ WasDecoded' /\ IsOffered' /\ IsAllowed'
  BY <1>1, <1>2 DEF Granted, WasDecoded, IsOffered, IsAllowed
<1>4. sent \in Seq(P) /\ tried \in Nat /\ Len(sent) <= tried /\ body \in Bodies
  <2>1. CASE sent = <<>>
    BY <2>1, EmptySeq DEF FrontendInv, SentInv
  <2>2. CASE sent # <<>>
    BY <2>2 DEF FrontendInv, SentInv
  <2>. QED  BY <2>1, <2>2
<1>5. tried' \in Nat /\ sent' \in Seq(P) /\ Len(sent') <= tried'
  <2>1. CASE GiveUp
    BY <1>4, <2>1 DEF GiveUp
  <2>2. ASSUME NEW i \in 1 .. Len(Route),
               AttemptSucceeds(i) \/ AttemptFails(i) \/ AttemptWithoutAdapter(i)
        PROVE  tried' \in Nat /\ sent' \in Seq(P) /\ Len(sent') <= tried'
    <3>1. tried' = i /\ i \in tried + 1 .. Len(Route)
      BY <2>2 DEF AttemptSucceeds, AttemptFails, AttemptWithoutAdapter, Attempt
    <3>2. tried' \in Nat /\ tried + 1 <= tried'
      BY <1>4, <3>1
    <3>3. \/ sent' = sent
          \/ \E p \in P : sent' = Append(sent, p)
      BY <2>2 DEF AttemptSucceeds, AttemptFails, AttemptWithoutAdapter, Send
    <3>. HIDE DEF P
    <3>4. CASE sent' = sent
      BY <1>4, <3>2, <3>4
    <3>5. ASSUME NEW p \in P, sent' = Append(sent, p)
          PROVE  sent' \in Seq(P) /\ Len(sent') = Len(sent) + 1 /\ Len(sent) \in Nat
      BY <1>4, <3>5, AppendProperties
    <3>. QED  BY <1>4, <3>2, <3>3, <3>4, <3>5
  <2>. QED  BY <2>1, <2>2
<1>6. ServiceInv'
  BY <1>2, ServiceKept
<1>7. ProgressInv'
  BY <1>2, <1>3 DEF FrontendInv, ProgressInv, Stages, Answers
<1>8. SentInv'
  BY <1>2, <1>3, <1>4, <1>5 DEF SentInv
<1>. QED  BY <1>6, <1>7, <1>8 DEF FrontendInv

LEMMA NextInv == FrontendInv /\ [Next]_vars => FrontendInv'
<1>. SUFFICES ASSUME FrontendInv, [Next]_vars  PROVE FrontendInv'
  OBVIOUS
<1>1. CASE LoadFails \/ LoadAndNew
  BY <1>1, LoadInv
<1>2. CASE Start \/ SweepDone \/ HealthChanges
  BY <1>2, HealthInv
<1>3. CASE Requests
  <2>1. status = "running" /\ UNCHANGED <<serviceVars, healthVars>>
    BY <1>3 DEF Requests
  <2>2. CASE Receive \/ Authenticate \/ DecodeBody \/ CheckSurface \/ CheckPolicy
    BY <2>1, <2>2, AdmissionInv
  <2>3. CASE GiveUp
    BY <2>1, <2>3, AttemptsInv DEF GiveUp
  <2>4. CASE stage = "attempts" /\ \E i \in 1 .. Len(Route) :
                 AttemptSucceeds(i) \/ AttemptFails(i) \/ AttemptWithoutAdapter(i)
    BY <2>1, <2>4, AttemptsInv
  <2>. QED  BY <1>3, <2>2, <2>3, <2>4 DEF Requests, RequestStep
<1>4. CASE UNCHANGED vars
  BY <1>4, StutterInv
<1>. QED  BY <1>1, <1>2, <1>3, <1>4 DEF Next

(* Past every stage a request knows what the stages before it checked, and *)
(* a service that runs has the configuration, options and upstreams of its *)
(* file: the invariant that the theorems below rest on.                    *)
THEOREM FrontendInvariant == Spec => []FrontendInv
BY InitInv, NextInv, PTL DEF Spec

\* Neither a configuration nor a decoded request is Nothing.
LEMMA SomethingLoaded == \A f : Config(f) # Nothing
<1>. TAKE f
<1>1. "models" \in DOMAIN Config(f) /\ "models" \notin DOMAIN Nothing
  BY DEF Config, Nothing
<1>. QED  BY <1>1

LEMMA SomethingDecoded == \A b : Decode(b).request # Nothing
<1>. TAKE b
<1>1. "endpoint" \in DOMAIN DecodeChatCompletionRequest(b).request
  BY Zenon DEF DecodeChatCompletionRequest
<1>2. "endpoint" \in DOMAIN DecodeResponsesRequest(b).request
  BY Zenon DEF DecodeResponsesRequest
<1>3. "endpoint" \notin DOMAIN Nothing
  BY DEF Nothing
<1>. QED  BY <1>1, <1>2, <1>3 DEF Decode

\* No request goes on without a client, none is checked before it is decoded,
\* and a running service has the configuration and the upstreams it loaded.
THEOREM FrontendTypesHold == Spec => []FrontendTypeOK
<1>1. FrontendInv => FrontendTypeOK
  <2>. SUFFICES ASSUME FrontendInv  PROVE FrontendTypeOK
    OBVIOUS
  <2>1. RequestTypeOK
    BY SomethingDecoded DEF FrontendInv, ProgressInv, SentInv, Stages, Granted, WasDecoded,
                            RequestTypeOK
  <2>2. status # "running" <=> cfg = Nothing
    BY SomethingLoaded DEF FrontendInv, ServiceInv
  <2>. QED  BY <2>1, <2>2 DEF FrontendInv, ServiceInv, FrontendTypeOK
<1>. QED  BY <1>1, FrontendInvariant, PTL

----------------------------------------------------------------------------
(* 4. What the two families of upstreams are told, turn by turn.           *)

RoleNames     == {"system", "user", "assistant", "tool"}
ContentBlocks == [type : {"text", "image"}, value : STRING]
Turns         == [role : RoleNames, content : Seq(ContentBlocks)]
Sayings       == RoleNames \X STRING

\* What one turn adds to what is said.
SaidIn(t, roles, type) ==
    IF t.role \in roles
    THEN Gather(t.content, LAMBDA x : Only(x.type = type, <<t.role, x.value>>))
    ELSE <<>>

Speech(role, type) == [x \in ContentBlocks |-> Only(x.type = type, <<role, x.value>>)]
Voice(roles, type) == [t \in Turns |-> SaidIn(t, roles, type)]

LEMMA SpeechType ==
    ASSUME NEW role \in RoleNames, NEW type
    PROVE  Speech(role, type) \in [ContentBlocks -> Seq(Sayings)]
<1>. SUFFICES ASSUME NEW x \in ContentBlocks
     PROVE  Only(x.type = type, <<role, x.value>>) \in Seq(Sayings)
  BY DEF Speech
<1>1. (x.type = type) \in BOOLEAN /\ <<role, x.value>> \in Sayings
  BY DEF ContentBlocks, Sayings
<1>. HIDE DEF Sayings
<1>. QED  BY <1>1, OnlyType

LEMMA SaidInParts ==
    ASSUME NEW t \in Turns, NEW roles, NEW type
    PROVE  SaidIn(t, roles, type) = IF t.role \in roles
               THEN FlattenSeq(Parts(Speech(t.role, type), t.content)) ELSE <<>>
<1>1. t.content \in Seq(ContentBlocks)
  BY DEF Turns
<1>2. \A i \in DOMAIN t.content : t.content[i] \in ContentBlocks
  BY <1>1
<1>3. [i \in DOMAIN t.content |->
          Only(t.content[i].type = type, <<t.role, t.content[i].value>>)]
          = Parts(Speech(t.role, type), t.content)
  BY <1>2 DEF Parts, Speech
<1>. QED  BY <1>3 DEF SaidIn, Gather

LEMMA VoiceType ==
    ASSUME NEW roles, NEW type
    PROVE  Voice(roles, type) \in [Turns -> Seq(Sayings)]
<1>. SUFFICES ASSUME NEW t \in Turns  PROVE SaidIn(t, roles, type) \in Seq(Sayings)
  BY DEF Voice
<1>1. t.role \in RoleNames /\ t.content \in Seq(ContentBlocks)
  BY DEF Turns
<1>2. FlattenSeq(Parts(Speech(t.role, type), t.content)) \in Seq(Sayings)
  BY <1>1, SpeechType, GatherType
<1>3. SaidIn(t, roles, type) = IF t.role \in roles
          THEN FlattenSeq(Parts(Speech(t.role, type), t.content)) ELSE <<>>
  BY SaidInParts
<1>. QED  BY <1>2, <1>3, EmptySeq

\* What is said is said turn by turn.
LEMMA SaidParts ==
    ASSUME NEW p, NEW roles, NEW type, p.turns \in Seq(Turns)
    PROVE  Said(p, roles, type) = FlattenSeq(Parts(Voice(roles, type), p.turns))
<1>1. \A i \in DOMAIN p.turns : p.turns[i] \in Turns
  OBVIOUS
<1>2. Said(p, roles, type)
          = FlattenSeq([i \in DOMAIN p.turns |-> SaidIn(p.turns[i], roles, type)])
  BY DEF Said, Gather, SaidIn
<1>3. [i \in DOMAIN p.turns |-> SaidIn(p.turns[i], roles, type)]
          = Parts(Voice(roles, type), p.turns)
  BY <1>1 DEF Parts, Voice
<1>. QED  BY <1>2, <1>3

\* An OpenAI upstream is told the conversation,
LEMMA OpenAITurns == \A r : OpenAIPayload(r).turns = r.conversation
BY Zenon DEF OpenAIPayload

\* an Anthropic one that of it which is not a system's.
LEMMA AnthropicTurns ==
    ASSUME NEW r, r.conversation \in Seq(Turns), NEW roles, NEW type
    PROVE  /\ AnthropicPayload(r).turns \in Seq(Turns)
           /\ Said(AnthropicPayload(r), roles, type)
                  = FlattenSeq([i \in DOMAIN r.conversation |->
                        IF IsSystem(r.conversation[i]) THEN <<>>
                        ELSE SaidIn(r.conversation[i], roles, type)])
<1>. DEFINE conv == r.conversation
            keep == [t \in Turns |-> Only(~IsSystem(t), t)]
            q == Parts(keep, conv)
            g == Voice(roles, type)
            a == AnthropicPayload(r)
<1>1. /\ conv \in Seq(Turns) /\ DOMAIN q = DOMAIN conv
      /\ \A i \in DOMAIN conv : conv[i] \in Turns /\ q[i] = Only(~IsSystem(conv[i]), conv[i])
  BY DEF Parts
<1>2. keep \in [Turns -> Seq(Turns)]
  BY OnlyType DEF IsSystem
<1>3. g \in [Turns -> Seq(Sayings)]
  BY VoiceType
<1>4. a.turns = FlattenSeq(q)
  <2>1. a.turns = MessageTurns(conv)
    BY Zenon DEF AnthropicPayload
  <2>2. [i \in DOMAIN conv |-> Only(~IsSystem(conv[i]), conv[i])] = q
    BY <1>1 DEF Parts
  <2>. QED  BY <2>1, <2>2 DEF MessageTurns, Gather
<1>5. q \in Seq(Seq(Turns)) /\ FlattenSeq(q) \in Seq(Turns)
  <2>. HIDE DEF keep, conv
  <2>. QED  BY <1>1, <1>2, GatherSeq, FlattenType
<1>6. Said(a, roles, type) = FlattenSeq(Parts(g, FlattenSeq(q)))
  <2>. HIDE DEF a, q, g
  <2>1. a.turns \in Seq(Turns)
    BY <1>4, <1>5
  <2>. QED  BY <1>4, <2>1, SaidParts DEF g
<1>7. FlattenSeq(Parts(g, FlattenSeq(q))) = FlattenSeq(PartsOfParts(g, q))
  <2>. HIDE DEF g, q, keep, a, conv
  <2>. QED  BY <1>3, <1>5, GatherGathered
<1>8. ASSUME NEW i \in DOMAIN conv
      PROVE  FlattenSeq(Parts(g, q[i]))
                 = IF IsSystem(conv[i]) THEN <<>> ELSE SaidIn(conv[i], roles, type)
  <2>1. conv[i] \in Turns /\ (~IsSystem(conv[i])) \in BOOLEAN
    BY <1>1 DEF IsSystem
  <2>2. g[conv[i]] = SaidIn(conv[i], roles, type)
    BY <2>1 DEF Voice
  <2>. DEFINE t == conv[i]
  <2>3. t \in Turns /\ q[i] = Only(~IsSystem(t), t)
    BY <1>1
  <2>. HIDE DEF g, q, keep, a, t
  <2>4. FlattenSeq(Parts(g, <<t>>)) = g[t]
    BY <1>3, <2>3, GatherFromOne
  <2>5. FlattenSeq(Parts(g, <<>>)) = <<>>
    BY GatherEmpty
  <2>. QED  BY <2>2, <2>3, <2>4, <2>5 DEF Only, t
<1>9. PartsOfParts(g, q)
          = [i \in DOMAIN conv |-> IF IsSystem(conv[i]) THEN <<>>
                                   ELSE SaidIn(conv[i], roles, type)]
  BY <1>1, <1>8 DEF PartsOfParts
<1>. HIDE DEF q
<1>. QED  BY <1>4, <1>5, <1>6, <1>7, <1>9

\* So that both are told the same by everyone but the system,
LEMMA SameSaid ==
    ASSUME NEW r, r.conversation \in Seq(Turns), NEW roles, "system" \notin roles, NEW type,
           NEW family \in Adapters
    PROVE  Said(EncodeRequest(family, r), roles, type)
               = FlattenSeq([i \in DOMAIN r.conversation |->
                                SaidIn(r.conversation[i], roles, type)])
<1>. DEFINE conv == r.conversation
            all == [i \in DOMAIN conv |-> SaidIn(conv[i], roles, type)]
<1>1. Said(OpenAIPayload(r), roles, type) = FlattenSeq(all)
  <2>1. OpenAIPayload(r).turns = conv
    BY OpenAITurns
  <2>2. Said(OpenAIPayload(r), roles, type)
            = FlattenSeq([i \in DOMAIN OpenAIPayload(r).turns |->
                             SaidIn(OpenAIPayload(r).turns[i], roles, type)])
    BY DEF Said, Gather, SaidIn
  <2>. QED  BY <2>1, <2>2
<1>2. Said(AnthropicPayload(r), roles, type) = FlattenSeq(all)
  <2>1. \A i \in DOMAIN conv : IsSystem(conv[i]) => SaidIn(conv[i], roles, type) = <<>>
    BY DEF IsSystem, SaidIn
  <2>2. [i \in DOMAIN conv |-> IF IsSystem(conv[i]) THEN <<>>
                               ELSE SaidIn(conv[i], roles, type)] = all
    BY <2>1
  <2>. QED  BY <2>2, AnthropicTurns
<1>. QED  BY <1>1, <1>2 DEF EncodeRequest

\* and the system's turns are none of an Anthropic upstream's turns.
LEMMA NoSystemTurns ==
    ASSUME NEW r, r.conversation \in Seq(Turns), NEW type
    PROVE  Said(AnthropicPayload(r), {"system"}, type) = <<>>
<1>. DEFINE conv == r.conversation
            all == [i \in DOMAIN conv |-> IF IsSystem(conv[i]) THEN <<>>
                                          ELSE SaidIn(conv[i], {"system"}, type)]
<1>1. Said(AnthropicPayload(r), {"system"}, type) = FlattenSeq(all)
  BY AnthropicTurns
<1>2. DOMAIN all = 1..Len(conv) /\ Len(conv) \in Nat
  OBVIOUS
<1>3. \A i \in 1..Len(conv) : all[i] = <<>>
  BY <1>2 DEF IsSystem, SaidIn
<1>4. all \in Seq(Seq(Sayings))
  <2>. DEFINE Q == Seq(Sayings)
  <2>1. <<>> \in Q
    BY EmptySeq
  <2>2. all = [i \in 1..Len(conv) |-> all[i]]
    BY <1>2
  <2>. HIDE DEF Q, all, conv
  <2>3. all \in Seq(Q)
    BY <1>2, <1>3, <2>1, <2>2
  <2>. QED  BY <2>3 DEF Q
<1>. HIDE DEF all
<1>. QED  BY <1>1, <1>2, <1>3, <1>4, FlattenNothing

----------------------------------------------------------------------------
(* 5. What a body's messages become.                                       *)

\* The turn that a message becomes.
Turn(endpoint, m) ==
    [role |-> normalizeRole(m.role), content |-> Blocks(endpoint, m.content)]

LEMMA ConversationIs ==
    /\ \A b : Decode(b).request.conversation = Conversation(b)
    /\ \A b : DOMAIN Conversation(b) = DOMAIN b.messages
    /\ \A b : \A i \in DOMAIN b.messages :
           Conversation(b)[i] = Turn(b.endpoint, b.messages[i])
<1>1. ASSUME NEW b  PROVE Decode(b).request.conversation = Conversation(b)
  <2>1. DecodeChatCompletionRequest(b).request.conversation = Conversation(b)
    BY Zenon DEF DecodeChatCompletionRequest
  <2>2. DecodeResponsesRequest(b).request.conversation = Conversation(b)
    BY Zenon DEF DecodeResponsesRequest
  <2>. QED  BY <2>1, <2>2 DEF Decode
<1>2. ASSUME NEW b
      PROVE  /\ DOMAIN Conversation(b) = DOMAIN b.messages
             /\ \A i \in DOMAIN b.messages :
                    Conversation(b)[i] = Turn(b.endpoint, b.messages[i])
  BY DEF Conversation, Turn
<1>. QED  BY <1>1, <1>2

LEMMA Roles ==
    ASSUME NEW role
    PROVE  /\ normalizeRole(role) \in RoleNames
           /\ normalizeRole(role) = "system" <=> role = "system"
BY DEF normalizeRole, RoleNames

\* A sequence made element by element.
LEMMA SeqOfEach ==
    ASSUME NEW E, NEW S, NEW s \in Seq(E), NEW t, DOMAIN t = DOMAIN s,
           t = [i \in DOMAIN t |-> t[i]], \A i \in DOMAIN s : t[i] \in S
    PROVE  t \in Seq(S)
<1>1. DOMAIN s = 1..Len(s) /\ Len(s) \in Nat
  OBVIOUS
<1>2. t \in [1..Len(s) -> S]
  BY <1>1
<1>. QED  BY <1>1, <1>2

LEMMA TurnType ==
    ASSUME NEW endpoint, NEW m \in Messages
    PROVE  Turn(endpoint, m) \in Turns
<1>. DEFINE items == m.content.items
            bs == [i \in DOMAIN items |-> Block(endpoint, items[i])]
<1>1. /\ m.role \in STRING /\ m.content.text \in STRING /\ items \in Seq(ContentItems)
  BY DEF Messages
<1>2. \A i \in DOMAIN items : items[i] \in ContentItems
  <2>. HIDE DEF items
  <2>. QED  BY <1>1
<1>3. \A i \in DOMAIN items : bs[i] \in ContentBlocks
  BY <1>2 DEF Block, Text, Image, ContentItems, ContentBlocks
<1>4. bs \in Seq(ContentBlocks)
  <2>. HIDE DEF items
  <2>1. DOMAIN bs = DOMAIN items /\ bs = [i \in DOMAIN bs |-> bs[i]]
    OBVIOUS
  <2>. HIDE DEF bs
  <2>. QED  BY <1>1, <1>3, <2>1, SeqOfEach
<1>5. Blocks(endpoint, m.content) \in Seq(ContentBlocks)
  <2>1. CASE m.content.form = "text"
    <3>1. Blocks(endpoint, m.content) = <<Text(m.content.text)>>
      BY <2>1 DEF Blocks
    <3>2. Text(m.content.text) \in ContentBlocks
      BY <1>1 DEF Text, ContentBlocks
    <3>. HIDE DEF items, bs
    <3>. QED  BY <3>1, <3>2
  <2>2. CASE m.content.form = "items"
    <3>1. Blocks(endpoint, m.content) = bs
      BY <2>2 DEF Blocks
    <3>. QED  BY <1>4, <3>1
  <2>3. CASE m.content.form \notin {"text", "items"}
    <3>1. Blocks(endpoint, m.content) = <<>>
      BY <2>3 DEF Blocks
    <3>. QED  BY <3>1, EmptySeq
  <2>. QED  BY <2>1, <2>2, <2>3
<1>6. normalizeRole(m.role) \in RoleNames
  BY <1>1, Roles
<1>. QED  BY <1>5, <1>6 DEF Turn, Turns

\* What is said in a message with items is said item by item,
LEMMA ItemsSaid ==
    ASSUME NEW endpoint, NEW m \in Messages, m.content.form = "items",
           NEW roles, normalizeRole(m.role) \in roles, NEW type
    PROVE  SaidIn(Turn(endpoint, m), roles, type)
               = FlattenSeq([i \in DOMAIN m.content.items |->
                     LET x == Block(endpoint, m.content.items[i])
                     IN  Only(x.type = type, <<normalizeRole(m.role), x.value>>)])
<1>. DEFINE items == m.content.items
            t == Turn(endpoint, m)
            bs == [i \in DOMAIN items |-> Block(endpoint, items[i])]
<1>1. Blocks(endpoint, m.content) = bs
  BY DEF Blocks
<1>2. t.role = normalizeRole(m.role) /\ t.content = bs
  BY <1>1 DEF Turn
<1>. HIDE DEF t
<1>3. [i \in DOMAIN t.content |->
          Only(t.content[i].type = type, <<t.role, t.content[i].value>>)]
      = [i \in DOMAIN m.content.items |->
                     LET x == Block(endpoint, m.content.items[i])
                     IN  Only(x.type = type, <<normalizeRole(m.role), x.value>>)]
  BY <1>2
<1>4. t.role \in roles
  BY <1>2
<1>5. SaidIn(t, roles, type)
      = FlattenSeq([i \in DOMAIN t.content |->
                       Only(t.content[i].type = type, <<t.role, t.content[i].value>>)])
  BY <1>4 DEF SaidIn, Gather
<1>. QED  BY <1>3, <1>5 DEF t

\* and in a text it is the text.
LEMMA TextSaid ==
    ASSUME NEW endpoint, NEW m \in Messages, m.content.form = "text",
           NEW roles, normalizeRole(m.role) \in roles
    PROVE  /\ SaidIn(Turn(endpoint, m), roles, "text")
                  = <<<<normalizeRole(m.role), m.content.text>>>>
           /\ SaidIn(Turn(endpoint, m), roles, "image") = <<>>
<1>. DEFINE r == normalizeRole(m.role)
            t == Turn(endpoint, m)
            x == Text(m.content.text)
<1>1. t.role = r /\ t.content = <<x>>
  BY DEF Blocks, Turn
<1>2. x \in ContentBlocks /\ x.type = "text" /\ x.value = m.content.text /\ r \in RoleNames
  BY Roles DEF Messages, Text, ContentBlocks
<1>3. t \in Turns
  BY TurnType
<1>. HIDE DEF t, x
<1>4. ASSUME NEW type
      PROVE  SaidIn(t, roles, type) = Only("text" = type, <<r, x.value>>)
  <2>. DEFINE g == Speech(r, type)
  <2>1. g \in [ContentBlocks -> Seq(Sayings)]
    BY <1>2, SpeechType
  <2>2. SaidIn(t, roles, type) = FlattenSeq(Parts(g, <<x>>))
    BY <1>1, <1>3, SaidInParts
  <2>3. g[x] = Only("text" = type, <<r, x.value>>)
    BY <1>2 DEF Speech
  <2>. HIDE DEF g, r
  <2>4. FlattenSeq(Parts(g, <<x>>)) = g[x]
    BY <1>2, <2>1, GatherFromOne
  <2>. QED  BY <2>2, <2>3, <2>4
<1>5. SaidIn(t, roles, "text") = Only(TRUE, <<r, x.value>>)
  BY <1>4
<1>6. SaidIn(t, roles, "image") = Only(FALSE, <<r, x.value>>)
  BY <1>4
<1>. QED  BY <1>2, <1>5, <1>6 DEF Only, t

\* In a message without content nothing is said.
LEMMA NothingSaid ==
    ASSUME NEW endpoint, NEW m \in Messages, m.content.form = Absent, NEW roles, NEW type
    PROVE  SaidIn(Turn(endpoint, m), roles, type) = <<>>
<1>. DEFINE t == Turn(endpoint, m)
<1>1. t.content = <<>>
  BY DEF Turn, Blocks, Absent
<1>2. SaidIn(t, roles, type) = IF t.role \in roles
          THEN FlattenSeq(Parts(Speech(t.role, type), <<>>)) ELSE <<>>
  BY <1>1, TurnType, SaidInParts
<1>. HIDE DEF t
<1>. QED  BY <1>2, GatherEmpty DEF t

\* The texts of a message that is taken are those of its turn,
TextsUnder(b, m, roles) == IF normalizeRole(m.role) \in roles THEN TextsOf(b, m) ELSE <<>>

LEMMA TextsSaid ==
    ASSUME NEW b, b.endpoint \in {"chat", "responses"}, NEW m \in Messages,
           ContentTaken(b.endpoint, m), NEW roles
    PROVE  SaidIn(Turn(b.endpoint, m), roles, "text") = TextsUnder(b, m, roles)
<1>. USE DEF TextsUnder
<1>. DEFINE e == b.endpoint
            r == normalizeRole(m.role)
<1>1. CASE r \notin roles
  BY <1>1 DEF SaidIn, Turn
<1>2. CASE r \in roles /\ m.content.form = "text"
  BY <1>2, TextSaid DEF TextsOf
<1>3. CASE r \in roles /\ m.content.form = "items"
  <2>. DEFINE items == m.content.items
  <2>1. SaidIn(Turn(e, m), roles, "text")
            = FlattenSeq([i \in DOMAIN items |->
                  LET x == Block(e, items[i]) IN Only(x.type = "text", <<r, x.value>>)])
    BY <1>3, ItemsSaid
  <2>2. TextsOf(b, m) = FlattenSeq([i \in DOMAIN items |->
                            Only(items[i].type = TextType[e], <<r, items[i].text>>)])
    BY <1>3 DEF TextsOf, ItemsOf, Gather
  <2>3. ASSUME NEW i \in DOMAIN items
        PROVE  LET x == Block(e, items[i])
               IN  Only(x.type = "text", <<r, x.value>>)
                       = Only(items[i].type = TextType[e], <<r, items[i].text>>)
    BY DEF Block, Text, Image, Only
  <2>4. [i \in DOMAIN items |->
            LET x == Block(e, items[i]) IN Only(x.type = "text", <<r, x.value>>)]
        = [i \in DOMAIN items |-> Only(items[i].type = TextType[e], <<r, items[i].text>>)]
    BY <2>3
  <2>. QED  BY <1>3, <2>1, <2>2, <2>4
<1>4. CASE r \in roles /\ m.content.form = Absent
  <2>1. ItemsOf(m) = <<>> /\ m.content.form # "text"
    BY <1>4 DEF ItemsOf, Absent
  <2>2. TextsOf(b, m) = FlattenSeq(<<>>)
    BY <2>1 DEF TextsOf, Gather
  <2>. QED  BY <1>4, <2>2, NothingSaid, FlattenEmpty
<1>. QED  BY <1>1, <1>2, <1>3, <1>4 DEF ContentTaken

\* and so are its images, which are a user's.
ImagesIn(b, m) ==
    Gather(ItemsOf(m), LAMBDA x : Only(x.type = ImageType[b.endpoint], <<"user", x.image.url>>))

LEMMA ImagesSaid ==
    ASSUME NEW b, b.endpoint \in {"chat", "responses"}, NEW m \in Messages,
           ContentTaken(b.endpoint, m)
    PROVE  SaidIn(Turn(b.endpoint, m), {"user"}, "image") = ImagesIn(b, m)
<1>. DEFINE e == b.endpoint
            r == normalizeRole(m.role)
            items == m.content.items
            images == [i \in DOMAIN items |->
                          Only(items[i].type = ImageType[e], <<"user", items[i].image.url>>)]
<1>0. TextType[e] # ImageType[e]
  BY DEF TextType, ImageType
<1>1. m.content.form # "items" => ImagesIn(b, m) = <<>>
  <2>. SUFFICES ASSUME m.content.form # "items"  PROVE ImagesIn(b, m) = <<>>
    OBVIOUS
  <2>1. ItemsOf(m) = <<>>
    BY DEF ItemsOf
  <2>2. ImagesIn(b, m) = FlattenSeq(<<>>)
    BY <2>1 DEF ImagesIn, Gather
  <2>. QED  BY <2>2, FlattenEmpty
<1>2. m.content.form = "items" => ImagesIn(b, m) = FlattenSeq(images)
  BY DEF ImagesIn, ItemsOf, Gather
<1>3. items \in Seq(ContentItems)
  BY DEF Messages
<1>4. CASE m.content.form = "text"
  <2>1. CASE r \in {"user"}
    BY <1>1, <1>4, <2>1, TextSaid
  <2>2. CASE r \notin {"user"}
    BY <1>1, <1>4, <2>2 DEF SaidIn, Turn
  <2>. QED  BY <2>1, <2>2
<1>5. CASE m.content.form = "items" /\ r = "user"
  <2>1. SaidIn(Turn(e, m), {"user"}, "image")
            = FlattenSeq([i \in DOMAIN items |->
                  LET x == Block(e, items[i]) IN Only(x.type = "image", <<r, x.value>>)])
    BY <1>5, ItemsSaid
  <2>2. ASSUME NEW i \in DOMAIN items
        PROVE  LET x == Block(e, items[i])
               IN  Only(x.type = "image", <<r, x.value>>) = images[i]
    <3>1. Taken(e, m.role, items[i])
      BY <1>5 DEF ContentTaken, Absent
    <3>. QED  BY <1>0, <1>5, <3>1 DEF Taken, Block, Text, Image, Only
  <2>3. [i \in DOMAIN items |->
            LET x == Block(e, items[i]) IN Only(x.type = "image", <<r, x.value>>)]
        = images
    BY <2>2
  <2>. QED  BY <1>2, <1>5, <2>1, <2>3
<1>6. CASE m.content.form = "items" /\ r # "user"
  <2>1. SaidIn(Turn(e, m), {"user"}, "image") = <<>>
    BY <1>6 DEF SaidIn, Turn
  <2>2. ASSUME NEW i \in DOMAIN items  PROVE images[i] = <<>>
    <3>1. Taken(e, m.role, items[i])
      BY <1>6 DEF ContentTaken, Absent
    <3>2. items[i].type # ImageType[e]
      BY <1>0, <1>6, <3>1 DEF Taken
    <3>. QED  BY <3>2 DEF Only
  <2>3. images \in Seq(Seq(Sayings))
    <3>. DEFINE Q == Seq(Sayings)
    <3>1. \A i \in DOMAIN items : images[i] \in Q
      BY <2>2, EmptySeq
    <3>2. DOMAIN images = DOMAIN items /\ images = [i \in DOMAIN images |-> images[i]]
      OBVIOUS
    <3>. HIDE DEF Q, images, items
    <3>3. images \in Seq(Q)
      BY <1>3, <3>1, <3>2, SeqOfEach
    <3>. QED  BY <3>3 DEF Q
  <2>4. DOMAIN images = DOMAIN items
    OBVIOUS
  <2>. HIDE DEF images
  <2>5. FlattenSeq(images) = <<>>
    BY <2>2, <2>3, <2>4, FlattenNothing
  <2>. QED  BY <1>2, <1>6, <2>1, <2>5
<1>7. CASE m.content.form = Absent
  BY <1>1, <1>7, NothingSaid DEF Absent
<1>. QED  BY <1>4, <1>5, <1>6, <1>7 DEF ContentTaken

----------------------------------------------------------------------------
(* 6. What reaches an upstream of what the body says.                      *)

\* A body that was sent was decoded whole, to turns.
LEMMA SentBody ==
    ASSUME FrontendInv, sent # <<>>
    PROVE  /\ body \in Bodies /\ body.endpoint \in {"chat", "responses"}
           /\ body.messages \in Seq(Messages)
           /\ DOMAIN request.conversation = DOMAIN body.messages
           /\ request.conversation \in Seq(Turns)
           /\ \A i \in DOMAIN body.messages :
                  /\ body.messages[i] \in Messages
                  /\ ContentTaken(body.endpoint, body.messages[i])
                  /\ request.conversation[i] = Turn(body.endpoint, body.messages[i])
<1>1. body \in Bodies /\ WasDecoded
  BY DEF FrontendInv, SentInv
<1>2. /\ body.endpoint \in {"chat", "responses"} /\ body.messages \in Seq(Messages)
      /\ body \in Bodies
  BY <1>1 DEF Bodies
<1>3. request.conversation = Conversation(body)
  BY <1>1, ConversationIs DEF WasDecoded
<1>4. /\ DOMAIN Conversation(body) = DOMAIN body.messages
      /\ \A i \in DOMAIN body.messages :
             Conversation(body)[i] = Turn(body.endpoint, body.messages[i])
  BY ConversationIs
<1>5. \A i \in DOMAIN body.messages : body.messages[i] \in Messages
  BY <1>2
<1>6. \A i \in DOMAIN body.messages : ContentTaken(body.endpoint, body.messages[i])
  BY <1>1, DecodeErrors DEF WasDecoded
<1>7. \A i \in DOMAIN body.messages : Conversation(body)[i] \in Turns
  BY <1>4, <1>5, TurnType
<1>8. Conversation(body) = [i \in DOMAIN Conversation(body) |-> Conversation(body)[i]]
  BY DEF Conversation
<1>. DEFINE conv == Conversation(body)
<1>9. conv \in Seq(Turns)
  <2>. HIDE DEF conv
  <2>. QED  BY <1>2, <1>4, <1>7, <1>8, SeqOfEach DEF conv
<1>. HIDE DEF conv
<1>. QED  BY <1>2, <1>3, <1>4, <1>5, <1>6, <1>9 DEF conv

\* A payload is an encoding of the request.
LEMMA PayloadIs ==
    ASSUME FrontendInv, NEW p \in Payloads
    PROVE  sent # <<>> /\ \E family \in Adapters : p = EncodeRequest(family, request)
<1>1. PICK i \in DOMAIN sent : p = sent[i]
  BY DEF Payloads, ToSet
<1>2. sent # <<>>
  BY <1>1
<1>3. sent \in Seq({EncodeRequest(family, request) : family \in Adapters})
  BY <1>2 DEF FrontendInv, SentInv
<1>4. sent[i] \in {EncodeRequest(family, request) : family \in Adapters}
  BY <1>3
<1>. QED  BY <1>1, <1>2, <1>4

\* Every image of the body, in order and as the user's, and no other.
LEMMA ImagesArrive ==
    ASSUME FrontendInv, sent # <<>>, NEW family \in Adapters
    PROVE  Said(EncodeRequest(family, request), {"user"}, "image") = ImagesOf(body)
<1>. DEFINE conv == request.conversation
            messages == body.messages
<1>1. [i \in DOMAIN conv |-> SaidIn(conv[i], {"user"}, "image")]
          = [i \in DOMAIN messages |-> ImagesIn(body, messages[i])]
  BY SentBody, ImagesSaid
<1>2. Said(EncodeRequest(family, request), {"user"}, "image")
          = FlattenSeq([i \in DOMAIN conv |-> SaidIn(conv[i], {"user"}, "image")])
  BY SentBody, SameSaid
<1>3. ImagesOf(body) = FlattenSeq([i \in DOMAIN messages |-> ImagesIn(body, messages[i])])
  BY DEF ImagesOf, ImagesIn, Gather
<1>. QED  BY <1>1, <1>2, <1>3

\* Every text of every speaker, in order, and the system's in order.
LEMMA TextsArrive ==
    ASSUME FrontendInv, sent # <<>>, NEW family \in Adapters
    PROVE  Said(EncodeRequest(family, request), Speakers, "text") = SpokenIn(body)
<1>. DEFINE conv == request.conversation
            messages == body.messages
<1>1. ASSUME NEW i \in DOMAIN messages
      PROVE  SaidIn(conv[i], Speakers, "text")
                 = IF messages[i].role # "system" THEN TextsOf(body, messages[i]) ELSE <<>>
  <2>. DEFINE m == messages[i]
  <2>0. /\ body.endpoint \in {"chat", "responses"} /\ m \in Messages
        /\ ContentTaken(body.endpoint, m) /\ conv[i] = Turn(body.endpoint, m)
    BY SentBody
  <2>. HIDE DEF m, conv
  <2>1. SaidIn(Turn(body.endpoint, m), Speakers, "text")
            = TextsUnder(body, m, Speakers)
    BY <2>0, TextsSaid
  <2>2. normalizeRole(m.role) \in Speakers <=> m.role # "system"
    BY Roles DEF RoleNames, Speakers
  <2>. QED  BY <2>0, <2>1, <2>2 DEF m, TextsUnder
<1>2. [i \in DOMAIN conv |-> SaidIn(conv[i], Speakers, "text")]
      = [i \in DOMAIN messages |->
            IF messages[i].role # "system" THEN TextsOf(body, messages[i]) ELSE <<>>]
  BY <1>1, SentBody
<1>3. Said(EncodeRequest(family, request), Speakers, "text")
          = FlattenSeq([i \in DOMAIN conv |-> SaidIn(conv[i], Speakers, "text")])
  BY SentBody, SameSaid DEF Speakers
<1>4. SpokenIn(body) = FlattenSeq([i \in DOMAIN messages |->
            IF messages[i].role # "system" THEN TextsOf(body, messages[i]) ELSE <<>>])
  BY DEF SpokenIn, Gather
<1>. QED  BY <1>2, <1>3, <1>4

\* The images of a message that is taken are a user's and remote.
LEMMA ImagesAreRemote ==
    ASSUME NEW b, b.endpoint \in {"chat", "responses"}, NEW m \in Messages,
           ContentTaken(b.endpoint, m)
    PROVE  ImagesIn(b, m) \in Seq({"user"} \X RemoteURLs)
<1>. DEFINE R == {"user"} \X RemoteURLs
            items == ItemsOf(m)
            images == [i \in DOMAIN items |->
                Only(items[i].type = ImageType[b.endpoint], <<"user", items[i].image.url>>)]
<1>1. items \in Seq(ContentItems)
  BY EmptySeq DEF ItemsOf, Messages
<1>2. ASSUME NEW i \in DOMAIN items  PROVE images[i] \in Seq(R)
  <2>1. m.content.form = "items" /\ items = m.content.items
    BY DEF ItemsOf
  <2>2. Taken(b.endpoint, m.role, items[i])
    BY <2>1 DEF ContentTaken, Absent
  <2>3. TextType[b.endpoint] # ImageType[b.endpoint]
    BY DEF TextType, ImageType
  <2>4. CASE items[i].type = ImageType[b.endpoint]
    <3>1. <<"user", items[i].image.url>> \in R
      BY <2>2, <2>3, <2>4 DEF Taken
    <3>2. images[i] = <<<<"user", items[i].image.url>>>>
      BY <2>4 DEF Only
    <3>. HIDE DEF R, images
    <3>. QED  BY <3>1, <3>2
  <2>5. CASE items[i].type # ImageType[b.endpoint]
    BY <2>5, EmptySeq DEF Only
  <2>. QED  BY <2>4, <2>5
<1>3. images \in Seq(Seq(R))
  <2>. DEFINE Q == Seq(R)
  <2>1. DOMAIN images = DOMAIN items /\ images = [i \in DOMAIN images |-> images[i]]
    OBVIOUS
  <2>2. \A i \in DOMAIN items : images[i] \in Q
    BY <1>2
  <2>. HIDE DEF Q, images, items
  <2>3. images \in Seq(Q)
    BY <1>1, <2>1, <2>2, SeqOfEach
  <2>. QED  BY <2>3 DEF Q
<1>4. ImagesIn(b, m) = FlattenSeq(images)
  BY DEF ImagesIn, Gather
<1>. HIDE DEF images, R
<1>5. FlattenSeq(images) \in Seq(R)
  BY <1>3, FlattenType
<1>. QED  BY <1>4, <1>5 DEF R

\* Every image of a body reaches every upstream asked, in order, as a user's
\* and with a remote URL.
THEOREM EveryImageArrives == Spec => []ImagesReachEveryUpstream
<1>. DEFINE R == {"user"} \X RemoteURLs
<1>1. ASSUME FrontendInv, sent # <<>>  PROVE ToSet(ImagesOf(body)) \subseteq R
  <2>. DEFINE messages == body.messages
              q == [i \in DOMAIN messages |-> ImagesIn(body, messages[i])]
  <2>1. \A i \in DOMAIN messages : q[i] \in Seq(R)
    BY <1>1, SentBody, ImagesAreRemote
  <2>2. messages \in Seq(Messages)
    BY <1>1, SentBody
  <2>3. q \in Seq(Seq(R))
    <3>. DEFINE Q == Seq(R)
    <3>1. DOMAIN q = DOMAIN messages /\ q = [i \in DOMAIN q |-> q[i]]
      OBVIOUS
    <3>2. \A i \in DOMAIN messages : q[i] \in Q
      BY <2>1
    <3>. HIDE DEF Q, q, messages
    <3>3. q \in Seq(Q)
      BY <2>2, <3>1, <3>2, SeqOfEach
    <3>. QED  BY <3>3 DEF Q
  <2>4. ImagesOf(body) = FlattenSeq(q)
    BY DEF ImagesOf, ImagesIn, Gather
  <2>. HIDE DEF q, R
  <2>5. ImagesOf(body) \in Seq(R)
    BY <2>3, <2>4, FlattenType
  <2>. QED  BY <2>5 DEF ToSet
<1>2. FrontendInv => ImagesReachEveryUpstream
  <2>. SUFFICES ASSUME FrontendInv, NEW p \in Payloads
       PROVE  /\ Said(p, {"user"}, "image") = ImagesOf(body)
              /\ ToSet(ImagesOf(body)) \subseteq R
    BY DEF ImagesReachEveryUpstream
  <2>1. PICK family \in Adapters : p = EncodeRequest(family, request)
    BY PayloadIs
  <2>2. sent # <<>>
    BY PayloadIs
  <2>. QED  BY <1>1, <2>1, <2>2, ImagesArrive
<1>. QED  BY <1>2, FrontendInvariant, PTL

\* The system's words, as pairs and as texts.
SystemSayings == {"system"} \X STRING
Second        == [x \in SystemSayings |-> <<x[2]>>]

LEMMA SecondType == Second \in [SystemSayings -> Seq(STRING)]
<1>. SUFFICES ASSUME NEW x \in SystemSayings  PROVE <<x[2]>> \in Seq(STRING)
  BY DEF Second
<1>1. x[2] \in STRING
  BY DEF SystemSayings
<1>. QED  BY <1>1

\* The text blocks of a system turn are what it says.
LEMMA SystemTurn ==
    ASSUME NEW t \in Turns, t.role = "system"
    PROVE  /\ SaidIn(t, {"system"}, "text") \in Seq(SystemSayings)
           /\ TextBlocks(t) = FlattenSeq(Parts(Second, SaidIn(t, {"system"}, "text")))
<1>. DEFINE c == t.content
            g == Speech("system", "text")
            q == Parts(g, c)
<1>1. c \in Seq(ContentBlocks) /\ \A i \in DOMAIN c : c[i] \in ContentBlocks
  BY DEF Turns
<1>2. g \in [ContentBlocks -> Seq(SystemSayings)]
  <2>. SUFFICES ASSUME NEW x \in ContentBlocks
       PROVE  Only(x.type = "text", <<"system", x.value>>) \in Seq(SystemSayings)
    BY DEF Speech
  <2>1. (x.type = "text") \in BOOLEAN /\ <<"system", x.value>> \in SystemSayings
    BY DEF ContentBlocks, SystemSayings
  <2>. HIDE DEF SystemSayings
  <2>. QED  BY <2>1, OnlyType
<1>3. SaidIn(t, {"system"}, "text") = FlattenSeq(q)
  BY SaidInParts
<1>4. q \in Seq(Seq(SystemSayings)) /\ FlattenSeq(q) \in Seq(SystemSayings)
  <2>. HIDE DEF g, c
  <2>. QED  BY <1>1, <1>2, GatherSeq, FlattenType
<1>5. /\ DOMAIN q = DOMAIN c
      /\ \A i \in DOMAIN c : q[i] = Only(c[i].type = "text", <<"system", c[i].value>>)
  BY <1>1 DEF Parts, Speech
<1>6. FlattenSeq(Parts(Second, FlattenSeq(q))) = FlattenSeq(PartsOfParts(Second, q))
  <2>. HIDE DEF q, g, c
  <2>. QED  BY <1>4, SecondType, GatherGathered
<1>7. ASSUME NEW i \in DOMAIN c
      PROVE  FlattenSeq(Parts(Second, q[i])) = Only(c[i].type = "text", c[i].value)
  <2>. DEFINE x == <<"system", c[i].value>>
  <2>1. x \in SystemSayings /\ x[2] = c[i].value
    BY <1>1 DEF ContentBlocks, SystemSayings
  <2>2. Second[x] = <<c[i].value>>
    BY <2>1 DEF Second
  <2>3. q[i] = Only(c[i].type = "text", x)
    BY <1>5
  <2>. HIDE DEF x, q, c, g
  <2>4. FlattenSeq(Parts(Second, <<x>>)) = Second[x]
    BY <2>1, SecondType, GatherFromOne
  <2>5. FlattenSeq(Parts(Second, <<>>)) = <<>>
    BY GatherEmpty
  <2>. QED  BY <2>2, <2>3, <2>4, <2>5 DEF Only
<1>8. PartsOfParts(Second, q) = [i \in DOMAIN c |-> Only(c[i].type = "text", c[i].value)]
  BY <1>5, <1>7 DEF PartsOfParts
<1>9. TextBlocks(t) = FlattenSeq([i \in DOMAIN c |-> Only(c[i].type = "text", c[i].value)])
  BY DEF TextBlocks, Gather
<1>. HIDE DEF q, c
<1>. QED  BY <1>3, <1>4, <1>6, <1>8, <1>9

\* What each turn of a conversation says as the system.
SystemParts(conv) == [i \in DOMAIN conv |-> SaidIn(conv[i], {"system"}, "text")]

LEMMA SystemPartsType ==
    ASSUME NEW conv \in Seq(Turns)
    PROVE  SystemParts(conv) \in Seq(Seq(SystemSayings))
<1>. DEFINE Q == Seq(SystemSayings)
            q == SystemParts(conv)
<1>1. \A i \in DOMAIN conv : q[i] \in Q
  <2>. SUFFICES ASSUME NEW i \in DOMAIN conv  PROVE SaidIn(conv[i], {"system"}, "text") \in Q
    BY DEF SystemParts
  <2>1. conv[i] \in Turns
    OBVIOUS
  <2>2. CASE conv[i].role = "system"
    BY <2>1, <2>2, SystemTurn
  <2>3. CASE conv[i].role # "system"
    BY <2>3, EmptySeq DEF SaidIn
  <2>. QED  BY <2>2, <2>3
<1>2. DOMAIN q = DOMAIN conv /\ q = [i \in DOMAIN q |-> q[i]]
  BY DEF SystemParts
<1>. HIDE DEF Q, q
<1>3. q \in Seq(Q)
  BY <1>1, <1>2, SeqOfEach
<1>. QED  BY <1>3 DEF Q, q

\* The texts AnthropicPayload overwrites its system field with, in turn.
SystemTexts(conv) ==
    Gather(conv, LAMBDA t : Only(IsSystem(t) /\ TextBlocks(t) # <<>>, TextBlocks(t)[1]))

LEMMA SecondOfOne ==
    ASSUME NEW said \in SystemSayings
    PROVE  FlattenSeq(Parts(Second, <<said>>)) = <<said[2]>>
<1>1. Second[said] = <<said[2]>>
  BY DEF Second
<1>. DEFINE N == STRING
<1>2. Second \in [SystemSayings -> Seq(N)]
  BY SecondType
<1>. HIDE DEF N
<1>3. FlattenSeq(Parts(Second, <<said>>)) = Second[said]
  BY <1>2, GatherFromOne
<1>. QED  BY <1>1, <1>3

\* A sequence of one element.
LEMMA OfOne ==
    ASSUME NEW S, NEW s \in Seq(S), Len(s) = 1
    PROVE  s = <<s[1]>>
OBVIOUS

\* When the system says one thing, wherever it does, that is the one of them.
LEMMA OneSystemText ==
    ASSUME NEW conv \in Seq(Turns), NEW x, FlattenSeq(SystemParts(conv)) = <<x>>
    PROVE  x \in SystemSayings /\ SystemTexts(conv) = <<x[2]>>
<1>. DEFINE q == SystemParts(conv)
            all == FlattenSeq(q)
<1>1. /\ DOMAIN q = DOMAIN conv
      /\ \A i \in DOMAIN conv :
             conv[i] \in Turns /\ q[i] = SaidIn(conv[i], {"system"}, "text")
  BY DEF SystemParts
<1>2. q \in Seq(Seq(SystemSayings)) /\ all \in Seq(SystemSayings) /\ all = <<x>>
  <2>1. q \in Seq(Seq(SystemSayings))
    BY SystemPartsType
  <2>. HIDE DEF q
  <2>. QED  BY <2>1, FlattenType DEF q
<1>3. x \in SystemSayings
  <2>. HIDE DEF all
  <2>. QED  BY <1>2
<1>4. FlattenSeq(Parts(Second, all)) = <<x[2]>>
  <2>1. Second[x] = <<x[2]>>
    BY <1>3 DEF Second
  <2>. HIDE DEF all
  <2>. QED  BY <1>2, <1>3, <2>1, SecondType, GatherFromOne
<1>5. FlattenSeq(Parts(Second, all)) = FlattenSeq(PartsOfParts(Second, q))
  <2>. HIDE DEF q
  <2>. QED  BY <1>2, SecondType, GatherGathered
<1>6. \A i \in DOMAIN conv : Len(q[i]) <= 1
  <2>1. Len(all) = 1
    BY <1>2
  <2>. HIDE DEF q
  <2>2. \A i \in DOMAIN q : Len(q[i]) <= Len(FlattenSeq(q))
    BY <1>2, FlattenLengths
  <2>. QED  BY <1>1, <2>1, <2>2
<1>7. ASSUME NEW i \in DOMAIN conv
      PROVE  FlattenSeq(Parts(Second, q[i]))
                 = Only(IsSystem(conv[i]) /\ TextBlocks(conv[i]) # <<>>, TextBlocks(conv[i])[1])
  <2>. DEFINE t == conv[i]
              s == q[i]
  <2>1. t \in Turns /\ s = SaidIn(t, {"system"}, "text") /\ Len(s) <= 1
    BY <1>1, <1>6
  <2>. HIDE DEF t, s, q, all
  <2>2. CASE t.role # "system"
    <3>1. s = <<>>
      BY <2>1, <2>2 DEF SaidIn
    <3>2. FlattenSeq(Parts(Second, s)) = <<>>
      BY <3>1, GatherEmpty
    <3>. QED  BY <2>2, <3>2 DEF IsSystem, Only, t, s
  <2>3. CASE t.role = "system"
    <3>1. s \in Seq(SystemSayings) /\ TextBlocks(t) = FlattenSeq(Parts(Second, s))
      BY <2>1, <2>3, SystemTurn
    <3>2. CASE s = <<>>
      <4>1. TextBlocks(t) = <<>>
        BY <3>1, <3>2, GatherEmpty
      <4>. QED  BY <3>1, <4>1 DEF Only, t, s
    <3>3. CASE s # <<>>
      <4>1. Len(s) = 1 /\ s[1] \in SystemSayings
        BY <2>1, <3>1, <3>3
      <4>2. s = <<s[1]>>
        BY <3>1, <4>1, OfOne
      <4>3. FlattenSeq(Parts(Second, <<s[1]>>)) = <<s[1][2]>>
        BY <4>1, SecondOfOne
      <4>. DEFINE v == s[1][2]
      <4>5. TextBlocks(t) = <<v>>
        BY <3>1, <4>2, <4>3
      <4>. HIDE DEF v
      <4>6. TextBlocks(t) # <<>> /\ TextBlocks(t)[1] = v
        BY <4>5
      <4>. QED  BY <2>3, <3>1, <4>5, <4>6 DEF IsSystem, Only, t, s
    <3>. QED  BY <3>2, <3>3
  <2>. QED  BY <2>2, <2>3
<1>8. PartsOfParts(Second, q)
      = [i \in DOMAIN conv |->
            Only(IsSystem(conv[i]) /\ TextBlocks(conv[i]) # <<>>, TextBlocks(conv[i])[1])]
  BY <1>1, <1>7 DEF PartsOfParts
<1>9. SystemTexts(conv) = FlattenSeq(PartsOfParts(Second, q))
  BY <1>8 DEF SystemTexts, Gather
<1>. HIDE DEF all, q
<1>. QED  BY <1>3, <1>4, <1>5, <1>9

\* The system's words of a body are those of its turns.
LEMMA SystemIs ==
    ASSUME FrontendInv, sent # <<>>
    PROVE  SystemIn(body) = FlattenSeq(SystemParts(request.conversation))
<1>. DEFINE conv == request.conversation
            messages == body.messages
<1>1. ASSUME NEW i \in DOMAIN messages
      PROVE  SaidIn(conv[i], {"system"}, "text")
                 = IF messages[i].role = "system" THEN TextsOf(body, messages[i]) ELSE <<>>
  <2>. DEFINE m == messages[i]
  <2>1. /\ body.endpoint \in {"chat", "responses"} /\ m \in Messages
        /\ ContentTaken(body.endpoint, m) /\ conv[i] = Turn(body.endpoint, m)
    BY SentBody
  <2>. HIDE DEF m, conv
  <2>2. SaidIn(Turn(body.endpoint, m), {"system"}, "text") = TextsUnder(body, m, {"system"})
    BY <2>1, TextsSaid
  <2>3. normalizeRole(m.role) \in {"system"} <=> m.role = "system"
    BY Roles
  <2>. QED  BY <2>1, <2>2, <2>3 DEF m, TextsUnder
<1>2. SystemParts(conv) = [i \in DOMAIN messages |->
          IF messages[i].role = "system" THEN TextsOf(body, messages[i]) ELSE <<>>]
  BY <1>1, SentBody DEF SystemParts
<1>. QED  BY <1>2 DEF SystemIn, Gather

\* One text of the system reaches either family, if it is not empty.
LEMMA SystemArrives ==
    ASSUME FrontendInv, sent # <<>>, NEW family \in Adapters, Len(SystemIn(body)) = 1
    PROVE  LET p == EncodeRequest(family, request)
           IN  \/ SystemTold(p) = SystemIn(body)
               \/ p.family = "anthropic" /\ SystemIn(body)[1][2] = ""
<1>. DEFINE conv == request.conversation
            all == SystemIn(body)
            o == OpenAIPayload(request)
            a == AnthropicPayload(request)
<1>1. /\ conv \in Seq(Turns) /\ SystemParts(conv) \in Seq(Seq(SystemSayings))
      /\ all = FlattenSeq(SystemParts(conv)) /\ all \in Seq(SystemSayings)
  BY SentBody, SystemPartsType, SystemIs, FlattenType
<1>2. SystemTold(o) = all
  <2>1. Said(o, {"system"}, "text") = all
    <3>1. o.turns = conv
      BY OpenAITurns
    <3>2. Said(o, {"system"}, "text") = FlattenSeq([i \in DOMAIN o.turns |->
                                            SaidIn(o.turns[i], {"system"}, "text")])
      BY DEF Said, Gather, SaidIn
    <3>. QED  BY <1>1, <3>1, <3>2 DEF SystemParts
  <2>2. Only(o.system # "", <<"system", o.system>>) = <<>>
    BY Zenon DEF Only, OpenAIPayload
  <2>3. SystemTold(o) =
            Said(o, {"system"}, "text") \o Only(o.system # "", <<"system", o.system>>)
    BY Zenon DEF SystemTold
  <2>4. all \o <<>> = all
    <3>. HIDE DEF all
    <3>. QED  BY <1>1, AddNone
  <2>. QED  BY <2>1, <2>2, <2>3, <2>4, Zenon
<1>. DEFINE x == all[1]
<1>3. all = <<x>> /\ x \in SystemSayings
  <2>. HIDE DEF all
  <2>1. Len(all) = 1 /\ all \in Seq(SystemSayings)
    BY <1>1 DEF all
  <2>. QED  BY <2>1
<1>4. SystemTexts(conv) = <<x[2]>> /\ x = <<"system", x[2]>>
  <2>1. x = <<"system", x[2]>>
    BY <1>3 DEF SystemSayings
  <2>. HIDE DEF all, x
  <2>. QED  BY <1>1, <1>3, <2>1, OneSystemText
<1>5. a.system = x[2]
  <2>1. a.system = IF SystemTexts(conv) = <<>> THEN "" ELSE Last(SystemTexts(conv))
    BY Zenon DEF AnthropicPayload, SystemText, SystemTexts
  <2>2. SystemTexts(conv) # <<>> /\ Last(SystemTexts(conv)) = x[2]
    <3>. DEFINE v == x[2]
    <3>. HIDE DEF v
    <3>1. <<v>> # <<>> /\ Last(<<v>>) = v
      BY DEF Last
    <3>. QED  BY <1>4, <3>1 DEF v
  <2>. HIDE DEF x, a, conv
  <2>. QED  BY <2>1, <2>2, Zenon
<1>6. Said(a, {"system"}, "text") = <<>>
  BY <1>1, NoSystemTurns
<1>7. a.family = "anthropic"
  BY Zenon DEF AnthropicPayload
<1>8. a.system # "" => SystemTold(a) = all
  <2>. SUFFICES ASSUME a.system # ""  PROVE SystemTold(a) = all
    OBVIOUS
  <2>. HIDE DEF a, x, all
  <2>1. Only(a.system # "", <<"system", a.system>>) = <<<<"system", a.system>>>>
    BY Zenon DEF Only
  <2>2. SystemTold(a) =
            Said(a, {"system"}, "text") \o Only(a.system # "", <<"system", a.system>>)
    BY Zenon DEF SystemTold
  <2>3. SystemTold(a) = <<>> \o <<<<"system", a.system>>>>
    BY <1>6, <2>1, <2>2, Zenon
  <2>4. <<>> \o <<<<"system", a.system>>>> = <<<<"system", a.system>>>>
    BY Concats, Zenon
  <2>. QED  BY <1>3, <1>4, <1>5, <2>3, <2>4, Zenon
<1>. HIDE DEF x, all, a, o
<1>9. CASE family = "openai"
  BY <1>2, <1>9, Zenon DEF EncodeRequest, o, all
<1>10. CASE family # "openai"
  <2>1. EncodeRequest(family, request) = a
    BY <1>10 DEF EncodeRequest, a
  <2>2. SystemTold(a) = all \/ all[1][2] = ""
    BY <1>5, <1>8, Zenon DEF x
  <2>. QED  BY <1>7, <2>1, <2>2, Zenon DEF all
<1>. QED  BY <1>9, <1>10, Zenon

\* What user, assistant and tool said reaches every upstream in its order and
\* under its role, and so does the one text of the system.
THEOREM ConversationIsAlwaysKept == Spec => []ConversationIsKept
<1>1. FrontendInv => ConversationIsKept
  <2>1. ASSUME FrontendInv, NEW p \in Payloads
        PROVE  /\ Said(p, Speakers, "text") = SpokenIn(body)
               /\ \/ Len(SystemIn(body)) # 1
                  \/ SystemTold(p) = SystemIn(body)
                  \/ p.family = "anthropic" /\ SystemIn(body)[1][2] = ""
    <3>1. PICK family \in Adapters : p = EncodeRequest(family, request)
      BY <2>1, PayloadIs
    <3>2. sent # <<>>
      BY <2>1, PayloadIs
    <3>3. Said(p, Speakers, "text") = SpokenIn(body)
      BY <2>1, <3>1, <3>2, TextsArrive
    <3>4. \/ Len(SystemIn(body)) # 1
          \/ SystemTold(p) = SystemIn(body)
          \/ p.family = "anthropic" /\ SystemIn(body)[1][2] = ""
      BY <2>1, <3>1, <3>2, SystemArrives, Zenon
    <3>. QED  BY <3>3, <3>4, Zenon
  <2>. QED  BY <2>1, Zenon DEF ConversationIsKept
<1>. QED  BY <1>1, FrontendInvariant, PTL

----------------------------------------------------------------------------
(* 7. What the client's key grants.                                        *)

\* Which client key a policy that is known was made from.
LEMMA KeyOfPolicy ==
    ASSUME NEW keys, NEW n \in Nat, DOMAIN keys = 1..n, NEW token,
           ResolveBearer(keys, token).known
    PROVE  \E i \in DOMAIN keys :
               /\ keys[i].active
               /\ keys[i].secret = token
               /\ ResolveBearer(keys, token) =
                     [ known           |-> TRUE,
                       patterns        |-> keys[i].patterns,
                       allowStreaming  |-> keys[i].allowStreaming,
                       allowTools      |-> keys[i].allowTools,
                       allowVision     |-> keys[i].allowVision,
                       allowStructured |-> keys[i].allowStructured ]
<1>. DEFINE T == ResolvingKeys(keys, token)
            i == Max(T)
<1>1. T \subseteq DOMAIN keys /\ \A k \in T : keys[k].active /\ keys[k].secret = token
  BY Zenon DEF ResolvingKeys
<1>2. T # {}
  BY Verdicts DEF ResolveBearer
<1>3. i \in T
  <2>1. T \in SUBSET (1..n)
    BY <1>1
  <2>. HIDE DEF T
  <2>. QED  BY <1>2, <2>1, GreatestIndex
<1>4. ResolveBearer(keys, token) =
          [ known           |-> TRUE,
            patterns        |-> keys[i].patterns,
            allowStreaming  |-> keys[i].allowStreaming,
            allowTools      |-> keys[i].allowTools,
            allowVision     |-> keys[i].allowVision,
            allowStructured |-> keys[i].allowStructured ]
  BY <1>2 DEF ResolveBearer
<1>. HIDE DEF T, i
<1>. QED  BY <1>1, <1>3, <1>4

\* Without an image in its blocks a turn says none,
LEMMA NoImageInTurn ==
    ASSUME NEW t \in Turns, \A b \in ToSet(t.content) : ~IsImage(b), NEW roles
    PROVE  SaidIn(t, roles, "image") = <<>>
<1>. DEFINE c == t.content
            g == Speech(t.role, "image")
            q == Parts(g, c)
<1>1. t.role \in RoleNames /\ c \in Seq(ContentBlocks)
  BY DEF Turns
<1>2. q \in Seq(Seq(Sayings))
  BY <1>1, SpeechType, GatherSeq
<1>3. \A i \in DOMAIN q : q[i] = <<>>
  <2>. SUFFICES ASSUME NEW i \in DOMAIN c  PROVE g[c[i]] = <<>>
    BY DEF Parts
  <2>1. c[i] \in ContentBlocks /\ c[i].type # "image"
    BY <1>1 DEF ToSet, IsImage
  <2>. QED  BY <2>1 DEF Speech, Only
<1>4. SaidIn(t, roles, "image") = IF t.role \in roles THEN FlattenSeq(q) ELSE <<>>
  BY SaidInParts
<1>. HIDE DEF q
<1>5. FlattenSeq(q) = <<>>
  BY <1>2, <1>3, FlattenNothing
<1>. QED  BY <1>4, <1>5

\* and a request that needs no vision says none to anyone.
LEMMA NoImageSaid ==
    ASSUME NEW r, r.conversation \in Seq(Turns), ~requiresVision(r), NEW family \in Adapters
    PROVE  Said(EncodeRequest(family, r), {"user"}, "image") = <<>>
<1>. DEFINE conv == r.conversation
            q == [i \in DOMAIN conv |-> SaidIn(conv[i], {"user"}, "image")]
<1>1. \A i \in DOMAIN conv : q[i] = <<>>
  <2>. SUFFICES ASSUME NEW i \in DOMAIN conv
       PROVE  SaidIn(conv[i], {"user"}, "image") = <<>>
    OBVIOUS
  <2>1. conv[i] \in Turns /\ conv[i] \in ToSet(conv)
    BY DEF ToSet
  <2>2. \A b \in ToSet(conv[i].content) : ~IsImage(b)
    BY <2>1 DEF requiresVision
  <2>. QED  BY <2>1, <2>2, NoImageInTurn
<1>2. q \in Seq(Seq(Sayings))
  <2>. DEFINE Q == Seq(Sayings)
  <2>1. DOMAIN q = DOMAIN conv /\ q = [i \in DOMAIN q |-> q[i]] /\ conv \in Seq(Turns)
    OBVIOUS
  <2>2. \A i \in DOMAIN conv : q[i] \in Q
    BY <1>1, EmptySeq
  <2>. HIDE DEF Q, q, conv
  <2>3. q \in Seq(Q)
    BY <2>1, <2>2, SeqOfEach
  <2>. QED  BY <2>3 DEF Q
<1>3. Said(EncodeRequest(family, r), {"user"}, "image") = FlattenSeq(q)
  BY SameSaid
<1>4. DOMAIN q = DOMAIN conv
  OBVIOUS
<1>. HIDE DEF q
<1>. QED  BY <1>1, <1>2, <1>3, <1>4, FlattenNothing

\* What an upstream is told of the request beside its conversation.
LEMMA PayloadFields ==
    ASSUME NEW family \in Adapters, NEW r
    PROVE  LET p == EncodeRequest(family, r)
           IN  /\ p.model = r.publicModel
               /\ (p.tools # r.tools => r.endpoint = "responses" /\ p.tools = <<>>)
               /\ (r.endpoint # "responses" => p.toolChoice = r.toolChoice)
<1>1. LET p == OpenAIPayload(r)
      IN  /\ p.model = r.publicModel
          /\ (p.tools # r.tools => r.endpoint = "responses" /\ p.tools = <<>>)
          /\ (r.endpoint # "responses" => p.toolChoice = r.toolChoice)
  BY Zenon DEF OpenAIPayload
<1>2. LET p == AnthropicPayload(r)
      IN  /\ p.model = r.publicModel
          /\ p.tools = r.tools
          /\ p.toolChoice = r.toolChoice
  BY Zenon DEF AnthropicPayload
<1>. QED  BY <1>1, <1>2, Zenon DEF EncodeRequest

\* What the decoders make of the rest of a body.
LEMMA RequestFields ==
    ASSUME NEW b \in Bodies
    PROVE  LET r == Decode(b).request
           IN  /\ r.endpoint = b.endpoint
               /\ r.stream = b.stream
               /\ r.tools = Tools(b)
               /\ b.endpoint = "chat" => r.toolChoice = decodeChatToolChoice(b.toolChoice)
<1>1. b.endpoint \in {"chat", "responses"}
  BY DEF Bodies
<1>2. CASE b.endpoint = "chat"
  BY <1>2, Zenon DEF Decode, DecodeChatCompletionRequest
<1>3. CASE b.endpoint # "chat"
  BY <1>1, <1>3, Zenon DEF Decode, DecodeResponsesRequest
<1>. QED  BY <1>2, <1>3, Zenon

\* Whatever goes to an upstream, one active client key with the token that came
\* grants all of it: the model, the stream, the images, the tools.
THEOREM PolicyAlwaysBounds == Spec => []PolicyBoundsWhatIsSent
<1>1. ASSUME FrontendInv, NEW p \in Payloads
      PROVE  \E i \in DOMAIN cfg.clientKeys :
                LET key == cfg.clientKeys[i]
                IN  /\ key.active
                    /\ key.secret = header.token
                    /\ \/ key.patterns = {}
                       \/ \E pattern \in key.patterns : MatchesPattern(p.model, pattern)
                    /\ body.stream => key.allowStreaming
                    /\ Said(p, {"user"}, "image") # <<>> => key.allowVision
                    /\ p.tools # <<>> => key.allowTools
  <2>1. PICK family \in Adapters : p = EncodeRequest(family, request)
    BY <1>1, PayloadIs
  <2>2. /\ sent # <<>> /\ status = "running" /\ body \in Bodies
        /\ Granted /\ WasDecoded /\ IsOffered /\ IsAllowed
    BY <1>1, PayloadIs DEF FrontendInv, SentInv
  <2>3. \E n \in Nat : DOMAIN cfg.clientKeys = 1..n
    <3>1. cfg.clientKeys = file.clientKeys
      BY <1>1, <2>2 DEF FrontendInv, ServiceInv, Config
    <3>2. Len(file.clientKeys) \in Nat /\ DOMAIN file.clientKeys = 1..Len(file.clientKeys)
      BY <1>1 DEF FrontendInv, ServiceInv, Files
    <3>. QED  BY <3>1, <3>2
  <2>4. PICK i \in DOMAIN cfg.clientKeys :
            /\ cfg.clientKeys[i].active
            /\ cfg.clientKeys[i].secret = header.token
            /\ policy.patterns = cfg.clientKeys[i].patterns
            /\ policy.allowStreaming = cfg.clientKeys[i].allowStreaming
            /\ policy.allowTools = cfg.clientKeys[i].allowTools
            /\ policy.allowVision = cfg.clientKeys[i].allowVision
    <3>1. ResolveBearer(cfg.clientKeys, header.token) = policy /\ policy.known
      BY <2>2 DEF Granted
    <3>. QED  BY <2>3, <3>1, KeyOfPolicy
  <2>5. /\ ModelAllowed(policy, request.publicModel)
        /\ request.stream => policy.allowStreaming
        /\ requiresVision(request) => policy.allowVision
        /\ request.tools # <<>> => policy.allowTools
    BY <2>2 DEF IsAllowed, ValidateRequest
  <2>6. p.model = request.publicModel /\ (p.tools # <<>> => request.tools # <<>>)
    BY <2>1, PayloadFields, Zenon
  <2>7. request.stream = body.stream
    BY <2>2, RequestFields DEF WasDecoded
  <2>8. Said(p, {"user"}, "image") # <<>> => requiresVision(request)
    <3>1. request.conversation \in Seq(Turns)
      BY <1>1, <2>2, SentBody
    <3>. QED  BY <2>1, <3>1, NoImageSaid
  <2>. QED  BY <2>4, <2>5, <2>6, <2>7, <2>8, Zenon DEF ModelAllowed
<1>2. FrontendInv => PolicyBoundsWhatIsSent
  BY <1>1, Zenon DEF PolicyBoundsWhatIsSent
<1>. QED  BY <1>2, FrontendInvariant, PTL

----------------------------------------------------------------------------
(* 8. Tools and controls.                                                  *)

\* What an upstream is to be offered of a tool.
Offer(t) == [name |-> t.name, schema |-> t.schema]

\* A function is a tool to either decoder, so that none of a body of functions is
\* dropped.
LEMMA FunctionsAreTools ==
    ASSUME NEW b \in Bodies, AllFunctions(b)
    PROVE  Tools(b) = [i \in DOMAIN b.tools |-> Offer(b.tools[i])]
<1>. DEFINE E == [type : STRING, function : BOOLEAN, name : STRING, schema : JSONSchemas]
            all == [i \in DOMAIN b.tools |-> Offer(b.tools[i])]
            S == {all[i] : i \in DOMAIN b.tools}
<1>1. ASSUME NEW i \in DOMAIN b.tools
      PROVE  Only(IsTool(b.endpoint, b.tools[i]),
                  [name |-> b.tools[i].name, schema |-> b.tools[i].schema])
                 = <<Offer(b.tools[i])>>
  <2>1. IsTool(b.endpoint, b.tools[i])
    BY Zenon DEF AllFunctions, IsTool
  <2>. QED  BY <2>1, Zenon DEF Only, Offer
<1>2. Tools(b) = FlattenSeq([i \in DOMAIN b.tools |-> <<Offer(b.tools[i])>>])
  <2>1. [i \in DOMAIN b.tools |-> Only(IsTool(b.endpoint, b.tools[i]),
             [name |-> b.tools[i].name, schema |-> b.tools[i].schema])]
            = [i \in DOMAIN b.tools |-> <<Offer(b.tools[i])>>]
    BY <1>1, Zenon
  <2>. QED  BY <2>1, Zenon DEF Tools, Gather
<1>3. [i \in DOMAIN b.tools |-> <<Offer(b.tools[i])>>] = [i \in DOMAIN all |-> <<all[i]>>]
  OBVIOUS
<1>4. all \in Seq(S)
  <2>1. b.tools \in Seq(E)
    BY DEF Bodies
  <2>2. DOMAIN all = DOMAIN b.tools /\ all = [i \in DOMAIN all |-> all[i]]
    BY Zenon
  <2>3. \A i \in DOMAIN b.tools : all[i] \in S
    BY Zenon
  <2>. HIDE DEF all, S, E
  <2>. QED  BY <2>1, <2>2, <2>3, SeqOfEach
<1>5. FlattenSeq([i \in DOMAIN all |-> <<all[i]>>]) = all
  <2>. HIDE DEF all, S
  <2>. QED  BY <1>4, FlattenSingles
<1>. QED  BY <1>2, <1>3, <1>5, Zenon

\* The choice a body names is the one its request names.
LEMMA ChoiceIsKept ==
    ASSUME NEW b \in Bodies, b.toolChoice.form = "function"
    PROVE  b.endpoint = "chat" /\ decodeChatToolChoice(b.toolChoice) = b.toolChoice.value
<1>1. b.endpoint = "chat"
  BY DEF Bodies
<1>2. decodeChatToolChoice(b.toolChoice) = b.toolChoice.value
  BY Zenon DEF decodeChatToolChoice
<1>. QED  BY <1>1, <1>2

\* What is sent offers the tools of the request.
LEMMA ToolsSent ==
    ASSUME FrontendInv, NEW p \in Payloads
    PROVE  /\ p.tools = request.tools /\ request.tools = Tools(body)
           /\ request.endpoint = body.endpoint
           /\ body.endpoint = "chat" =>
                  p.toolChoice = request.toolChoice
                      /\ request.toolChoice = decodeChatToolChoice(body.toolChoice)
<1>1. PICK family \in Adapters : p = EncodeRequest(family, request)
  BY PayloadIs
<1>2. body \in Bodies /\ WasDecoded /\ IsOffered
  BY PayloadIs DEF FrontendInv, SentInv
<1>3. /\ request.endpoint = body.endpoint
      /\ request.tools = Tools(body)
      /\ body.endpoint = "chat" => request.toolChoice = decodeChatToolChoice(body.toolChoice)
  BY <1>2, RequestFields, Zenon DEF WasDecoded
<1>4. /\ (p.tools # request.tools => request.endpoint = "responses" /\ p.tools = <<>>)
      /\ (request.endpoint # "responses" => p.toolChoice = request.toolChoice)
  BY <1>1, PayloadFields, Zenon
<1>5. request.tools # <<>> => request.endpoint = "chat"
  BY <1>2 DEF IsOffered, ValidatePublicSurface
<1>. QED  BY <1>3, <1>4, <1>5

\* An upstream is offered the tools of a body of functions, all of them, in order
\* and with their schemas, and the choice made among them.
THEOREM ToolsAreAlwaysWhole == Spec => []ToolsAreWhole
<1>1. ASSUME FrontendInv, NEW p \in Payloads
      PROVE  /\ AllFunctions(body) => p.tools = [i \in DOMAIN body.tools |-> Offer(body.tools[i])]
             /\ body.toolChoice.form = "function" => p.toolChoice = body.toolChoice.value
  <2>1. body \in Bodies
    BY <1>1 DEF FrontendInv, SentInv
  <2>2. p.tools = Tools(body)
    BY <1>1, ToolsSent
  <2>3. AllFunctions(body) => p.tools = [i \in DOMAIN body.tools |-> Offer(body.tools[i])]
    BY <2>1, <2>2, FunctionsAreTools, Zenon
  <2>4. body.toolChoice.form = "function" => p.toolChoice = body.toolChoice.value
    BY <1>1, <2>1, ToolsSent, ChoiceIsKept
  <2>. QED  BY <2>3, <2>4
<1>2. FrontendInv => ToolsAreWhole
  BY <1>1, Zenon DEF ToolsAreWhole, Offer
<1>. QED  BY <1>2, FrontendInvariant, PTL

\* The controls of a request are those of its body.
LEMMA ControlsDecoded ==
    ASSUME NEW b \in Bodies
    PROVE  LET g == Decode(b).request.generation
           IN  /\ g = [ temperature     |-> g.temperature,
                        topP            |-> g.topP,
                        maxOutputTokens |-> g.maxOutputTokens,
                        stop            |-> g.stop ]
               /\ g.temperature = b.temperature
               /\ g.topP = b.topP
               /\ g.maxOutputTokens = MaxOutputTokens(b)
               /\ g.stop = IF b.endpoint = "chat" THEN decodeStop(b.stop) ELSE <<>>
<1>. DEFINE g == Decode(b).request.generation
<1>1. CASE b.endpoint = "chat"
  <2>1. g = [ temperature     |-> b.temperature,
              topP            |-> b.topP,
              maxOutputTokens |-> MaxOutputTokens(b),
              stop            |-> decodeStop(b.stop) ]
    BY <1>1, Zenon DEF Decode, DecodeChatCompletionRequest
  <2>. HIDE DEF g
  <2>2. /\ g = [ temperature     |-> g.temperature,
                 topP            |-> g.topP,
                 maxOutputTokens |-> g.maxOutputTokens,
                 stop            |-> g.stop ]
        /\ g.temperature = b.temperature /\ g.topP = b.topP
        /\ g.maxOutputTokens = MaxOutputTokens(b) /\ g.stop = decodeStop(b.stop)
    BY <2>1
  <2>. QED  BY <1>1, <2>2 DEF g
<1>2. CASE b.endpoint # "chat"
  <2>1. g = [ temperature     |-> b.temperature,
              topP            |-> b.topP,
              maxOutputTokens |-> MaxOutputTokens(b),
              stop            |-> <<>> ]
    BY <1>2, Zenon DEF Decode, DecodeResponsesRequest
  <2>. HIDE DEF g
  <2>2. /\ g = [ temperature     |-> g.temperature,
                 topP            |-> g.topP,
                 maxOutputTokens |-> g.maxOutputTokens,
                 stop            |-> g.stop ]
        /\ g.temperature = b.temperature /\ g.topP = b.topP
        /\ g.maxOutputTokens = MaxOutputTokens(b) /\ g.stop = <<>>
    BY <2>1
  <2>. QED  BY <1>2, <2>2 DEF g
<1>. QED  BY <1>1, <1>2

\* A stop that is no single empty string is the request's stop.
LEMMA StopIsKept ==
    ASSUME NEW b \in Bodies, b.stop.value # <<"">>
    PROVE  (IF b.endpoint = "chat" THEN decodeStop(b.stop) ELSE <<>>) = b.stop.value
<1>1. b.endpoint # "chat" => b.stop.value = <<>>
  BY Zenon DEF Bodies
<1>2. decodeStop(b.stop) = b.stop.value
  BY Zenon DEF decodeStop
<1>. QED  BY <1>1, <1>2, Zenon

\* An OpenAI upstream gets the controls of the body, every one and no other.
THEOREM ControlsAreAlwaysTheClients == Spec => []ControlsAreTheClients
<1>. DEFINE tokens == IF body.endpoint = "responses" \/ body.maxCompletionTokens # Absent
                      THEN body.maxCompletionTokens ELSE body.maxTokens
            stop == IF body.endpoint = "chat" THEN decodeStop(body.stop) ELSE <<>>
<1>1. ASSUME FrontendInv, sent # <<>>
      PROVE  LET p == OpenAIPayload(request)
             IN  /\ p.generation.temperature = body.temperature
                 /\ p.generation.topP = body.topP
                 /\ p.generation.maxOutputTokens = tokens
                 /\ p.generation.stop = stop
  <2>. DEFINE g == request.generation
              h == OpenAIPayload(request).generation
  <2>1. body \in Bodies /\ WasDecoded /\ body.endpoint \in {"chat", "responses"}
    BY <1>1 DEF FrontendInv, SentInv, Bodies
  <2>2. request.endpoint = body.endpoint
    BY <2>1, RequestFields, Zenon DEF WasDecoded
  <2>3. /\ g = [ temperature     |-> g.temperature,
                 topP            |-> g.topP,
                 maxOutputTokens |-> g.maxOutputTokens,
                 stop            |-> g.stop ]
        /\ g.temperature = body.temperature
        /\ g.topP = body.topP
        /\ g.maxOutputTokens = MaxOutputTokens(body)
        /\ g.stop = stop
    BY <2>1, ControlsDecoded, Zenon DEF WasDecoded
  <2>4. h = [g EXCEPT !.stop = IF request.endpoint # "responses" THEN @ ELSE <<>>]
    BY Zenon DEF OpenAIPayload
  <2>5. MaxOutputTokens(body) = tokens
    BY <2>1 DEF MaxOutputTokens
  <2>. HIDE DEF g, h, tokens
  <2>6. /\ h.temperature = g.temperature /\ h.topP = g.topP
        /\ h.maxOutputTokens = g.maxOutputTokens
        /\ h.stop = IF request.endpoint # "responses" THEN g.stop ELSE <<>>
    BY <2>3, <2>4
  <2>7. h.stop = stop
    BY <2>1, <2>2, <2>3, <2>6
  <2>. QED  BY <2>3, <2>5, <2>6, <2>7 DEF h
<1>2. ASSUME FrontendInv, NEW p \in Payloads, p.family = "openai"
      PROVE  /\ p.generation.temperature = body.temperature
             /\ p.generation.topP = body.topP
             /\ p.generation.maxOutputTokens = tokens
             /\ body.stop.value # <<"">> => p.generation.stop = body.stop.value
  <2>1. PICK family \in Adapters : p = EncodeRequest(family, request)
    BY <1>2, PayloadIs
  <2>2. sent # <<>> /\ body \in Bodies
    BY <1>2, PayloadIs DEF FrontendInv, SentInv
  <2>3. p = OpenAIPayload(request)
    <3>1. AnthropicPayload(request).family = "anthropic"
      BY Zenon DEF AnthropicPayload
    <3>2. p = OpenAIPayload(request) \/ p = AnthropicPayload(request)
      BY <2>1, Zenon DEF EncodeRequest
    <3>3. "openai" # "anthropic"
      OBVIOUS
    <3>. QED  BY <1>2, <3>1, <3>2, <3>3, Zenon
  <2>4. body.stop.value # <<"">> => stop = body.stop.value
    BY <2>2, StopIsKept, Zenon
  <2>. HIDE DEF tokens, stop
  <2>. QED  BY <1>1, <1>2, <2>2, <2>3, <2>4, Zenon
<1>3. FrontendInv => ControlsAreTheClients
  BY <1>2, Zenon DEF ControlsAreTheClients, HasControls
<1>. QED  BY <1>3, FrontendInvariant, PTL

----------------------------------------------------------------------------
(* 9. Schemas.                                                             *)

\* H[i][f] is a value, and looks at f below i only.
Local(H, n, V) ==
    /\ \A i \in 0..n : \A f \in [0..n -> V] : H[i][f] \in V
    /\ \A i \in 0..n : \A f, g \in [0..n -> V] :
           (\A j \in 0..n : j < i => f[j] = g[j]) => H[i][f] = H[i][g]

Solves(f, H, n) == \A i \in 0..n : f[i] = H[i][f]

\* A function defined from its values at smaller arguments exists.
LEMMA RecursionExists ==
    ASSUME NEW n \in Nat, NEW V, NEW v \in V, NEW H, Local(H, n, V)
    PROVE  \E f \in [0..n -> V] : Solves(f, H, n)
<1>0. \A i \in 0..n : \A f \in [0..n -> V] : H[i][f] \in V
  BY Zenon DEF Local
<1>. DEFINE F == [0..n -> V]
            K == {k \in Nat : \E f \in F : \A i \in 0..n : i < k => f[i] = H[i][f]}
<1>1. 0 \in K
  <2>1. [i \in 0..n |-> v] \in F
    OBVIOUS
  <2>2. \A i \in 0..n : ~(i < 0)
    OBVIOUS
  <2>. HIDE DEF F
  <2>. QED  BY <2>1, <2>2
<1>2. ASSUME NEW k \in Nat, k \in K  PROVE k + 1 \in K
  <2>1. PICK f \in F : \A i \in 0..n : i < k => f[i] = H[i][f]
    BY <1>2
  <2>2. CASE k \notin 0..n
    <3>1. \A i \in 0..n : i < k + 1 => i < k
      BY <2>2
    <3>. QED  BY <2>1, <3>1
  <2>3. CASE k \in 0..n
    <3>. DEFINE g == [f EXCEPT ![k] = H[k][f]]
    <3>1. g \in F /\ g[k] = H[k][f] /\ \A j \in 0..n : j # k => g[j] = f[j]
      BY <1>0, <2>1, <2>3
    <3>. HIDE DEF g
    <3>2. ASSUME NEW i \in 0..n, i < k + 1  PROVE g[i] = H[i][g]
      <4>1. \A j \in 0..n : j < i => f[j] = g[j]
        BY <2>3, <3>1, <3>2
      <4>2. H[i][f] = H[i][g]
        BY <2>1, <3>1, <4>1 DEF Local
      <4>3. CASE i = k
        BY <3>1, <4>2, <4>3
      <4>4. CASE i # k
        BY <2>1, <2>3, <3>1, <3>2, <4>2, <4>4
      <4>. QED  BY <4>3, <4>4
    <3>. QED  BY <3>1, <3>2
  <2>. QED  BY <2>2, <2>3
<1>3. Nat \subseteq K
  <2>. HIDE DEF K
  <2>. QED  BY <1>1, <1>2, SetInduction
<1>4. n + 1 \in K
  <2>. HIDE DEF K
  <2>. QED  BY <1>3
<1>5. \A i \in 0..n : i < n + 1
  OBVIOUS
<1>. QED  BY <1>4, <1>5 DEF Solves

\* What the walk and JSON Schema each say of node i, from what they say of others.
WalkedAt(w, schema, i) ==
    \/ i = 0
    \/ /\ schema[i].kind = "object"
       /\ LET p == schema[i].parent
          IN  \/ w[p]
              \/ p # 0 /\ schema[p].kind = "array" /\ w[schema[p].parent]

NodeRoles == {"schema", "names", "list", "data"}

RoleAt(role, schema, i) ==
    IF i = 0 THEN "schema"
    ELSE LET node == schema[i] above == role[node.parent]
         IN  CASE above = "schema" /\ node.key = "properties" -> "names"
               [] above = "schema" /\ node.key = "items" ->
                      IF node.kind = "array" THEN "list" ELSE "schema"
               [] above \in {"names", "list"} -> "schema"
               [] OTHER -> "data"

\* The shape of a schema.  (An element of an array has no name, and is refused
\* for none.)
Shape(schema) ==
    /\ Len(schema) \in Nat /\ DOMAIN schema = 1..Len(schema)
    /\ \A i \in 1..Len(schema) :
           /\ schema[i].parent \in 0..Len(schema) /\ schema[i].parent < i
           /\ schema[i].parent # 0 => schema[schema[i].parent].kind \in {"object", "array"}
           /\ schema[i].parent # 0 /\ schema[schema[i].parent].kind = "array" =>
                  schema[i].key \notin {"items", "properties"} /\ ~Refused(schema[i])

LEMMA ShapeOf == \A schema \in JSONSchemas : Shape(schema)
<1>. TAKE schema \in JSONSchemas
<1>. DEFINE Node == [parent : Nat, key : STRING, kind : {"object", "array", "false", "scalar"}]
<1>1. schema \in Seq(Node)
  BY Zenon DEF JSONSchemas
<1>2. /\ Len(schema) \in Nat /\ DOMAIN schema = 1..Len(schema)
      /\ \A i \in 1..Len(schema) : schema[i].parent \in Nat
  <2>1. \A i \in 1..Len(schema) : schema[i] \in Node
    <3>. HIDE DEF Node
    <3>. QED  BY <1>1
  <2>2. \A x \in Node : x.parent \in Nat
    OBVIOUS
  <2>. HIDE DEF Node
  <2>. QED  BY <1>1, <2>1, <2>2
<1>3. ASSUME NEW i \in DOMAIN schema
      PROVE  /\ schema[i].parent < i
             /\ schema[i].parent # 0 => schema[schema[i].parent].kind \in {"object", "array"}
             /\ schema[i].parent # 0 /\ schema[schema[i].parent].kind = "array" =>
                    schema[i].key = ""
  BY <1>3, Zenon DEF JSONSchemas
<1>4. ASSUME NEW i \in DOMAIN schema, schema[i].parent # 0,
             schema[schema[i].parent].kind = "array"
      PROVE  schema[i].key \notin {"items", "properties"} /\ ~Refused(schema[i])
  <2>1. schema[i].key = ""
    BY <1>3, <1>4, Zenon
  <2>. QED  BY <2>1, Zenon DEF Refused, unsupportedSchemaKeywords
<1>5. ASSUME NEW i \in DOMAIN schema
      PROVE  /\ schema[i].parent < i
             /\ schema[i].parent # 0 => schema[schema[i].parent].kind \in {"object", "array"}
  BY <1>3, Zenon
<1>. QED  BY <1>2, <1>4, <1>5 DEF Shape

LEMMA WalkedIs ==
    ASSUME NEW schema, Shape(schema)
    PROVE  \E w : /\ Walked(schema) = {i \in 0..Len(schema) : w[i]}
                  /\ w \in [0..Len(schema) -> BOOLEAN]
                  /\ \A i \in 0..Len(schema) : w[i] = WalkedAt(w, schema, i)
<1>. DEFINE n == Len(schema)
            F == [0..n -> BOOLEAN]
            H == [i \in 0..n |-> [f \in F |-> WalkedAt(f, schema, i)]]
            w == CHOOSE f : f = [i \in 0..n |-> WalkedAt(f, schema, i)]
<1>1. n \in Nat
  BY DEF Shape
<1>2. ASSUME NEW f \in F, NEW i \in 0..n  PROVE WalkedAt(f, schema, i) \in BOOLEAN
  BY DEF WalkedAt
<1>3. ASSUME NEW f \in F, NEW i \in 0..n  PROVE H[i][f] = WalkedAt(f, schema, i)
  OBVIOUS
<1>4. ASSUME NEW f \in F, NEW g \in F, NEW i \in 0..n, \A j \in 0..n : j < i => f[j] = g[j]
      PROVE  WalkedAt(f, schema, i) = WalkedAt(g, schema, i)
  <2>1. CASE i = 0
    BY <2>1 DEF WalkedAt
  <2>2. CASE i # 0
    <3>. DEFINE p == schema[i].parent
                q == schema[p].parent
    <3>1. i \in 1..n /\ p \in 0..n /\ p < i
      BY <1>1, <2>2 DEF Shape
    <3>2. p # 0 => q \in 0..n /\ q < i
      BY <1>1, <3>1 DEF Shape
    <3>3. f[p] = g[p] /\ (p # 0 => f[q] = g[q])
      BY <1>4, <3>1, <3>2
    <3>. QED  BY <3>3, Zenon DEF WalkedAt
  <2>. QED  BY <2>1, <2>2
<1>5. \E f \in F : Solves(f, H, n)
  <2>. DEFINE V == BOOLEAN
  <2>1. \A i \in 0..n : \A f \in [0..n -> V] : H[i][f] \in V
    BY <1>2, <1>3, Zenon
  <2>2. Local(H, n, V)
    BY <1>3, <1>4, <2>1, Zenon DEF Local
  <2>3. TRUE \in V
    OBVIOUS
  <2>. HIDE DEF V, H, n
  <2>4. \E f \in [0..n -> V] : Solves(f, H, n)
    BY <1>1, <2>2, <2>3, RecursionExists
  <2>. QED  BY <2>4 DEF V
<1>6. \E f : f = [i \in 0..n |-> WalkedAt(f, schema, i)]
  <2>1. PICK f \in F : \A i \in 0..n : f[i] = WalkedAt(f, schema, i)
    <3>. HIDE DEF H
    <3>. QED  BY <1>3, <1>5, Zenon DEF Solves
  <2>2. f = [i \in 0..n |-> f[i]]
    OBVIOUS
  <2>3. f = [i \in 0..n |-> WalkedAt(f, schema, i)]
    BY <2>1, <2>2, Zenon
  <2>. QED  BY <2>3
<1>7. w = [i \in 0..n |-> WalkedAt(w, schema, i)]
  BY <1>6, Zenon
<1>8. Walked(schema) = {i \in 0..n : w[i]}
  BY DEF Walked, WalkedAt
<1>. HIDE DEF w
<1>9. \A i \in 0..n : w[i] = WalkedAt(w, schema, i)
  BY <1>7, Zenon
<1>10. w \in F
  <2>1. \A i \in 0..n : WalkedAt(w, schema, i) \in BOOLEAN
    BY Zenon DEF WalkedAt
  <2>. QED  BY <1>7, <2>1, Zenon
<1>. QED  BY <1>8, <1>9, <1>10

LEMMA SchemaNodesIs ==
    ASSUME NEW schema, Shape(schema)
    PROVE  \E role : /\ SchemaNodes(schema) = {i \in 0..Len(schema) : role[i] = "schema"}
                     /\ \A i \in 0..Len(schema) : role[i] = RoleAt(role, schema, i)
<1>. DEFINE n == Len(schema)
            F == [0..n -> NodeRoles]
            H == [i \in 0..n |-> [f \in F |-> RoleAt(f, schema, i)]]
            role == CHOOSE f : f = [i \in 0..n |-> RoleAt(f, schema, i)]
<1>1. n \in Nat
  BY DEF Shape
<1>2. ASSUME NEW f, NEW i  PROVE RoleAt(f, schema, i) \in NodeRoles
  BY DEF RoleAt, NodeRoles
<1>3. ASSUME NEW f \in F, NEW i \in 0..n  PROVE H[i][f] = RoleAt(f, schema, i)
  OBVIOUS
<1>4. ASSUME NEW f \in F, NEW g \in F, NEW i \in 0..n, \A j \in 0..n : j < i => f[j] = g[j]
      PROVE  RoleAt(f, schema, i) = RoleAt(g, schema, i)
  <2>1. CASE i = 0
    BY <2>1 DEF RoleAt
  <2>2. CASE i # 0
    <3>. DEFINE p == schema[i].parent
    <3>1. i \in 1..n /\ p \in 0..n /\ p < i
      BY <1>1, <2>2 DEF Shape
    <3>2. f[p] = g[p]
      BY <1>4, <3>1
    <3>. QED  BY <3>2, Zenon DEF RoleAt
  <2>. QED  BY <2>1, <2>2
<1>5. \E f \in F : Solves(f, H, n)
  <2>1. \A i \in 0..n : \A f \in F : H[i][f] \in NodeRoles
    BY <1>2, <1>3, Zenon
  <2>2. Local(H, n, NodeRoles)
    BY <1>3, <1>4, <2>1, Zenon DEF Local
  <2>3. "data" \in NodeRoles
    BY DEF NodeRoles
  <2>. HIDE DEF H, n
  <2>. QED  BY <1>1, <2>2, <2>3, RecursionExists
<1>6. \E f : f = [i \in 0..n |-> RoleAt(f, schema, i)]
  <2>1. PICK f \in F : \A i \in 0..n : f[i] = RoleAt(f, schema, i)
    <3>. HIDE DEF H
    <3>. QED  BY <1>3, <1>5, Zenon DEF Solves
  <2>2. f = [i \in 0..n |-> f[i]]
    OBVIOUS
  <2>3. f = [i \in 0..n |-> RoleAt(f, schema, i)]
    BY <2>1, <2>2, Zenon
  <2>. QED  BY <2>3
<1>7. role = [i \in 0..n |-> RoleAt(role, schema, i)]
  BY <1>6, Zenon
<1>8. SchemaNodes(schema) = {i \in 0..n : role[i] = "schema"}
  BY DEF SchemaNodes, RoleAt
<1>. HIDE DEF role
<1>9. \A i \in 0..n : role[i] = RoleAt(role, schema, i)
  BY <1>7, Zenon
<1>. QED  BY <1>8, <1>9

\* What the walk has reached at a node, or above it, for JSON Schema's reading of it.
Reached(w, role, schema, i) ==
    /\ role[i] = "schema" => i = 0 \/ schema[i].kind # "object" \/ w[i]
    /\ role[i] = "names" =>
           /\ i # 0
           /\ schema[i].kind = "object" => w[i]
           /\ schema[i].kind = "array" => w[schema[i].parent]
    /\ role[i] = "list" => i # 0 /\ schema[i].kind = "array" /\ w[schema[i].parent]

LEMMA WalkReaches ==
    ASSUME NEW schema, Shape(schema), NEW w, NEW role,
           \A i \in 0..Len(schema) : w[i] = WalkedAt(w, schema, i),
           \A i \in 0..Len(schema) : role[i] = RoleAt(role, schema, i)
    PROVE  \A i \in 0..Len(schema) : Reached(w, role, schema, i)
<1>. DEFINE n == Len(schema)
            K == {k \in Nat : \A i \in 0..n : i < k => Reached(w, role, schema, i)}
<1>0. n \in Nat
  BY DEF Shape
<1>1. 0 \in K
  <2>1. \A i \in 0..n : ~(i < 0)
    OBVIOUS
  <2>. QED  BY <2>1
<1>2. ASSUME NEW k \in Nat, k \in K  PROVE k + 1 \in K
  <2>1. ASSUME NEW i \in 0..n, i < k + 1  PROVE Reached(w, role, schema, i)
    <3>1. CASE i < k
      BY <1>2, <3>1
    <3>2. CASE i = 0
      <4>1. role[i] = "schema"
        BY <3>2 DEF RoleAt
      <4>. QED  BY <3>2, <4>1 DEF Reached
    <3>3. CASE i = k /\ i # 0
      <4>. DEFINE p == schema[i].parent
                  q == schema[p].parent
      <4>1. /\ i \in 1..n /\ p \in 0..n /\ p < i
            /\ p # 0 => schema[p].kind \in {"object", "array"}
            /\ p # 0 /\ schema[p].kind = "array" => schema[i].key \notin {"items", "properties"}
        BY <1>0, <3>3 DEF Shape
      <4>2. Reached(w, role, schema, p)
        BY <1>2, <3>3, <4>1
      <4>3. \/ role[i] = "names" /\ role[p] = "schema" /\ schema[i].key = "properties"
            \/ /\ role[i] = "list" /\ role[p] = "schema" /\ schema[i].key = "items"
               /\ schema[i].kind = "array"
            \/ role[i] = "schema" /\ role[p] = "schema" /\ schema[i].key = "items"
            \/ role[i] = "schema" /\ role[p] \in {"names", "list"}
            \/ role[i] = "data"
        BY <3>3, <4>1 DEF RoleAt
      <4>4. w[p] = WalkedAt(w, schema, p) /\ w[i] = WalkedAt(w, schema, i)
        BY <4>1
      <4>5. p = 0 => w[p]
        BY <4>4, Zenon DEF WalkedAt
      <4>6. schema[i].kind = "object" =>
                \/ w[i]
                \/ ~w[p] /\ ~(p # 0 /\ schema[p].kind = "array" /\ w[q])
        BY <4>4, Zenon DEF WalkedAt
      <4>. HIDE DEF p, q
      <4>7. role[p] = "schema" /\ schema[i].key \in {"items", "properties"} => w[p]
        BY <4>1, <4>2, <4>5, Zenon DEF Reached
      <4>8. role[p] \in {"names", "list"} =>
                w[p] \/ (p # 0 /\ schema[p].kind = "array" /\ w[q])
        <5>1. CASE role[p] = "names"
          BY <4>1, <4>2, <5>1, Zenon DEF Reached, q
        <5>2. CASE role[p] = "list"
          BY <4>2, <5>2, Zenon DEF Reached, q
        <5>. QED  BY <5>1, <5>2
      <4>9. CASE role[i] = "names" /\ role[p] = "schema" /\ schema[i].key = "properties"
        BY <3>3, <4>6, <4>7, <4>9, Zenon DEF Reached, p
      <4>10. CASE /\ role[i] = "list" /\ role[p] = "schema" /\ schema[i].key = "items"
                  /\ schema[i].kind = "array"
        BY <3>3, <4>7, <4>10, Zenon DEF Reached, p
      <4>11. CASE role[i] = "schema" /\ role[p] = "schema" /\ schema[i].key = "items"
        BY <4>6, <4>7, <4>11, Zenon DEF Reached
      <4>12. CASE role[i] = "schema" /\ role[p] \in {"names", "list"}
        BY <4>6, <4>8, <4>12, Zenon DEF Reached
      <4>13. CASE role[i] = "data"
        BY <4>13 DEF Reached
      <4>. QED  BY <4>3, <4>9, <4>10, <4>11, <4>12, <4>13
    <3>. QED  BY <2>1, <3>1, <3>2, <3>3
  <2>. QED  BY <2>1
<1>3. Nat \subseteq K
  <2>. HIDE DEF K
  <2>. QED  BY <1>1, <1>2, SetInduction
<1>4. n + 1 \in K
  <2>. HIDE DEF K
  <2>. QED  BY <1>0, <1>3
<1>5. \A i \in 0..n : i < n + 1
  BY <1>0
<1>. QED  BY <1>4, <1>5

\* What the walk finds no fault with has none where JSON Schema looks.
LEMMA WalkIsEnough ==
    ASSUME NEW schema \in JSONSchemas, ValidateSchemaSubset(schema), NEW i \in DOMAIN schema,
           schema[i].parent \in SchemaNodes(schema)
    PROVE  ~Refused(schema[i])
<1>. DEFINE p == schema[i].parent
<1>1. Shape(schema)
  BY ShapeOf
<1>2. PICK w : /\ Walked(schema) = {k \in 0..Len(schema) : w[k]}
               /\ \A k \in 0..Len(schema) : w[k] = WalkedAt(w, schema, k)
  BY <1>1, WalkedIs
<1>3. PICK role : /\ SchemaNodes(schema) = {k \in 0..Len(schema) : role[k] = "schema"}
                  /\ \A k \in 0..Len(schema) : role[k] = RoleAt(role, schema, k)
  BY <1>1, SchemaNodesIs
<1>4. p \in 0..Len(schema) /\ role[p] = "schema"
  BY <1>3
<1>5. Reached(w, role, schema, p)
  BY <1>1, <1>2, <1>3, <1>4, WalkReaches
<1>6. CASE p # 0 /\ schema[p].kind = "array"
  BY <1>1, <1>6 DEF Shape
<1>7. CASE p = 0 \/ schema[p].kind = "object"
  <2>1. w[p] = WalkedAt(w, schema, p)
    BY <1>2, <1>4
  <2>2. w[p]
    BY <1>4, <1>5, <1>7, <2>1, Zenon DEF Reached, WalkedAt
  <2>3. p \in Walked(schema)
    BY <1>2, <1>4, <2>2, Zenon
  <2>. QED  BY <2>3 DEF ValidateSchemaSubset
<1>8. p # 0 => schema[p].kind \in {"object", "array"}
  BY <1>1 DEF Shape
<1>. QED  BY <1>6, <1>7, <1>8

\* The tools of a body have the schemas the body has for them.
OfferedTools == [name : STRING, schema : JSONSchemas]
BodyTools    == [type : STRING, function : BOOLEAN, name : STRING, schema : JSONSchemas]

LEMMA ToolsType ==
    ASSUME NEW b \in Bodies
    PROVE  Tools(b) \in Seq(OfferedTools)
<1>. DEFINE tools == b.tools
            q == [i \in DOMAIN tools |->
                     Only(IsTool(b.endpoint, tools[i]),
                          [name |-> tools[i].name, schema |-> tools[i].schema])]
            Q == Seq(OfferedTools)
<1>1. tools \in Seq(BodyTools)
  BY Zenon DEF Bodies, BodyTools
<1>2. ASSUME NEW endpoint, NEW t \in BodyTools
      PROVE  Only(IsTool(endpoint, t), [name |-> t.name, schema |-> t.schema]) \in Q
  <2>. DEFINE wanted == IsTool(endpoint, t)
              x == [name |-> t.name, schema |-> t.schema]
  <2>1. wanted \in BOOLEAN
    BY Zenon DEF IsTool
  <2>2. x \in OfferedTools
    BY DEF BodyTools, OfferedTools
  <2>3. Only(wanted, x) \in Q
    <3>. HIDE DEF wanted, x
    <3>. QED  BY <2>1, <2>2, OnlyType
  <2>. QED  BY <2>3
<1>3. \A i \in DOMAIN q : q[i] \in Q
  <2>. HIDE DEF Q
  <2>. SUFFICES ASSUME NEW i \in DOMAIN tools
                PROVE  Only(IsTool(b.endpoint, tools[i]),
                            [name |-> tools[i].name, schema |-> tools[i].schema]) \in Q
    OBVIOUS
  <2>1. tools[i] \in BodyTools
    <3>. HIDE DEF tools
    <3>. QED  BY <1>1
  <2>. QED  BY <1>2, <2>1
<1>4. DOMAIN q = DOMAIN tools /\ q = [i \in DOMAIN q |-> q[i]]
  OBVIOUS
<1>5. q \in Seq(Q)
  <2>. HIDE DEF q, Q, tools
  <2>. QED  BY <1>1, <1>3, <1>4, SeqOfEach
<1>6. Tools(b) = FlattenSeq(q)
  BY Zenon DEF Tools, Gather
<1>. HIDE DEF q
<1>. QED  BY <1>5, <1>6, FlattenType

\* No schema that goes to an upstream uses a keyword outside the subset at a
\* place where it is a keyword, however deep.
THEOREM SchemasAlwaysStayInTheSubset == Spec => []SchemasStayInTheSubset
<1>1. ASSUME FrontendInv, NEW p \in Payloads, NEW t \in ToSet(p.tools),
             NEW i \in DOMAIN t.schema, t.schema[i].parent \in SchemaNodes(t.schema)
      PROVE  ~Refused(t.schema[i])
  <2>1. body \in Bodies /\ IsAllowed /\ p.tools = request.tools /\ request.tools = Tools(body)
    BY <1>1, PayloadIs, ToolsSent DEF FrontendInv, SentInv
  <2>2. request.tools \in Seq(OfferedTools)
    BY <2>1, ToolsType
  <2>3. PICK k \in DOMAIN request.tools : t = request.tools[k]
    BY <1>1, <2>1 DEF ToSet
  <2>4. t.schema \in JSONSchemas
    <3>1. t \in OfferedTools
      BY <2>2, <2>3
    <3>. QED  BY <3>1 DEF OfferedTools
  <2>5. request.tools # <<>>
    BY <2>3
  <2>6. ValidateSchemaSubset(t.schema)
    BY <2>1, <2>3, <2>5 DEF IsAllowed, ValidateRequest
  <2>. QED  BY <1>1, <2>4, <2>6, WalkIsEnough
<1>2. FrontendInv => SchemasStayInTheSubset
  BY <1>1, Zenon DEF SchemasStayInTheSubset
<1>. QED  BY <1>2, FrontendInvariant, PTL

----------------------------------------------------------------------------
(* 10. Readiness and the plan.                                             *)

\* The elements of a sequence that are in a set, in order.
Filtered(s, K) == Gather(s, LAMBDA c : Only(c \in K, c))

LEMMA FilteredIs ==
    ASSUME NEW S, NEW s \in Seq(S), NEW K
    PROVE  Filtered(s, K) \in Seq(S) /\ ToSet(Filtered(s, K)) = ToSet(s) \cap K
<1>. DEFINE q == [i \in DOMAIN s |-> Only(s[i] \in K, s[i])]
            Q == Seq(S)
<1>1. ASSUME NEW x \in S  PROVE Only(x \in K, x) \in Q /\ ToSet(Only(x \in K, x)) = {x} \cap K
  <2>1. CASE x \in K
    BY <2>1 DEF Only, ToSet
  <2>2. CASE x \notin K
    BY <2>2 DEF Only, ToSet
  <2>. QED  BY <2>1, <2>2
<1>2. \A i \in DOMAIN s : s[i] \in S
  OBVIOUS
<1>3. \A i \in DOMAIN s : q[i] \in Q /\ ToSet(q[i]) = {s[i]} \cap K
  BY <1>1, <1>2, Zenon
<1>4. DOMAIN q = DOMAIN s /\ q = [i \in DOMAIN q |-> q[i]]
  OBVIOUS
<1>5. Filtered(s, K) = FlattenSeq(q)
  BY Zenon DEF Filtered, Gather
<1>6. q \in Seq(Q)
  <2>. HIDE DEF q, Q
  <2>. QED  BY <1>3, <1>4, SeqOfEach
<1>7. UNION {ToSet(q[i]) : i \in DOMAIN q} = ToSet(s) \cap K
  <2>. HIDE DEF q
  <2>1. ASSUME NEW c \in UNION {ToSet(q[i]) : i \in DOMAIN q}  PROVE c \in ToSet(s) \cap K
    <3>1. PICK i \in DOMAIN q : c \in ToSet(q[i])
      BY <2>1, Zenon
    <3>2. i \in DOMAIN s /\ c = s[i] /\ c \in K
      BY <1>3, <1>4, <3>1
    <3>. QED  BY <3>2, Zenon DEF ToSet
  <2>2. ASSUME NEW c \in ToSet(s) \cap K  PROVE c \in UNION {ToSet(q[i]) : i \in DOMAIN q}
    <3>1. PICK i \in DOMAIN s : c = s[i]
      BY <2>2, Zenon DEF ToSet
    <3>2. c \in ToSet(q[i])
      BY <1>3, <2>2, <3>1
    <3>. QED  BY <1>4, <3>2
  <2>. QED  BY <2>1, <2>2, Zenon
<1>. HIDE DEF q
<1>. QED  BY <1>5, <1>6, <1>7, FlattenType, FlattenElements

\* The groups of a file, and the upstreams one names.
Groups == [name : STRING, primary : STRING, fallbacks : Seq(STRING)]

LEMMA CandidatesType ==
    ASSUME NEW group \in Groups
    PROVE  CandidatesOf(group) \in Seq(STRING)
BY DEF Groups, CandidatesOf

\* A plan has an attempt exactly when an upstream of the group the model leads to
\* is known and eligible.
LEMMA PlannedWhen ==
    ASSUME NEW c, NEW name, NEW held,
           findRouteGroup(c, matchModel(c, name).routeGroup) \in Groups
    PROVE  Attempts(c, name, held) # <<>> <=>
               routeGroupHasEligibleUpstream(
                   c, findRouteGroup(c, matchModel(c, name).routeGroup), held)
<1>. DEFINE group == findRouteGroup(c, matchModel(c, name).routeGroup)
            all == CandidatesOf(group)
            known == KnownProviders(c)
            cands == Filtered(all, known)
            attempts == Filtered(cands, held)
            N == STRING
<1>1. Attempts(c, name, held) = attempts
  BY Zenon DEF Attempts, Candidates, Filtered
<1>2. all \in Seq(N)
  BY CandidatesType
<1>3. routeGroupHasEligibleUpstream(c, group, held) <=>
          \E x \in ToSet(all) : x \in known /\ x \in held
  BY Zenon DEF routeGroupHasEligibleUpstream
<1>. HIDE DEF all, known, cands, attempts, group, N
<1>4. cands \in Seq(N) /\ ToSet(cands) = ToSet(all) \cap known
  BY <1>2, FilteredIs DEF cands
<1>5. attempts \in Seq(N) /\ ToSet(attempts) = ToSet(cands) \cap held
  BY <1>4, FilteredIs DEF attempts
<1>6. attempts # <<>> <=> ToSet(attempts) # {}
  BY <1>5 DEF ToSet
<1>. QED  BY <1>1, <1>3, <1>4, <1>5, <1>6 DEF group

\* What a service that runs knows of its models and groups.
LEMMA RoutesLoaded ==
    ASSUME FrontendInv, status = "running"
    PROVE  /\ cfg.groups = file.groups /\ cfg.groups \in Seq(Groups)
           /\ Len(cfg.groups) \in Nat /\ DOMAIN cfg.groups = 1..Len(cfg.groups)
           /\ Len(cfg.models) \in Nat /\ DOMAIN cfg.models = 1..Len(cfg.models)
           /\ \A i \in DOMAIN cfg.models : Named(cfg.groups, cfg.models[i].routeGroup) # {}
<1>1. file \in Files /\ Loads(file) /\ cfg = Config(file)
  BY DEF FrontendInv, ServiceInv
<1>2. /\ cfg.groups = file.groups /\ cfg.models = file.models
      /\ cfg.groups \in Seq(Groups)
      /\ cfg.models \in Seq([pattern : STRING, routeGroup : STRING])
  BY <1>1 DEF Config, Files, Groups
<1>3. \A i \in DOMAIN cfg.models : \E j \in DOMAIN cfg.groups :
          cfg.groups[j].name = cfg.models[i].routeGroup
  BY <1>1, Zenon DEF Loads, Validate, ValidRoutes
<1>. QED  BY <1>2, <1>3 DEF Named

\* Of groups with names of their own, the first of a name is the last.
LEMMA OneOfAName ==
    ASSUME FrontendInv, status = "running", GroupsAreDistinct, NEW g, Named(cfg.groups, g) # {}
    PROVE  /\ findRouteGroup(cfg, g) = cfg.groups[Max(Named(cfg.groups, g))]
           /\ findRouteGroup(cfg, g) \in Groups
<1>. DEFINE groups == cfg.groups
            I == Named(groups, g)
            n == Len(groups)
<1>1. groups = file.groups /\ groups \in Seq(Groups) /\ n \in Nat /\ DOMAIN groups = 1..n
  BY RoutesLoaded
<1>2. I \in SUBSET (1..n) /\ I # {}
  BY <1>1 DEF Named
<1>3. Min(I) \in I
  BY <1>1, <1>2, LeastIndex
<1>4. Max(I) \in I
  BY <1>1, <1>2, GreatestIndex
<1>5. Min(I) = Max(I)
  BY <1>1, <1>3, <1>4 DEF Named, GroupsAreDistinct
<1>6. groups[Min(I)] \in Groups
  <2>. DEFINE least == Min(I)
  <2>. HIDE DEF groups, I, n, least
  <2>1. least \in DOMAIN groups
    BY <1>1, <1>2, <1>3 DEF least
  <2>2. groups[least] \in Groups
    BY <1>1, <2>1
  <2>. QED  BY <2>2 DEF least
<1>. QED  BY <1>5, <1>6 DEF findRouteGroup

\* The entry a routable model is matched with is one of the configuration's.
LEMMA MatchIsAnEntry ==
    ASSUME FrontendInv, status = "running", NEW name, Routable(cfg, name)
    PROVE  \E i \in DOMAIN cfg.models : matchModel(cfg, name) = cfg.models[i]
<1>. DEFINE I == MatchingModels(cfg, name)
            n == Len(cfg.models)
<1>1. n \in Nat /\ DOMAIN cfg.models = 1..n
  BY RoutesLoaded
<1>2. I \in SUBSET (1..n) /\ I # {}
  BY <1>1 DEF Routable, MatchingModels
<1>3. Min(I) \in I
  BY <1>1, <1>2, LeastIndex
<1>. QED  BY <1>1, <1>2, <1>3 DEF matchModel

\* 200 from /readyz means that a request for any model the configuration routes
\* would be planned at least one attempt.
THEOREM ReadyAlwaysMeansPlannable == Spec => []ReadyMeansPlannable
<1>1. ASSUME FrontendInv, Ready, GroupsAreDistinct, NEW name \in PublicModels,
             Routable(cfg, name)
      PROVE  Attempts(cfg, name, eligible) # <<>>
  <2>1. status = "running" /\ allRequiredRouteGroupsReady(cfg, eligible)
    BY <1>1 DEF Ready, Readyz
  <2>2. PICK i \in DOMAIN cfg.models : matchModel(cfg, name) = cfg.models[i]
    BY <1>1, <2>1, MatchIsAnEntry
  <2>. DEFINE g == cfg.models[i].routeGroup
  <2>3. Named(cfg.groups, g) # {} /\ g \in RequiredGroups(cfg)
    BY <1>1, <2>1, RoutesLoaded DEF RequiredGroups
  <2>4. routeGroupHasEligibleUpstream(cfg, findRouteGroup(cfg, g), eligible)
    BY <1>1, <2>1, <2>3, OneOfAName DEF allRequiredRouteGroupsReady
  <2>5. findRouteGroup(cfg, matchModel(cfg, name).routeGroup) \in Groups
    BY <1>1, <2>1, <2>2, <2>3, OneOfAName
  <2>. QED  BY <2>2, <2>4, <2>5, PlannedWhen
<1>2. FrontendInv => ReadyMeansPlannable
  BY <1>1, Zenon DEF ReadyMeansPlannable
<1>. QED  BY <1>2, FrontendInvariant, PTL

\* When every entry of models can be reached by some public model and each of those
\* would be planned an attempt, the service is ready as soon as it has started and
\* swept.
THEOREM PlannableAlwaysMeansReady == Spec => []PlannableMeansReady
<1>1. ASSUME FrontendInv, status = "running", GroupsAreDistinct, started, initialProbeComplete,
             \A i \in DOMAIN cfg.models : \E name \in PublicModels :
                /\ Routable(cfg, name)
                /\ matchModel(cfg, name) = cfg.models[i]
                /\ Attempts(cfg, name, eligible) # <<>>
      PROVE  Ready
  <2>1. ASSUME NEW g \in RequiredGroups(cfg)
        PROVE  /\ Named(cfg.groups, g) # {}
               /\ routeGroupHasEligibleUpstream(
                      cfg, cfg.groups[Max(Named(cfg.groups, g))], eligible)
    <3>1. PICK i \in DOMAIN cfg.models : g = cfg.models[i].routeGroup
      BY <2>1 DEF RequiredGroups
    <3>2. PICK name \in PublicModels : /\ matchModel(cfg, name) = cfg.models[i]
                                       /\ Attempts(cfg, name, eligible) # <<>>
      BY <1>1
    <3>3. Named(cfg.groups, g) # {}
      BY <1>1, <3>1, RoutesLoaded
    <3>4. /\ findRouteGroup(cfg, g) \in Groups
          /\ findRouteGroup(cfg, g) = cfg.groups[Max(Named(cfg.groups, g))]
      BY <1>1, <3>3, OneOfAName
    <3>5. routeGroupHasEligibleUpstream(cfg, findRouteGroup(cfg, g), eligible)
      BY <3>1, <3>2, <3>4, PlannedWhen
    <3>. QED  BY <3>3, <3>4, <3>5
  <2>. QED  BY <1>1, <2>1 DEF Ready, Readyz, allRequiredRouteGroupsReady
<1>2. FrontendInv => PlannableMeansReady
  BY <1>1, Zenon DEF PlannableMeansReady
<1>. QED  BY <1>2, FrontendInvariant, PTL

----------------------------------------------------------------------------
(* 11. What the service makes of the settings in its file.                 *)

\* What the checks for written values leave of a section: null only behind an alias.
Checked(section) == IsSection(section) /\ ~NullWritten(section)

LEMMA NullsBehindAliases ==
    ASSUME NEW section, Checked(section), NEW f \in DOMAIN section.settings,
           ~Present(section.settings[f])
    PROVE  \A used : UsedAsWritten(section, f, used)
BY DEF Checked, IsSection, NullWritten, Present, UsedAsWritten

\* A duration that was loaded is used as it was written.
LEMMA DurationUsed ==
    ASSUME NEW section, Checked(section), NEW f \in DOMAIN section.settings,
           section.settings[f] \in Durations, section.settings[f].form # "empty",
           NEW loaded, OptionalDuration(loaded),
           Present(section.settings[f]) => loaded = section.settings[f]
    PROVE  \A fallback : UsedAsWritten(section, f, durationOrDefault(loaded, fallback))
<1>. TAKE fallback
<1>1. CASE ~Present(section.settings[f])
  BY <1>1, NullsBehindAliases
<1>2. CASE Present(section.settings[f])
  BY <1>2 DEF Durations, OptionalDuration, Empty, validatePositiveDuration, durationOrDefault,
              UsedAsWritten, Present
<1>. QED  BY <1>1, <1>2

\* So is a number, and a switch.
LEMMA CountUsed ==
    ASSUME NEW section, Checked(section), NEW f \in DOMAIN section.settings,
           section.settings[f] \in Counts, NEW loaded, loaded.value >= 1,
           Present(section.settings[f]) => loaded = section.settings[f]
    PROVE  \A fallback : UsedAsWritten(section, f, intOrDefault(loaded, fallback))
<1>. TAKE fallback
<1>1. CASE ~Present(section.settings[f])
  BY <1>1, NullsBehindAliases
<1>2. CASE Present(section.settings[f])
  BY <1>2 DEF Counts, intOrDefault, UsedAsWritten, Present
<1>. QED  BY <1>1, <1>2

LEMMA SwitchUsed ==
    ASSUME NEW section, Checked(section), NEW f \in DOMAIN section.settings,
           section.settings[f] \in Switches, NEW loaded,
           Present(section.settings[f]) => loaded = section.settings[f]
    PROVE  UsedAsWritten(section, f, loaded.value)
<1>1. CASE ~Present(section.settings[f])
  BY <1>1, NullsBehindAliases
<1>2. CASE Present(section.settings[f])
  BY <1>2 DEF Switches, UsedAsWritten, Present
<1>. QED  BY <1>1, <1>2

\* What loading a file established about its sections.
HealthSettings == [ probe_interval : Durations, probe_timeout : Durations,
                    require_initial_probe : Switches ]
BreakerSettings == [ failure_threshold : Counts, open_interval : Durations,
                     recovery_success_threshold : Counts ]
ProbeSettings == [interval : Durations, timeout : Durations]

LEMMA SectionsLoaded ==
    ASSUME NEW f \in Files, Loads(f)
    PROVE  /\ Checked(f.health) /\ f.health.settings \in HealthSettings
           /\ Checked(f.breaker) /\ f.breaker.settings \in BreakerSettings
           /\ \A x \in {"probe_interval", "probe_timeout"} :
                  /\ f.health.settings[x].form # "empty"
                  /\ OptionalDuration(applyRuntimeHealthDefaults(f.health.settings)[x])
           /\ f.breaker.settings["open_interval"].form # "empty"
           /\ OptionalDuration(
                  applyRuntimeHealthDefaults(f.breaker.settings)["open_interval"])
           /\ applyRuntimeHealthDefaults(f.breaker.settings)["failure_threshold"].value >= 1
           /\ applyRuntimeHealthDefaults(f.breaker.settings)
                  ["recovery_success_threshold"].value >= 1
<1>1. /\ IsSection(f.health) /\ f.health.settings \in HealthSettings
      /\ IsSection(f.breaker) /\ f.breaker.settings \in BreakerSettings
  BY DEF Files, Sections, HealthSettings, BreakerSettings
<1>2. ~NullWritten(f.health) /\ ~NullWritten(f.breaker)
  BY Zenon DEF Loads, validateExplicitRuntimeHealthNullOverrides
<1>3. /\ \A x \in {"probe_interval", "probe_timeout"} : f.health.settings[x].form # "empty"
      /\ f.breaker.settings["open_interval"].form # "empty"
  BY Zenon DEF Loads, validateExplicitRuntimeHealthDurationOverrides
<1>4. /\ \A x \in {"probe_interval", "probe_timeout"} : OptionalDuration(Config(f).health[x])
      /\ OptionalDuration(Config(f).breaker["open_interval"])
      /\ Config(f).breaker["failure_threshold"].value >= 1
      /\ Config(f).breaker["recovery_success_threshold"].value >= 1
  BY Zenon DEF Loads, Validate
<1>5. /\ Config(f).health = applyRuntimeHealthDefaults(f.health.settings)
      /\ Config(f).breaker = applyRuntimeHealthDefaults(f.breaker.settings)
  BY DEF Config
<1>. QED  BY <1>1, <1>2, <1>3, <1>4, <1>5 DEF Checked

\* A present setting is loaded as it is.
LEMMA PresentIsLoaded ==
    ASSUME NEW settings, NEW f \in DOMAIN settings, Present(settings[f])
    PROVE  applyRuntimeHealthDefaults(settings)[f] = settings[f]
BY DEF applyRuntimeHealthDefaults

\* ... and about each provider.
LEMMA ProvidersLoaded ==
    ASSUME NEW f \in Files, Loads(f), NEW i \in DOMAIN f.providers
    PROVE  LET p == f.providers[i]
               q == Config(f).providers[i]
           IN  /\ Checked(p.probe) /\ p.probe.settings \in ProbeSettings
               /\ \A x \in ProbeFields :
                      /\ p.probe.settings[x].form # "empty"
                      /\ q.probe.settings[x] = Decoded(p.probe.settings[x])
                      /\ OptionalDuration(q.probe.settings[x])
               /\ q.probe.path = p.probe.path
               /\ q.probe.expectedStatuses = p.probe.expectedStatuses
<1>. DEFINE p == f.providers[i]
            q == Config(f).providers[i]
            Provider == [name : STRING, provider : STRING, baseURL : STRING, probe : Probes]
<1>1. p \in Provider
  <2>1. f.providers \in Seq(Provider)
    BY DEF Files
  <2>. HIDE DEF Provider
  <2>. QED  BY <2>1
<1>2. /\ p.probe \in [ form : STRING, method : STRING, path : STRING,
                       expectedStatuses : SUBSET Int, settings : ProbeSettings ]
      /\ IsSection(p.probe)
  BY <1>1 DEF Probes, ProbeSettings
<1>3. ~NullWritten(p.probe)
  BY Zenon DEF Loads, validateExplicitRuntimeHealthNullOverrides
<1>4. \A x \in ProbeFields : p.probe.settings[x].form # "empty"
  BY Zenon DEF Loads, validateExplicitRuntimeHealthDurationOverrides
<1>5. q = DecodedProvider(p) /\ i \in DOMAIN Config(f).providers
  BY DEF Config
<1>6. /\ q.probe.settings = [x \in ProbeFields |-> Decoded(p.probe.settings[x])]
      /\ q.probe.path = p.probe.path
      /\ q.probe.expectedStatuses = p.probe.expectedStatuses
  <2>1. q.probe = [p.probe EXCEPT !.settings =
                      [x \in ProbeFields |-> Decoded(p.probe.settings[x])]]
    BY <1>1, <1>5 DEF DecodedProvider
  <2>. HIDE DEF p, q
  <2>. QED  BY <1>2, <2>1
<1>7. \A x \in ProbeFields : OptionalDuration(q.probe.settings[x])
  BY <1>5, Zenon DEF Loads, Validate, ValidProvider
<1>. HIDE DEF p, q
<1>8. \A x \in ProbeFields : q.probe.settings[x] = Decoded(p.probe.settings[x])
  BY <1>6
<1>. QED  BY <1>2, <1>3, <1>4, <1>6, <1>7, <1>8 DEF Checked, p, q

\* Every provider has its target.
LEMMA TargetsAre ==
    ASSUME NEW c, c.providers \in Seq({c.providers[i] : i \in DOMAIN c.providers}),
           \A i \in DOMAIN c.providers : ValidProvider(c.providers[i])
    PROVE  \A i \in DOMAIN c.providers :
               Targets(c)[i] = buildProbeTarget(
                   c.providers[i], durationOrDefault(c.health["probe_interval"], 15),
                   durationOrDefault(c.health["probe_timeout"], 2))
<1>. DEFINE providers == c.providers
            P == {providers[i] : i \in DOMAIN providers}
            interval == durationOrDefault(c.health["probe_interval"], 15)
            timeout  == durationOrDefault(c.health["probe_timeout"], 2)
            Target(p) == buildProbeTarget(p, interval, timeout)
            all == [i \in DOMAIN providers |-> Target(providers[i])]
            S == {all[i] : i \in DOMAIN providers}
<1>1. \A i \in DOMAIN providers :
          Only(providers[i].name # "", Target(providers[i])) = <<Target(providers[i])>>
  BY Zenon DEF ValidProvider, Only
<1>2. [i \in DOMAIN providers |-> Only(providers[i].name # "", Target(providers[i]))]
          = [i \in DOMAIN providers |-> <<Target(providers[i])>>]
  BY <1>1, Zenon
<1>3. Targets(c) = FlattenSeq([i \in DOMAIN providers |-> <<Target(providers[i])>>])
  BY <1>2, Zenon DEF Targets, Gather
<1>4. [i \in DOMAIN providers |-> <<Target(providers[i])>>] = [i \in DOMAIN all |-> <<all[i]>>]
  <2>. HIDE DEF Target
  <2>. QED  OBVIOUS
<1>5. all \in Seq(S)
  <2>1. DOMAIN all = DOMAIN providers /\ all = [i \in DOMAIN all |-> all[i]]
    BY Zenon
  <2>2. \A i \in DOMAIN providers : all[i] \in S
    BY Zenon
  <2>3. providers \in Seq(P)
    OBVIOUS
  <2>. HIDE DEF all, S, P, providers
  <2>. QED  BY <2>1, <2>2, <2>3, SeqOfEach
<1>6. FlattenSeq([i \in DOMAIN all |-> <<all[i]>>]) = all
  <2>. HIDE DEF all, S
  <2>. QED  BY <1>5, FlattenSingles
<1>7. Targets(c) = all
  BY <1>3, <1>4, <1>6, Zenon
<1>. QED  BY <1>7, Zenon

\* A probe's duration is the provider's own, or the file's for all of them.
LEMMA ProbeDurationUsed ==
    ASSUME NEW probe, Checked(probe), NEW own \in DOMAIN probe.settings,
           probe.settings[own] \in Durations, probe.settings[own].form # "empty",
           OptionalDuration(Decoded(probe.settings[own])),
           NEW shared, NEW field, NEW common, UsedAsWritten(shared, field, common)
    PROVE  LET used == durationOrDefault(Decoded(probe.settings[own]), common)
           IN  /\ UsedAsWritten(probe, own, used)
               /\ Present(probe.settings[own]) \/ UsedAsWritten(shared, field, used)
<1>1. CASE Present(probe.settings[own])
  <2>1. Decoded(probe.settings[own]) = probe.settings[own]
    BY <1>1 DEF Decoded
  <2>. QED  BY <1>1, <2>1, DurationUsed
<1>2. CASE ~Present(probe.settings[own])
  <2>1. durationOrDefault(Decoded(probe.settings[own]), common) = common
    BY <1>2 DEF Decoded, Empty, durationOrDefault
  <2>. QED  BY <1>2, <2>1, NullsBehindAliases
<1>. QED  BY <1>1, <1>2

\* What a target has of its provider.
IsTarget(t, p, interval, timeout) ==
    /\ t.interval = durationOrDefault(p.probe.settings["interval"], interval)
    /\ t.timeout = durationOrDefault(p.probe.settings["timeout"], timeout)
    /\ p.probe.path \in {"", t.path}
    /\ p.probe.expectedStatuses \in {{}, t.expected}

LEMMA TargetFields ==
    \A p, interval, timeout :
        IsTarget(buildProbeTarget(p, interval, timeout), p, interval, timeout)
<1>. TAKE p, interval, timeout
<1>. DEFINE t == buildProbeTarget(p, interval, timeout)
<1>1. t.interval = durationOrDefault(p.probe.settings["interval"], interval)
  BY Zenon DEF buildProbeTarget
<1>2. t.timeout = durationOrDefault(p.probe.settings["timeout"], timeout)
  BY Zenon DEF buildProbeTarget
<1>3. t.path = IF p.probe.path = "" THEN defaultProbePath(p.provider) ELSE p.probe.path
  BY Zenon DEF buildProbeTarget
<1>4. t.expected = IF p.probe.expectedStatuses = {} THEN {200} ELSE p.probe.expectedStatuses
  BY Zenon DEF buildProbeTarget
<1>. HIDE DEF t
<1>5. p.probe.path \in {"", t.path}
  BY <1>3, Zenon
<1>6. p.probe.expectedStatuses \in {{}, t.expected}
  BY <1>4, Zenon
<1>. QED  BY <1>1, <1>2, <1>5, <1>6, Zenon DEF IsTarget, t

\* A service that runs uses every health setting written in its file, with the
\* value written; what cannot be used as it stands never starts it.
THEOREM OverridesAreAlwaysUsedOrRefused == Spec => []OverridesAreUsedOrRefused
<1>. DEFINE Used(probe, own, shared, used) ==
                /\ UsedAsWritten(probe, own, used)
                /\ Present(probe.settings[own]) \/ UsedAsWritten(file.health, shared, used)
<1>1. ASSUME FrontendInv, status = "running"
      PROVE  /\ file \in Files /\ Loads(file) /\ cfg = Config(file)
             /\ options.runtime = RuntimeOptions(cfg) /\ options.targets = Targets(cfg)
             /\ cfg.health = applyRuntimeHealthDefaults(file.health.settings)
             /\ cfg.breaker = applyRuntimeHealthDefaults(file.breaker.settings)
             /\ \A x \in {"probe_interval", "probe_timeout", "require_initial_probe"} :
                    x \in DOMAIN file.health.settings
             /\ \A x \in {"failure_threshold", "open_interval", "recovery_success_threshold"} :
                    x \in DOMAIN file.breaker.settings
  <2>1. /\ file \in Files /\ Loads(file) /\ cfg = Config(file)
        /\ options.runtime = RuntimeOptions(cfg) /\ options.targets = Targets(cfg)
    BY <1>1 DEF FrontendInv, ServiceInv
  <2>2. file.health.settings \in HealthSettings /\ file.breaker.settings \in BreakerSettings
    BY <2>1, SectionsLoaded
  <2>. QED  BY <2>1, <2>2 DEF Config, HealthSettings, BreakerSettings
<1>2. ASSUME FrontendInv, status = "running"
      PROVE  \A fallback :
                /\ UsedAsWritten(file.health, "probe_interval",
                                 durationOrDefault(cfg.health["probe_interval"], fallback))
                /\ UsedAsWritten(file.health, "probe_timeout",
                                 durationOrDefault(cfg.health["probe_timeout"], fallback))
  <2>1. ASSUME NEW x \in {"probe_interval", "probe_timeout"}, NEW fallback
        PROVE  UsedAsWritten(file.health, x, durationOrDefault(cfg.health[x], fallback))
    <3>1. /\ Checked(file.health) /\ x \in DOMAIN file.health.settings
          /\ file.health.settings[x] \in Durations
          /\ file.health.settings[x].form # "empty"
          /\ OptionalDuration(cfg.health[x])
      BY <1>1, <1>2, <2>1, SectionsLoaded DEF HealthSettings
    <3>2. Present(file.health.settings[x]) => cfg.health[x] = file.health.settings[x]
      BY <1>1, <1>2, <3>1, PresentIsLoaded
    <3>. QED  BY <3>1, <3>2, DurationUsed
  <2>. QED  BY <2>1
<1>3. ASSUME FrontendInv, status = "running"
      PROVE  UsedAsWritten(file.health, "require_initial_probe",
                           cfg.health["require_initial_probe"].value)
  <2>. DEFINE x == "require_initial_probe"
  <2>1. /\ Checked(file.health) /\ x \in DOMAIN file.health.settings
        /\ file.health.settings[x] \in Switches
    BY <1>1, <1>3, SectionsLoaded DEF HealthSettings
  <2>2. Present(file.health.settings[x]) => cfg.health[x] = file.health.settings[x]
    BY <1>1, <1>3, <2>1, PresentIsLoaded
  <2>. QED  BY <2>1, <2>2, SwitchUsed
<1>4. ASSUME FrontendInv, status = "running"
      PROVE  /\ UsedAsWritten(file.breaker, "failure_threshold",
                              options.runtime.failureThreshold)
             /\ UsedAsWritten(file.breaker, "open_interval", options.runtime.openInterval)
             /\ UsedAsWritten(file.breaker, "recovery_success_threshold",
                              options.runtime.recoverySuccessThreshold)
  <2>1. /\ Checked(file.breaker) /\ file.breaker.settings \in BreakerSettings
        /\ file.breaker.settings["open_interval"].form # "empty"
        /\ OptionalDuration(cfg.breaker["open_interval"])
        /\ cfg.breaker["failure_threshold"].value >= 1
        /\ cfg.breaker["recovery_success_threshold"].value >= 1
    BY <1>1, <1>4, SectionsLoaded
  <2>2. \A x \in {"failure_threshold", "open_interval", "recovery_success_threshold"} :
            /\ x \in DOMAIN file.breaker.settings
            /\ Present(file.breaker.settings[x]) => cfg.breaker[x] = file.breaker.settings[x]
    BY <1>1, <1>4, PresentIsLoaded
  <2>3. /\ file.breaker.settings["failure_threshold"] \in Counts
        /\ file.breaker.settings["open_interval"] \in Durations
        /\ file.breaker.settings["recovery_success_threshold"] \in Counts
    BY <2>1 DEF BreakerSettings
  <2>4. /\ options.runtime.failureThreshold = intOrDefault(cfg.breaker["failure_threshold"], 3)
        /\ options.runtime.openInterval = durationOrDefault(cfg.breaker["open_interval"], 30)
        /\ options.runtime.recoverySuccessThreshold
               = intOrDefault(cfg.breaker["recovery_success_threshold"], 1)
    BY <1>1, <1>4 DEF RuntimeOptions
  <2>5. UsedAsWritten(file.breaker, "failure_threshold", options.runtime.failureThreshold)
    BY <2>1, <2>2, <2>3, <2>4, CountUsed
  <2>6. UsedAsWritten(file.breaker, "open_interval", options.runtime.openInterval)
    BY <2>1, <2>2, <2>3, <2>4, DurationUsed
  <2>7. UsedAsWritten(file.breaker, "recovery_success_threshold",
                      options.runtime.recoverySuccessThreshold)
    BY <2>1, <2>2, <2>3, <2>4, CountUsed
  <2>. QED  BY <2>5, <2>6, <2>7
<1>5. ASSUME FrontendInv, status = "running", NEW i \in DOMAIN file.providers
      PROVE  LET probe  == file.providers[i].probe
                 target == options.targets[i]
             IN  /\ Used(probe, "interval", "probe_interval", target.interval)
                 /\ Used(probe, "timeout", "probe_timeout", target.timeout)
                 /\ probe.path \in {"", target.path}
                 /\ probe.expectedStatuses \in {{}, target.expected}
  <2>. DEFINE probe  == file.providers[i].probe
              p == cfg.providers[i]
              target == options.targets[i]
              interval == durationOrDefault(cfg.health["probe_interval"], 15)
              timeout  == durationOrDefault(cfg.health["probe_timeout"], 2)
  <2>1. /\ Checked(probe) /\ probe.settings \in ProbeSettings
        /\ \A x \in ProbeFields :
               /\ probe.settings[x].form # "empty"
               /\ p.probe.settings[x] = Decoded(probe.settings[x])
               /\ OptionalDuration(p.probe.settings[x])
        /\ p.probe.path = probe.path
        /\ p.probe.expectedStatuses = probe.expectedStatuses
    BY <1>1, <1>5, ProvidersLoaded
  <2>2. target = buildProbeTarget(p, interval, timeout)
    <3>1. DOMAIN cfg.providers = DOMAIN file.providers
          /\ cfg.providers \in Seq({cfg.providers[k] : k \in DOMAIN cfg.providers})
      <4>1. cfg.providers = [k \in DOMAIN file.providers |->
                                DecodedProvider(file.providers[k])]
        BY <1>1, <1>5 DEF Config
      <4>2. file.providers \in Seq([name : STRING, provider : STRING, baseURL : STRING,
                                    probe : Probes])
        BY <1>1, <1>5 DEF Files
      <4>. DEFINE Provider == [name : STRING, provider : STRING, baseURL : STRING,
                               probe : Probes]
                  S == {cfg.providers[k] : k \in DOMAIN cfg.providers}
                  all == cfg.providers
                  written == file.providers
      <4>3. DOMAIN all = DOMAIN written /\ all = [k \in DOMAIN all |-> all[k]]
        BY <4>1
      <4>4. \A k \in DOMAIN written : all[k] \in S
        BY <4>3
      <4>5. written \in Seq(Provider)
        BY <4>2
      <4>6. all \in Seq(S)
        <5>. HIDE DEF all, written, S, Provider
        <5>. QED  BY <4>3, <4>4, <4>5, SeqOfEach
      <4>. QED  BY <4>3, <4>6
    <3>2. \A k \in DOMAIN cfg.providers : ValidProvider(cfg.providers[k])
      BY <1>1, <1>5, Zenon DEF Loads, Validate
    <3>3. options.targets = Targets(cfg)
      BY <1>1, <1>5
    <3>. QED  BY <3>1, <3>2, <3>3, TargetsAre
  <2>3. IsTarget(target, p, interval, timeout)
    BY <2>2, TargetFields, Zenon
  <2>4. /\ UsedAsWritten(file.health, "probe_interval", interval)
        /\ UsedAsWritten(file.health, "probe_timeout", timeout)
    BY <1>2, <1>5
  <2>5. /\ "interval" \in ProbeFields /\ "timeout" \in ProbeFields
        /\ \A x \in ProbeFields : x \in DOMAIN probe.settings /\ probe.settings[x] \in Durations
    BY <2>1 DEF ProbeSettings, ProbeFields
  <2>6. probe.path \in {"", target.path}
    BY <2>1, <2>3, Zenon DEF IsTarget
  <2>7. probe.expectedStatuses \in {{}, target.expected}
    BY <2>1, <2>3, Zenon DEF IsTarget
  <2>8. /\ target.interval = durationOrDefault(Decoded(probe.settings["interval"]), interval)
        /\ target.timeout = durationOrDefault(Decoded(probe.settings["timeout"]), timeout)
    BY <2>1, <2>3, <2>5, Zenon DEF IsTarget
  <2>. HIDE DEF probe, p, target, interval, timeout
  <2>9. Used(probe, "interval", "probe_interval", target.interval)
    BY <2>1, <2>4, <2>5, <2>8, ProbeDurationUsed
  <2>10. Used(probe, "timeout", "probe_timeout", target.timeout)
    BY <2>1, <2>4, <2>5, <2>8, ProbeDurationUsed
  <2>. HIDE DEF Used
  <2>. QED  BY <2>6, <2>7, <2>9, <2>10, Zenon DEF probe, target
<1>6. FrontendInv => OverridesAreUsedOrRefused
  BY <1>3, <1>4, <1>5, Zenon DEF OverridesAreUsedOrRefused
<1>. QED  BY <1>6, FrontendInvariant, PTL
=============================================================================
