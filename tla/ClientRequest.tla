--------------------------- MODULE ClientRequest ---------------------------
(***************************************************************************)
(* internal/httpapi/openai: how a client's JSON body becomes a             *)
(* canonical.Request, for both public endpoints, and which bodies the two  *)
(* decoders refuse.                                                        *)
(*                                                                         *)
(* A body is wellFormed if it fits the endpoint's Go struct.  keys are the *)
(* fields a content item or an image object has, besides "type".  On       *)
(* /v1/responses maxCompletionTokens is max_output_tokens.  Texts, URLs and*)
(* names are values; of a URL only what validatePublicImageURL asks is     *)
(* known.  JSON null decodes as the empty string and needs no form of its  *)
(* own.                                                                    *)
(*                                                                         *)
(* A JSON schema is a sequence of nodes: node 0 is the schema itself, an   *)
(* object; a node's parent comes before it; the key is the member's name,  *)
(* and "" for an element of an array.                                      *)
(***************************************************************************)
EXTENDS Naturals, Gathering

CONSTANT RemoteURLs   \* URLs of scheme http or https with a host

Absent == "absent"       \* a field not sent: a nil pointer
NotString == "notString" \* a JSON value of another type
DataURL == "data:"       \* any URL of scheme data

JSONSchemas ==
    {s \in Seq([ parent : Nat, key : STRING,
                  kind : {"object", "array", "false", "scalar"} ]) :
        \A i \in DOMAIN s :
            LET p == s[i].parent
            IN  /\ p < i
                /\ p # 0 => s[p].kind \in {"object", "array"}
                /\ p # 0 /\ s[p].kind = "array" => s[i].key = ""}

ContentItems ==
    [ type : STRING, keys : SUBSET STRING, text : STRING,
      image : [form : STRING, keys : SUBSET STRING, url : STRING] ]

Messages ==
    [ role : STRING,
      content : [ form : {"text", "items", "other", Absent}, text : STRING,
                  items : Seq(ContentItems) ] ]

\* stop, tool_choice and max_tokens are no fields of the responses endpoint.
Bodies ==
    {b \in [ endpoint   : {"chat", "responses"},
              wellFormed : BOOLEAN,
              model      : STRING,
              stream     : BOOLEAN,
              metadata   : STRING,
              messages   : Seq(Messages),
              tools      : Seq([ type : STRING, function : BOOLEAN, name : STRING,
                                 schema : JSONSchemas ]),
              toolChoice : [form : {"mode", "function", "other", Absent}, value : STRING],
              stop       : [form : {"one", "many", "other", Absent}, value : Seq(STRING)],
              temperature : STRING, topP : STRING,
              maxTokens : STRING, maxCompletionTokens : STRING,
              format     : [type : STRING, schema : JSONSchemas] ] :
        b.endpoint = "responses" => b.stop.value = <<>> /\ b.toolChoice.form # "function"}

Errors == {"none", "invalid_request", "unsupported_capability"}

\* The decoders return the first error they meet.
FirstError(errors) ==
    LET failing == {i \in DOMAIN errors : errors[i] # "none"}
    IN  IF failing = {} THEN "none" ELSE errors[Min(failing)]

InvalidUnless(condition) == IF condition THEN "none" ELSE "invalid_request"

----------------------------------------------------------------------------
(* Content items.                                                          *)

normalizeRole(role) ==
    IF role \in {"system", "assistant", "tool"} THEN role ELSE "user"

TextType  == [chat |-> "text",      responses |-> "input_text"]
ImageType == [chat |-> "image_url", responses |-> "input_image"]

\* isImageLikeContentItem, then normalizePublicTextField.
TextError(item) ==
    InvalidUnless(/\ item.keys \cap {"image_url", "file_id"} = {}
                  /\ "text" \in item.keys
                  /\ item.text # NotString)

\* Mutant: images are taken from any role.
validatePublicImageRole_Any(rawRole) == "none"

validatePublicImageRole(rawRole) ==
    InvalidUnless(rawRole = "user" /\ normalizeRole(rawRole) = "user")

validatePublicImageURL(url) ==
    IF url = DataURL THEN "unsupported_capability"
    ELSE InvalidUnless(url \in RemoteURLs)

\* validateAllowedObjectKeys, and the check for file_id before it.
KeysError(keys, allowed) ==
    IF keys \subseteq allowed THEN "none" ELSE "unsupported_capability"

normalizeChatImageURL(item) ==
    FirstError(<<
        KeysError(item.keys, {"image_url"}),
        InvalidUnless("image_url" \in item.keys /\ item.image.form = "object"),
        KeysError(item.image.keys, {"url"}),
        InvalidUnless("url" \in item.image.keys /\ item.image.url # NotString) >>)

normalizeResponsesImageURL(item) ==
    FirstError(<<
        KeysError(item.keys, {"image_url"}),
        InvalidUnless("image_url" \in item.keys),
        IF item.image.form = "object" /\ "file_id" \in item.image.keys
        THEN "unsupported_capability" ELSE "none",
        InvalidUnless(item.image.form = "string") >>)

ItemError(endpoint, rawRole, item) ==
    CASE item.type = TextType[endpoint]  -> TextError(item)
      [] item.type = ImageType[endpoint] ->
             FirstError(<<
                 validatePublicImageRole(rawRole),
                 IF endpoint = "chat" THEN normalizeChatImageURL(item)
                                      ELSE normalizeResponsesImageURL(item),
                 validatePublicImageURL(item.image.url) >>)
      [] OTHER -> "invalid_request"

ContentError(endpoint, message) ==
    CASE message.content.form = "items" ->
             FirstError([i \in DOMAIN message.content.items |->
                 ItemError(endpoint, message.role, message.content.items[i])])
      [] message.content.form = "other" -> "invalid_request"
      [] OTHER -> "none"

Text(t)  == [type |-> "text",  value |-> t]
Image(u) == [type |-> "image", value |-> u]

Block(endpoint, item) ==
    IF item.type = TextType[endpoint] THEN Text(item.text) ELSE Image(item.image.url)

\* The blocks of a message without errors.
Blocks(endpoint, content) ==
    CASE content.form = "text"  -> <<Text(content.text)>>
      [] content.form = "items" ->
             [i \in DOMAIN content.items |-> Block(endpoint, content.items[i])]
      [] OTHER -> <<>>

Conversation(body) ==
    [i \in DOMAIN body.messages |->
        [ role    |-> normalizeRole(body.messages[i].role),
          content |-> Blocks(body.endpoint, body.messages[i].content) ]]

ConversationError(body) ==
    FirstError([i \in DOMAIN body.messages |->
                   ContentError(body.endpoint, body.messages[i])])

----------------------------------------------------------------------------
(* The other fields.                                                       *)

\* What the decoder does not take for a tool it drops.
IsTool(endpoint, tool) ==
    IF endpoint = "chat" THEN tool.type = "function" /\ tool.function
                         ELSE tool.name # ""

Tools(body) ==
    Gather(body.tools, LAMBDA t : Only(IsTool(body.endpoint, t),
                                       [name |-> t.name, schema |-> t.schema]))

ToolChoiceError(choice) ==
    InvalidUnless(\/ choice.form = Absent
                  \/ choice.form = "mode" /\ choice.value \in {"", "auto"}
                  \/ choice.form = "function" /\ choice.value # "")

\* Mutant: a named choice is read as "auto".
decodeChatToolChoice_Ignored(choice) == ""

decodeChatToolChoice(choice) ==
    IF choice.form = "function" THEN choice.value ELSE ""

StopError(stop) == InvalidUnless(stop.form # "other")

\* An empty single stop is no stop.
decodeStop(stop) == IF stop.form = "one" /\ stop.value = <<"">> THEN <<>> ELSE stop.value

\* Mutant: the older field comes first.
MaxOutputTokens_OldFirst(body) ==
    IF body.endpoint = "chat" /\ body.maxTokens # Absent
    THEN body.maxTokens ELSE body.maxCompletionTokens

MaxOutputTokens(body) ==
    IF body.endpoint = "chat" /\ body.maxCompletionTokens = Absent
    THEN body.maxTokens ELSE body.maxCompletionTokens

ResponseContract(format) ==
    [ kind   |-> IF format.type \in {"json_object", "json_schema"} THEN format.type ELSE "",
      schema |-> IF format.type = "json_schema" THEN format.schema ELSE <<>> ]

----------------------------------------------------------------------------
(* The decoders.                                                           *)

DecodeChatCompletionRequest(body) ==
    [ error   |-> FirstError(<< InvalidUnless(body.wellFormed),
                                ConversationError(body),
                                ToolChoiceError(body.toolChoice),
                                StopError(body.stop) >>),
      request |->
        [ endpoint         |-> "chat",
          publicModel      |-> body.model,
          conversation     |-> Conversation(body),
          generation       |-> [ temperature     |-> body.temperature,
                                 topP            |-> body.topP,
                                 maxOutputTokens |-> MaxOutputTokens(body),
                                 stop            |-> decodeStop(body.stop) ],
          tools            |-> Tools(body),
          toolChoice       |-> decodeChatToolChoice(body.toolChoice),
          responseContract |-> ResponseContract(body.format),
          stream           |-> body.stream,
          metadata         |-> Absent ] ]

\* tool_choice, stop and max_tokens are no fields of this endpoint's struct;
\* content that is no array does not fit it.
DecodeResponsesRequest(body) ==
    [ error   |-> FirstError(<<
                    InvalidUnless(/\ body.wellFormed
                                  /\ \A i \in DOMAIN body.messages :
                                         body.messages[i].content.form
                                             \in {Absent, "items"}),
                    ConversationError(body) >>),
      request |->
        [ endpoint         |-> "responses",
          publicModel      |-> body.model,
          conversation     |-> Conversation(body),
          generation       |-> [ temperature     |-> body.temperature,
                                 topP            |-> body.topP,
                                 maxOutputTokens |-> MaxOutputTokens(body),
                                 stop            |-> <<>> ],
          tools            |-> Tools(body),
          toolChoice       |-> "",
          responseContract |-> ResponseContract(body.format),
          stream           |-> body.stream,
          metadata         |-> body.metadata ] ]

Decode(body) ==
    IF body.endpoint = "chat" THEN DecodeChatCompletionRequest(body)
                              ELSE DecodeResponsesRequest(body)
=============================================================================
