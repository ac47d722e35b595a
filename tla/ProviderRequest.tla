-------------------------- MODULE ProviderRequest --------------------------
(***************************************************************************)
(* internal/providers/openai and internal/providers/anthropic: the body an *)
(* adapter sends for a canonical.Request (as ClientRequest decodes one). A *)
(* payload of either family is the record of what it tells the upstream; a *)
(* field the encoder leaves out is Absent, "" or <<>>. (Anthropic is always*)
(* sent a system field: no system turn and an empty one are told apart by  *)
(* neither.) The shape a block or a tool takes on the wire differs between *)
(* the families and is left out: an encoder sends every text block and     *)
(* every image block of a turn it sends, in order.                         *)
(***************************************************************************)
EXTENDS ClientRequest

NoGeneration == [ temperature     |-> Absent,
                  topP            |-> Absent,
                  maxOutputTokens |-> Absent,
                  stop            |-> <<>> ]

----------------------------------------------------------------------------
(* OpenAI: the conversation goes on as it is.                              *)

\* The chat form has tools, a tool choice and stop, the responses form has
\* metadata.
OpenAIPayload(req) ==
    LET chat == req.endpoint # "responses"
    IN  [ family     |-> "openai",
          model      |-> req.publicModel,
          system     |-> "",
          turns      |-> req.conversation,
          tools      |-> IF chat THEN req.tools ELSE <<>>,
          toolChoice |-> IF chat THEN req.toolChoice ELSE "",
          generation |-> [req.generation EXCEPT !.stop = IF chat THEN @ ELSE <<>>],
          metadata   |-> IF chat THEN Absent ELSE req.metadata ]

----------------------------------------------------------------------------
(* Anthropic: system turns become one field.                               *)

IsSystem(turn) == turn.role = "system"

TextBlocks(turn) == Gather(turn.content, LAMBDA b : Only(b.type = "text", b.value))

\* Mutant: leaving the system turns out leaves out every later turn as well.
MessageTurns_StopsAtSystem(conversation) ==
    LET systems == {i \in DOMAIN conversation : IsSystem(conversation[i])}
    IN  IF systems = {} THEN conversation
        ELSE SubSeq(conversation, 1, Min(systems) - 1)

MessageTurns(conversation) == Gather(conversation, LAMBDA t : Only(~IsSystem(t), t))

\* Each system turn with a text block overwrites system with its first one.
SystemText(conversation) ==
    LET texts == Gather(conversation, LAMBDA t :
                     Only(IsSystem(t) /\ TextBlocks(t) # <<>>, TextBlocks(t)[1]))
    IN  IF texts = <<>> THEN "" ELSE Last(texts)

\* Nothing of Generation and no metadata is sent.
AnthropicPayload(req) ==
    [ family     |-> "anthropic",
      model      |-> req.publicModel,
      system     |-> SystemText(req.conversation),
      turns      |-> MessageTurns(req.conversation),
      tools      |-> req.tools,
      toolChoice |-> req.toolChoice,
      generation |-> NoGeneration,
      metadata   |-> Absent ]

EncodeRequest(family, req) ==
    IF family = "openai" THEN OpenAIPayload(req) ELSE AnthropicPayload(req)
=============================================================================
