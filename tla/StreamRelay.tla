---------------------------- MODULE StreamRelay ----------------------------
(***************************************************************************)
(* An upstream's answer on its way to the client: the adapters'            *)
(* DecodeStream (internal/providers) reads it line by line into canonical  *)
(* events, all of which the handler then writes out, as a stream           *)
(* (internal/streaming) or as one JSON body (internal/httpapi/openai,      *)
(* internal/usage).                                                        *)
(*                                                                         *)
(* The upstream speaks its provider's protocol.  Its connection may break  *)
(* or turn to nonsense at any line, and it may end early without an error. *)
(* A payload is the record of the fields the decoders look at.             *)
(***************************************************************************)
EXTENDS Integers, Gathering

CONSTANTS
    Texts,      \* pieces of text
    ToolIDs,    \* tool calls the model may make
    InTokens, OutTokens,   \* what the request costs
    MaxLines    \* bound on the lines before the upstream ends its message

VARIABLES
    family, kind,   \* which adapter, which endpoint
    phase,          \* where the upstream is in its protocol
    sent,           \* the lines it has sent
    events,         \* the canonical events decoded so far
    toolID,         \* anthropic: currentToolID
    stopReason,     \* anthropic: currentStopReason
    outcome         \* "reading", "ok", "retryable" or "committed"

vars == <<family, kind, phase, sent, events, toolID, stopReason, outcome>>

\* "text" and a tool call's id are the phases within Anthropic's blocks.
Phases   == {"start", "body", "text", "finished", "counted", "ended"}
Families == {"openai", "anthropic"}
Kinds    == {"chat", "responses"}

ASSUME StreamAssumption ==
    /\ "" \notin Texts \cup ToolIDs
    /\ ToolIDs \cap Phases = {}
    /\ {InTokens, OutTokens, MaxLines} \subseteq Nat \ {0}

Absent  == -1   \* a key the usage object does not have
NoUsage == [input |-> Absent, output |-> Absent, total |-> Absent]

\* A line: the event or payload type and the fields that may matter.
Line(type) == [type |-> type, text |-> "", tool |-> "", reason |-> "", usage |-> NoUsage]

----------------------------------------------------------------------------
(* Canonical events.                                                       *)

\* Data["text"] is what chat uses, Data["delta"] what responses uses.
ContentDelta(key, x) == [type |-> "content_delta", key |-> key, text |-> x]
ToolCallStart(t)     == [type |-> "tool_call_start", id |-> t]
ToolCallDelta(t, x)  == [type |-> "tool_call_delta", id |-> t, text |-> x]
UsageEvent(u)        == [type |-> "usage", usage |-> u]
MessageStop(reason)  == [type |-> "message_stop", reason |-> reason]

\* A stop without data.
BareStop == MessageStop("")

appendUsageEvent(u) == IF u # NoUsage THEN <<UsageEvent(u)>> ELSE <<>>

----------------------------------------------------------------------------
(* The openai decoders.                                                    *)

decodeResponsesEvent(l) ==
    CASE l.type = "response.output_text.delta" -> <<ContentDelta("delta", l.text)>>
      [] l.type = "response.completed"         -> appendUsageEvent(l.usage) \o <<BareStop>>
      [] OTHER                                 -> appendUsageEvent(l.usage)

\* A chunk's tool_calls are not looked at; one that carries them has no content.
decodeChatEvent(l) ==
    appendUsageEvent(l.usage)
        \o (IF l.text # "" /\ l.tool = "" THEN <<ContentDelta("text", l.text)>> ELSE <<>>)
        \o (IF l.reason # "" THEN <<MessageStop(l.reason)>> ELSE <<>>)

decodeOpenAI(l) ==
    CASE l.type = "[DONE]"    -> <<BareStop>>
      [] kind = "responses"   -> decodeResponsesEvent(l)
      [] OTHER                -> decodeChatEvent(l)

(* The anthropic decoder: events of a line, and the two locals after it.   *)

\* Mutant: text is keyed for chat on every endpoint.
anthropicDelta_ChatOnly(l) ==
    IF l.tool # "" THEN <<ToolCallDelta(toolID, l.text)>>
    ELSE <<ContentDelta("text", l.text)>>

\* partial_json if there is any, text otherwise.
anthropicDelta(l) ==
    IF l.tool # "" THEN <<ToolCallDelta(toolID, l.text)>>
    ELSE <<ContentDelta(IF kind = "responses" THEN "delta" ELSE "text", l.text)>>

\* Mutant: one stop for message_stop, with the reason.
anthropicStop_One(l) == <<MessageStop(stopReason)>>

anthropicStop(l) ==
    (IF stopReason # "" THEN <<MessageStop(stopReason)>> ELSE <<>>) \o <<BareStop>>

decodeAnthropic(l) ==
    CASE l.type \in {"message_start", "message_delta"} -> appendUsageEvent(l.usage)
      [] l.type = "content_block_start" ->
             IF l.tool # "" THEN <<ToolCallStart(l.tool)>> ELSE <<>>
      [] l.type = "content_block_delta" -> anthropicDelta(l)
      [] l.type = "message_stop"        -> anthropicStop(l)
      [] OTHER                          -> <<>>

\* Mutant: the first tool call's id is kept.
nextToolID_First(l) ==
    IF l.type = "content_block_start" /\ l.tool # "" /\ toolID = ""
    THEN l.tool ELSE toolID

\* Mutant: the id of a block that is not a tool call is taken too.
nextToolID_Unset(l) == IF l.type = "content_block_start" THEN l.type ELSE toolID

nextToolID(l) ==
    IF l.type = "content_block_start" /\ l.tool # "" THEN l.tool ELSE toolID

nextStopReason(l) ==
    CASE l.type = "message_delta" /\ l.reason # "" -> l.reason
      [] l.type = "message_stop"                   -> ""
      [] OTHER                                     -> stopReason

\* A turn of the openai DecodeStream's loop, which has no locals ...
ReadOpenAI(l) ==
    /\ events' = events \o decodeOpenAI(l)
    /\ UNCHANGED <<toolID, stopReason>>

\* ... and of the anthropic one's.
ReadAnthropic(l) ==
    /\ events' = events \o decodeAnthropic(l)
    /\ toolID' = nextToolID(l)
    /\ stopReason' = nextStopReason(l)

\* The provider's adapter reads the body.
Decode(l) == \/ family = "openai" /\ ReadOpenAI(l)
             \/ family = "anthropic" /\ ReadAnthropic(l)

----------------------------------------------------------------------------
(* What the client gets.                                                   *)

normalizeFinishReason(reason) ==
    CASE reason \in {"end_turn", "stop_sequence"} -> "stop"
      [] reason = "max_tokens"                    -> "length"
      [] reason = "tool_use"                      -> "tool_calls"
      [] OTHER                                    -> reason

Chunk(what, value) == [chunk |-> what, value |-> value]

chatChunks(e) ==
    CASE e.type = "content_delta"   -> <<Chunk("content", IF e.key = "text" THEN e.text ELSE "")>>
      [] e.type = "tool_call_start" -> <<Chunk("tool", <<e.id, "">>)>>
      [] e.type = "tool_call_delta" -> <<Chunk("tool", <<e.id, e.text>>)>>
      [] e.type = "message_stop"    ->
             IF e.reason # "" THEN <<Chunk("finish", normalizeFinishReason(e.reason))>>
                              ELSE <<Chunk("done", "")>>
      [] OTHER                      -> <<>>

responsesChunks(e) ==
    CASE e.type = "content_delta" -> <<Chunk("content", IF e.key = "delta" THEN e.text ELSE "")>>
      [] e.type = "message_stop"  -> <<Chunk("completed", "")>>
      [] OTHER                    -> <<>>

Chunks(e) == IF kind = "chat" THEN chatChunks(e) ELSE responsesChunks(e)

WriteSSE(evs) == Gather(evs, Chunks)

\* aggregateFinalText reads Data["text"], aggregateResponseText either key.
TextOf(e) == Only(e.type = "content_delta" /\ (kind = "responses" \/ e.key = "text")
                      /\ e.text # "", e.text)

FinalText(evs) == Gather(evs, TextOf)

Stops(evs) == {i \in DOMAIN evs : evs[i].type = "message_stop" /\ evs[i].reason # ""}

FinalFinishReason(evs) ==
    IF Stops(evs) = {} THEN "stop" ELSE normalizeFinishReason(evs[Max(Stops(evs))].reason)

Usages(evs) == {i \in DOMAIN evs : evs[i].type = "usage"}

LatestCount(evs, field) ==
    LET counted == {i \in Usages(evs) : evs[i].usage[field] # Absent}
    IN  IF counted = {} THEN 0 ELSE evs[Max(counted)].usage[field]

\* Mutant: the last usage event alone.
FromEvents_LastOnly(evs) ==
    LET Of(field) == LatestCount(<<evs[Max(Usages(evs))]>>, field)
    IN  IF Usages(evs) = {} THEN NoUsage
        ELSE [ input  |-> Of("input"),
               output |-> Of("output"),
               total  |-> IF Of("total") = 0 THEN Of("input") + Of("output")
                          ELSE Of("total") ]

\* usage.FromEvents: each count is the latest reported.
FromEvents(evs) ==
    LET Of(field) == LatestCount(evs, field)
    IN  IF Usages(evs) = {} THEN NoUsage
        ELSE [ input  |-> Of("input"),
               output |-> Of("output"),
               total  |-> IF Of("total") = 0 THEN Of("input") + Of("output")
                          ELSE Of("total") ]

----------------------------------------------------------------------------
(* The upstream.                                                           *)

Init ==
    /\ family \in Families /\ kind \in Kinds
    /\ phase = "start"
    /\ sent = <<>> /\ events = <<>>
    /\ toolID = "" /\ stopReason = ""
    /\ outcome = "reading"

Sends(l, next) ==
    /\ sent' = Append(sent, l)
    /\ phase' = next
    /\ Decode(l)
    /\ UNCHANGED <<family, kind, outcome>>

Room == Len(sent) < MaxLines

FullUsage == [input |-> InTokens, output |-> OutTokens, total |-> InTokens + OutTokens]

\* Chunks of text or of a tool call, one with the finish reason (and perhaps the
\* last text), one with the usage when that is supported, [DONE].
OpenAIChat ==
    /\ family = "openai" /\ kind = "chat"
    /\ \/ /\ phase = "start" /\ Room
          /\ \E x \in Texts :
                 \/ Sends([Line("chunk") EXCEPT !.text = x], "start")
                 \/ \E t \in ToolIDs :
                        Sends([Line("chunk") EXCEPT !.text = x, !.tool = t], "start")
       \/ /\ phase = "start"
          /\ \E x \in Texts \cup {""}, reason \in {"stop", "length", "tool_calls"} :
                 Sends([Line("chunk") EXCEPT !.text = x, !.reason = reason], "finished")
       \/ /\ phase = "finished"
          /\ Sends([Line("chunk") EXCEPT !.usage = FullUsage], "counted")
       \/ /\ phase \in {"finished", "counted"}
          /\ Sends(Line("[DONE]"), "ended")

OpenAIResponses ==
    /\ family = "openai" /\ kind = "responses"
    /\ \/ /\ phase = "start" /\ Room
          /\ \E x \in Texts :
                 Sends([Line("response.output_text.delta") EXCEPT !.text = x], "start")
       \/ /\ phase = "start" /\ Room
          /\ Sends(Line("response.created"), "start")
       \/ /\ phase = "start"
          /\ \E u \in {NoUsage, FullUsage} :
                 Sends([Line("response.completed") EXCEPT !.usage = u], "ended")

\* message_start with the input count, blocks of text or of one tool call each,
\* message_delta with the stop reason and the output count, message_stop.  Tools
\* are asked for on the chat endpoint only.
Anthropic ==
    /\ family = "anthropic"
    /\ \/ /\ phase = "start"
          /\ Sends([Line("message_start") EXCEPT
                       !.usage = [input |-> InTokens, output |-> 1, total |-> Absent]], "body")
       \/ /\ phase \in {"body", "text"} \cup ToolIDs /\ Room
          /\ \/ Sends(Line("content_block_start"), "text")
             \/ /\ kind = "chat"
                /\ \E t \in ToolIDs :
                       Sends([Line("content_block_start") EXCEPT !.tool = t], t)
       \/ /\ phase \in {"text"} \cup ToolIDs /\ Room
          /\ \E x \in Texts :
                 Sends([Line("content_block_delta") EXCEPT
                           !.text = x, !.tool = IF phase = "text" THEN "" ELSE phase], phase)
       \/ /\ phase \in {"body", "text"} \cup ToolIDs
          /\ \E reason \in {"end_turn", "max_tokens", "tool_use"}, in \in {Absent, InTokens} :
                 Sends([Line("message_delta") EXCEPT !.reason = reason,
                           !.usage = [input |-> in, output |-> OutTokens, total |-> Absent]],
                       "finished")
       \/ phase = "finished" /\ Sends(Line("message_stop"), "ended")

\* The body ends, at its end or before it.
EndOfBody ==
    /\ outcome' = "ok"
    /\ UNCHANGED <<family, kind, phase, sent, events, toolID, stopReason>>

\* Mutant: only text counts as output.
Break_TextOnly ==
    /\ outcome' = IF \E i \in DOMAIN events : events[i].type = "content_delta"
                  THEN "committed" ELSE "retryable"
    /\ UNCHANGED <<family, kind, phase, sent, events, toolID, stopReason>>

\* The connection breaks, a line is too long or not JSON, be it after the message's
\* end: the events decoded so far are dropped, and decide whether another upstream
\* may be tried.
Break ==
    /\ outcome' = IF events # <<>> THEN "committed" ELSE "retryable"
    /\ UNCHANGED <<family, kind, phase, sent, events, toolID, stopReason>>

Next ==
    /\ outcome = "reading"
    /\ OpenAIChat \/ OpenAIResponses \/ Anthropic \/ EndOfBody \/ Break

Spec == Init /\ [][Next]_vars

----------------------------------------------------------------------------
(* Types.                                                                  *)

Counts  == [input : Int, output : Int, total : Int]
Reasons == {"stop", "length", "tool_calls", "end_turn", "max_tokens", "tool_use"}

Lines ==
    [ type   : {"chunk", "[DONE]",
                "response.output_text.delta", "response.created", "response.completed",
                "message_start", "content_block_start", "content_block_delta",
                "message_delta", "message_stop"},
      text   : Texts \cup {""},
      tool   : ToolIDs \cup {""},
      reason : Reasons \cup {""},
      usage  : Counts ]

Events ==
    [type : {"content_delta"}, key : {"text", "delta"}, text : Texts \cup {""}]
        \cup [type : {"tool_call_start"}, id : ToolIDs]
        \cup [type : {"tool_call_delta"}, id : ToolIDs \cup {""}, text : Texts \cup {""}]
        \cup [type : {"usage"}, usage : Counts]
        \cup [type : {"message_stop"}, reason : Reasons \cup {""}]

\* The type invariant.
StreamTypeOK ==
    /\ family \in Families /\ kind \in Kinds
    /\ phase \in Phases \cup ToolIDs
    /\ sent \in Seq(Lines) /\ events \in Seq(Events)
    /\ toolID \in ToolIDs \cup {""} /\ stopReason \in Reasons \cup {""}
    /\ outcome \in {"reading", "ok", "retryable", "committed"}

Answered == outcome = "ok"
Whole    == Answered /\ phase = "ended"

\* What the client's stream carries: the values of some chunks, the text.
Streamed(evs, what) == Gather(WriteSSE(evs), LAMBDA c : Only(c.chunk = what, c.value))

StreamedText(evs) ==
    Gather(WriteSSE(evs), LAMBDA c : Only(c.chunk = "content" /\ c.value # "", c.value))

SentText(lines) == Gather(lines, LAMBDA l : Only(l.tool = "" /\ l.text # "", l.text))

\* The text the upstream sent is the text the client gets, in order and complete
\* whichever provider it comes from, on both endpoints, streamed or not.  (The
\* decoders key text by endpoint; the writers each read one key.)
TextSurvives ==
    Answered => StreamedText(events) = SentText(sent) /\ FinalText(events) = SentText(sent)

\* A chat stream the upstream completed ends the client's stream once: one finish
\* reason, then one [DONE] and nothing after it; and a client that does not
\* stream is told the same reason.  Providers' reasons are translated.  One the
\* upstream cut short, which the decoders take for a success, has no [DONE]: it is
\* all a streaming client can tell the two apart by.
ChatStreamEndsOnce ==
    Answered /\ kind = "chat" =>
        IF phase = "ended"
        THEN /\ Len(Streamed(events, "done")) = 1
             /\ Last(WriteSSE(events)).chunk = "done"
             /\ Streamed(events, "finish") = <<FinalFinishReason(events)>>
             /\ FinalFinishReason(events) \in {"stop", "length", "tool_calls"}
        ELSE Streamed(events, "done") = <<>>

SentToolCalls(lines) == Gather(lines, LAMBDA l : Only(l.tool # "", <<l.tool, l.text>>))

\* Every piece of a tool call an Anthropic upstream sends reaches the client's
\* stream under that call's id, with several calls in one message and text in
\* between.
ToolPiecesKeepTheirCall ==
    Answered /\ kind = "chat" /\ family = "anthropic" =>
        Streamed(events, "tool") = SentToolCalls(sent)

\* The same, whatever the upstream.
ToolCallsReachTheClient ==
    Answered /\ kind = "chat" => Streamed(events, "tool") = SentToolCalls(sent)

SentUsage(lines) ==
    IF \E i \in DOMAIN lines : lines[i].usage # NoUsage THEN FullUsage ELSE NoUsage

\* The usage a client that does not stream is told is what the request cost, though
\* Anthropic reports it in parts, the first of them provisional; none is made up.
UsageIsTheFinalCount == Whole => FromEvents(events) = SentUsage(sent)

\* An answer that is begun again at another upstream had said nothing at the first,
\* which sent no text, no piece of a tool call and no finish: no answer is stitched
\* together from two upstreams.  (OpenAI's tool calls are excepted: the decoder
\* drops them, see ToolCallsReachTheClient.)
NothingSaidIsRetried ==
    outcome = "retryable" =>
        /\ SentText(sent) = <<>>
        /\ kind = "chat" /\ family = "anthropic" => SentToolCalls(sent) = <<>>
        /\ phase \notin {"finished", "counted", "ended"}
=============================================================================
