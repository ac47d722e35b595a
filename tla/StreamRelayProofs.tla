------------------------- MODULE StreamRelayProofs -------------------------
(***************************************************************************)
(* The six invariants of StreamRelay, for every message.                   *)
(*                                                                         *)
(* Beside the types they compare something gathered from the events (the   *)
(* text of the client's stream, its stops, the usage) with something       *)
(* gathered from the upstream's lines; where no event was decoded, nothing *)
(* was said.  Each line adds a known amount to both sides, so the          *)
(* proof has three layers: what one more element adds to each thing that   *)
(* is gathered (1 to 3, from SequenceLemmas); what each kind of line does  *)
(* to the invariant (6); which line each action sends and what it decodes  *)
(* to (7 and 8).                                                           *)
(***************************************************************************)
EXTENDS StreamRelay, SequenceLemmas

----------------------------------------------------------------------------
(* 1. What one more line or event adds to the text and the stream.         *)

\* What one more event adds to the text of an answer that is not streamed.
LEMMA FinalTextAppend ==
    ASSUME NEW s \in Seq(Events), NEW e \in Events
    PROVE  FinalText(Append(s, e)) =
               IF /\ e.type = "content_delta" /\ (kind = "responses" \/ e.key = "text")
                  /\ e.text # ""
               THEN Append(FinalText(s), e.text) ELSE FinalText(s)
<1>. DEFINE w == [x \in Events |-> /\ x.type = "content_delta"
                                   /\ (kind = "responses" \/ x.key = "text")
                                   /\ x.text # ""]
            v == [x \in Events |-> x.text]
<1>1. w \in [Events -> BOOLEAN] /\ Append(s, e) \in Seq(Events)
  OBVIOUS
<1>2. ASSUME NEW t \in Seq(Events)  PROVE FinalText(t) = Chosen(w, v, t)
  <2>1. \A i \in DOMAIN t :
            /\ w[t[i]] = (/\ t[i].type = "content_delta"
                          /\ (kind = "responses" \/ t[i].key = "text")
                          /\ t[i].text # "")
            /\ v[t[i]] = t[i].text
    <3>1. \A i \in DOMAIN t : t[i] \in Events
      OBVIOUS
    <3>. QED  BY <3>1
  <2>. HIDE DEF w, v
  <2>. QED  BY <2>1 DEF FinalText, TextOf, Chosen, Gather
<1>3. /\ w[e] = (/\ e.type = "content_delta" /\ (kind = "responses" \/ e.key = "text")
                /\ e.text # "")
      /\ v[e] = e.text
  OBVIOUS
<1>. HIDE DEF w, v
<1>4. Chosen(w, v, Append(s, e)) =
          IF w[e] THEN Append(Chosen(w, v, s), v[e]) ELSE Chosen(w, v, s)
  BY <1>1, ChosenAppend
<1>. QED  BY <1>1, <1>2, <1>3, <1>4

\* What one more line adds to the text the upstream sent.
LEMMA SentTextAppend ==
    ASSUME NEW s \in Seq(Lines), NEW e \in Lines
    PROVE  SentText(Append(s, e)) =
               IF e.tool = "" /\ e.text # "" THEN Append(SentText(s), e.text) ELSE SentText(s)
<1>. DEFINE w == [x \in Lines |-> x.tool = "" /\ x.text # ""]
            v == [x \in Lines |-> x.text]
<1>1. w \in [Lines -> BOOLEAN] /\ Append(s, e) \in Seq(Lines)
  OBVIOUS
<1>2. ASSUME NEW t \in Seq(Lines)  PROVE SentText(t) = Chosen(w, v, t)
  <2>1. \A i \in DOMAIN t : w[t[i]] = (t[i].tool = "" /\ t[i].text # "") /\ v[t[i]] = t[i].text
    <3>1. \A i \in DOMAIN t : t[i] \in Lines
      OBVIOUS
    <3>. QED  BY <3>1
  <2>. HIDE DEF w, v
  <2>. QED  BY <2>1 DEF SentText, Chosen, Gather
<1>3. w[e] = (e.tool = "" /\ e.text # "") /\ v[e] = e.text
  OBVIOUS
<1>. HIDE DEF w, v
<1>4. Chosen(w, v, Append(s, e)) =
          IF w[e] THEN Append(Chosen(w, v, s), v[e]) ELSE Chosen(w, v, s)
  BY <1>1, ChosenAppend
<1>. QED  BY <1>1, <1>2, <1>3, <1>4

\* What one more line adds to the tool calls the upstream sent.
LEMMA SentToolsAppend ==
    ASSUME NEW s \in Seq(Lines), NEW e \in Lines
    PROVE  SentToolCalls(Append(s, e)) =
               IF e.tool # "" THEN Append(SentToolCalls(s), <<e.tool, e.text>>)
               ELSE SentToolCalls(s)
<1>. DEFINE w == [x \in Lines |-> x.tool # ""]
            v == [x \in Lines |-> <<x.tool, x.text>>]
<1>1. w \in [Lines -> BOOLEAN] /\ Append(s, e) \in Seq(Lines)
  OBVIOUS
<1>2. ASSUME NEW t \in Seq(Lines)  PROVE SentToolCalls(t) = Chosen(w, v, t)
  <2>1. \A i \in DOMAIN t : w[t[i]] = (t[i].tool # "") /\ v[t[i]] = <<t[i].tool, t[i].text>>
    <3>1. \A i \in DOMAIN t : t[i] \in Lines
      OBVIOUS
    <3>. QED  BY <3>1
  <2>. HIDE DEF w, v
  <2>. QED  BY <2>1 DEF SentToolCalls, Chosen, Gather
<1>3. w[e] = (e.tool # "") /\ v[e] = <<e.tool, e.text>>
  OBVIOUS
<1>. HIDE DEF w, v
<1>4. Chosen(w, v, Append(s, e)) =
          IF w[e] THEN Append(Chosen(w, v, s), v[e]) ELSE Chosen(w, v, s)
  BY <1>1, ChosenAppend
<1>. QED  BY <1>1, <1>2, <1>3, <1>4

\* An event is written as one chunk or not at all.
LEMMA OneChunk ==
    ASSUME NEW e \in Events
    PROVE  Chunks(e) = <<>> \/ \E c : Chunks(e) = <<c>>
BY DEF Chunks, chatChunks, responsesChunks

ChunkSet == {Chunks(e)[1] : e \in Events}

\* What is written is made of such chunks.
LEMMA ChunksType ==
    ASSUME NEW e \in Events
    PROVE  Chunks(e) \in Seq(ChunkSet)
<1>1. Chunks(e)[1] \in ChunkSet
  BY DEF ChunkSet
<1>2. CASE Chunks(e) = <<>>
  BY <1>2, EmptySeq
<1>3. ASSUME NEW c, Chunks(e) = <<c>>  PROVE Chunks(e) \in Seq(ChunkSet)
  <2>1. Chunks(e)[1] = c
    BY <1>3
  <2>. QED  BY <1>1, <1>3, <2>1
<1>. QED  BY <1>2, <1>3, OneChunk

\* What is written is a sequence of chunks, to which one more event adds its own.
LEMMA WriteAppend ==
    ASSUME NEW s \in Seq(Events)
    PROVE  /\ WriteSSE(s) \in Seq(ChunkSet)
           /\ \A e \in Events : WriteSSE(Append(s, e)) = WriteSSE(s) \o Chunks(e)
<1>. DEFINE g == [x \in Events |-> Chunks(x)]
<1>1. g \in [Events -> Seq(ChunkSet)]
  BY ChunksType
<1>2. ASSUME NEW t \in Seq(Events)  PROVE WriteSSE(t) = FlattenSeq(Parts(g, t))
  <2>1. \A i \in DOMAIN t : t[i] \in Events
    OBVIOUS
  <2>2. [i \in DOMAIN t |-> Chunks(t[i])] = Parts(g, t)
    BY <2>1 DEF Parts
  <2>. QED  BY <2>2 DEF WriteSSE, Gather
<1>3. \A e \in Events : g[e] = Chunks(e) /\ Append(s, e) \in Seq(Events)
  OBVIOUS
<1>. HIDE DEF g
<1>4. FlattenSeq(Parts(g, s)) \in Seq(ChunkSet)
  BY <1>1, GatherType
<1>5. \A e \in Events : FlattenSeq(Parts(g, Append(s, e))) = FlattenSeq(Parts(g, s)) \o g[e]
  BY <1>1, GatherAppend
<1>. QED  BY <1>2, <1>3, <1>4, <1>5

\* The values of one kind of chunk, and the text, in what was written.
ValuesIn(chunks, what) == Gather(chunks, LAMBDA c : Only(c.chunk = what, c.value))

TextIn(chunks) ==
    Gather(chunks, LAMBDA c : Only(c.chunk = "content" /\ c.value # "", c.value))

\* What one more chunk adds to the values of a kind.
LEMMA ValuesInAppend ==
    ASSUME NEW s \in Seq(ChunkSet), NEW e \in ChunkSet, NEW what
    PROVE  ValuesIn(Append(s, e), what) =
               IF e.chunk = what THEN Append(ValuesIn(s, what), e.value) ELSE ValuesIn(s, what)
<1>. DEFINE w == [x \in ChunkSet |-> x.chunk = what]
            v == [x \in ChunkSet |-> x.value]
<1>1. w \in [ChunkSet -> BOOLEAN] /\ Append(s, e) \in Seq(ChunkSet)
  OBVIOUS
<1>2. ASSUME NEW t \in Seq(ChunkSet)  PROVE ValuesIn(t, what) = Chosen(w, v, t)
  <2>1. \A i \in DOMAIN t : w[t[i]] = (t[i].chunk = what) /\ v[t[i]] = t[i].value
    <3>1. \A i \in DOMAIN t : t[i] \in ChunkSet
      OBVIOUS
    <3>. QED  BY <3>1
  <2>. HIDE DEF w, v
  <2>. QED  BY <2>1 DEF ValuesIn, Chosen, Gather
<1>3. w[e] = (e.chunk = what) /\ v[e] = e.value
  OBVIOUS
<1>. HIDE DEF w, v
<1>4. Chosen(w, v, Append(s, e)) =
          IF w[e] THEN Append(Chosen(w, v, s), v[e]) ELSE Chosen(w, v, s)
  BY <1>1, ChosenAppend
<1>. QED  BY <1>1, <1>2, <1>3, <1>4

\* What one more chunk adds to the text written.
LEMMA TextInAppend ==
    ASSUME NEW s \in Seq(ChunkSet), NEW e \in ChunkSet
    PROVE  TextIn(Append(s, e)) =
               IF e.chunk = "content" /\ e.value # "" THEN Append(TextIn(s), e.value)
               ELSE TextIn(s)
<1>. DEFINE w == [x \in ChunkSet |-> x.chunk = "content" /\ x.value # ""]
            v == [x \in ChunkSet |-> x.value]
<1>1. w \in [ChunkSet -> BOOLEAN] /\ Append(s, e) \in Seq(ChunkSet)
  OBVIOUS
<1>2. ASSUME NEW t \in Seq(ChunkSet)  PROVE TextIn(t) = Chosen(w, v, t)
  <2>1. \A i \in DOMAIN t :
            w[t[i]] = (t[i].chunk = "content" /\ t[i].value # "") /\ v[t[i]] = t[i].value
    <3>1. \A i \in DOMAIN t : t[i] \in ChunkSet
      OBVIOUS
    <3>. QED  BY <3>1
  <2>. HIDE DEF w, v
  <2>. QED  BY <2>1 DEF TextIn, Chosen, Gather
<1>3. w[e] = (e.chunk = "content" /\ e.value # "") /\ v[e] = e.value
  OBVIOUS
<1>. HIDE DEF w, v
<1>4. Chosen(w, v, Append(s, e)) =
          IF w[e] THEN Append(Chosen(w, v, s), v[e]) ELSE Chosen(w, v, s)
  BY <1>1, ChosenAppend
<1>. QED  BY <1>1, <1>2, <1>3, <1>4

\* How an event is written.
Unwritten(e)    == Chunks(e) = <<>>
WrittenAs(e, c) == Chunks(e) = <<c>>

\* An event that is not written changes nothing the client's stream carries.
LEMMA NotWritten ==
    ASSUME NEW s \in Seq(Events), NEW e \in Events, Unwritten(e)
    PROVE  /\ WriteSSE(Append(s, e)) = WriteSSE(s)
           /\ \A what : Streamed(Append(s, e), what) = Streamed(s, what)
           /\ StreamedText(Append(s, e)) = StreamedText(s)
<1>1. WriteSSE(s) \o <<>> = WriteSSE(s)
  BY WriteAppend, ConcatEmptySeq
<1>2. WriteSSE(Append(s, e)) = WriteSSE(s)
  BY <1>1, WriteAppend DEF Unwritten
<1>. QED  BY <1>2 DEF Streamed, StreamedText

\* What the client's stream carries after one more event, written as c.
Carries(s, e, c) ==
    /\ Last(WriteSSE(Append(s, e))) = c
    /\ \A what : Streamed(Append(s, e), what) =
           IF c.chunk = what THEN Append(Streamed(s, what), c.value) ELSE Streamed(s, what)
    /\ StreamedText(Append(s, e)) =
           IF c.chunk = "content" /\ c.value # ""
           THEN Append(StreamedText(s), c.value) ELSE StreamedText(s)

\* One that is written comes at the stream's end.
LEMMA Written ==
    ASSUME NEW s \in Seq(Events), NEW e \in Events, NEW c, WrittenAs(e, c)
    PROVE  Carries(s, e, c)
<1>. DEFINE w == WriteSSE(s)
            u == WriteSSE(Append(s, e))
<1>1. c \in ChunkSet /\ w \in Seq(ChunkSet)
  <2>1. c = Chunks(e)[1]
    BY DEF WrittenAs
  <2>. QED  BY <2>1, WriteAppend DEF ChunkSet
<1>2. u = Append(w, c)
  <2>1. u = w \o <<c>>
    BY WriteAppend DEF WrittenAs
  <2>. HIDE DEF w, u
  <2>. QED  BY <1>1, <2>1
<1>3. \A t : /\ \A what : Streamed(t, what) = ValuesIn(WriteSSE(t), what)
             /\ StreamedText(t) = TextIn(WriteSSE(t))
  BY DEF Streamed, ValuesIn, StreamedText, TextIn
<1>. HIDE DEF w, u
<1>4. \A what : ValuesIn(u, what) = IF c.chunk = what THEN Append(ValuesIn(w, what), c.value)
                                                     ELSE ValuesIn(w, what)
  BY <1>1, <1>2, ValuesInAppend
<1>5. TextIn(u) = IF c.chunk = "content" /\ c.value # "" THEN Append(TextIn(w), c.value)
                                                        ELSE TextIn(w)
  BY <1>1, <1>2, TextInAppend
<1>6. Last(u) = c
  BY <1>1, <1>2, AppendProperties DEF Last
<1>. QED  BY <1>3, <1>4, <1>5, <1>6 DEF w, u, Carries

----------------------------------------------------------------------------
(* 2. What it adds to the finish reason and the usage.                     *)

\* One more event is the last stop with a reason if it is one.
LEMMA FinishAppend ==
    ASSUME NEW s \in Seq(Events), NEW e \in Events
    PROVE  LET t     == Append(s, e)
               stops == e.type = "message_stop" /\ e.reason # ""
           IN  /\ Stops(t) = {} <=> ~stops /\ Stops(s) = {}
               /\ FinalFinishReason(t) =
                      IF stops THEN normalizeFinishReason(e.reason) ELSE FinalFinishReason(s)
<1>. DEFINE P == {x \in Events : x.type = "message_stop" /\ x.reason # ""}
            t == Append(s, e)
<1>1. ASSUME NEW r \in Seq(Events)  PROVE Stops(r) = IndexesOf(P, r)
  <2>1. \A i \in DOMAIN r : r[i] \in Events
    OBVIOUS
  <2>. QED  BY <2>1 DEF Stops, IndexesOf
<1>2. t \in Seq(Events)
  OBVIOUS
<1>0. e \in P <=> e.type = "message_stop" /\ e.reason # ""
  OBVIOUS
<1>. HIDE DEF P
<1>3. /\ e \notin P => Stops(t) = Stops(s)
      /\ e \in P => Stops(t) # {} /\ t[Max(Stops(t))] = e
      /\ e \notin P /\ Stops(s) # {} => t[Max(Stops(t))] = s[Max(Stops(s))]
  <2>1. e \notin P => SameLast(P, t, s)
    BY IndexesKept
  <2>2. e \in P => LastIs(P, t, e)
    BY IndexesAppend
  <2>. QED  BY <1>1, <1>2, <2>1, <2>2 DEF SameLast, LastIs
<1>. HIDE DEF t
<1>. QED  BY <1>0, <1>2, <1>3 DEF FinalFinishReason, t

\* One more event has the latest of a count if it reports that count.
LEMMA CountAppend ==
    ASSUME NEW s \in Seq(Events), NEW e \in Events, NEW field \in {"input", "output", "total"}
    PROVE  LatestCount(Append(s, e), field) =
               IF e.type = "usage" /\ e.usage[field] # Absent
               THEN e.usage[field] ELSE LatestCount(s, field)
<1>. DEFINE P == {x \in Events : x.type = "usage" /\ x.usage[field] # Absent}
            t == Append(s, e)
<1>1. ASSUME NEW r \in Seq(Events)
      PROVE  {i \in Usages(r) : r[i].usage[field] # Absent} = IndexesOf(P, r)
  <2>1. \A i \in DOMAIN r : r[i] \in Events
    OBVIOUS
  <2>. QED  BY <2>1 DEF Usages, IndexesOf
<1>2. t \in Seq(Events)
  OBVIOUS
<1>0. e \in P <=> e.type = "usage" /\ e.usage[field] # Absent
  OBVIOUS
<1>. HIDE DEF P
<1>3. /\ e \notin P => IndexesOf(P, t) = IndexesOf(P, s)
      /\ e \in P => IndexesOf(P, t) # {} /\ t[Max(IndexesOf(P, t))] = e
      /\ e \notin P /\ IndexesOf(P, s) # {} =>
             t[Max(IndexesOf(P, t))] = s[Max(IndexesOf(P, s))]
  <2>1. e \notin P => SameLast(P, t, s)
    BY IndexesKept
  <2>2. e \in P => LastIs(P, t, e)
    BY IndexesAppend
  <2>. QED  BY <1>1, <1>2, <2>1, <2>2 DEF SameLast, LastIs
<1>4. ASSUME NEW r \in Seq(Events)
      PROVE  LatestCount(r, field) = IF IndexesOf(P, r) = {} THEN 0
                                     ELSE r[Max(IndexesOf(P, r))].usage[field]
  BY <1>1 DEF LatestCount
<1>. HIDE DEF t
<1>. QED  BY <1>0, <1>2, <1>3, <1>4 DEF t

\* One more event is a usage event or leaves the usage what it is.
LEMMA UsagesAppend ==
    ASSUME NEW s \in Seq(Events), NEW e \in Events
    PROVE  /\ Usages(Append(s, e)) = {} <=> e.type # "usage" /\ Usages(s) = {}
           /\ e.type # "usage" => FromEvents(Append(s, e)) = FromEvents(s)
<1>. DEFINE P == {x \in Events : x.type = "usage"}
            t == Append(s, e)
<1>1. ASSUME NEW r \in Seq(Events)  PROVE Usages(r) = IndexesOf(P, r)
  <2>1. \A i \in DOMAIN r : r[i] \in Events
    OBVIOUS
  <2>. QED  BY <2>1 DEF Usages, IndexesOf
<1>2. t \in Seq(Events)
  OBVIOUS
<1>0. e \in P <=> e.type = "usage"
  OBVIOUS
<1>. HIDE DEF P
<1>3. /\ e \notin P => Usages(t) = Usages(s)
      /\ e \in P => Usages(t) # {}
  <2>1. e \notin P => SameLast(P, t, s)
    BY IndexesKept
  <2>2. e \in P => LastIs(P, t, e)
    BY IndexesAppend
  <2>. QED  BY <1>1, <1>2, <2>1, <2>2 DEF SameLast, LastIs
<1>4. e.type # "usage" =>
          \A field \in {"input", "output", "total"} :
              LatestCount(t, field) = LatestCount(s, field)
  BY CountAppend
<1>. HIDE DEF t
<1>5. e.type # "usage" => FromEvents(t) = FromEvents(s)
  BY <1>0, <1>3, <1>4 DEF FromEvents
<1>. QED  BY <1>0, <1>2, <1>3, <1>5 DEF t

\* One more line with no usage leaves the usage sent what it is.
LEMMA SentUsageAppend ==
    ASSUME NEW s \in Seq(Lines), NEW l \in Lines
    PROVE  SentUsage(Append(s, l)) = IF l.usage # NoUsage THEN FullUsage ELSE SentUsage(s)
<1>. DEFINE t == Append(s, l)
            n == Len(s)
<1>1. /\ n \in Nat /\ DOMAIN s = 1..n /\ DOMAIN t = 1..(n + 1)
      /\ t[n + 1] = l /\ \A i \in 1..n : t[i] = s[i]
  BY AppendProperties
<1>. HIDE DEF t, n
<1>2. (\E i \in DOMAIN t : t[i].usage # NoUsage)
          <=> l.usage # NoUsage \/ \E i \in DOMAIN s : s[i].usage # NoUsage
  <2>1. \A i \in 1..(n + 1) : i \in 1..n \/ i = n + 1
    BY <1>1
  <2>2. n + 1 \in 1..(n + 1) /\ \A i \in 1..n : i \in 1..(n + 1)
    BY <1>1
  <2>. QED  BY <1>1, <2>1, <2>2
<1>. QED  BY <1>2 DEF SentUsage, t

----------------------------------------------------------------------------
(* 3. What the events of each type add to what the client gets.            *)

\* The key the endpoint's writers read text under.
Key == IF kind = "chat" THEN "text" ELSE "delta"

SameText(t, s)  == StreamedText(t) = StreamedText(s) /\ FinalText(t) = FinalText(s)
SameTools(t, s) == Streamed(t, "tool") = Streamed(s, "tool")

SameStops(t, s) ==
    /\ Streamed(t, "done") = Streamed(s, "done")
    /\ Streamed(t, "finish") = Streamed(s, "finish")
    /\ Stops(t) = {} <=> Stops(s) = {}
    /\ FinalFinishReason(t) = FinalFinishReason(s)

SameUsage(t, s) ==
    /\ Usages(t) = {} <=> Usages(s) = {}
    /\ FromEvents(t) = FromEvents(s)
    /\ \A field \in {"input", "output", "total"} : LatestCount(t, field) = LatestCount(s, field)

\* What the counts are, and are not.
LEMMA Costs ==
    /\ InTokens \in Nat /\ OutTokens \in Nat /\ InTokens + OutTokens \in Nat
    /\ InTokens # 0 /\ OutTokens # 0 /\ InTokens + OutTokens # 0
    /\ InTokens # Absent /\ OutTokens # Absent /\ InTokens + OutTokens # Absent
    /\ FullUsage \in Counts /\ NoUsage \in Counts
    /\ FullUsage["input"] = InTokens /\ FullUsage["output"] = OutTokens
    /\ FullUsage["total"] = InTokens + OutTokens
    /\ \A u : u["input"] # Absent \/ u["output"] # Absent => u # NoUsage
<1>1. InTokens \in Nat \ {0} /\ OutTokens \in Nat \ {0}
  BY StreamAssumption
<1>2. InTokens + OutTokens \in Nat \ {0}
  BY <1>1
<1>3. FullUsage \in Counts /\ NoUsage \in Counts
  BY <1>1, <1>2 DEF FullUsage, NoUsage, Counts, Absent
<1>4. NoUsage["input"] = Absent /\ NoUsage["output"] = Absent
  BY DEF NoUsage
<1>5. /\ FullUsage["input"] = InTokens /\ FullUsage["output"] = OutTokens
      /\ FullUsage["total"] = InTokens + OutTokens
  BY DEF FullUsage
<1>. QED  BY <1>1, <1>2, <1>3, <1>4, <1>5 DEF Absent

\* The canonical events have their types.
LEMMA EventTypes ==
    /\ \A key \in {"text", "delta"}, x \in Texts \cup {""} : ContentDelta(key, x) \in Events
    /\ \A t \in ToolIDs : ToolCallStart(t) \in Events
    /\ \A t \in ToolIDs \cup {""}, x \in Texts \cup {""} : ToolCallDelta(t, x) \in Events
    /\ \A u \in Counts : UsageEvent(u) \in Events
    /\ \A reason \in Reasons \cup {""} : MessageStop(reason) \in Events
    /\ BareStop \in Events
BY DEF Events, ContentDelta, ToolCallStart, ToolCallDelta, UsageEvent, MessageStop, BareStop

\* One more event.
LEMMA EventsAppend ==
    ASSUME NEW s \in Seq(Events), NEW e \in Events
    PROVE  Append(s, e) \in Seq(Events)
OBVIOUS

\* Text under the endpoint's key adds to the text, streamed or not.
LEMMA AfterContent ==
    ASSUME NEW s \in Seq(Events), NEW x \in Texts, kind \in Kinds
    PROVE  LET t == Append(s, ContentDelta(Key, x))
           IN  /\ StreamedText(t) = Append(StreamedText(s), x)
               /\ FinalText(t) = Append(FinalText(s), x)
               /\ SameTools(t, s) /\ SameStops(t, s) /\ SameUsage(t, s)
<1>. DEFINE e == ContentDelta(Key, x)
            t == Append(s, e)
            c == Chunk("content", x)
<1>1. e \in Events /\ x # "" /\ e.type = "content_delta" /\ e.text = x
  BY StreamAssumption DEF Events, ContentDelta, Key
<1>2. WrittenAs(e, c) /\ c.chunk = "content" /\ c.value = x
  BY DEF WrittenAs, Chunks, chatChunks, responsesChunks, Chunk, ContentDelta, Key, Kinds
<1>3. kind = "responses" \/ e.key = "text"
  BY DEF ContentDelta, Key, Kinds
<1>. HIDE DEF e, c
<1>4. StreamedText(t) = Append(StreamedText(s), x)
  <2>1. Carries(s, e, c)
    BY <1>1, <1>2, Written
  <2>. QED  BY <1>1, <1>2, <2>1 DEF Carries
<1>5. \A what : what # "content" => Streamed(t, what) = Streamed(s, what)
  <2>1. Carries(s, e, c)
    BY <1>1, <1>2, Written
  <2>. QED  BY <1>1, <1>2, <2>1 DEF Carries
<1>6. FinalText(t) = Append(FinalText(s), x)
  BY <1>1, <1>3, FinalTextAppend
<1>7. SameStops(t, s)
  BY <1>1, <1>5, FinishAppend DEF SameStops
<1>8. SameUsage(t, s)
  BY <1>1, UsagesAppend, CountAppend DEF SameUsage
<1>. QED  BY <1>4, <1>5, <1>6, <1>7, <1>8 DEF SameTools, e

\* A tool call's start or piece adds itself to the tool calls of a chat stream.
LEMMA AfterTool ==
    ASSUME NEW s \in Seq(Events), NEW e \in Events, NEW value, kind = "chat",
           e.type \in {"tool_call_start", "tool_call_delta"}, WrittenAs(e, Chunk("tool", value))
    PROVE  LET t == Append(s, e)
           IN  /\ Streamed(t, "tool") = Append(Streamed(s, "tool"), value)
               /\ SameText(t, s) /\ SameStops(t, s) /\ SameUsage(t, s)
<1>. DEFINE t == Append(s, e)
            c == Chunk("tool", value)
<1>1. c.chunk = "tool" /\ c.value = value
  BY DEF Chunk
<1>. HIDE DEF c
<1>2. /\ StreamedText(t) = StreamedText(s)
      /\ Streamed(t, "tool") = Append(Streamed(s, "tool"), value)
      /\ Streamed(t, "done") = Streamed(s, "done")
      /\ Streamed(t, "finish") = Streamed(s, "finish")
  <2>1. Carries(s, e, c)
    BY Written DEF c
  <2>. QED  BY <1>1, <2>1 DEF Carries
<1>3. SameText(t, s)
  BY <1>2, FinalTextAppend DEF SameText
<1>4. SameStops(t, s)
  BY <1>2, FinishAppend DEF SameStops
<1>5. SameUsage(t, s)
  BY UsagesAppend, CountAppend DEF SameUsage
<1>. QED  BY <1>2, <1>3, <1>4, <1>5

\* The tool events are written so.
LEMMA ToolStartChunk ==
    ASSUME NEW id \in ToolIDs, kind = "chat"
    PROVE  WrittenAs(ToolCallStart(id), Chunk("tool", <<id, "">>))
BY DEF WrittenAs, Chunks, chatChunks, ToolCallStart

LEMMA ToolPieceChunk ==
    ASSUME NEW id \in ToolIDs, NEW x \in Texts, kind = "chat"
    PROVE  WrittenAs(ToolCallDelta(id, x), Chunk("tool", <<id, x>>))
BY DEF WrittenAs, Chunks, chatChunks, ToolCallDelta

\* Usage is not written; it sets the counts it has.
LEMMA AfterUsage ==
    ASSUME NEW s \in Seq(Events), NEW u \in Counts
    PROVE  LET t == Append(s, UsageEvent(u))
           IN  /\ SameText(t, s) /\ SameTools(t, s) /\ SameStops(t, s)
               /\ Usages(t) # {}
               /\ \A field \in {"input", "output", "total"} :
                      LatestCount(t, field) = IF u[field] # Absent THEN u[field]
                                              ELSE LatestCount(s, field)
<1>. DEFINE e == UsageEvent(u)
            t == Append(s, e)
<1>1. e \in Events /\ e.type = "usage" /\ e.usage = u
  BY DEF Events, UsageEvent
<1>2. Unwritten(e)
  BY DEF Unwritten, Chunks, chatChunks, responsesChunks, UsageEvent
<1>. HIDE DEF e
<1>3. StreamedText(t) = StreamedText(s) /\ \A what : Streamed(t, what) = Streamed(s, what)
  BY <1>1, <1>2, NotWritten
<1>4. SameText(t, s)
  BY <1>1, <1>3, FinalTextAppend DEF SameText
<1>5. SameStops(t, s)
  BY <1>1, <1>3, FinishAppend DEF SameStops
<1>6. Usages(t) # {}
  BY <1>1, UsagesAppend
<1>7. \A field \in {"input", "output", "total"} :
          LatestCount(t, field) = IF u[field] # Absent THEN u[field] ELSE LatestCount(s, field)
  BY <1>1, CountAppend
<1>. QED  BY <1>3, <1>4, <1>5, <1>6, <1>7 DEF SameTools, e

\* OpenAI's usage is the whole of it.
LEMMA AfterFullUsage ==
    ASSUME NEW s \in Seq(Events)
    PROVE  LET t == Append(s, UsageEvent(FullUsage))
           IN  t \in Seq(Events) /\ SameText(t, s) /\ FromEvents(t) = FullUsage
<1>. DEFINE t == Append(s, UsageEvent(FullUsage))
<1>1. FullUsage \in Counts
  BY Costs
<1>2. t \in Seq(Events)
  BY <1>1, EventTypes, EventsAppend
<1>3. /\ SameText(t, s) /\ Usages(t) # {}
      /\ \A field \in {"input", "output", "total"} :
             LatestCount(t, field) = IF FullUsage[field] # Absent THEN FullUsage[field]
                                     ELSE LatestCount(s, field)
  BY <1>1, AfterUsage
<1>. HIDE DEF t
<1>4. /\ LatestCount(t, "input") = InTokens
      /\ LatestCount(t, "output") = OutTokens
      /\ LatestCount(t, "total") = InTokens + OutTokens
  BY <1>3, Costs DEF FullUsage
<1>5. FromEvents(t) = FullUsage
  BY <1>3, <1>4, Costs DEF FromEvents, FullUsage
<1>. QED  BY <1>2, <1>3, <1>5 DEF t

\* A stop without a reason ends a chat stream ...
LEMMA AfterBareStop ==
    ASSUME NEW s \in Seq(Events), kind \in Kinds
    PROVE  LET t == Append(s, BareStop)
           IN  /\ SameText(t, s) /\ SameTools(t, s) /\ SameUsage(t, s)
               /\ Streamed(t, "finish") = Streamed(s, "finish")
               /\ Stops(t) = {} <=> Stops(s) = {}
               /\ FinalFinishReason(t) = FinalFinishReason(s)
               /\ kind = "chat" => /\ Streamed(t, "done") = Append(Streamed(s, "done"), "")
                                   /\ Last(WriteSSE(t)).chunk = "done"
<1>. DEFINE e == BareStop
            t == Append(s, e)
            c == Chunk(IF kind = "chat" THEN "done" ELSE "completed", "")
<1>1. e \in Events /\ e.type = "message_stop" /\ e.reason = ""
  BY DEF Events, BareStop, MessageStop
<1>2. WrittenAs(e, c) /\ c.value = "" /\ c.chunk = IF kind = "chat" THEN "done" ELSE "completed"
  BY DEF WrittenAs, Chunks, chatChunks, responsesChunks, Chunk, BareStop, MessageStop, Kinds
<1>. HIDE DEF e, c
<1>3. /\ StreamedText(t) = StreamedText(s) /\ SameTools(t, s)
      /\ Streamed(t, "finish") = Streamed(s, "finish")
      /\ kind = "chat" => Streamed(t, "done") = Append(Streamed(s, "done"), "")
      /\ Last(WriteSSE(t)) = c
  <2>1. Carries(s, e, c)
    BY <1>1, <1>2, Written
  <2>. QED  BY <1>1, <1>2, <2>1 DEF Carries, SameTools
<1>4. SameText(t, s)
  BY <1>1, <1>3, FinalTextAppend DEF SameText
<1>5. SameUsage(t, s)
  BY <1>1, UsagesAppend, CountAppend DEF SameUsage
<1>6. (Stops(t) = {} <=> Stops(s) = {}) /\ FinalFinishReason(t) = FinalFinishReason(s)
  BY <1>1, FinishAppend
<1>. QED  BY <1>2, <1>3, <1>4, <1>5, <1>6 DEF e

\* ... one with a reason is its finish reason, and that of the answer.
LEMMA AfterStop ==
    ASSUME NEW s \in Seq(Events), NEW reason \in Reasons, kind \in Kinds
    PROVE  LET t == Append(s, MessageStop(reason))
               r == normalizeFinishReason(reason)
           IN  /\ SameText(t, s) /\ SameTools(t, s) /\ SameUsage(t, s)
               /\ Streamed(t, "done") = Streamed(s, "done")
               /\ Stops(t) # {}
               /\ FinalFinishReason(t) = r
               /\ r \in {"stop", "length", "tool_calls"}
               /\ kind = "chat" => Streamed(t, "finish") = Append(Streamed(s, "finish"), r)
<1>. DEFINE e == MessageStop(reason)
            t == Append(s, e)
            r == normalizeFinishReason(reason)
            c == Chunk(IF kind = "chat" THEN "finish" ELSE "completed",
                       IF kind = "chat" THEN r ELSE "")
<1>1. e \in Events /\ e.type = "message_stop" /\ e.reason = reason /\ reason # ""
  BY DEF Events, MessageStop, Reasons
<1>2. /\ WrittenAs(e, c)
      /\ kind = "chat" => c.chunk = "finish" /\ c.value = r
      /\ kind # "chat" => c.chunk = "completed"
  BY <1>1 DEF WrittenAs, Chunks, chatChunks, responsesChunks, Chunk, MessageStop, Kinds
<1>3. r \in {"stop", "length", "tool_calls"}
  BY DEF normalizeFinishReason, Reasons
<1>. HIDE DEF e, c, r
<1>4. /\ StreamedText(t) = StreamedText(s) /\ SameTools(t, s)
      /\ Streamed(t, "done") = Streamed(s, "done")
      /\ kind = "chat" => Streamed(t, "finish") = Append(Streamed(s, "finish"), r)
  <2>1. Carries(s, e, c)
    BY <1>1, <1>2, Written
  <2>. QED  BY <1>1, <1>2, <2>1 DEF Carries, SameTools
<1>5. SameText(t, s)
  BY <1>1, <1>4, FinalTextAppend DEF SameText
<1>6. SameUsage(t, s)
  BY <1>1, UsagesAppend, CountAppend DEF SameUsage
<1>7. Stops(t) # {} /\ FinalFinishReason(t) = r
  BY <1>1, FinishAppend DEF r
<1>. QED  BY <1>3, <1>4, <1>5, <1>6, <1>7 DEF e, r

----------------------------------------------------------------------------
(* 4. The inductive invariant.                                             *)

\* Anthropic's blocks, before message_delta.
Blocks == {"body", "text"} \cup ToolIDs

\* The phases each protocol has; the stop reason comes with message_delta, and
\* what ends a message is an event.
PhaseInv ==
    /\ family = "openai" => phase \notin Blocks
    /\ family = "openai" /\ kind = "responses" =>
           phase \in {"start", "ended"} /\ (phase = "ended" => events # <<>>)
    /\ family = "anthropic" => phase # "counted"
    /\ kind = "responses" => phase \notin ToolIDs
    /\ family = "anthropic" /\ phase = "finished" => stopReason # ""

\* Only a body that broke before its first event is retryable.
RetryInv == outcome = "retryable" => events = <<>>

\* So far all text is on its way ...
TextInv == StreamedText(events) = SentText(sent) /\ FinalText(events) = SentText(sent)

\* ... and every piece of a tool call, the next one's being toolID's.
ToolInv ==
    kind = "chat" /\ family = "anthropic" =>
        /\ Streamed(events, "tool") = SentToolCalls(sent)
        /\ phase \in ToolIDs => toolID = phase

\* The stop with the reason has not been decoded yet.
Unstopped == IF family = "openai" THEN phase = "start" ELSE phase # "ended"

StopInv ==
    kind = "chat" =>
        /\ Streamed(events, "done") = Only(phase = "ended", "")
        /\ phase = "ended" => Last(WriteSSE(events)).chunk = "done"
        /\ Unstopped => Stops(events) = {} /\ Streamed(events, "finish") = <<>>
        /\ ~Unstopped => /\ Streamed(events, "finish") = <<FinalFinishReason(events)>>
                         /\ FinalFinishReason(events) \in {"stop", "length", "tool_calls"}

\* An openai upstream reports its usage whole; Anthropic's input count is known
\* from its first line on, its output count from message_delta on.
UsageInv ==
    /\ family = "openai" => FromEvents(events) = SentUsage(sent)
    /\ family = "anthropic" /\ phase # "start" =>
           /\ Usages(events) # {} /\ SentUsage(sent) = FullUsage
           /\ LatestCount(events, "input") = InTokens
    /\ family = "anthropic" => LatestCount(events, "total") = 0
    /\ family = "anthropic" /\ phase \in {"finished", "ended"} =>
           LatestCount(events, "output") = OutTokens

\* What the lines so far are worth to the client.
ContentInv == TextInv /\ ToolInv /\ StopInv /\ UsageInv

IInv == StreamTypeOK /\ PhaseInv /\ RetryInv /\ ContentInv

----------------------------------------------------------------------------
(* 5. What a step leaves alone.                                            *)

\* Whatever is said of the events after a step may be said of events'.
LEMMA Primed ==
    ASSUME kind' = kind
    PROVE  /\ StreamedText(events)' = StreamedText(events')
           /\ FinalText(events)' = FinalText(events')
           /\ WriteSSE(events)' = WriteSSE(events')
           /\ Streamed(events, "tool")' = Streamed(events', "tool")
           /\ Streamed(events, "done")' = Streamed(events', "done")
           /\ Streamed(events, "finish")' = Streamed(events', "finish")
<1>1. WriteSSE(events)' = WriteSSE(events')
  BY DEF WriteSSE, Gather, Chunks, chatChunks, responsesChunks
<1>2. FinalText(events)' = FinalText(events')
  BY DEF FinalText, Gather, TextOf
<1>3. StreamedText(events)' = StreamedText(events')
  BY DEF StreamedText, WriteSSE, Gather, Chunks, chatChunks, responsesChunks
<1>4. /\ Streamed(events, "tool")' = Streamed(events', "tool")
      /\ Streamed(events, "done")' = Streamed(events', "done")
      /\ Streamed(events, "finish")' = Streamed(events', "finish")
  BY <1>1 DEF Streamed, Gather
<1>. QED  BY <1>1, <1>2, <1>3, <1>4

\* Within Anthropic's blocks, or OpenAI's chunks.
Within ==
    \/ family = "openai" /\ phase = "start" /\ phase' = "start"
    \/ family = "anthropic" /\ phase \in Blocks /\ phase' \in Blocks

\* Events with no text, for a line with no text.
LEMMA TextKept ==
    ASSUME TextInv, kind' = kind, SameText(events', events), SentText(sent') = SentText(sent)
    PROVE  TextInv'
BY Primed DEF TextInv, SameText

\* Events of no tool call, for a line of no tool call.
LEMMA ToolsKept ==
    ASSUME ToolInv, kind' = kind, family' = family, SameTools(events', events),
           SentToolCalls(sent') = SentToolCalls(sent), phase' \in ToolIDs => toolID' = phase'
    PROVE  ToolInv'
BY Primed DEF ToolInv, SameTools

\* No stop, before the upstream's last lines.
LEMMA StopsKept ==
    ASSUME StopInv, kind' = kind, family' = family, Within, SameStops(events', events)
    PROVE  StopInv'
<1>1. phase # "ended" /\ phase' # "ended" /\ Unstopped /\ Unstopped'
  BY StreamAssumption DEF Within, Unstopped, Blocks, Phases
<1>. QED  BY <1>1, Primed DEF StopInv, SameStops, Only

\* No usage, on a line that brings Anthropic no further.
LEMMA UsageKept ==
    ASSUME UsageInv, family' = family, SameUsage(events', events),
           SentUsage(sent') = SentUsage(sent),
           family = "anthropic" /\ phase' # "start" => phase # "start",
           family = "anthropic" /\ phase' \in {"finished", "ended"} =>
               phase \in {"finished", "ended"}
    PROVE  UsageInv'
<1>1. /\ FromEvents(events') = FromEvents(events)
      /\ Usages(events') = {} <=> Usages(events) = {}
      /\ LatestCount(events', "input") = LatestCount(events, "input")
      /\ LatestCount(events', "output") = LatestCount(events, "output")
      /\ LatestCount(events', "total") = LatestCount(events, "total")
  BY DEF SameUsage
<1>. QED  BY <1>1 DEF UsageInv

\* Which none of those does.
LEMMA WithinUsage ==
    ASSUME Within
    PROVE  /\ family = "anthropic" /\ phase' # "start" => phase # "start"
           /\ family = "anthropic" /\ phase' \in {"finished", "ended"} =>
                  phase \in {"finished", "ended"}
BY StreamAssumption DEF Within, Blocks, Phases

----------------------------------------------------------------------------
(* 6. What each kind of line does.                                         *)

\* A line is read.
Reads(l) ==
    /\ l \in Lines
    /\ sent' = Append(sent, l)
    /\ family' = family /\ kind' = kind

\* The next piece of a tool call is one of toolID's.
CallKnown == phase' \in ToolIDs => toolID' = phase'

\* A line that is worth nothing: it starts a block of text, or the decoder does
\* not look at what it carries.
LEMMA ReadsNothing ==
    ASSUME StreamTypeOK, ContentInv, NEW l, Reads(l), events' = events, Within, CallKnown,
           l.usage = NoUsage, l.tool # "" \/ l.text = "", family = "openai" \/ l.tool = ""
    PROVE  ContentInv'
<1>1. /\ SameText(events', events) /\ SameTools(events', events)
      /\ SameStops(events', events) /\ SameUsage(events', events)
  BY DEF SameText, SameTools, SameStops, SameUsage
<1>2. sent \in Seq(Lines) /\ l \in Lines /\ sent' = Append(sent, l)
      /\ family' = family /\ kind' = kind
  BY DEF StreamTypeOK, Reads
<1>3. SentText(sent') = SentText(sent) /\ SentUsage(sent') = SentUsage(sent)
  BY <1>2, SentTextAppend, SentUsageAppend
<1>4. TextInv'
  BY <1>1, <1>2, <1>3, TextKept DEF ContentInv
<1>5. ToolInv'
  <2>1. CASE family = "openai"
    BY <1>2, <2>1 DEF ToolInv
  <2>2. CASE family # "openai"
    <3>1. SentToolCalls(sent') = SentToolCalls(sent)
      BY <1>2, <2>2, SentToolsAppend
    <3>. QED  BY <1>1, <1>2, <3>1, ToolsKept DEF ContentInv, CallKnown
  <2>. QED  BY <2>1, <2>2
<1>6. StopInv'
  BY <1>1, <1>2, StopsKept DEF ContentInv
<1>7. UsageInv'
  BY <1>1, <1>2, <1>3, WithinUsage, UsageKept DEF ContentInv
<1>. QED  BY <1>4, <1>5, <1>6, <1>7 DEF ContentInv

\* A piece of text.
LEMMA ReadsText ==
    ASSUME StreamTypeOK, ContentInv, NEW l, Reads(l), Within, CallKnown,
           NEW x \in Texts, events' = Append(events, ContentDelta(Key, x)),
           l.usage = NoUsage, l.tool = "", l.text = x
    PROVE  ContentInv'
<1>1. /\ sent \in Seq(Lines) /\ l \in Lines /\ sent' = Append(sent, l)
      /\ family' = family /\ kind' = kind /\ events \in Seq(Events) /\ kind \in Kinds
  BY DEF StreamTypeOK, Reads
<1>2. /\ StreamedText(events') = Append(StreamedText(events), x)
      /\ FinalText(events') = Append(FinalText(events), x)
      /\ SameTools(events', events) /\ SameStops(events', events) /\ SameUsage(events', events)
  BY <1>1, AfterContent
<1>3. x # ""
  BY StreamAssumption
<1>4. /\ SentText(sent') = Append(SentText(sent), x)
      /\ SentToolCalls(sent') = SentToolCalls(sent) /\ SentUsage(sent') = SentUsage(sent)
  BY <1>1, <1>3, SentTextAppend, SentToolsAppend, SentUsageAppend
<1>5. TextInv'
  BY <1>1, <1>2, <1>4, Primed DEF ContentInv, TextInv
<1>6. ToolInv'
  BY <1>1, <1>2, <1>4, ToolsKept DEF ContentInv, CallKnown
<1>7. StopInv'
  BY <1>1, <1>2, StopsKept DEF ContentInv
<1>8. UsageInv'
  BY <1>1, <1>2, <1>4, WithinUsage, UsageKept DEF ContentInv
<1>. QED  BY <1>5, <1>6, <1>7, <1>8 DEF ContentInv

\* A tool call's start or piece.
LEMMA ReadsTool ==
    ASSUME StreamTypeOK, ContentInv, NEW l, Reads(l), Within, CallKnown,
           kind = "chat", NEW e \in Events, events' = Append(events, e),
           e.type \in {"tool_call_start", "tool_call_delta"},
           WrittenAs(e, Chunk("tool", <<l.tool, l.text>>)),
           l.usage = NoUsage, l.tool # ""
    PROVE  ContentInv'
<1>1. /\ sent \in Seq(Lines) /\ l \in Lines /\ sent' = Append(sent, l)
      /\ family' = family /\ kind' = kind /\ events \in Seq(Events)
  BY DEF StreamTypeOK, Reads
<1>2. /\ Streamed(events', "tool") = Append(Streamed(events, "tool"), <<l.tool, l.text>>)
      /\ SameText(events', events) /\ SameStops(events', events) /\ SameUsage(events', events)
  BY <1>1, AfterTool
<1>3. /\ SentText(sent') = SentText(sent) /\ SentUsage(sent') = SentUsage(sent)
      /\ SentToolCalls(sent') = Append(SentToolCalls(sent), <<l.tool, l.text>>)
  BY <1>1, SentTextAppend, SentToolsAppend, SentUsageAppend
<1>4. TextInv'
  BY <1>1, <1>2, <1>3, TextKept DEF ContentInv
<1>5. ToolInv'
  BY <1>1, <1>2, <1>3, Primed DEF ContentInv, ToolInv, CallKnown
<1>6. StopInv'
  BY <1>1, <1>2, StopsKept DEF ContentInv
<1>7. UsageInv'
  BY <1>1, <1>2, <1>3, WithinUsage, UsageKept DEF ContentInv
<1>. QED  BY <1>4, <1>5, <1>6, <1>7 DEF ContentInv

\* A line with usage and nothing else.
LEMMA ReadsUsage ==
    ASSUME StreamTypeOK, ContentInv, NEW l, Reads(l), CallKnown,
           events' = Append(events, UsageEvent(l.usage)), l.usage # NoUsage,
           l.tool = "", l.text = ""
    PROVE  /\ TextInv' /\ ToolInv'
           /\ SameStops(events', events)
           /\ SentUsage(sent') = FullUsage
           /\ Usages(events') # {}
           /\ \A field \in {"input", "output", "total"} :
                  LatestCount(events', field) =
                      IF l.usage[field] # Absent THEN l.usage[field]
                      ELSE LatestCount(events, field)
<1>1. /\ sent \in Seq(Lines) /\ l \in Lines /\ sent' = Append(sent, l)
      /\ family' = family /\ kind' = kind /\ events \in Seq(Events)
  BY DEF StreamTypeOK, Reads
<1>2. l.usage \in Counts
  BY <1>1 DEF Lines
<1>3. /\ SameText(events', events) /\ SameTools(events', events) /\ SameStops(events', events)
      /\ Usages(events') # {}
      /\ \A field \in {"input", "output", "total"} :
             LatestCount(events', field) = IF l.usage[field] # Absent THEN l.usage[field]
                                           ELSE LatestCount(events, field)
  BY <1>1, <1>2, AfterUsage
<1>4. /\ SentText(sent') = SentText(sent) /\ SentToolCalls(sent') = SentToolCalls(sent)
      /\ SentUsage(sent') = FullUsage
  BY <1>1, SentTextAppend, SentToolsAppend, SentUsageAppend
<1>5. TextInv'
  BY <1>1, <1>3, <1>4, TextKept DEF ContentInv
<1>6. ToolInv'
  BY <1>1, <1>3, <1>4, ToolsKept DEF ContentInv, CallKnown
<1>. QED  BY <1>3, <1>4, <1>5, <1>6

\* The three lines with usage: OpenAI's last chunk ...
LEMMA ReadsUsageChunk ==
    ASSUME StreamTypeOK, ContentInv, NEW l, Reads(l), CallKnown,
           events' = Append(events, UsageEvent(l.usage)), l.usage = FullUsage,
           l.tool = "", l.text = "",
           family = "openai", phase = "finished", phase' = "counted"
    PROVE  ContentInv'
<1>1. l.usage # NoUsage /\ family' = family /\ kind' = kind
  BY Costs DEF FullUsage, Reads
<1>2. /\ TextInv' /\ ToolInv' /\ SameStops(events', events) /\ SentUsage(sent') = FullUsage
      /\ Usages(events') # {}
      /\ \A field \in {"input", "output", "total"} :
             LatestCount(events', field) = IF l.usage[field] # Absent THEN l.usage[field]
                                           ELSE LatestCount(events, field)
  BY <1>1, ReadsUsage
<1>3. StopInv'
  BY <1>1, <1>2, Primed DEF ContentInv, StopInv, SameStops, Unstopped, Only
<1>5. FromEvents(events') = FullUsage
  BY AfterFullUsage DEF StreamTypeOK
<1>6. UsageInv'
  BY <1>1, <1>2, <1>5 DEF UsageInv
<1>. QED  BY <1>2, <1>3, <1>6 DEF ContentInv

\* ... Anthropic's first line ...
LEMMA ReadsMessageStart ==
    ASSUME StreamTypeOK, ContentInv, NEW l, Reads(l), CallKnown,
           events' = Append(events, UsageEvent(l.usage)),
           l.usage["input"] = InTokens, l.usage["total"] = Absent,
           l.tool = "", l.text = "",
           family = "anthropic", phase = "start", phase' = "body"
    PROVE  ContentInv'
<1>1. l.usage # NoUsage /\ family' = family /\ kind' = kind
  BY Costs DEF Reads
<1>2. /\ TextInv' /\ ToolInv' /\ SameStops(events', events) /\ SentUsage(sent') = FullUsage
      /\ Usages(events') # {}
      /\ \A field \in {"input", "output", "total"} :
             LatestCount(events', field) = IF l.usage[field] # Absent THEN l.usage[field]
                                           ELSE LatestCount(events, field)
  BY <1>1, ReadsUsage
<1>3. StopInv'
  BY <1>1, <1>2, Primed DEF ContentInv, StopInv, SameStops, Unstopped, Only
<1>4. /\ LatestCount(events', "input") = InTokens
      /\ LatestCount(events', "total") = LatestCount(events, "total")
  BY <1>2, Costs
<1>5. UsageInv'
  BY <1>1, <1>2, <1>4 DEF ContentInv, UsageInv
<1>. QED  BY <1>2, <1>3, <1>5 DEF ContentInv

\* ... and its message_delta, which need not repeat the input count.
LEMMA ReadsMessageDelta ==
    ASSUME StreamTypeOK, ContentInv, NEW l, Reads(l), CallKnown,
           events' = Append(events, UsageEvent(l.usage)),
           NEW in \in {Absent, InTokens}, l.usage["input"] = in,
           l.usage["output"] = OutTokens, l.usage["total"] = Absent,
           l.tool = "", l.text = "",
           family = "anthropic", phase \in Blocks, phase' = "finished"
    PROVE  ContentInv'
<1>1. l.usage # NoUsage /\ family' = family /\ kind' = kind
  BY Costs DEF Reads
<1>2. /\ TextInv' /\ ToolInv' /\ SameStops(events', events) /\ SentUsage(sent') = FullUsage
      /\ Usages(events') # {}
      /\ \A field \in {"input", "output", "total"} :
             LatestCount(events', field) = IF l.usage[field] # Absent THEN l.usage[field]
                                           ELSE LatestCount(events, field)
  BY <1>1, ReadsUsage
<1>3. phase # "ended" /\ phase # "start"
  BY StreamAssumption DEF Blocks, Phases
<1>4. StopInv'
  BY <1>1, <1>2, <1>3, Primed DEF ContentInv, StopInv, SameStops, Unstopped, Only
<1>5. /\ LatestCount(events', "input") = IF in = Absent THEN LatestCount(events, "input")
                                         ELSE InTokens
      /\ LatestCount(events', "output") = OutTokens
      /\ LatestCount(events', "total") = LatestCount(events, "total")
  BY <1>2, Costs
<1>6. UsageInv'
  BY <1>1, <1>2, <1>3, <1>5 DEF ContentInv, UsageInv
<1>. QED  BY <1>2, <1>4, <1>6 DEF ContentInv

\* OpenAI's chunk with the finish reason, after the text it may carry.
LEMMA ReadsFinish ==
    ASSUME StreamTypeOK, ContentInv, NEW l, Reads(l), kind = "chat", family = "openai",
           phase = "start", phase' = "finished",
           NEW reason \in Reasons, NEW x \in Texts \cup {""}, NEW s,
           s = IF x = "" THEN events ELSE Append(events, ContentDelta(Key, x)),
           events' = Append(s, MessageStop(reason)),
           l.usage = NoUsage, l.tool = "", l.text = x
    PROVE  ContentInv'
<1>1. /\ sent \in Seq(Lines) /\ l \in Lines /\ sent' = Append(sent, l)
      /\ family' = family /\ kind' = kind /\ events \in Seq(Events) /\ kind \in Kinds
  BY DEF StreamTypeOK, Reads
<1>2. /\ s \in Seq(Events)
      /\ StreamedText(s) = SentText(sent') /\ FinalText(s) = SentText(sent')
      /\ SameStops(s, events) /\ SameUsage(s, events)
  <2>1. CASE x = ""
    <3>1. SentText(sent') = SentText(sent)
      BY <1>1, <2>1, SentTextAppend
    <3>. QED  BY <1>1, <2>1, <3>1 DEF ContentInv, TextInv, SameStops, SameUsage
  <2>2. CASE x # ""
    <3>1. s \in Seq(Events)
      <4>1. ContentDelta(Key, x) \in Events
        BY EventTypes DEF Key
      <4>2. s = Append(events, ContentDelta(Key, x))
        BY <2>2
      <4>. QED  BY <1>1, <4>1, <4>2, EventsAppend
    <3>2. /\ StreamedText(s) = Append(StreamedText(events), x)
          /\ FinalText(s) = Append(FinalText(events), x)
          /\ SameStops(s, events) /\ SameUsage(s, events)
      BY <1>1, <2>2, AfterContent
    <3>3. SentText(sent') = Append(SentText(sent), x)
      BY <1>1, <2>2, SentTextAppend
    <3>. QED  BY <3>1, <3>2, <3>3 DEF ContentInv, TextInv
  <2>. QED  BY <2>1, <2>2
<1>. DEFINE r == normalizeFinishReason(reason)
<1>3. /\ SameText(events', s) /\ SameUsage(events', s)
      /\ Streamed(events', "done") = Streamed(s, "done")
      /\ FinalFinishReason(events') = r /\ r \in {"stop", "length", "tool_calls"}
      /\ Streamed(events', "finish") = Append(Streamed(s, "finish"), r)
  BY <1>1, <1>2, AfterStop
<1>. HIDE DEF r
<1>4. SentUsage(sent') = SentUsage(sent)
  BY <1>1, SentUsageAppend
<1>5. TextInv'
  BY <1>1, <1>2, <1>3, Primed DEF TextInv, SameText
<1>6. ToolInv'
  BY <1>1 DEF ToolInv
<1>7. StopInv'
  <2>1. /\ Streamed(events, "done") = <<>> /\ Streamed(events, "finish") = <<>>
    BY DEF ContentInv, StopInv, Unstopped, Only
  <2>2. Streamed(events', "done") = <<>> /\ Streamed(events', "finish") = <<r>>
    BY <1>2, <1>3, <2>1, AppendToEmpty, Zenon DEF SameStops
  <2>. QED  BY <1>1, <1>3, <2>2, Primed DEF StopInv, Unstopped, Only
<1>8. UsageInv'
  <2>1. SameUsage(events', events)
    BY <1>2, <1>3 DEF SameUsage
  <2>. QED  BY <1>1, <1>4, <2>1, UsageKept DEF ContentInv
<1>. QED  BY <1>5, <1>6, <1>7, <1>8 DEF ContentInv

\* OpenAI's [DONE].
LEMMA ReadsDone ==
    ASSUME StreamTypeOK, ContentInv, NEW l, Reads(l), kind = "chat", family = "openai",
           phase \in {"finished", "counted"}, phase' = "ended",
           events' = Append(events, BareStop),
           l.usage = NoUsage, l.tool = "", l.text = ""
    PROVE  ContentInv'
<1>1. /\ sent \in Seq(Lines) /\ l \in Lines /\ sent' = Append(sent, l)
      /\ family' = family /\ kind' = kind /\ events \in Seq(Events) /\ kind \in Kinds
  BY DEF StreamTypeOK, Reads
<1>2. /\ SameText(events', events) /\ SameUsage(events', events)
      /\ Streamed(events', "finish") = Streamed(events, "finish")
      /\ FinalFinishReason(events') = FinalFinishReason(events)
      /\ Streamed(events', "done") = Append(Streamed(events, "done"), "")
      /\ Last(WriteSSE(events')).chunk = "done"
  BY <1>1, AfterBareStop
<1>3. SentText(sent') = SentText(sent) /\ SentUsage(sent') = SentUsage(sent)
  BY <1>1, SentTextAppend, SentUsageAppend
<1>4. TextInv'
  BY <1>1, <1>2, <1>3, TextKept DEF ContentInv
<1>5. ToolInv'
  BY <1>1 DEF ToolInv
<1>6. StopInv'
  <2>1. Streamed(events, "done") = <<>>
    BY DEF ContentInv, StopInv, Only
  <2>2. Streamed(events', "done") = <<"">>
    BY <1>2, <2>1, AppendToEmpty, Zenon
  <2>. QED  BY <1>1, <1>2, <2>2, Primed DEF ContentInv, StopInv, Unstopped, Only
<1>7. UsageInv'
  BY <1>1, <1>2, <1>3, UsageKept DEF ContentInv
<1>. QED  BY <1>4, <1>5, <1>6, <1>7 DEF ContentInv

\* response.completed, after the usage it may carry.
LEMMA ReadsCompleted ==
    ASSUME StreamTypeOK, ContentInv, NEW l, Reads(l), kind = "responses", family = "openai",
           NEW s, s = IF l.usage = NoUsage THEN events ELSE Append(events, UsageEvent(l.usage)),
           events' = Append(s, BareStop),
           l.usage \in {NoUsage, FullUsage}, l.tool = "", l.text = ""
    PROVE  ContentInv'
<1>1. /\ sent \in Seq(Lines) /\ l \in Lines /\ sent' = Append(sent, l)
      /\ family' = family /\ kind' = kind /\ events \in Seq(Events) /\ kind \in Kinds
  BY DEF StreamTypeOK, Reads
<1>2. s \in Seq(Events) /\ SameText(s, events) /\ FromEvents(s) = SentUsage(sent')
  <2>1. CASE l.usage = NoUsage
    <3>1. SentUsage(sent') = SentUsage(sent)
      BY <1>1, <2>1, SentUsageAppend
    <3>. QED  BY <1>1, <2>1, <3>1 DEF ContentInv, UsageInv, SameText
  <2>2. CASE l.usage # NoUsage
    <3>1. l.usage = FullUsage /\ SentUsage(sent') = FullUsage
      BY <1>1, <2>2, SentUsageAppend
    <3>2. s = Append(events, UsageEvent(FullUsage))
      BY <2>2, <3>1
    <3>. QED  BY <1>1, <3>1, <3>2, AfterFullUsage
  <2>. QED  BY <2>1, <2>2
<1>3. SameText(events', s) /\ SameUsage(events', s)
  BY <1>1, <1>2, AfterBareStop
<1>4. SameText(events', events) /\ FromEvents(events') = SentUsage(sent')
  BY <1>2, <1>3 DEF SameText, SameUsage
<1>5. SentText(sent') = SentText(sent)
  BY <1>1, SentTextAppend
<1>6. TextInv'
  BY <1>1, <1>4, <1>5, TextKept DEF ContentInv
<1>7. ToolInv' /\ StopInv'
  BY <1>1 DEF ToolInv, StopInv
<1>8. UsageInv'
  BY <1>1, <1>4 DEF UsageInv
<1>. QED  BY <1>6, <1>7, <1>8 DEF ContentInv

\* message_stop, which is two stops.
LEMMA ReadsMessageStop ==
    ASSUME StreamTypeOK, ContentInv, NEW l, Reads(l), family = "anthropic",
           phase = "finished", phase' = "ended", stopReason \in Reasons,
           events' = Append(Append(events, MessageStop(stopReason)), BareStop),
           l.usage = NoUsage, l.tool = "", l.text = ""
    PROVE  ContentInv'
<1>. DEFINE s == Append(events, MessageStop(stopReason))
            r == normalizeFinishReason(stopReason)
<1>1. /\ sent \in Seq(Lines) /\ l \in Lines /\ sent' = Append(sent, l)
      /\ family' = family /\ kind' = kind /\ events \in Seq(Events) /\ kind \in Kinds
  BY DEF StreamTypeOK, Reads
<1>2. s \in Seq(Events)
  <2>1. MessageStop(stopReason) \in Events
    BY DEF Events, MessageStop
  <2>. QED  BY <1>1, <2>1, EventsAppend
<1>3. /\ SameText(s, events) /\ SameTools(s, events) /\ SameUsage(s, events)
      /\ Streamed(s, "done") = Streamed(events, "done")
      /\ FinalFinishReason(s) = r /\ r \in {"stop", "length", "tool_calls"}
      /\ kind = "chat" => Streamed(s, "finish") = Append(Streamed(events, "finish"), r)
  BY <1>1, AfterStop
<1>4. events' = Append(s, BareStop)
  OBVIOUS
<1>. HIDE DEF s, r
<1>5. /\ SameText(events', s) /\ SameTools(events', s) /\ SameUsage(events', s)
      /\ Streamed(events', "finish") = Streamed(s, "finish")
      /\ FinalFinishReason(events') = FinalFinishReason(s)
      /\ kind = "chat" => /\ Streamed(events', "done") = Append(Streamed(s, "done"), "")
                          /\ Last(WriteSSE(events')).chunk = "done"
  BY <1>1, <1>2, <1>4, AfterBareStop
<1>6. /\ SameText(events', events) /\ SameTools(events', events) /\ SameUsage(events', events)
  BY <1>3, <1>5 DEF SameText, SameTools, SameUsage
<1>7. /\ SentText(sent') = SentText(sent) /\ SentToolCalls(sent') = SentToolCalls(sent)
      /\ SentUsage(sent') = SentUsage(sent)
  BY <1>1, SentTextAppend, SentToolsAppend, SentUsageAppend
<1>8. TextInv'
  BY <1>1, <1>6, <1>7, TextKept DEF ContentInv
<1>9. ToolInv'
  <2>1. phase' \notin ToolIDs
    BY StreamAssumption DEF Phases
  <2>. QED  BY <1>1, <1>6, <1>7, <2>1, ToolsKept DEF ContentInv
<1>10. StopInv'
  <2>. SUFFICES ASSUME kind = "chat"  PROVE StopInv'
    BY <1>1 DEF StopInv
  <2>1. Streamed(events, "done") = <<>> /\ Streamed(events, "finish") = <<>>
    BY DEF ContentInv, StopInv, Unstopped, Only
  <2>2. Streamed(events', "done") = <<"">> /\ Streamed(events', "finish") = <<r>>
    BY <1>3, <1>5, <2>1, AppendToEmpty, Zenon
  <2>. QED  BY <1>1, <1>3, <1>5, <2>2, Primed DEF StopInv, Unstopped, Only
<1>11. UsageInv'
  BY <1>1, <1>6, <1>7, UsageKept DEF ContentInv
<1>. QED  BY <1>8, <1>9, <1>10, <1>11 DEF ContentInv

----------------------------------------------------------------------------
(* 7. The decoders, line by line.                                          *)

\* Two events at once.
LEMMA AddTwo ==
    ASSUME NEW s \in Seq(Events), NEW a \in Events, NEW b \in Events
    PROVE  s \o (<<a>> \o <<b>>) = Append(Append(s, a), b)
<1>1. <<a>> \in Seq(Events) /\ <<b>> \in Seq(Events)
  OBVIOUS
<1>2. s \o (<<a>> \o <<b>>) = (s \o <<a>>) \o <<b>>
  BY <1>1, ConcatAssociative
<1>3. s \o <<a>> = Append(s, a) /\ Append(s, a) \in Seq(Events)
  BY AddOne
<1>4. \A t \in Seq(Events) : t \o <<b>> = Append(t, b)
  BY AddOne
<1>. QED  BY <1>2, <1>3, <1>4

\* A line decodes to canonical events.
LEMMA DecodeType ==
    ASSUME StreamTypeOK, NEW l \in Lines
    PROVE  decodeOpenAI(l) \in Seq(Events) /\ decodeAnthropic(l) \in Seq(Events)
<1>1. \A e \in Events : <<e>> \in Seq(Events)
  OBVIOUS
<1>2. <<>> \in Seq(Events) /\ \A s, t \in Seq(Events) : s \o t \in Seq(Events)
  BY EmptySeq, ConcatProperties
<1>3. /\ l.text \in Texts \cup {""} /\ l.tool \in ToolIDs \cup {""}
      /\ l.reason \in Reasons \cup {""} /\ l.usage \in Counts
      /\ toolID \in ToolIDs \cup {""} /\ stopReason \in Reasons \cup {""}
  BY DEF StreamTypeOK, Lines
<1>4. appendUsageEvent(l.usage) \in Seq(Events)
  BY <1>1, <1>2, <1>3, EventTypes DEF appendUsageEvent
<1>5. decodeResponsesEvent(l) \in Seq(Events)
  BY <1>1, <1>2, <1>3, <1>4, EventTypes DEF decodeResponsesEvent
<1>6. decodeChatEvent(l) \in Seq(Events)
  <2>1. (IF l.text # "" /\ l.tool = "" THEN <<ContentDelta("text", l.text)>> ELSE <<>>)
            \in Seq(Events)
    BY <1>1, <1>2, <1>3, EventTypes
  <2>2. (IF l.reason # "" THEN <<MessageStop(l.reason)>> ELSE <<>>) \in Seq(Events)
    BY <1>1, <1>2, <1>3, EventTypes
  <2>. QED  BY <1>2, <1>4, <2>1, <2>2 DEF decodeChatEvent
<1>7. anthropicDelta(l) \in Seq(Events)
  BY <1>1, <1>3, EventTypes DEF anthropicDelta
<1>8. anthropicStop(l) \in Seq(Events)
  BY <1>1, <1>2, <1>3, EventTypes DEF anthropicStop
<1>9. decodeOpenAI(l) \in Seq(Events)
  BY <1>1, <1>5, <1>6, EventTypes DEF decodeOpenAI
<1>10. decodeAnthropic(l) \in Seq(Events)
  <2>1. l.tool # "" => ToolCallStart(l.tool) \in Events
    BY <1>3, EventTypes
  <2>. QED  BY <1>1, <1>2, <1>4, <1>7, <1>8, <2>1 DEF decodeAnthropic
<1>. QED  BY <1>9, <1>10

\* A step of the upstream keeps the types, and is one line read.
LEMMA SendsLine ==
    ASSUME StreamTypeOK, outcome = "reading", NEW l \in Lines,
           NEW next \in Phases \cup ToolIDs, Sends(l, next)
    PROVE  /\ StreamTypeOK' /\ Reads(l) /\ phase' = next /\ outcome' = "reading"
           /\ family = "openai" =>
                  events' = events \o decodeOpenAI(l) /\ UNCHANGED <<toolID, stopReason>>
           /\ family = "anthropic" =>
                  /\ events' = events \o decodeAnthropic(l)
                  /\ toolID' = nextToolID(l) /\ stopReason' = nextStopReason(l)
<1>1. /\ Reads(l) /\ phase' = next /\ outcome' = "reading"
      /\ family' = family /\ kind' = kind
  BY DEF Sends, Reads
<1>2. /\ family = "openai" =>
             events' = events \o decodeOpenAI(l) /\ UNCHANGED <<toolID, stopReason>>
      /\ family = "anthropic" =>
             /\ events' = events \o decodeAnthropic(l)
             /\ toolID' = nextToolID(l) /\ stopReason' = nextStopReason(l)
  BY DEF Sends, Decode, ReadOpenAI, ReadAnthropic
<1>3. family \in Families /\ sent \in Seq(Lines) /\ events \in Seq(Events)
  BY DEF StreamTypeOK
<1>4. events' \in Seq(Events)
  <2>1. events' = events \o decodeOpenAI(l) \/ events' = events \o decodeAnthropic(l)
    BY <1>2, <1>3 DEF Families
  <2>. QED  BY <1>3, <2>1, DecodeType, ConcatProperties
<1>5. sent' \in Seq(Lines)
  BY <1>1, <1>3, AppendProperties DEF Reads
<1>6. toolID' \in ToolIDs \cup {""} /\ stopReason' \in Reasons \cup {""}
  <2>1. l.tool \in ToolIDs \cup {""} /\ l.reason \in Reasons \cup {""}
    BY DEF Lines
  <2>2. nextToolID(l) \in ToolIDs \cup {""} /\ nextStopReason(l) \in Reasons \cup {""}
    BY <2>1 DEF StreamTypeOK, nextToolID, nextStopReason
  <2>. QED  BY <1>2, <1>3, <2>2 DEF StreamTypeOK, Families
<1>. QED  BY <1>1, <1>2, <1>4, <1>5, <1>6 DEF StreamTypeOK

----------------------------------------------------------------------------
(* 8. Each action preserves the invariant.                                 *)

Kept == StreamTypeOK' /\ PhaseInv' /\ ContentInv'

\* A chunk of text ...
LEMMA ChatText ==
    ASSUME IInv, outcome = "reading", family = "openai", kind = "chat", phase = "start",
           NEW x \in Texts, Sends([Line("chunk") EXCEPT !.text = x], "start")
    PROVE  Kept
<1>. DEFINE l == [Line("chunk") EXCEPT !.text = x]
<1>1. /\ l \in Lines /\ l.type = "chunk"
      /\ l.text = x /\ l.tool = "" /\ l.reason = "" /\ l.usage = NoUsage
  BY Costs DEF Line, Lines
<1>2. Sends(l, "start")
  OBVIOUS
<1>. HIDE DEF l
<1>3. /\ StreamTypeOK' /\ Reads(l) /\ phase' = "start"
      /\ events' = events \o decodeOpenAI(l)
  BY <1>1, <1>2, SendsLine DEF IInv, Phases
<1>4. decodeOpenAI(l) = <<ContentDelta("text", x)>>
  <2>1. x # ""
    BY StreamAssumption
  <2>. QED  BY <1>1, <2>1, Concats DEF decodeOpenAI, decodeChatEvent, appendUsageEvent
<1>5. events' = Append(events, ContentDelta(Key, x))
  <2>1. events \in Seq(Events) /\ ContentDelta("text", x) \in Events /\ Key = "text"
    BY EventTypes DEF IInv, StreamTypeOK, Key
  <2>. QED  BY <1>3, <1>4, <2>1, AddOne
<1>6. PhaseInv'
  BY <1>3 DEF IInv, PhaseInv, Reads
<1>7. ContentInv'
  <2>1. Within /\ CallKnown
    BY <1>3, StreamAssumption DEF Within, CallKnown, Phases
  <2>. QED  BY <1>1, <1>3, <1>5, <2>1, ReadsText DEF IInv
<1>. QED  BY <1>3, <1>6, <1>7 DEF Kept

\* ... or of a tool call, which decodes to nothing.
LEMMA ChatTool ==
    ASSUME IInv, outcome = "reading", family = "openai", kind = "chat", phase = "start",
           NEW x \in Texts, NEW t \in ToolIDs,
           Sends([Line("chunk") EXCEPT !.text = x, !.tool = t], "start")
    PROVE  Kept
<1>. DEFINE l == [Line("chunk") EXCEPT !.text = x, !.tool = t]
<1>1. /\ l \in Lines /\ l.type = "chunk"
      /\ l.text = x /\ l.tool = t /\ l.reason = "" /\ l.usage = NoUsage
  BY Costs DEF Line, Lines
<1>2. Sends(l, "start")
  OBVIOUS
<1>. HIDE DEF l
<1>3. /\ StreamTypeOK' /\ Reads(l) /\ phase' = "start"
      /\ events' = events \o decodeOpenAI(l)
  BY <1>1, <1>2, SendsLine DEF IInv, Phases
<1>4. t # ""
  BY StreamAssumption
<1>5. decodeOpenAI(l) = <<>>
  BY <1>1, <1>4, Concats DEF decodeOpenAI, decodeChatEvent, appendUsageEvent
<1>6. events' = events
  BY <1>3, <1>5, AddNone DEF IInv, StreamTypeOK
<1>7. PhaseInv'
  BY <1>3 DEF IInv, PhaseInv, Reads
<1>8. ContentInv'
  <2>1. Within /\ CallKnown
    BY <1>3, StreamAssumption DEF Within, CallKnown, Phases
  <2>. QED  BY <1>1, <1>3, <1>4, <1>6, <2>1, ReadsNothing DEF IInv
<1>. QED  BY <1>3, <1>7, <1>8 DEF Kept

\* The chunk with the finish reason.
LEMMA ChatFinish ==
    ASSUME IInv, outcome = "reading", family = "openai", kind = "chat", phase = "start",
           NEW x \in Texts \cup {""}, NEW reason \in {"stop", "length", "tool_calls"},
           Sends([Line("chunk") EXCEPT !.text = x, !.reason = reason], "finished")
    PROVE  Kept
<1>. DEFINE l == [Line("chunk") EXCEPT !.text = x, !.reason = reason]
            s == IF x = "" THEN events ELSE Append(events, ContentDelta(Key, x))
<1>1. /\ l \in Lines /\ l.type = "chunk"
      /\ l.text = x /\ l.tool = "" /\ l.reason = reason /\ l.usage = NoUsage
  BY Costs DEF Line, Lines, Reasons
<1>2. Sends(l, "finished")
  OBVIOUS
<1>. HIDE DEF l
<1>3. /\ StreamTypeOK' /\ Reads(l) /\ phase' = "finished"
      /\ events' = events \o decodeOpenAI(l)
  BY <1>1, <1>2, SendsLine DEF IInv, Phases
<1>4. /\ events \in Seq(Events) /\ reason # "" /\ reason \in Reasons
      /\ ContentDelta("text", x) \in Events /\ MessageStop(reason) \in Events /\ Key = "text"
  BY EventTypes DEF IInv, StreamTypeOK, Key, Reasons
<1>5. events' = Append(s, MessageStop(reason))
  <2>1. CASE x = ""
    <3>1. decodeOpenAI(l) = <<MessageStop(reason)>>
      BY <1>1, <1>4, <2>1, Concats DEF decodeOpenAI, decodeChatEvent, appendUsageEvent
    <3>. QED  BY <1>3, <1>4, <2>1, <3>1, AddOne
  <2>2. CASE x # ""
    <3>1. decodeOpenAI(l) = <<ContentDelta("text", x)>> \o <<MessageStop(reason)>>
      BY <1>1, <1>4, <2>2, Concats DEF decodeOpenAI, decodeChatEvent, appendUsageEvent
    <3>2. \A a, b \in Events : events \o (<<a>> \o <<b>>) = Append(Append(events, a), b)
      BY <1>4, AddTwo
    <3>3. events' = Append(Append(events, ContentDelta("text", x)), MessageStop(reason))
      BY <1>3, <1>4, <3>1, <3>2, Zenon
    <3>. QED  BY <1>4, <2>2, <3>3
  <2>. QED  BY <2>1, <2>2
<1>. HIDE DEF s
<1>6. PhaseInv'
  BY <1>3, StreamAssumption DEF IInv, PhaseInv, Reads, Blocks, Phases
<1>7. ContentInv'
  BY <1>1, <1>3, <1>4, <1>5, ReadsFinish DEF IInv, s
<1>. QED  BY <1>3, <1>6, <1>7 DEF Kept

\* The chunk with the usage.
LEMMA ChatUsage ==
    ASSUME IInv, outcome = "reading", family = "openai", kind = "chat", phase = "finished",
           Sends([Line("chunk") EXCEPT !.usage = FullUsage], "counted")
    PROVE  Kept
<1>. DEFINE l == [Line("chunk") EXCEPT !.usage = FullUsage]
<1>1. /\ l \in Lines /\ l.type = "chunk"
      /\ l.text = "" /\ l.tool = "" /\ l.reason = "" /\ l.usage = FullUsage
  BY Costs DEF Line, Lines
<1>2. Sends(l, "counted")
  OBVIOUS
<1>. HIDE DEF l
<1>3. /\ StreamTypeOK' /\ Reads(l) /\ phase' = "counted"
      /\ events' = events \o decodeOpenAI(l)
  BY <1>1, <1>2, SendsLine DEF IInv, Phases
<1>4. decodeOpenAI(l) = <<UsageEvent(l.usage)>>
  <2>1. l.usage # NoUsage
    BY <1>1, Costs
  <2>. QED  BY <1>1, <2>1, Concats DEF decodeOpenAI, decodeChatEvent, appendUsageEvent
<1>5. events' = Append(events, UsageEvent(l.usage))
  <2>1. events \in Seq(Events) /\ UsageEvent(l.usage) \in Events
    BY <1>1, Costs, EventTypes DEF IInv, StreamTypeOK
  <2>. QED  BY <1>3, <1>4, <2>1, AddOne
<1>6. PhaseInv'
  BY <1>3, StreamAssumption DEF IInv, PhaseInv, Reads, Blocks, Phases
<1>7. ContentInv'
  <2>1. CallKnown
    BY <1>3, StreamAssumption DEF CallKnown, Phases
  <2>. QED  BY <1>1, <1>3, <1>5, <2>1, ReadsUsageChunk DEF IInv
<1>. QED  BY <1>3, <1>6, <1>7 DEF Kept

\* [DONE].
LEMMA ChatDone ==
    ASSUME IInv, outcome = "reading", family = "openai", kind = "chat",
           phase \in {"finished", "counted"}, Sends(Line("[DONE]"), "ended")
    PROVE  Kept
<1>. DEFINE l == Line("[DONE]")
<1>1. /\ l \in Lines /\ l.type = "[DONE]"
      /\ l.text = "" /\ l.tool = "" /\ l.usage = NoUsage
  BY Costs DEF Line, Lines
<1>2. Sends(l, "ended")
  OBVIOUS
<1>. HIDE DEF l
<1>3. /\ StreamTypeOK' /\ Reads(l) /\ phase' = "ended"
      /\ events' = events \o decodeOpenAI(l)
  BY <1>1, <1>2, SendsLine DEF IInv, Phases
<1>4. events' = Append(events, BareStop)
  <2>1. events \in Seq(Events) /\ BareStop \in Events
    BY EventTypes DEF IInv, StreamTypeOK
  <2>2. decodeOpenAI(l) = <<BareStop>>
    BY <1>1 DEF decodeOpenAI
  <2>. QED  BY <1>3, <2>1, <2>2, AddOne
<1>5. PhaseInv'
  BY <1>3, StreamAssumption DEF IInv, PhaseInv, Reads, Blocks, Phases
<1>6. ContentInv'
  BY <1>1, <1>3, <1>4, ReadsDone DEF IInv
<1>. QED  BY <1>3, <1>5, <1>6 DEF Kept

\* OpenAI's chat protocol.
LEMMA OpenAIChatKeeps ==
    ASSUME IInv, outcome = "reading", OpenAIChat
    PROVE  Kept
<1>1. ASSUME NEW x \in Texts, phase = "start",
             Sends([Line("chunk") EXCEPT !.text = x], "start")
      PROVE  Kept
  BY <1>1, ChatText DEF OpenAIChat
<1>2. ASSUME NEW x \in Texts, NEW t \in ToolIDs, phase = "start",
             Sends([Line("chunk") EXCEPT !.text = x, !.tool = t], "start")
      PROVE  Kept
  BY <1>2, ChatTool DEF OpenAIChat
<1>3. ASSUME NEW x \in Texts \cup {""}, NEW reason \in {"stop", "length", "tool_calls"},
             phase = "start",
             Sends([Line("chunk") EXCEPT !.text = x, !.reason = reason], "finished")
      PROVE  Kept
  BY <1>3, ChatFinish DEF OpenAIChat
<1>4. ASSUME phase = "finished", Sends([Line("chunk") EXCEPT !.usage = FullUsage], "counted")
      PROVE  Kept
  BY <1>4, ChatUsage DEF OpenAIChat
<1>5. ASSUME phase \in {"finished", "counted"}, Sends(Line("[DONE]"), "ended")
      PROVE  Kept
  BY <1>5, ChatDone DEF OpenAIChat
<1>. QED  BY <1>1, <1>2, <1>3, <1>4, <1>5 DEF OpenAIChat

\* response.output_text.delta.
LEMMA ResponsesText ==
    ASSUME IInv, outcome = "reading", family = "openai", kind = "responses", phase = "start",
           NEW x \in Texts,
           Sends([Line("response.output_text.delta") EXCEPT !.text = x], "start")
    PROVE  Kept
<1>. DEFINE l == [Line("response.output_text.delta") EXCEPT !.text = x]
<1>1. /\ l \in Lines /\ l.type = "response.output_text.delta"
      /\ l.text = x /\ l.tool = "" /\ l.usage = NoUsage
  BY Costs DEF Line, Lines
<1>2. Sends(l, "start")
  OBVIOUS
<1>. HIDE DEF l
<1>3. /\ StreamTypeOK' /\ Reads(l) /\ phase' = "start"
      /\ events' = events \o decodeOpenAI(l)
  BY <1>1, <1>2, SendsLine DEF IInv, Phases
<1>4. decodeOpenAI(l) = <<ContentDelta("delta", x)>>
  BY <1>1 DEF decodeOpenAI, decodeResponsesEvent
<1>5. events' = Append(events, ContentDelta(Key, x))
  <2>1. events \in Seq(Events) /\ ContentDelta("delta", x) \in Events /\ Key = "delta"
    BY EventTypes DEF IInv, StreamTypeOK, Key
  <2>. QED  BY <1>3, <1>4, <2>1, AddOne
<1>6. PhaseInv'
  BY <1>3 DEF IInv, PhaseInv, Reads
<1>7. ContentInv'
  <2>1. Within /\ CallKnown
    BY <1>3, StreamAssumption DEF Within, CallKnown, Phases
  <2>. QED  BY <1>1, <1>3, <1>5, <2>1, ReadsText DEF IInv
<1>. QED  BY <1>3, <1>6, <1>7 DEF Kept

\* An event the decoder knows nothing of.
LEMMA ResponsesCreated ==
    ASSUME IInv, outcome = "reading", family = "openai", kind = "responses", phase = "start",
           Sends(Line("response.created"), "start")
    PROVE  Kept
<1>. DEFINE l == Line("response.created")
<1>1. /\ l \in Lines /\ l.type = "response.created"
      /\ l.text = "" /\ l.tool = "" /\ l.usage = NoUsage
  BY Costs DEF Line, Lines
<1>2. Sends(l, "start")
  OBVIOUS
<1>. HIDE DEF l
<1>3. /\ StreamTypeOK' /\ Reads(l) /\ phase' = "start"
      /\ events' = events \o decodeOpenAI(l)
  BY <1>1, <1>2, SendsLine DEF IInv, Phases
<1>4. decodeOpenAI(l) = <<>>
  BY <1>1 DEF decodeOpenAI, decodeResponsesEvent, appendUsageEvent
<1>5. events' = events
  BY <1>3, <1>4, AddNone DEF IInv, StreamTypeOK
<1>6. PhaseInv'
  BY <1>3 DEF IInv, PhaseInv, Reads
<1>7. ContentInv'
  <2>1. Within /\ CallKnown
    BY <1>3, StreamAssumption DEF Within, CallKnown, Phases
  <2>. QED  BY <1>1, <1>3, <1>5, <2>1, ReadsNothing DEF IInv
<1>. QED  BY <1>3, <1>6, <1>7 DEF Kept

\* response.completed, with the usage or without.
LEMMA ResponsesCompleted ==
    ASSUME IInv, outcome = "reading", family = "openai", kind = "responses", phase = "start",
           NEW u \in {NoUsage, FullUsage},
           Sends([Line("response.completed") EXCEPT !.usage = u], "ended")
    PROVE  Kept
<1>. DEFINE l == [Line("response.completed") EXCEPT !.usage = u]
            s == IF l.usage = NoUsage THEN events ELSE Append(events, UsageEvent(l.usage))
<1>1. /\ l \in Lines /\ l.type = "response.completed"
      /\ l.text = "" /\ l.tool = "" /\ l.usage = u
  BY Costs DEF Line, Lines
<1>2. Sends(l, "ended")
  OBVIOUS
<1>. HIDE DEF l
<1>3. /\ StreamTypeOK' /\ Reads(l) /\ phase' = "ended"
      /\ events' = events \o decodeOpenAI(l)
  BY <1>1, <1>2, SendsLine DEF IInv, Phases
<1>4. events \in Seq(Events) /\ BareStop \in Events /\ UsageEvent(l.usage) \in Events
  BY <1>1, Costs, EventTypes DEF IInv, StreamTypeOK
<1>5. events' = Append(s, BareStop)
  <2>1. CASE u = NoUsage
    <3>1. decodeOpenAI(l) = <<BareStop>>
      BY <1>1, <2>1, Concats DEF decodeOpenAI, decodeResponsesEvent, appendUsageEvent
    <3>2. events' = Append(events, BareStop)
      BY <1>3, <1>4, <3>1, AddOne
    <3>. QED  BY <1>1, <2>1, <3>2
  <2>2. CASE u # NoUsage
    <3>1. decodeOpenAI(l) = <<UsageEvent(l.usage)>> \o <<BareStop>>
      BY <1>1, <2>2 DEF decodeOpenAI, decodeResponsesEvent, appendUsageEvent
    <3>2. events' = Append(Append(events, UsageEvent(l.usage)), BareStop)
      BY <1>3, <1>4, <3>1, AddTwo
    <3>. QED  BY <1>1, <2>2, <3>2
  <2>. QED  BY <2>1, <2>2
<1>6. s \in Seq(Events)
  BY <1>4
<1>. HIDE DEF s
<1>7. events' # <<>>
  <2>1. Len(Append(s, BareStop)) = Len(s) + 1 /\ Len(s) \in Nat /\ Len(<<>>) = 0
    BY <1>6
  <2>. QED  BY <1>5, <2>1
<1>8. PhaseInv'
  BY <1>3, <1>7, StreamAssumption DEF IInv, PhaseInv, Reads, Blocks, Phases
<1>9. ContentInv'
  BY <1>1, <1>3, <1>5, ReadsCompleted DEF IInv, s
<1>. QED  BY <1>3, <1>8, <1>9 DEF Kept

\* OpenAI's responses protocol.
LEMMA OpenAIResponsesKeeps ==
    ASSUME IInv, outcome = "reading", OpenAIResponses
    PROVE  Kept
<1>1. ASSUME NEW x \in Texts, phase = "start",
             Sends([Line("response.output_text.delta") EXCEPT !.text = x], "start")
      PROVE  Kept
  BY <1>1, ResponsesText DEF OpenAIResponses
<1>2. ASSUME phase = "start", Sends(Line("response.created"), "start")  PROVE Kept
  BY <1>2, ResponsesCreated DEF OpenAIResponses
<1>3. ASSUME NEW u \in {NoUsage, FullUsage}, phase = "start",
             Sends([Line("response.completed") EXCEPT !.usage = u], "ended")
      PROVE  Kept
  BY <1>3, ResponsesCompleted DEF OpenAIResponses
<1>. QED  BY <1>1, <1>2, <1>3 DEF OpenAIResponses

\* message_start.
LEMMA MessageStarts ==
    ASSUME IInv, outcome = "reading", family = "anthropic", phase = "start",
           Sends([Line("message_start") EXCEPT
                     !.usage = [input |-> InTokens, output |-> 1, total |-> Absent]], "body")
    PROVE  Kept
<1>. DEFINE u == [input |-> InTokens, output |-> 1, total |-> Absent]
            l == [Line("message_start") EXCEPT !.usage = u]
<1>1. /\ u \in Counts /\ u["input"] = InTokens /\ u["total"] = Absent
  BY Costs DEF Counts, Absent
<1>2. Sends(l, "body")
  OBVIOUS
<1>. HIDE DEF u
<1>3. /\ l \in Lines /\ l.type = "message_start"
      /\ l.text = "" /\ l.tool = "" /\ l.usage = u
  BY <1>1 DEF Line, Lines
<1>. HIDE DEF l
<1>4. /\ StreamTypeOK' /\ Reads(l) /\ phase' = "body"
      /\ events' = events \o decodeAnthropic(l)
  BY <1>2, <1>3, SendsLine DEF IInv, Phases
<1>5. events' = Append(events, UsageEvent(l.usage))
  <2>1. l.usage # NoUsage
    BY <1>1, <1>3, Costs
  <2>2. decodeAnthropic(l) = <<UsageEvent(l.usage)>>
    BY <1>3, <2>1 DEF decodeAnthropic, appendUsageEvent
  <2>3. events \in Seq(Events) /\ UsageEvent(l.usage) \in Events
    BY <1>1, <1>3, EventTypes DEF IInv, StreamTypeOK
  <2>. QED  BY <1>4, <2>2, <2>3, AddOne
<1>6. PhaseInv'
  BY <1>4, StreamAssumption DEF IInv, PhaseInv, Reads, Blocks, Phases
<1>7. ContentInv'
  <2>1. CallKnown
    BY <1>4, StreamAssumption DEF CallKnown, Phases
  <2>. QED  BY <1>1, <1>3, <1>4, <1>5, <2>1, ReadsMessageStart DEF IInv
<1>. QED  BY <1>4, <1>6, <1>7 DEF Kept

\* The start of a block of text ...
LEMMA TextBlockStarts ==
    ASSUME IInv, outcome = "reading", family = "anthropic", phase \in Blocks,
           Sends(Line("content_block_start"), "text")
    PROVE  Kept
<1>. DEFINE l == Line("content_block_start")
<1>1. /\ l \in Lines /\ l.type = "content_block_start"
      /\ l.text = "" /\ l.tool = "" /\ l.usage = NoUsage
  BY Costs DEF Line, Lines
<1>2. Sends(l, "text")
  OBVIOUS
<1>. HIDE DEF l
<1>3. /\ StreamTypeOK' /\ Reads(l) /\ phase' = "text"
      /\ events' = events \o decodeAnthropic(l)
  BY <1>1, <1>2, SendsLine DEF IInv, Phases
<1>4. decodeAnthropic(l) = <<>>
  BY <1>1 DEF decodeAnthropic
<1>5. events' = events
  BY <1>3, <1>4, AddNone DEF IInv, StreamTypeOK
<1>6. PhaseInv'
  BY <1>3, StreamAssumption DEF IInv, PhaseInv, Reads, Blocks, Phases
<1>7. ContentInv'
  <2>1. Within /\ CallKnown
    BY <1>3, StreamAssumption DEF Within, CallKnown, Blocks, Phases
  <2>. QED  BY <1>1, <1>3, <1>5, <2>1, ReadsNothing DEF IInv
<1>. QED  BY <1>3, <1>6, <1>7 DEF Kept

\* ... and of a tool call.
LEMMA ToolBlockStarts ==
    ASSUME IInv, outcome = "reading", family = "anthropic", kind = "chat", phase \in Blocks,
           NEW t \in ToolIDs, Sends([Line("content_block_start") EXCEPT !.tool = t], t)
    PROVE  Kept
<1>. DEFINE l == [Line("content_block_start") EXCEPT !.tool = t]
<1>1. /\ l \in Lines /\ l.type = "content_block_start"
      /\ l.text = "" /\ l.tool = t /\ l.usage = NoUsage
  BY Costs DEF Line, Lines
<1>2. Sends(l, t)
  OBVIOUS
<1>. HIDE DEF l
<1>3. /\ StreamTypeOK' /\ Reads(l) /\ phase' = t
      /\ events' = events \o decodeAnthropic(l) /\ toolID' = nextToolID(l)
  BY <1>1, <1>2, SendsLine DEF IInv
<1>4. t # ""
  BY StreamAssumption
<1>5. decodeAnthropic(l) = <<ToolCallStart(t)>> /\ toolID' = t
  BY <1>1, <1>3, <1>4 DEF decodeAnthropic, nextToolID
<1>6. events' = Append(events, ToolCallStart(t)) /\ ToolCallStart(t) \in Events
  <2>1. events \in Seq(Events) /\ ToolCallStart(t) \in Events
    BY EventTypes DEF IInv, StreamTypeOK
  <2>. QED  BY <1>3, <1>5, <2>1, AddOne
<1>7. PhaseInv'
  BY <1>3, StreamAssumption DEF IInv, PhaseInv, Reads, Blocks, Phases
<1>8. ContentInv'
  <2>1. Within /\ CallKnown
    BY <1>3, <1>5 DEF Within, CallKnown, Blocks
  <2>2. /\ ToolCallStart(t).type = "tool_call_start"
        /\ WrittenAs(ToolCallStart(t), Chunk("tool", <<l.tool, l.text>>))
    BY <1>1, ToolStartChunk DEF ToolCallStart
  <2>. QED  BY <1>1, <1>3, <1>4, <1>6, <2>1, <2>2, ReadsTool DEF IInv
<1>. QED  BY <1>3, <1>7, <1>8 DEF Kept

\* A piece of a block of text ...
LEMMA TextPiece ==
    ASSUME IInv, outcome = "reading", family = "anthropic", phase = "text", NEW x \in Texts,
           Sends([Line("content_block_delta") EXCEPT !.text = x, !.tool = ""], "text")
    PROVE  Kept
<1>. DEFINE l == [Line("content_block_delta") EXCEPT !.text = x, !.tool = ""]
<1>1. /\ l \in Lines /\ l.type = "content_block_delta"
      /\ l.text = x /\ l.tool = "" /\ l.usage = NoUsage
  BY Costs DEF Line, Lines
<1>2. Sends(l, "text")
  OBVIOUS
<1>. HIDE DEF l
<1>3. /\ StreamTypeOK' /\ Reads(l) /\ phase' = "text"
      /\ events' = events \o decodeAnthropic(l)
  BY <1>1, <1>2, SendsLine DEF IInv, Phases
<1>4. events' = Append(events, ContentDelta(Key, x))
  <2>1. kind \in Kinds /\ events \in Seq(Events)
    BY DEF IInv, StreamTypeOK
  <2>2. decodeAnthropic(l) = <<ContentDelta(Key, x)>>
    BY <1>1, <2>1 DEF decodeAnthropic, anthropicDelta, Key, Kinds
  <2>3. ContentDelta(Key, x) \in Events
    BY EventTypes DEF Key
  <2>. QED  BY <1>3, <2>1, <2>2, <2>3, AddOne
<1>5. PhaseInv'
  BY <1>3, StreamAssumption DEF IInv, PhaseInv, Reads, Blocks, Phases
<1>6. ContentInv'
  <2>1. Within /\ CallKnown
    BY <1>3, StreamAssumption DEF Within, CallKnown, Blocks, Phases
  <2>. QED  BY <1>1, <1>3, <1>4, <2>1, ReadsText DEF IInv
<1>. QED  BY <1>3, <1>5, <1>6 DEF Kept

\* ... and of a tool call, which is toolID's.
LEMMA ToolPiece ==
    ASSUME IInv, outcome = "reading", family = "anthropic", NEW t \in ToolIDs, phase = t,
           NEW x \in Texts,
           Sends([Line("content_block_delta") EXCEPT !.text = x, !.tool = t], t)
    PROVE  Kept
<1>. DEFINE l == [Line("content_block_delta") EXCEPT !.text = x, !.tool = t]
            e == ToolCallDelta(t, x)
<1>1. /\ l \in Lines /\ l.type = "content_block_delta"
      /\ l.text = x /\ l.tool = t /\ l.usage = NoUsage
  BY Costs DEF Line, Lines
<1>2. Sends(l, t)
  OBVIOUS
<1>. HIDE DEF l
<1>3. /\ StreamTypeOK' /\ Reads(l) /\ phase' = t
      /\ events' = events \o decodeAnthropic(l) /\ toolID' = nextToolID(l)
  BY <1>1, <1>2, SendsLine DEF IInv
<1>4. t # "" /\ kind = "chat" /\ toolID = t
  BY StreamAssumption DEF IInv, StreamTypeOK, Kinds, PhaseInv, ContentInv, ToolInv
<1>5. decodeAnthropic(l) = <<e>> /\ toolID' = t
  BY <1>1, <1>3, <1>4 DEF decodeAnthropic, anthropicDelta, nextToolID
<1>6. e.type = "tool_call_delta" /\ e \in Events
  BY EventTypes DEF ToolCallDelta
<1>7. WrittenAs(e, Chunk("tool", <<l.tool, l.text>>))
  BY <1>1, <1>4, ToolPieceChunk
<1>. HIDE DEF e
<1>8. events' = Append(events, e)
  <2>1. events \in Seq(Events)
    BY DEF IInv, StreamTypeOK
  <2>. QED  BY <1>3, <1>5, <1>6, <2>1, AddOne
<1>9. PhaseInv'
  BY <1>3, <1>4, StreamAssumption DEF IInv, PhaseInv, Reads, Blocks, Phases
<1>10. ContentInv'
  <2>1. Within /\ CallKnown
    BY <1>3, <1>5 DEF Within, CallKnown, Blocks
  <2>. QED  BY <1>1, <1>3, <1>4, <1>6, <1>7, <1>8, <2>1, ReadsTool DEF IInv
<1>. QED  BY <1>3, <1>9, <1>10 DEF Kept

\* message_delta.
LEMMA MessageDeltas ==
    ASSUME IInv, outcome = "reading", family = "anthropic", phase \in Blocks,
           NEW reason \in {"end_turn", "max_tokens", "tool_use"}, NEW in \in {Absent, InTokens},
           Sends([Line("message_delta") EXCEPT !.reason = reason,
                     !.usage = [input |-> in, output |-> OutTokens, total |-> Absent]],
                 "finished")
    PROVE  Kept
<1>. DEFINE u == [input |-> in, output |-> OutTokens, total |-> Absent]
            l == [Line("message_delta") EXCEPT !.reason = reason, !.usage = u]
<1>1. u \in Counts /\ u["input"] = in /\ u["output"] = OutTokens /\ u["total"] = Absent
  BY Costs DEF Counts, Absent
<1>2. Sends(l, "finished")
  OBVIOUS
<1>. HIDE DEF u
<1>3. /\ l \in Lines /\ l.type = "message_delta"
      /\ l.text = "" /\ l.tool = "" /\ l.reason = reason /\ l.usage = u
  BY <1>1 DEF Line, Lines, Reasons
<1>. HIDE DEF l
<1>4. /\ StreamTypeOK' /\ Reads(l) /\ phase' = "finished"
      /\ events' = events \o decodeAnthropic(l) /\ stopReason' = nextStopReason(l)
  BY <1>2, <1>3, SendsLine DEF IInv, Phases
<1>5. events' = Append(events, UsageEvent(l.usage))
  <2>1. l.usage # NoUsage
    BY <1>1, <1>3, Costs
  <2>2. decodeAnthropic(l) = <<UsageEvent(l.usage)>>
    BY <1>3, <2>1 DEF decodeAnthropic, appendUsageEvent
  <2>3. events \in Seq(Events) /\ UsageEvent(l.usage) \in Events
    BY <1>1, <1>3, EventTypes DEF IInv, StreamTypeOK
  <2>. QED  BY <1>4, <2>2, <2>3, AddOne
<1>6. stopReason' # ""
  BY <1>3, <1>4 DEF nextStopReason
<1>7. PhaseInv'
  BY <1>4, <1>6, StreamAssumption DEF IInv, PhaseInv, Reads, Blocks, Phases
<1>8. ContentInv'
  <2>1. CallKnown
    BY <1>4, StreamAssumption DEF CallKnown, Phases
  <2>. QED  BY <1>1, <1>3, <1>4, <1>5, <2>1, ReadsMessageDelta DEF IInv
<1>. QED  BY <1>4, <1>7, <1>8 DEF Kept

\* message_stop.
LEMMA MessageStops ==
    ASSUME IInv, outcome = "reading", family = "anthropic", phase = "finished",
           Sends(Line("message_stop"), "ended")
    PROVE  Kept
<1>. DEFINE l == Line("message_stop")
<1>1. /\ l \in Lines /\ l.type = "message_stop"
      /\ l.text = "" /\ l.tool = "" /\ l.usage = NoUsage
  BY Costs DEF Line, Lines
<1>2. Sends(l, "ended")
  OBVIOUS
<1>. HIDE DEF l
<1>3. /\ StreamTypeOK' /\ Reads(l) /\ phase' = "ended"
      /\ events' = events \o decodeAnthropic(l)
  BY <1>1, <1>2, SendsLine DEF IInv, Phases
<1>4. stopReason \in Reasons /\ stopReason # "" /\ events \in Seq(Events)
  BY DEF IInv, StreamTypeOK, PhaseInv
<1>5. events' = Append(Append(events, MessageStop(stopReason)), BareStop)
  <2>1. decodeAnthropic(l) = <<MessageStop(stopReason)>> \o <<BareStop>>
    BY <1>1, <1>4 DEF decodeAnthropic, anthropicStop
  <2>2. MessageStop(stopReason) \in Events /\ BareStop \in Events
    BY <1>4, EventTypes
  <2>3. \A a, b \in Events : events \o (<<a>> \o <<b>>) = Append(Append(events, a), b)
    BY <1>4, AddTwo
  <2>. QED  BY <1>3, <2>1, <2>2, <2>3, Zenon
<1>6. PhaseInv'
  BY <1>3, StreamAssumption DEF IInv, PhaseInv, Reads, Blocks, Phases
<1>7. ContentInv'
  BY <1>1, <1>3, <1>4, <1>5, ReadsMessageStop DEF IInv
<1>. QED  BY <1>3, <1>6, <1>7 DEF Kept

\* Anthropic's protocol.
LEMMA AnthropicKeeps ==
    ASSUME IInv, outcome = "reading", Anthropic
    PROVE  Kept
<1>0. family = "anthropic"
  BY DEF Anthropic
<1>1. CASE /\ phase = "start"
           /\ Sends([Line("message_start") EXCEPT
                        !.usage = [input |-> InTokens, output |-> 1, total |-> Absent]], "body")
  BY <1>0, <1>1, MessageStarts
<1>2. CASE phase \in Blocks /\ Sends(Line("content_block_start"), "text")
  BY <1>0, <1>2, TextBlockStarts
<1>3. ASSUME kind = "chat", phase \in Blocks, NEW t \in ToolIDs,
             Sends([Line("content_block_start") EXCEPT !.tool = t], t)
      PROVE  Kept
  BY <1>0, <1>3, ToolBlockStarts
<1>4. ASSUME phase \in {"text"} \cup ToolIDs, NEW x \in Texts,
             Sends([Line("content_block_delta") EXCEPT
                       !.text = x, !.tool = IF phase = "text" THEN "" ELSE phase], phase)
      PROVE  Kept
  <2>1. CASE phase = "text"
    BY <1>0, <1>4, <2>1, TextPiece
  <2>2. CASE phase # "text"
    BY <1>0, <1>4, <2>2, ToolPiece
  <2>. QED  BY <2>1, <2>2
<1>5. ASSUME phase \in Blocks, NEW reason \in {"end_turn", "max_tokens", "tool_use"},
             NEW in \in {Absent, InTokens},
             Sends([Line("message_delta") EXCEPT !.reason = reason,
                       !.usage = [input |-> in, output |-> OutTokens, total |-> Absent]],
                   "finished")
      PROVE  Kept
  BY <1>0, <1>5, MessageDeltas
<1>6. CASE phase = "finished" /\ Sends(Line("message_stop"), "ended")
  BY <1>0, <1>6, MessageStops
<1>. QED  BY <1>1, <1>2, <1>3, <1>4, <1>5, <1>6 DEF Anthropic, Blocks

----------------------------------------------------------------------------
(* 9. The invariant and the theorems.                                      *)

\* From no events and no lines nothing is gathered.
LEMMA NothingGathered ==
    /\ FinalText(<<>>) = <<>> /\ SentText(<<>>) = <<>> /\ SentToolCalls(<<>>) = <<>>
    /\ StreamedText(<<>>) = <<>> /\ \A what : Streamed(<<>>, what) = <<>>
    /\ Stops(<<>>) = {} /\ Usages(<<>>) = {}
<1>1. /\ WriteSSE(<<>>) = <<>> /\ FinalText(<<>>) = <<>>
      /\ SentText(<<>>) = <<>> /\ SentToolCalls(<<>>) = <<>>
  BY FlattenEmpty DEF WriteSSE, FinalText, SentText, SentToolCalls, Gather
<1>2. StreamedText(<<>>) = <<>> /\ \A what : Streamed(<<>>, what) = <<>>
  <2>1. TextIn(<<>>) = <<>> /\ \A what : ValuesIn(<<>>, what) = <<>>
    BY FlattenEmpty DEF TextIn, ValuesIn, Gather
  <2>2. /\ StreamedText(<<>>) = TextIn(<<>>)
        /\ \A what : Streamed(<<>>, what) = ValuesIn(<<>>, what)
    BY <1>1 DEF StreamedText, Streamed, TextIn, ValuesIn
  <2>. QED  BY <2>1, <2>2
<1>3. Stops(<<>>) = {} /\ Usages(<<>>) = {}
  BY DEF Stops, Usages
<1>. QED  BY <1>1, <1>2, <1>3

\* Nothing is read and nothing is sent at first.
LEMMA InitIInv == Init => IInv
<1>. SUFFICES ASSUME Init  PROVE IInv
  OBVIOUS
<1>1. /\ FinalText(<<>>) = <<>> /\ SentText(<<>>) = <<>> /\ SentToolCalls(<<>>) = <<>>
      /\ StreamedText(<<>>) = <<>> /\ \A what : Streamed(<<>>, what) = <<>>
      /\ Stops(<<>>) = {} /\ Usages(<<>>) = {}
  BY NothingGathered
<1>2. /\ LatestCount(<<>>, "total") = 0
      /\ FromEvents(<<>>) = NoUsage /\ SentUsage(<<>>) = NoUsage
  BY DEF Stops, Usages, LatestCount, FromEvents, SentUsage
<1>3. /\ family \in Families /\ kind \in Kinds /\ phase = "start" /\ sent = <<>>
      /\ events = <<>> /\ toolID = "" /\ stopReason = "" /\ outcome = "reading"
  BY DEF Init
<1>4. StreamTypeOK
  BY <1>3, EmptySeq DEF StreamTypeOK, Phases
<1>5. PhaseInv /\ RetryInv
  BY <1>3, StreamAssumption DEF PhaseInv, RetryInv, Blocks, Phases
<1>6. TextInv
  BY <1>1, <1>3 DEF TextInv
<1>7. ToolInv
  BY <1>1, <1>3, StreamAssumption DEF ToolInv, Phases
<1>8. StopInv
  BY <1>1, <1>3 DEF StopInv, Unstopped, Only
<1>9. UsageInv
  BY <1>1, <1>2, <1>3 DEF UsageInv
<1>. QED  BY <1>4, <1>5, <1>6, <1>7, <1>8, <1>9 DEF IInv, ContentInv

\* Every step keeps it.
LEMMA NextIInv == IInv /\ [Next]_vars => IInv'
<1>. SUFFICES ASSUME IInv, [Next]_vars  PROVE IInv'
  OBVIOUS
<1>1. ASSUME Kept, outcome' = "reading"  PROVE IInv'
  BY <1>1 DEF Kept, IInv, RetryInv
<1>2. ASSUME UNCHANGED <<family, kind, phase, sent, events, toolID, stopReason>>
      PROVE  PhaseInv' /\ ContentInv'
  <2>1. /\ StreamedText(events') = StreamedText(events)
        /\ FinalText(events') = FinalText(events)
        /\ WriteSSE(events') = WriteSSE(events)
        /\ \A what : Streamed(events', what) = Streamed(events, what)
    BY <1>2
  <2>2. PhaseInv'
    BY <1>2 DEF IInv, PhaseInv
  <2>3. TextInv'
    BY <1>2, <2>1, Primed DEF IInv, ContentInv, TextInv
  <2>4. ToolInv'
    BY <1>2, <2>1, Primed DEF IInv, ContentInv, ToolInv
  <2>5. StopInv'
    BY <1>2, <2>1, Primed DEF IInv, ContentInv, StopInv, Unstopped
  <2>6. UsageInv'
    BY <1>2 DEF IInv, ContentInv, UsageInv
  <2>. QED  BY <2>2, <2>3, <2>4, <2>5, <2>6 DEF ContentInv
<1>3. CASE outcome = "reading" /\ (OpenAIChat \/ OpenAIResponses \/ Anthropic)
  <2>1. Kept
    BY <1>3, OpenAIChatKeeps, OpenAIResponsesKeeps, AnthropicKeeps
  <2>2. outcome' = outcome
    BY <1>3 DEF OpenAIChat, OpenAIResponses, Anthropic, Sends
  <2>. QED  BY <1>1, <1>3, <2>1, <2>2
<1>4. CASE EndOfBody
  BY <1>2, <1>4 DEF EndOfBody, IInv, StreamTypeOK, RetryInv
<1>5. CASE Break
  BY <1>2, <1>5 DEF Break, IInv, StreamTypeOK, RetryInv
<1>6. CASE UNCHANGED vars
  BY <1>2, <1>6 DEF vars, IInv, StreamTypeOK, RetryInv
<1>. QED  BY <1>3, <1>4, <1>5, <1>6 DEF Next

\* It holds throughout.
THEOREM InvariantHolds == Spec => []IInv
BY InitIInv, NextIInv, PTL DEF Spec

\* The model's types: the decoders' locals, and events of the canonical shapes.
THEOREM TypesHold == Spec => []StreamTypeOK
<1>1. IInv => StreamTypeOK
  BY DEF IInv
<1>. QED  BY <1>1, InvariantHolds, PTL

\* For every message, the text sent is the text the client gets.
THEOREM TextAlwaysSurvives == Spec => []TextSurvives
<1>1. IInv => TextSurvives
  BY DEF IInv, ContentInv, TextInv, TextSurvives
<1>. QED  BY <1>1, InvariantHolds, PTL

\* For every message, a chat stream ends once, with the reason.
THEOREM ChatStreamsEndOnce == Spec => []ChatStreamEndsOnce
<1>1. ASSUME IInv, kind = "chat", phase = "ended"  PROVE ChatStreamEndsOnce
  <2>1. ~Unstopped
    BY <1>1 DEF Unstopped, IInv, StreamTypeOK, Families
  <2>2. Streamed(events, "done") = <<"">>
    BY <1>1, <2>1 DEF IInv, ContentInv, StopInv, Only
  <2>3. Len(Streamed(events, "done")) = 1
    <3>1. Len(<<"">>) = 1
      OBVIOUS
    <3>. QED  BY <2>2, <3>1, Zenon
  <2>. QED  BY <1>1, <2>1, <2>3 DEF IInv, ContentInv, StopInv, ChatStreamEndsOnce
<1>2. ASSUME IInv, kind = "chat", phase # "ended"  PROVE ChatStreamEndsOnce
  <2>1. Streamed(events, "done") = <<>>
    BY <1>2 DEF IInv, ContentInv, StopInv, Only
  <2>. QED  BY <1>2, <2>1 DEF ChatStreamEndsOnce
<1>3. IInv => ChatStreamEndsOnce
  BY <1>1, <1>2 DEF ChatStreamEndsOnce
<1>. QED  BY <1>3, InvariantHolds, PTL

\* For every message, with any number of tool calls in any order, each piece
\* reaches the client under its call's id.
THEOREM ToolPiecesAlwaysKeepTheirCall == Spec => []ToolPiecesKeepTheirCall
<1>1. IInv => ToolPiecesKeepTheirCall
  BY DEF IInv, ContentInv, ToolInv, ToolPiecesKeepTheirCall
<1>. QED  BY <1>1, InvariantHolds, PTL

\* For every message, the usage told is what the request cost.
THEOREM UsageIsAlwaysTheFinalCount == Spec => []UsageIsTheFinalCount
<1>1. ASSUME IInv, Whole  PROVE FromEvents(events) = SentUsage(sent)
  <2>1. CASE family = "openai"
    BY <1>1, <2>1 DEF IInv, ContentInv, UsageInv
  <2>2. CASE family = "anthropic"
    <3>1. /\ Usages(events) # {} /\ SentUsage(sent) = FullUsage
          /\ LatestCount(events, "input") = InTokens
          /\ LatestCount(events, "output") = OutTokens
          /\ LatestCount(events, "total") = 0
      BY <1>1, <2>2 DEF Whole, IInv, ContentInv, UsageInv
    <3>. QED  BY <3>1 DEF FromEvents, FullUsage
  <2>. QED  BY <1>1, <2>1, <2>2 DEF IInv, StreamTypeOK, Families
<1>2. IInv => UsageIsTheFinalCount
  BY <1>1 DEF UsageIsTheFinalCount
<1>. QED  BY <1>2, InvariantHolds, PTL

\* For every message and every point of breaking, what is retried had said nothing.
THEOREM NothingSaidIsEverRetried == Spec => []NothingSaidIsRetried
<1>1. ASSUME IInv, outcome = "retryable"  PROVE NothingSaidIsRetried
  <2>1. events = <<>>
    BY <1>1 DEF IInv, RetryInv
  <2>2. /\ StreamedText(events) = <<>> /\ \A what : Streamed(events, what) = <<>>
        /\ Stops(events) = {} /\ Usages(events) = {}
    BY <2>1, NothingGathered
  <2>3. SentText(sent) = <<>>
    BY <1>1, <2>2 DEF IInv, ContentInv, TextInv
  <2>4. kind = "chat" /\ family = "anthropic" => SentToolCalls(sent) = <<>>
    BY <1>1, <2>2 DEF IInv, ContentInv, ToolInv
  <2>5. family = "anthropic" => phase = "start"
    BY <1>1, <2>2 DEF IInv, ContentInv, UsageInv
  <2>6. family = "openai" /\ kind = "chat" => phase = "start"
    <3>1. ASSUME family = "openai", kind = "chat", phase # "start"  PROVE FALSE
      <4>1. Streamed(events, "finish") = <<FinalFinishReason(events)>>
        BY <1>1, <3>1 DEF IInv, ContentInv, StopInv, Unstopped
      <4>. QED  BY <2>2, <4>1
    <3>. QED  BY <3>1
  <2>7. family = "openai" /\ kind = "responses" => phase = "start"
    BY <1>1, <2>1 DEF IInv, PhaseInv
  <2>8. phase = "start"
    BY <1>1, <2>5, <2>6, <2>7 DEF IInv, StreamTypeOK, Families, Kinds
  <2>. QED  BY <2>3, <2>4, <2>8 DEF NothingSaidIsRetried
<1>2. IInv => NothingSaidIsRetried
  BY <1>1 DEF NothingSaidIsRetried
<1>. QED  BY <1>2, InvariantHolds, PTL
=============================================================================
