----------------------------- MODULE MCFrontend -----------------------------
(* Scenes for TLC, in slices: each varies one part of a plain file or of a *)
(* plain body over every form the code tells apart.                        *)
EXTENDS Frontend

MCMatches == { <<"openai/gpt-a", "openai/gpt-*">>,
               <<"openai/gpt-a", "openai/gpt-a">>,
               <<"openai/gpt-b", "openai/gpt-*">>,
               <<"anthropic/claude-a", "anthropic/claude-*">> }

MCRemoteURLs == {"http://a", "https://b"}

MCPublicModels == {"openai/gpt-a", "openai/gpt-b"}

----------------------------------------------------------------------------
(* Files.                                                                  *)

Key(secret, active, patterns, grants) ==
    [ secret |-> secret, active |-> active, patterns |-> patterns,
      allowStreaming  |-> "stream" \in grants, allowTools |-> "tools" \in grants,
      allowVision     |-> "vision" \in grants,
      allowStructured |-> "structured" \in grants ]

\* Two keys of one secret that grant different things, a key that was
\* switched off after its secret went to another, and an empty secret.
MCClientKeys == <<
    Key("all", TRUE, {}, {"stream", "tools", "vision", "structured"}),
    Key("none", TRUE, {"openai/gpt-*"}, {}),
    Key("both", TRUE, {}, {"tools", "vision"}),
    Key("both", TRUE, {"openai/gpt-a"}, {"stream"}),
    Key("off", TRUE, {"openai/gpt-*"}, {"stream", "tools"}),
    Key("off", FALSE, {}, {"stream", "tools", "vision"}),
    Key("", TRUE, {}, {"stream", "tools", "vision"}) >>

Unset      == [form |-> "absent", value |-> 0]
UnsetFlag  == [form |-> "absent", value |-> TRUE]

HealthSection(form, interval, timeout, flag) ==
    [ form |-> form,
      settings |-> [ probe_interval |-> interval, probe_timeout |-> timeout,
                     require_initial_probe |-> flag ] ]

BreakerSection(form, failures, interval, successes) ==
    [ form |-> form,
      settings |-> [ failure_threshold |-> failures, open_interval |-> interval,
                     recovery_success_threshold |-> successes ] ]

ProbeSection(form, interval, timeout) ==
    [ form |-> form, method |-> "", path |-> "", expectedStatuses |-> {},
      settings |-> [interval |-> interval, timeout |-> timeout] ]

NoHealth  == HealthSection("absent", Unset, Unset, UnsetFlag)
NoBreaker == BreakerSection("absent", Unset, Unset, Unset)
NoProbe   == ProbeSection("absent", Unset, Unset)

Provider(name, family) ==
    [name |-> name, provider |-> family, baseURL |-> "http://" , probe |-> NoProbe]

Group(name, primary, fallbacks) ==
    [name |-> name, primary |-> primary, fallbacks |-> fallbacks]

Model(pattern, group) == [pattern |-> pattern, routeGroup |-> group]

\* One route with fallbacks of both families, the last of a family of its own.
PlainFile ==
    [ parses |-> TRUE, clientKeys |-> MCClientKeys,
      models |-> <<Model("openai/gpt-*", "g1"), Model("anthropic/claude-*", "g1")>>,
      groups |-> <<Group("g1", "p1", <<"p2", "p4", "p3">>)>>,
      providers |-> <<Provider("p1", "openai"), Provider("p2", "anthropic"),
                      Provider("p3", "other")>>,
      health |-> NoHealth, breaker |-> NoBreaker,
      tls |-> [mode |-> "", cert |-> FALSE, key |-> FALSE] ]

\* Routes: up to two entries of each kind.
UpTo2(S) == {<<x>> : x \in S} \cup (S \X S)

RouteFiles ==
    {[PlainFile EXCEPT !.models = ms, !.groups = gs, !.providers = ps,
                       !.health.settings.require_initial_probe =
                           [form |-> "value", value |-> r],
                       !.health.form = "inline"] :
        ms \in UpTo2({Model(p, g) : p \in {"openai/gpt-a", "openai/gpt-*"}, g \in {"g1", "g2"}}),
        gs \in UpTo2({Group(n, p, f) : n \in {"g1", "g2"}, p \in {"p1", "p2"},
                                     f \in {<<>>, <<"p2">>}}),
        ps \in UpTo2({Provider(n, "openai") : n \in {"p1", "p2"}}),
        r \in BOOLEAN}

\* Settings of every form, where they are written and behind an alias.
IntSettings == {Unset, [form |-> "null", value |-> 0]} \cup {Value(n) : n \in {0, 1, 5}}
Settings    == IntSettings \cup {Empty, [form |-> "malformed", value |-> 0]}
Flags       == {UnsetFlag, [form |-> "null", value |-> TRUE]} \cup {Value(b) : b \in BOOLEAN}

Written == {"inline", "alias"}

SettingFiles ==
    {[PlainFile EXCEPT !.health = HealthSection(w, i, Unset, f),
                       !.providers[1].probe = ProbeSection(w2, p, Unset)] :
        w \in Written, i \in Settings, f \in Flags, w2 \in Written, p \in Settings} \cup
    {[PlainFile EXCEPT !.health = HealthSection("inline", Unset, i, Value(FALSE)),
                       !.providers[2].probe = ProbeSection(w2, Unset, p)] :
        i \in Settings, w2 \in Written, p \in Settings} \cup
    {[PlainFile EXCEPT !.breaker = BreakerSection(w, f, i, s)] :
        w \in Written, f \in IntSettings, i \in Settings, s \in IntSettings} \cup
    {[PlainFile EXCEPT !.health.form = h, !.breaker.form = b] :
        h \in {"null", "absent"}, b \in {"null", "absent"}}

\* Everything else Validate looks at, and what yaml.v3 refuses.
OtherFiles ==
    {[PlainFile EXCEPT !.parses = FALSE], [PlainFile EXCEPT !.clientKeys = <<>>],
     [PlainFile EXCEPT !.groups[1].name = ""], [PlainFile EXCEPT !.models[1].pattern = ""],
     [PlainFile EXCEPT !.providers[1].name = ""], [PlainFile EXCEPT !.providers[1].provider = ""],
     [PlainFile EXCEPT !.providers[1].baseURL = ""]} \cup
    {[PlainFile EXCEPT !.providers[1].probe.method = m, !.providers[1].probe.path = p,
                       !.providers[1].probe.expectedStatuses = e] :
        m \in {"", "GET", "get"}, p \in {"", "/x", "relative"},
        e \in {{}, {204}, {99, 200}, {600}}} \cup
    {[PlainFile EXCEPT !.tls = [mode |-> m, cert |-> c, key |-> k]] :
        m \in {"", "disabled", "file", "other"}, c \in BOOLEAN, k \in BOOLEAN}

----------------------------------------------------------------------------
(* Clients.                                                                *)

MCHeaders == [scheme : {"bearer"}, token : {"all", "none", "both", "off", "blank", "unknown"}]
             \cup {[scheme |-> "basic", token |-> "all"]}

----------------------------------------------------------------------------
TextContent(t)   == [form |-> "text", text |-> t, items |-> <<>>]
ItemsContent(xs) == [form |-> "items", text |-> "", items |-> xs]

NoImage == [form |-> Absent, keys |-> {}, url |-> ""]

TextItem(e, t) ==
    [type |-> TextType[e], keys |-> {"text"}, text |-> t, image |-> NoImage]

ImageForm(e, url) ==
    IF e = "chat" THEN [form |-> "object", keys |-> {"url"}, url |-> url]
                  ELSE [form |-> "string", keys |-> {}, url |-> url]

ImageItem(e, url) ==
    [type |-> ImageType[e], keys |-> {"image_url"}, text |-> "",
     image |-> ImageForm(e, url)]

Message(role, content) == [role |-> role, content |-> content]

\* A text as each endpoint takes it.
Plain(e, t) == IF e = "chat" THEN TextContent(t) ELSE ItemsContent(<<TextItem(e, t)>>)

Body(e) ==
    [ endpoint |-> e, wellFormed |-> TRUE, model |-> "openai/gpt-a", stream |-> FALSE,
      metadata |-> Absent, messages |-> <<Message("user", Plain(e, "t1"))>>,
      tools |-> <<>>, toolChoice |-> [form |-> Absent, value |-> ""],
      stop |-> [form |-> Absent, value |-> <<>>], temperature |-> Absent,
      topP |-> Absent, maxTokens |-> Absent, maxCompletionTokens |-> Absent,
      format |-> [type |-> "", schema |-> <<>>] ]

Endpoints == {"chat", "responses"}

Models == {"openai/gpt-a", "anthropic/claude-a", "other/model"}

----------------------------------------------------------------------------
\* Up to three messages; a system message anywhere; contents of two items.
Roles == {"system", "user", "assistant", "developer"}

Contents(e, t) == {Plain(e, t), ItemsContent(<<TextItem(e, t), TextItem(e, "t9")>>)}

Conversations(e) ==
    {<<>>, <<Message("system", Plain(e, "")), Message("user", Plain(e, "t2"))>>} \cup
    {<<Message(r1, c1), Message(r2, c2)>> : r1 \in Roles, c1 \in Contents(e, "t1"),
                                      r2 \in Roles, c2 \in Contents(e, "t2")} \cup
    {<<Message(r1, Plain(e, "t1")), Message(r2, Plain(e, "t2")), Message(r3, Plain(e, "t3"))>> :
        r1 \in Roles, r2 \in Roles, r3 \in Roles}

TextBodies ==
    UNION {{[Body(e) EXCEPT !.messages = c] : c \in Conversations(e)} : e \in Endpoints}

ModelBodies ==
    {[Body(e) EXCEPT !.model = m, !.stream = s, !.wellFormed = w] :
        e \in Endpoints, m \in Models, s \in BOOLEAN, w \in BOOLEAN}

\* Images of every form, in every role, alone and behind other content.
URLs == MCRemoteURLs \cup {DataURL, "ftp://c"}

ImageForms ==
    [form : {"object"}, keys : SUBSET {"url", "file_id"}, url : URLs \cup {NotString}]
    \cup [form : {"string"}, keys : {{}}, url : URLs]
    \cup {[form |-> "number", keys |-> {}, url |-> ""]}

Images(e) ==
    {ImageItem(e, u) : u \in URLs} \cup
    {[ImageItem(e, "") EXCEPT !.keys = k \cup {"image_url"}, !.image = i] :
        k \in SUBSET {"file_id", "detail"}, i \in ImageForms} \cup
    {[ImageItem(e, "") EXCEPT !.keys = k, !.image = NoImage] : k \in SUBSET {"file_id"}} \cup
    {[TextItem(e, t) EXCEPT !.keys = k] :
        k \in SUBSET {"text", "image_url"}, t \in {"t1", NotString}} \cup
    {[TextItem(e, "t1") EXCEPT !.type = "input_audio"]}

ImageBodies ==
    UNION {
        {[Body(e) EXCEPT !.messages = <<Message("user", ItemsContent(<<i>>))>>] : i \in Images(e)}
        \cup
        {[Body(e) EXCEPT !.model = m, !.messages =
             <<Message(r, ItemsContent(<<ImageItem(e, "http://a"), TextItem(e, "t1")>>)),
               Message("user", ItemsContent(<<TextItem(e, "t2"), ImageItem(e, u)>>)),
               Message("assistant", Plain(e, "t3"))>>] :
             m \in Models, r \in Roles, u \in URLs}
      : e \in Endpoints }
    \cup {[Body(e) EXCEPT !.messages = <<Message("user",
              [form |-> f, text |-> "", items |-> <<>>])>>] :
              e \in Endpoints, f \in {Absent, "other"}}

\* Schemas up to four nodes below the root.
Node(parent, key, kind) == [parent |-> parent, key |-> key, kind |-> kind]

Ends(parent) ==
    {Node(parent, "oneOf", "array"), Node(parent, "additionalProperties", "object"),
     Node(parent, "additionalProperties", "false"), Node(parent, "x", "scalar")}

Schemas ==
    {<<>>}
    \cup {<<e>> : e \in Ends(0)}
    \cup {<<Node(0, "properties", "object"), Node(1, "not", "object")>>}
    \cup {<<Node(0, "properties", "object"), Node(1, "x", "object"), e>> : e \in Ends(2)}
    \cup {<<Node(0, "items", k), Node(1, "", "object"), e>> :
              k \in {"object", "array"}, e \in Ends(2)}
    \cup {<<Node(0, "properties", "object"), Node(1, "x", "object"),
            Node(2, "items", "array"), Node(3, "", "object"), e>> : e \in Ends(4)}
    \cup {<<Node(0, "enum", "array"), Node(1, "", "array"), Node(2, "", "object"), e>> :
              e \in Ends(3)}

ToolOf(name, schema) ==
    [type |-> "function", function |-> TRUE, name |-> name, schema |-> schema]

WebSearch == [ToolOf("", <<>>) EXCEPT !.type = "web_search", !.function = FALSE]

ToolLists ==
    {<<ToolOf("f", s)>> : s \in Schemas} \cup
    {<<ToolOf("f", <<>>), ToolOf("g", s)>> : s \in Schemas} \cup
    {<<[ToolOf("f", <<>>) EXCEPT !.type = t, !.function = p, !.name = n], ToolOf("g", <<>>)>> :
        t \in {"function", "web_search"}, p \in BOOLEAN, n \in {"f", ""}} \cup
    {<<WebSearch>>}

ToolChoices == [form : {"mode", "function"}, value : {"", "auto", "g"}]
               \cup [form : {Absent, "other"}, value : {""}]

ToolBodies ==
    {[Body(e) EXCEPT !.tools = ts, !.model = m] :
        e \in Endpoints, ts \in ToolLists, m \in Models} \cup
    {[Body("chat") EXCEPT !.tools = <<ToolOf("f", <<>>), ToolOf("g", <<>>)>>,
                          !.toolChoice = c, !.stream = s] :
        c \in ToolChoices, s \in BOOLEAN}

\* Generation controls, metadata and formats.
Controls == {Absent, "0"}

ControlBodies ==
    {[Body(e) EXCEPT !.model = m, !.temperature = t, !.topP = p, !.maxTokens = x,
                     !.maxCompletionTokens = y] :
        e \in Endpoints, m \in Models, t \in Controls, p \in Controls,
        x \in {Absent, "5"}, y \in {Absent, "7"}} \cup
    {[Body("chat") EXCEPT !.stop = [form |-> f, value |-> <<>>]] : f \in {"many", "other"}} \cup
    {[Body("chat") EXCEPT !.stop = [form |-> f, value |-> <<v>>]] :
        f \in {"one", "many"}, v \in {"", "end"}} \cup
    {[Body(e) EXCEPT !.model = m, !.format = [type |-> k, schema |-> s], !.metadata = d] :
        e \in Endpoints, m \in Models, k \in {"", "text", "json_object", "json_schema"},
        s \in {<<>>, <<Node(0, "oneOf", "array")>>}, d \in {Absent, "d"}}

MCBodies == TextBodies \cup ModelBodies \cup ImageBodies \cup ToolBodies \cup ControlBodies

----------------------------------------------------------------------------
NoBody == Body("chat")

\* A set that TLC has put in order, in which it finds elements faster.
Ordered(S) == {x \in S : TRUE}

MCFiles == Ordered(RouteFiles) \cup (Ordered(SettingFiles) \cup OtherFiles)

MCScenes == (MCFiles \X {NoClient} \X {NoBody}) \cup ({PlainFile} \X MCHeaders \X MCBodies)

\* A request with a tool that is no function and a control, to an Anthropic route.
AnthropicFile ==
    [PlainFile EXCEPT !.models = <<Model("anthropic/claude-*", "g1")>>,
                      !.groups = <<Group("g1", "p2", <<>>)>>]

MCDroppedScenes ==
    {<<AnthropicFile,
       [scheme |-> "bearer", token |-> "all"],
       [Body("chat") EXCEPT !.model = "anthropic/claude-a", !.temperature = "0",
                            !.tools = <<WebSearch, ToolOf("f", <<>>)>>]>>}
=============================================================================
