------------------------------ MODULE MCServer ------------------------------
(***************************************************************************)
(* An instance of Server: configurations with several kinds of section, the *)
(* calls that they treat differently, and what providers answer.            *)
(***************************************************************************)
EXTENDS Server

NoCap == [c \in Caps |-> None]
Cap(tokens, completion) ==
    [NoCap EXCEPT !["max_tokens"] = tokens, !["max_completion_tokens"] = completion]
Drop(all, m2) == [all |-> all, by_model |-> IF m2 = {} THEN <<>> ELSE [m \in {"m2"} |-> m2]]
Url(u, padded) == [url |-> u, padded |-> padded]
Endpoints(o, a, i) == [openai |-> o, anthropic |-> a, interactions |-> i]
Names(s) == [list |-> TRUE, names |-> s]
Default == [list |-> FALSE, names |-> <<"default">>]
Section(e, models, key, cap, drop) ==
    [endpoint |-> e, models |-> models, api_key |-> key, cap |-> cap,
     drop_fields |-> drop, proxy_limit |-> None]

OpenAi(cap, drop) ==
    Section(Endpoints(Url("http://a", TRUE), Url("", FALSE), None), Names(<<"m1", "m2", "m1">>),
            [var |-> "KEY_A"], cap, drop)
Anthropic(models, cap, drop) ==
    Section(Endpoints(None, Url("http://b", FALSE), None), models, [value |-> "key_b"],
            cap, drop)
Both(key) ==
    Section(Endpoints(Url("http://c", FALSE), Url("http://d", TRUE), None), Default, key,
            NoCap, Drop({"metadata"}, {}))
Interactions ==
    [Section(Endpoints(None, None, Url("http://a", FALSE)), Names(<<"m3">>), None, NoCap,
             Drop({}, {})) EXCEPT !.proxy_limit = [n |-> 512, unit |-> "k"]]

Rule(status, ingress, egress_text) ==
    [status |-> status, ingress |-> ingress, egress |-> egress_text]

\* The modes are given to a file below.
File(sections, default_cap) ==
    [sections |-> sections, default_cap |-> default_cap,
     max_request_body |-> [n |-> 2, unit |-> "m"],
     listen_host |-> None, upstream_timeout |-> [n |-> 5, unit |-> "m"],
     error_translation |-> <<Rule(500, None, "five"), Rule(429, "quota", "limit"),
                             Rule(429, "", "busy")>>,
     diagnostics |-> [stats_mode |-> "off", dump_mode |-> "off",
                      flush_period |-> [n |-> 15, unit |-> "s"],
                      max_file_size |-> [n |-> 1, unit |-> "k"],
                      max_rotated_size |-> None]]

Plain == File([a |-> OpenAi(NoCap, Drop({}, {})), c |-> Both(None)], NoCap)
Limits ==
    File([a |-> OpenAi(Cap(10, None), Drop({"metadata"}, {"max_tokens"})),
          b |-> Anthropic(Default, Cap(30, None), Drop({"stop"}, {})), i |-> Interactions],
         Cap(50, None))
Completion ==
    File([a |-> OpenAi(Cap(10, 20), Drop({}, {"max_completion_tokens"})),
          b |-> Anthropic(Names(<<"m3">>), NoCap, Drop({}, {}))],
         Cap(15, 5))
Broken ==
    {File(<<>>, NoCap),
     File([a |-> OpenAi(NoCap, Drop({}, {})), b |-> Anthropic(Names(<<"m2">>), NoCap, Drop({}, {}))],
          NoCap),
     File([b |-> Anthropic(Default, NoCap, Drop({}, {})), c |-> Both(None)], NoCap),
     File([c |-> Both([var |-> "KEY_C"])], NoCap),
     File([b |-> Anthropic(Names(<<"m1">>), NoCap, Drop({}, {"user"}))], NoCap),
     File([b |-> Anthropic(Names(<<"m1", "default">>), NoCap, Drop({}, {}))], NoCap),
     File([c |-> Both([value |-> "key\n"])], NoCap),
     [Plain EXCEPT !.listen_host = "localhost"],
     [Plain EXCEPT !.upstream_timeout = [n |-> 1, unit |-> "h"]],
     [Plain EXCEPT !.diagnostics.flush_period = [n |-> None, unit |-> "s"]],
     [Plain EXCEPT !.diagnostics.max_rotated_size = [n |-> 5, unit |-> "t"]],
     [Plain EXCEPT !.max_request_body = [n |-> 2, unit |-> "g"]],
     [Plain EXCEPT !.sections["c"].proxy_limit = [n |-> 2, unit |-> "b"]],
     [Plain EXCEPT !.sections["c"].endpoint = Endpoints(None, Url("", TRUE), None)]}

Kilo == 1024
Credentials == [x \in {"authorization"} |-> "client_key"]
Claude ==
    [n \in {"x-api-key", "x-claude-code-session-id", "x-request-id", "host"} |->
        CASE n = "x-api-key" -> "client_key" [] n = "host" -> "h" [] OTHER -> n]
Requests == [n \in {"authorization", "x-client-request-id", "accept"} |-> n]

Request(ingress, text, model, s, fields, headers) ==
    [ingress |-> ingress, text |-> text, model |-> model, size |-> Kilo, stream |-> s,
     fields |-> fields, headers |-> headers]

OpenAiFields == [max_tokens |-> 40, stop |-> 1, metadata |-> 2]
NewFields == [max_completion_tokens |-> 25, stream_options |-> 1]
AnthropicFields == [max_tokens |-> 40, thinking |-> 0, metadata |-> 2, context_management |-> 3]
FewTokens == [max_tokens |-> 4, thinking |-> 1, stop |-> 1]

Ok(ingress, model, s, fields, headers) == Request(ingress, "ok", model, s, fields, headers)

\* Each kind of file with the calls it matters for.
BaseCalls ==
    {[raw |-> f, req |-> Ok(i, m, s, IF i = "openai" THEN OpenAiFields ELSE AnthropicFields,
                            Claude)] :
        f \in {Plain, Limits, Completion}, i \in {"openai", "anthropic"},
        m \in {"m1", "m2", "m3"}, s \in BOOLEAN}
    \union {[raw |-> Limits, req |-> Ok("openai", m, TRUE, NewFields, Requests)] :
               m \in {"m2", "m9"}}
    \union {[raw |-> Completion, req |-> Ok("openai", m, FALSE, NewFields, Requests)] :
               m \in {"m2", "m3", "m9"}}
    \union {[raw |-> Limits, req |-> Ok("anthropic", "m2", TRUE, FewTokens, Credentials)]}
    \union {[raw |-> f, req |-> Request(i, t, "m1", FALSE, FewTokens, Credentials)] :
               f \in {Plain, [Plain EXCEPT !.sections =
                              [b |-> Anthropic(Default, NoCap, Drop({}, {}))]]},
               i \in {"openai", "anthropic"},
               t \in {"bytes", "no_json", "untyped", "untranslatable"}}
    \union {[raw |-> Plain, req |-> Ok("openai", "", FALSE, FewTokens, Credentials)]}
    \union {[raw |-> f, req |-> [Ok("openai", "m1", FALSE, FewTokens, Credentials)
                                 EXCEPT !.size = n * Kilo]] :
               n \in {513, 3 * Kilo},
               f \in {[Plain EXCEPT !.max_request_body = [n |-> 512, unit |-> "k"]],
                      [Plain EXCEPT !.max_request_body = [n |-> 1, unit |-> "g"]]}}
    \union {[raw |-> f, req |-> Ok("openai", "m1", FALSE, FewTokens, Credentials)] :
               f \in Broken}

MCCalls ==
    {[c EXCEPT !.raw.diagnostics.stats_mode = m[1], !.raw.diagnostics.dump_mode = m[2]] :
        c \in BaseCalls, m \in {<<"all", "all">>, <<"error", "error">>, <<"all", "off">>,
                                <<"off", "all">>}}

Event(kind, n) == [kind |-> kind, wide |-> kind = "delta", n |-> n]
Body(text, says) == [text |-> text, says |-> says]
Whole(status, format, body) ==
    [status |-> status, event_stream |-> FALSE, format |-> format, body |-> body,
     events |-> <<>>, cut |-> FALSE]
Stream(status, events, cut) ==
    [status |-> status, event_stream |-> TRUE, format |-> "text", body |-> Body("sse", {}),
     events |-> events, cut |-> cut]

Common ==
    {Whole(201, "json", Body("answer", {})), Whole(200, "text", Body("html", {})),
     Whole(200, "bytes", Body("image", {})), Whole(429, "json", Body("slow down", {"quota"})),
     Whole(429, "json", Body("slow down", {})), Whole(503, "text", Body("down", {})),
     Whole(304, "text", Body("", {})), Stream(500, <<Event("other", 0)>>, FALSE)}

MCAnswers ==
    [openai |-> Common \union
        {Stream(200, <<Event("delta", 1), Event("other", 0), Event("delta", 2),
                       Event("stop", 0)>>, FALSE),
         Stream(200, <<Event("delta", 1), Event("delta", 2)>>, TRUE)},
     anthropic |-> Common \union
        {Stream(200, <<Event("start", 0), Event("delta", 1), Event("delta", 2),
                       Event("stop", 0), Event("other", 0)>>, FALSE),
         Stream(200, <<Event("start", 0), Event("delta", 1)>>, TRUE),
         Stream(200, <<Event("delta", 1), Event("stop", 0)>>, FALSE)}]

\* Two endpoints, one of them in two sections.
MCHealthFiles == {Limits}

MCEnv == [KEY_A |-> "key_a", KEY_C |-> ""]
MCSecretFiles == [KEY_A |-> "other"]
MCNoHeader == {"key\n"}

=============================================================================
