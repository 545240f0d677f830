------------------------------- MODULE Proxy -------------------------------
(***************************************************************************)
(* A call of a client on its way through the server: the size limit         *)
(* (build_app), the dispatch to a handler (src/router.rs), what is sent to  *)
(* the provider (src/auth.rs, src/lib.rs, the handlers), and the answer on  *)
(* its way back (src/openai.rs, src/anthropic.rs, src/relay.rs), with what  *)
(* the diagnostics are told.  Calls share only the configuration and the    *)
(* diagnostics, so there is one here.  A call for an Interactions endpoint  *)
(* goes on in InteractionsHandler and SplitStream.                          *)
(*                                                                         *)
(* A body is a function from its fields to numbers; the messages are not    *)
(* looked at.                                                               *)
(***************************************************************************)
EXTENDS RequestGuard, EventStream

CONSTANTS
    Calls,       \* [raw, req]: a configuration file and a call
    Answers,     \* what a provider may answer
    ChunkSizes,  \* how many halves the transport may deliver at once
    DumpLimit,   \* MAX_STREAMING_DUMP_BYTES
    LineLimit,   \* MAX_SSE_LINE_LENGTH
    BytesLimit   \* the limit of the framework for a body (external: axum)

\* Limits are numbers or not set, and so are the fields of a body, as far as they
\* are looked at; a body that is one of Anthropic has max_tokens.  The status of
\* an answer is final: those below 200 announce one.
is_file(f) ==
    /\ \A s \in DOMAIN f.sections :
           s # None /\ f.sections[s].cap \in [Caps -> Nat \union {None}]
    /\ f.default_cap \in [Caps -> Nat \union {None}]
    /\ {f.diagnostics.stats_mode, f.diagnostics.dump_mode} \subseteq Modes

is_call(q) ==
    /\ q.ingress \in {"openai", "anthropic"}
    /\ q.text \in {"ok", "bytes", "no_json", "untyped", "untranslatable"}
    /\ q.fields \in [DOMAIN q.fields -> Nat]
    /\ q.ingress = "anthropic" /\ q.text = "ok" => "max_tokens" \in DOMAIN q.fields
    /\ \A n \in DOMAIN q.headers : q.headers[n] # None

ASSUME ProxyAssumption ==
    /\ None \notin Nat
    /\ DumpLimit \in Nat /\ LineLimit \in Nat /\ ChunkSizes \subseteq Nat
    /\ Calls # {} /\ \A c \in Calls : is_file(c.raw) /\ is_call(c.req)
    /\ \A p \in {"openai", "anthropic"} : \A a \in Answers[p] :
           /\ a # None /\ a.status \in 200..999 /\ a.event_stream \in BOOLEAN
           /\ a.events \in Seq(ToSet(a.events))

VARIABLES
    raw,         \* the configuration file
    config,      \* the configuration
    req,         \* [ingress, text, model, size, stream, fields, headers]
    phase,       \* where the call is
    route,       \* the RouteTarget
    guard,       \* its RequestDiagnostics
    diag,        \* the Diagnostics
    sent,        \* what was sent to the provider
    upstream,    \* the answer of the provider
    wire,        \* the bytes of its stream still to come
    line_buf,    \* the text that is not parsed yet
    capture,     \* the bytes kept for the dump
    translating, \* the translator exists and is not finished
    answer,      \* the status and the body the client was answered with
    out          \* the stream the client got

proxyVars == <<raw, config, req, phase, route, guard, diag, sent, upstream, wire,
               line_buf, capture, translating, answer, out>>
call == <<raw, req, route>>
stream == <<wire, line_buf, capture, translating>>

Ended == {"done", "failed", "gone", "refused", "interactions"}

-----------------------------------------------------------------------------
(* Which handler *)

\* dispatch_messages: the endpoint of the client's own protocol first.
preference(ingress) ==
    IF ingress = "openai" THEN <<"openai", "anthropic", "interactions">>
                          ELSE <<"anthropic", "openai", "interactions">>

egress_of(r, ingress) ==
    LET p == preference(ingress)
    IN p[Min({i \in DOMAIN p : r.endpoint[p[i]] # None})]

egress == egress_of(route, req.ingress)
passthrough == egress = req.ingress

-----------------------------------------------------------------------------
(* What is sent *)

Lower(n, limit) == IF limit # None /\ n > limit THEN limit ELSE n
Without(body, fields) == [f \in DOMAIN body \ fields |-> body[f]]
Merge(f, g) ==
    [x \in DOMAIN f \union DOMAIN g |-> IF x \in DOMAIN f THEN f[x] ELSE g[x]]

\* A limit is set where there is none.
apply_token_caps_to_value(body, cap) ==
    Merge([f \in DOMAIN body |-> IF f \in Caps THEN Lower(body[f], cap[f]) ELSE body[f]],
          [f \in {c \in Caps : cap[c] # None} |-> cap[f]])

\* The same for a request that is read as one of OpenAI.
cap_openai_max_tokens(body, cap) == apply_token_caps_to_value(body, cap)

\* Mutant: the fields are dropped before the limits are set.
transforms_swapped(body, r, model) ==
    apply_token_caps_to_value(Without(body, for_model(r.drop_fields, model)), r.cap)

apply_egress_transforms(body, r, model) ==
    Without(apply_token_caps_to_value(body, r.cap), for_model(r.drop_fields, model))

prepare_egress_body(body, r, model) == Without(body, for_model(r.drop_fields, model))

\* strip_adaptive_thinking (0 stands for "adaptive") and
\* cap_anthropic_max_tokens; max_tokens is a required field.
typed_anthropic(body, r) ==
    LET stripped == IF Lookup(body, "thinking") = 0 THEN Without(body, {"thinking"}) ELSE body
    IN [stripped EXCEPT !.max_tokens = Lower(@, r.cap["max_tokens"])]

\* translate_request (external: anyllm_translate): both names for the limit,
\* and the fields it does not know.
translate_request(body) ==
    Merge([f \in {"max_tokens", "max_completion_tokens"} |-> body.max_tokens],
          Without(body, {"thinking"}))

sanitize_openai_egress(body) ==
    Without(body, {"context_management", "output_config"}
                  \union IF "max_completion_tokens" \in DOMAIN body THEN {"max_tokens"} ELSE {})

\* The limits, the transfer of max_tokens to its new name; stream_options is
\* not sent.
to_openai(body, r) ==
    LET c == cap_openai_max_tokens(translate_request(body), r.cap)
        transferred ==
            IF r.cap["max_completion_tokens"] # None THEN c
            ELSE [c EXCEPT !["max_completion_tokens"] = Lower(@, r.cap["max_tokens"])]
    IN Without(sanitize_openai_egress(transferred), {"stream_options"})

\* translate_openai_to_anthropic_request (external): there is one limit; which
\* of the two names it is taken from is the library's choice, and so is the
\* limit of a request without one.
to_anthropic(body, default) ==
    LET names == DOMAIN body \intersect {"max_tokens", "max_completion_tokens"}
        limits == IF names = {} THEN {default} ELSE {body[f] : f \in names}
    IN {[f \in {"max_tokens"} |-> l] : l \in limits}

DefaultMaxTokens == 4096

\* Mutant: what is passed on is dumped after it was changed.
ingress_body_changed(q, r, p) ==
    IF p = q.ingress THEN apply_egress_transforms(q.fields, r, q.model)
    ELSE IF q.ingress = "anthropic" THEN typed_anthropic(q.fields, r)
    ELSE cap_openai_max_tokens(q.fields, r.cap)

\* What the handler takes the request for, which is also what it dumps.
ingress_body(q, r, p) ==
    IF p = q.ingress THEN q.fields
    ELSE IF q.ingress = "anthropic" THEN typed_anthropic(q.fields, r)
    ELSE cap_openai_max_tokens(q.fields, r.cap)

egress_bodies(q, r, p) ==
    LET taken == ingress_body(q, r, p)
    IN IF p = q.ingress THEN {apply_egress_transforms(taken, r, q.model)}
       ELSE {prepare_egress_body(b, r, q.model) : b \in IF p = "openai" THEN {to_openai(taken, r)}
                             ELSE to_anthropic(taken, DefaultMaxTokens)}

AuthHeaders == {"x-api-key", "authorization"}
HopHeaders == {"host", "connection", "content-length", "content-type", "transfer-encoding",
               "te", "trailers", "upgrade", "keep-alive"}

\* forward_request_headers_map; the value of Authorization is the key without
\* its scheme.
forward_request_headers_map(key, headers, p) ==
    LET kept == {n \in DOMAIN headers :
                    /\ n \notin HopHeaders \union {"x-request-id", "x-client-request-id"}
                    /\ key # None => n \notin AuthHeaders}
        base == Merge([n \in (IF key = None THEN {} ELSE AuthHeaders) |-> key],
                      [n \in kept |-> headers[n]])
        source == or(Lookup(base, "x-claude-code-session-id"),
                     or(Lookup(headers, "x-client-request-id"),
                        Lookup(headers, "x-request-id")))
        target == IF p = "anthropic" THEN "x-claude-code-session-id"
                                     ELSE "x-client-request-id"
    IN IF source = None THEN base ELSE Merge([n \in {target} |-> source], base)

-----------------------------------------------------------------------------
(* The answer *)

\* apply_error_translation: the first rule for the status whose text, if it
\* has one, is in the body.  `says` are the texts in a body.
apply_error_translation(status, body, rules) ==
    LET matches(rule) ==
            rule.status = status /\ (rule.ingress \in {None, ""} \/ rule.ingress \in body.says)
        matching == SelectSeq(rules, matches)
    IN IF matching = <<>> THEN body.text ELSE matching[1].egress

Answered(status, body) == answer' = [status |-> status, body |-> body]

\* AppError::into_response; the third kind, Internal, cannot come up here.
AppError == [BadRequest |-> 400, Upstream |-> 502]
Refused(kind) == Answered(AppError[kind], "error")

\* The guard reports and is dropped; what is not read is refused twice where the
\* answer is only passed on, by the relay and by the handler.
Reports(d, g) == diag' = drop_guard(d, finished_guard(g)) /\ guard' = finished_guard(g)

Finish(g, status) == Reports(finish(diag, g, status), g)
FinishWithError(g, status) == Reports(finish_with_error(diag, g, status), g)
Abort(g) ==
    LET once == finish_with_error(diag, g, 502)
    IN Reports(IF passthrough THEN finish_with_error(once, finished_guard(g), 502) ELSE once, g)
DropGuard == diag' = drop_guard(diag, guard) /\ guard' = finished_guard(guard)

-----------------------------------------------------------------------------
(* From the start of the server to the request to the provider *)

\* Config::load; a file that is not valid ends the process.
Load ==
    /\ phase = "load"
    /\ IF is_valid(raw) THEN config' = from_file_config(raw) /\ phase' = "call"
                       ELSE phase' = "refused" /\ UNCHANGED config
    /\ diag' = [diag EXCEPT !.stats_mode = raw.diagnostics.stats_mode,
                            !.dump_mode = raw.diagnostics.dump_mode]
    /\ UNCHANGED <<raw, req, route, guard, sent, upstream, answer, out, stream>>

too_large == req.size > config.max_request_body \/ req.size > BytesLimit

\* RequestBodyLimitLayer, or the extraction of the body; build_app gives the
\* answer its body.  Nothing is recorded.
TooLarge ==
    /\ phase = "call" /\ too_large
    /\ Answered(413, "error") /\ phase' = "done"
    /\ UNCHANGED <<call, config, guard, diag, sent, upstream, out, stream>>

\* dispatch_messages: bytes that are not text, no JSON object with a model, or
\* no section for the model.
Reject ==
    /\ phase = "call" /\ ~too_large
    /\ \/ req.text \in {"bytes", "no_json"}
       \/ req.model = ""
       \/ resolve_route(config, req.model) = None
    /\ diag' = reject(diag, 400, req.fields)
    /\ Refused("BadRequest") /\ phase' = "done"
    /\ UNCHANGED <<call, config, guard, sent, upstream, out, stream>>

Dispatch ==
    /\ phase = "call" /\ ~too_large
    /\ req.text \notin {"bytes", "no_json"} /\ req.model # ""
    /\ LET r == resolve_route(config, req.model) IN
       /\ r # None
       /\ route' = r
       /\ phase' = IF egress_of(r, req.ingress) = "interactions" THEN "interactions"
                   ELSE "handler"
    /\ UNCHANGED <<raw, config, req, guard, diag, sent, upstream, answer, out, stream>>

\* A handler that converts refuses a body that is not the client's protocol,
\* and one the library does not translate; the latter is not recorded.
Refuse ==
    /\ phase = "handler" /\ ~passthrough
    /\ \/ /\ req.text = "untyped"
          /\ diag' = reject_undumped(diag, 400) /\ Refused("BadRequest")
       \/ /\ req.text = "untranslatable"
          /\ Refused(IF egress = "openai" THEN "Upstream" ELSE "BadRequest")
          /\ UNCHANGED diag
    /\ phase' = "done"
    /\ UNCHANGED <<call, config, guard, sent, upstream, out, stream>>

\* The url of the protocol, the body, the headers; a handler that converts
\* asks for a stream itself.
Send ==
    /\ phase = "handler"
    /\ passthrough \/ req.text \notin {"untyped", "untranslatable"}
    /\ \E body \in egress_bodies(req, route, egress) :
          sent' = [url |-> route.endpoint[egress], protocol |-> egress, body |-> body,
                   headers |-> forward_request_headers_map(route.api_key, req.headers,
                                                           egress)]
    /\ guard' = ingress_dump(egress_dump(new_guard(diag), sent'.body),
                             ingress_body(req, route, egress))
    /\ diag' = with_new_id(diag)
    /\ phase' = "send"
    /\ UNCHANGED <<call, config, upstream, answer, out, stream>>

\* No connection, or no answer in time.
SendFails ==
    /\ phase = "send"
    /\ FinishWithError(guard, 502)
    /\ Refused("Upstream") /\ phase' = "done"
    /\ UNCHANGED <<call, config, sent, upstream, out, stream>>

-----------------------------------------------------------------------------
(* The answer of the provider *)

NoEvent == [kind |-> "other", wide |-> FALSE, n |-> 0]

is_success(a) == a.status < 300

\* An error is passed on as it is, unless it is a stream for a client of the same
\* protocol.
phase_after(a) ==
    IF ~is_success(a) /\ ~(passthrough /\ a.event_stream) THEN "error_body"
    ELSE IF passthrough THEN IF a.event_stream THEN "relay" ELSE "body"
    ELSE IF req.stream THEN "translate" ELSE "body"

\* The bytes of an answer; `cut` is a stream without the last line break, and
\* what is no stream is a text without any.
stream_bytes(a) ==
    IF ~a.event_stream THEN <<[ev |-> NoEvent, half |-> 1]>>
    ELSE IF a.cut THEN Front(halves(a.events)) ELSE halves(a.events)

\* The head of the answer.  A stream that is passed on is recorded now, with
\* the status, whatever becomes of it, and a client that is answered with a
\* stream has its status now.
UpstreamAnswers ==
    /\ phase = "send"
    /\ \E a \in Answers[egress] :
          /\ upstream' = a
          /\ phase' = phase_after(a)
          /\ wire' = IF phase' \in {"relay", "translate"} THEN stream_bytes(a) ELSE <<>>
          /\ translating' = (phase' = "translate" /\ egress = "openai")
          /\ IF phase' = "relay" THEN Finish(guard, a.status) ELSE UNCHANGED <<guard, diag>>
          /\ CASE phase' = "relay" -> Answered(a.status, "stream")
               [] phase' = "translate" -> Answered(200, "stream")
               [] OTHER -> UNCHANGED answer
    /\ UNCHANGED <<call, config, sent, out, line_buf, capture>>

\* finish_with_upstream_error; a body that cannot be read is empty.
ReadErrorBody ==
    /\ phase = "error_body"
    /\ \E body \in {upstream.body, [text |-> "", says |-> {}]} :
          /\ FinishWithError(response_dump(guard, upstream.status, body.text), upstream.status)
          /\ Answered(upstream.status,
                      apply_error_translation(upstream.status, body,
                                              config.error_translation))
    /\ phase' = "done"
    /\ UNCHANGED <<call, config, sent, upstream, out, stream>>

\* The body breaks off: abort_upstream.
ReadFails ==
    /\ phase = "body"
    /\ Abort(guard)
    /\ Refused("Upstream") /\ phase' = "done"
    /\ UNCHANGED <<call, config, sent, upstream, out, stream>>

\* relay_openai_upstream and relay_upstream_response: any text is passed on; what
\* is no text is dumped.
RelayBody ==
    /\ phase = "body" /\ passthrough
    /\ LET dumped == response_dump(guard, upstream.status, upstream.body.text)
       IN IF upstream.format # "bytes"
          THEN Finish(dumped, upstream.status) /\ Answered(upstream.status, upstream.body.text)
          ELSE Abort(dumped) /\ Refused("Upstream")
    /\ phase' = "done"
    /\ UNCHANGED <<call, config, sent, upstream, out, stream>>

\* The handlers that convert an answer have to read it; what they cannot read
\* they do not dump.
ConvertBody ==
    /\ phase = "body" /\ ~passthrough
    /\ IF upstream.format = "json"
       THEN /\ Finish(response_dump(guard, 200, upstream.body.text), 200)
            /\ Answered(200, upstream.body.text)
       ELSE Abort(guard) /\ Refused("Upstream")
    /\ phase' = "done"
    /\ UNCHANGED <<call, config, sent, upstream, out, stream>>

-----------------------------------------------------------------------------
(* A stream that is passed on: DiagnosticStream *)

captured_all(bytes) == capture \o bytes   \* mutant

captured(bytes) ==
    LET all == capture \o bytes IN SubSeq(all, 1, Min({Len(all), DumpLimit}))

stream_dump(d) ==
    record_dumps(d, <<dump_line(guard.id, "egress", "response", upstream.status, capture)>>,
                 FALSE)

RelayChunk(n) ==
    /\ phase = "relay" /\ n <= Len(wire)
    /\ wire' = SubSeq(wire, n + 1, Len(wire))
    /\ LET bytes == SubSeq(wire, 1, n)
       IN /\ capture' = IF dump_enabled(diag) THEN captured(bytes) ELSE capture
          /\ out' = out \o bytes
    /\ UNCHANGED <<call, config, phase, guard, diag, sent, upstream, answer, line_buf,
                   translating>>

RelayEnds ==
    /\ phase = "relay" /\ wire = <<>>
    /\ diag' = stream_dump(diag) /\ phase' = "done"
    /\ UNCHANGED <<call, config, guard, sent, upstream, answer, out, stream>>

\* The stream is dropped: it broke, or the client has gone.
RelayDropped ==
    /\ phase = "relay"
    /\ \/ wire # <<>> /\ phase' = "failed"
       \/ phase' = "gone"
    /\ diag' = IF capture = <<>> THEN diag ELSE stream_dump(diag)
    /\ UNCHANGED <<call, config, guard, sent, upstream, answer, out, stream>>

-----------------------------------------------------------------------------
(* A stream that is translated: handle_stream_manual and                     *)
(* handle_from_openai_stream                                                 *)

\* from_utf8_lossy: the halves of a character that was cut are replaced.
lossy(bytes) ==
    LET cut(k) == /\ bytes[k].ev.wide
                  /\ \/ k = 1 /\ bytes[k].half = 2
                     \/ k = Len(bytes) /\ bytes[k].half = 1
    IN [k \in DOMAIN bytes |->
           IF cut(k) THEN [bytes[k] EXCEPT !.ev.kind = "garbled"] ELSE bytes[k]]

\* parse_sse_line and parse_anthropic_sse_event, with the translators
\* (external: anyllm_translate): a text becomes an item, the last event of the
\* message closes it.  The translator of an OpenAI client is made by the
\* message_start; the other one is there from the beginning.
closes(ev) == ev.kind = "stop"
shown_item(ev) == [kind |-> ev.kind, n |-> ev.n]
closing == <<[kind |-> "closing", n |-> 0]>>

open_at(events, active, k) == active \/ \E j \in 1..(k - 1) : events[j].kind = "start"
closes_at(events, active) ==
    {k \in DOMAIN events : closes(events[k]) /\ open_at(events, active, k)}

translated(events, active) ==
    LET shown(k) == /\ events[k].kind \in {"delta", "garbled"}
                    /\ open_at(events, active, k)
                    /\ \A j \in closes_at(events, active) : k < j
    IN FlattenSeq([k \in DOMAIN events |->
                      IF shown(k) THEN <<shown_item(events[k])>> ELSE <<>>])

\* The bytes of a stream are dumped with the guard.
FinishStream(bytes) == Finish(response_dump(guard, 200, bytes), 200)

\* Whole lines are translated as they come.  Text that is too long ends the
\* stream with an error, and is recorded as a success.  The message that an
\* Anthropic provider closes ends the stream of an OpenAI client; an OpenAI
\* provider's [DONE] leaves the stream of an Anthropic client open.
TranslateChunk(n) ==
    /\ phase = "translate" /\ n <= Len(wire)
    /\ wire' = SubSeq(wire, n + 1, Len(wire))
    /\ LET bytes == SubSeq(wire, 1, n)
           text == line_buf \o lossy(bytes)
           events == events_in(text)
           closed == closes_at(events, translating) # {}
       IN /\ capture' = captured(bytes)
          /\ IF Len(text) > LineLimit
             THEN /\ phase' = "failed" /\ FinishStream(capture')
                  /\ line_buf' = text
                  /\ UNCHANGED <<translating, out>>
             ELSE /\ line_buf' = rest_of(text)
                  /\ translating' = (open_at(events, translating, Len(events) + 1) /\ ~closed)
                  /\ out' = out \o translated(events, translating)
                                \o IF closed THEN closing ELSE <<>>
                  /\ IF closed /\ egress = "anthropic"
                     THEN phase' = "done" /\ FinishStream(capture')
                     ELSE UNCHANGED <<phase, guard, diag>>
    /\ UNCHANGED <<call, config, sent, upstream, answer>>

\* What is left without a line break is not translated.  An OpenAI client gets
\* its [DONE] in any case.
TranslateEnds ==
    /\ phase = "translate" /\ wire = <<>>
    /\ FinishStream(capture)
    /\ out' = out \o IF translating \/ egress = "anthropic" THEN closing ELSE <<>>
    /\ phase' = "done"
    /\ UNCHANGED <<call, config, sent, upstream, answer, stream>>

TranslateBreaks ==
    /\ phase = "translate" /\ wire # <<>>
    /\ FinishWithError(response_dump(guard, 200, capture), 200)
    /\ phase' = "failed"
    /\ UNCHANGED <<call, config, sent, upstream, answer, out, stream>>

-----------------------------------------------------------------------------
\* The client disconnects: the future, or the stream, is dropped.
ClientGone ==
    /\ phase \in {"send", "error_body", "body", "translate"}
    /\ DropGuard /\ phase' = "gone"
    /\ UNCHANGED <<call, config, sent, upstream, answer, out, stream>>

proxyInit(c) ==
    /\ raw = c.raw /\ req = c.req
    /\ phase = "load" /\ config = None /\ route = None
    /\ guard = NoGuard /\ sent = None /\ upstream = None /\ answer = None
    /\ diag = [stats_mode |-> "off", dump_mode |-> "off", counter |-> 0, lines |-> <<>>]
    /\ wire = <<>> /\ line_buf = <<>> /\ capture = <<>> /\ out = <<>>
    /\ translating = FALSE

\* A state without a next one is only the end of the call.
proxyNext ==
    \/ Load \/ TooLarge \/ Reject \/ Dispatch \/ Refuse
    \/ Send \/ SendFails \/ UpstreamAnswers \/ ReadErrorBody \/ ReadFails
    \/ RelayBody \/ ConvertBody
    \/ \E n \in ChunkSizes : RelayChunk(n) \/ TranslateChunk(n)
    \/ RelayEnds \/ RelayDropped \/ TranslateEnds \/ TranslateBreaks \/ ClientGone
    \/ phase \in Ended /\ UNCHANGED proxyVars

-----------------------------------------------------------------------------
(* Properties *)

Phase == {"load", "call", "handler", "send", "error_body", "body", "relay",
          "translate"} \union Ended

\* The types; both buffers stay within their limits, and a guard is open only
\* while something is awaited that finishes it.
ProxyTypeOK ==
    /\ phase \in Phase /\ req.ingress \in {"openai", "anthropic"}
    /\ translating \in BOOLEAN
    /\ {diag.stats_mode, diag.dump_mode} \subseteq Modes /\ diag.counter \in {0, 1}
    /\ Len(capture) <= DumpLimit
    /\ phase # "failed" => Len(line_buf) <= LineLimit
    /\ ~guard.finished <=> phase \in {"send", "error_body", "body", "translate"}
    /\ IF guard.id = None THEN sent = None ELSE sent.protocol = egress
    /\ answer # None => answer.status \in 200..999

streamed == upstream # None /\ phase_after(upstream) \in {"relay", "translate"}
relayed == streamed /\ passthrough
too_long == Len(line_buf) > LineLimit

\* What went wrong for the client as far as the code looks: not what happens to
\* a stream after the status of a relayed one is known, and not a line that is
\* too long.
failed ==
    /\ ~relayed
    /\ \/ phase = "gone"
       \/ phase = "failed" /\ ~too_long
       \/ phase = "done" /\ answer.status >= 300

ended == phase \in {"done", "failed", "gone"}

\* Calls of which nothing is claimed: a body that is too large, and a request
\* that the library does not translate.  The code ends them without a line,
\* though openspec/specs/diagnostics.md:638 wants one of every request, "early
\* error paths" included.
unclaimed ==
    guard.id = None /\ (too_large \/ (route # None /\ req.text = "untranslatable"))

\* Every other call leaves one line of statistics however it ends, also when
\* the client goes in the middle of a stream or an error is met twice: never
\* two, none before the call has ended or its relay begun, all its lines under
\* one identity, with the status the client got, or 0 if it was gone, and
\* marked as an error if and only if it failed.
ReportedOnce ==
    LET lines == diag.lines
        S == {i \in DOMAIN lines : lines[i].kind = "stats"}
    IN /\ \A i, j \in S : i = j
       /\ \A i, j \in DOMAIN lines : lines[i].id = lines[j].id
       /\ ~ended /\ phase # "relay" => S = {}
       /\ ended /\ ~unclaimed => (S # {}) = records(diag.stats_mode, failed)
       /\ \A i \in S :
              /\ lines[i].error = failed
              /\ lines[i].status = IF phase = "gone" /\ ~relayed THEN 0 ELSE answer.status

\* The dumps of a call, in this order, and where the k-th of them is.
Dumps == <<<<"ingress", "request">>, <<"egress", "request">>, <<"egress", "response">>>>
is_dump(i) == diag.lines[i].kind = "dump"
dumped(k) ==
    {i \in DOMAIN diag.lines :
        is_dump(i) /\ <<diag.lines[i].stage, diag.lines[i].direction>> = Dumps[k]}

\* What the dumps say is what happened: the request of the client if it is
\* passed on or ends without a guard, the request that was sent, and the
\* beginning of the answer as it came, all of it up to the limit when it came to
\* its end.  In mode "error" only calls that failed are dumped, and in mode
\* "all" an answered call leaves all three, in this order
\* (openspec/specs/diagnostics.md:139).  Of the first dump of a converted call
\* nothing is claimed but its place: there the code has lowered the limits and
\* taken adaptive thinking away, where diagnostics.md:255 wants the body as received.
DumpsTellTheTruth ==
    LET body(i) == diag.lines[i].body
        all == stream_bytes(upstream)
    IN /\ \A i \in DOMAIN diag.lines : is_dump(i) =>
              records(diag.dump_mode, failed) /\ \E k \in 1..3 : i \in dumped(k)
       /\ \A k, m \in 1..3 : \A i \in dumped(k), j \in dumped(m) : (i < j) = (k < m)
       /\ \A i \in dumped(1) :
              guard.id = None \/ passthrough => body(i) = req.fields
       /\ \A i \in dumped(2) : body(i) = sent.body
       /\ \A i \in dumped(3) :
              IF streamed
              THEN /\ IsPrefix(body(i), all) /\ Len(body(i)) <= DumpLimit
                   /\ phase = "done" /\ wire = <<>> =>
                          Len(body(i)) = Min({DumpLimit, Len(all)})
              ELSE body(i) \in {upstream.body.text, ""}
       /\ diag.dump_mode = "all" /\ phase = "done" /\ upstream # None
              /\ answer.status # 502 => \A k \in 1..3 : dumped(k) # {}

\* The client of another protocol reads the texts of the stream in order and
\* once, each translated, wherever the transport cut them, and one end after
\* them; at the regular end it has all of them.  A text is garbled only if a
\* character of it was cut, and lost only if its line never ended or the
\* message never began.  The client of the same protocol gets the bytes.
StreamIsTranslated ==
    LET texts == SelectSeq(upstream.events, LAMBDA e : e.kind = "delta")
        began == egress = "openai" \/ upstream.events[1].kind = "start"
        is_end(i) == out[i].kind = "closing"
        shown == SelectSeq(out, LAMBDA i : i.kind # "closing")
    IN /\ relayed => out \o wire = stream_bytes(upstream)
       /\ streamed /\ ~passthrough =>
              /\ Len(shown) <= Len(texts)
              /\ \A i \in DOMAIN shown :
                     /\ shown[i].n = texts[i].n
                     /\ shown[i].kind = "garbled" => texts[i].wide
              /\ \A i \in DOMAIN out : is_end(i) => i = Len(out)
              /\ phase = "done" =>
                     /\ out # <<>> /\ is_end(Len(out))
                     /\ upstream.event_stream /\ began /\ ~upstream.cut =>
                            Len(shown) = Len(texts)

\* What is sent goes to the section that lists the model, or else to the default
\* one, with its key in place of the client's credentials, its limits (or the
\* global ones) observed and without the fields it drops, in whatever order the
\* code applies them; the rest of a request that is passed on is the client's.
\* Nothing is claimed of the stream_options of a request passed on to OpenAI:
\* the code sends them, where protocol-conversion.md:113 drops them always.
\* The limit of a request that becomes an Anthropic one is only sure if the
\* client and the section use no second name for it.
EgressIsTransformed ==
    LET S == raw.sections
        listing == {s \in DOMAIN S : ~is_default(S[s].models)
                                       /\ req.model \in ToSet(S[s].models.names)}
        owner == S[CHOOSE s \in DOMAIN S :
                       IF listing # {} THEN s \in listing ELSE is_default(S[s].models)]
        limit(c) == or(owner.cap[c], raw.default_cap[c])
        within(f, c) == limit(c) # None => sent.body[f] <= limit(c)
        dropped == for_model(owner.drop_fields, req.model)
        unsure == IF egress = "openai" THEN {"stream_options"} ELSE {}
        key == IF owner.api_key = None THEN None ELSE resolve_secret(owner.api_key)
        correlation == {"x-claude-code-session-id", "x-client-request-id", "x-request-id"}
    IN sent # None =>
       /\ sent.url = owner.endpoint[egress].url
       /\ DOMAIN sent.body \intersect dropped = {}
       /\ passthrough =>
              /\ \A c \in Caps \ dropped :
                     limit(c) # None => c \in DOMAIN sent.body /\ within(c, c)
              /\ \A f \in DOMAIN req.fields \ (Caps \union dropped \union unsure) :
                     sent.body[f] = req.fields[f]
       /\ ~passthrough /\ egress = "openai" =>
              /\ "max_tokens" \notin DOMAIN sent.body
              /\ "max_completion_tokens" \notin dropped =>
                     \A c \in {"max_tokens", "max_completion_tokens"} :
                         within("max_completion_tokens", c)
       /\ ~passthrough /\ egress = "anthropic" =>
              "max_tokens" \in dropped \/ limit("max_completion_tokens") # None
                  \/ "max_completion_tokens" \in DOMAIN req.fields
                  \/ within("max_tokens", "max_tokens")
       /\ \A n \in AuthHeaders :
              IF key # None THEN sent.headers[n] = key
              ELSE Lookup(sent.headers, n) = Lookup(req.headers, n)
       /\ "x-request-id" \notin DOMAIN sent.headers
       /\ (correlation \intersect DOMAIN req.headers # {}) <=>
              (IF egress = "anthropic" THEN "x-claude-code-session-id"
               ELSE "x-client-request-id") \in DOMAIN sent.headers

=============================================================================
