---------------------------- MODULE SplitStream ----------------------------
(***************************************************************************)
(* One request to the Interactions API as data: its body, or the bodies of  *)
(* its pieces, and the answer on its way back to the client                 *)
(* (send_and_translate, handle_stream_response, handle_split_send,          *)
(* send_split_system_instruction and src/sse.rs).  What the store does with *)
(* it is InteractionsHandler.                                               *)
(*                                                                         *)
(* The service sends server-sent events, as bytes that are cut anywhere:    *)
(* EventStream.                                                             *)
(***************************************************************************)
EXTENDS Packing, EventStream

CONSTANTS
    Requests,    \* [contents, system, tools, prev, stream, openai, drop]
    ProxyLimit,  \* proxy_limit of the section
    IdLength,    \* IdLength[i]: the length of the id of the i-th interaction
    Shapes,      \* the streams the service may answer with
    ChunkSizes,  \* how many halves the transport may deliver at once
    SseLimit,    \* DEFAULT_SSE_BUFFER_LIMIT
    LineLimit    \* MAX_SSE_BUFFER_BYTES

VARIABLES
    req,         \* the request
    phase,       \* where its future is
    plan,        \* the pieces, <<>> if it is sent whole
    prev,        \* current_prev: the length of an id
    sent,        \* history: the bodies that were sent
    served,      \* history: the answers of the service
    wire,        \* the bytes of the current answer still to come
    line_buf,    \* the text that is not parsed yet
    found,       \* chunk_int_id, 0 if there is none
    ids,         \* all_int_ids
    sse_buffer,  \* MemSseBuffer: the bytes of each piece
    lost,        \* history: halves in chunks that were not parsed
    last_active, \* last_active_index, 0 if there is none
    translating, \* the OpenAI translator exists
    out          \* what was sent to the client

vars == <<req, phase, plan, prev, sent, served, wire, line_buf, found, ids, sse_buffer,
          lost, last_active, translating, out>>
answering == <<wire, line_buf, found, sse_buffer, lost, last_active, translating>>

piece == Len(sent)
IsSplit == plan # <<>>
Ended == {"done", "refused", "failed", "no_id", "gone"}

-----------------------------------------------------------------------------
(* The service and the transport (external) *)

\* The events of the i-th answer: the shape with the id and the place of each
\* event filled in.
answer(shape, i) ==
    [k \in DOMAIN shape |->
        [kind |-> shape[k].kind, wide |-> shape[k].wide,
         id |-> IF shape[k].kind \in {"created", "completed"} THEN i ELSE 0,
         text |-> IF shape[k].kind = "delta" THEN <<i, k>> ELSE <<>>]]

-----------------------------------------------------------------------------
(* Events in a text *)

\* Mutant: only within the bytes that came at once.
parse_sse_at_once(text) ==
    LET created == SelectSeq(events_in(text), LAMBDA e : e.kind = "created")
    IN [id |-> IF created = <<>> THEN 0 ELSE created[1].id, rest |-> <<>>]

\* parse_sse_for_interaction_id: it stops after the first interaction.created.
\* The pieces of an answer hold one such event, and what follows it stays in
\* the buffer until the next bytes come.
RECURSIVE parse_sse_for_interaction_id(_)
parse_sse_for_interaction_id(text) ==
    LET ends == {k \in DOMAIN text : text[k].half = 2}
        k == Min(ends)
        after == SubSeq(text, k + 1, Len(text))
        head == events_in(SubSeq(text, 1, k))
    IN IF ends = {} THEN [id |-> 0, rest |-> text]
       ELSE IF head # <<>> /\ head[1].kind = "created"
            THEN [id |-> head[1].id, rest |-> after]
       ELSE parse_sse_for_interaction_id(after)

-----------------------------------------------------------------------------
(* Translation *)

item(kind, ev) == [kind |-> kind, id |-> ev.id, text |-> ev.text]

\* translate_stream_event_from_parsed; the state is last_active_index.  Steps
\* are told apart by the answer they belong to.
translate_stream_event(ev, last) ==
    CASE ev.kind = "created" -> <<item("message_start", ev)>>
      [] ev.kind = "step_start" -> <<item("block_start", ev)>>
      [] ev.kind = "delta" -> <<item("block_delta", ev)>>
      [] ev.kind = "step_stop" -> <<item("block_stop", ev)>>
      [] ev.kind = "completed" ->
            (IF last = 0 THEN <<>> ELSE <<item("block_stop", ev)>>)
            \o <<item("message_delta", ev), item("message_stop", ev)>>
      [] ev.kind = "error" -> <<item("error", ev)>>
      [] OTHER -> <<>>   \* interaction.status_update

\* The state after the events: a step sets it, its end and the end of the
\* interaction clear it.
active_after(events, last) ==
    LET is_step(e) == e.kind \in {"step_start", "step_stop", "completed"}
        steps == SelectSeq(events, is_step)
    IN IF steps = <<>> THEN last
       ELSE IF Last(steps).kind = "step_start" THEN 1 ELSE 0

\* The translator to OpenAI chunks (external: anyllm_translate): the pieces of
\* text and the reason why it stops become chunks.  An event may become several;
\* here one item stands for all of them, though the unsplit stream sends only
\* the first (handle_anthropic_query's stream, `process_event(event).next()`).
process_event(i) == i.kind \in {"block_delta", "message_delta"}

\* The message_start makes the translator of an OpenAI client.
has_translator(events, before) ==
    before \/ \E k \in DOMAIN events : events[k].kind = "created"

Translate(events, last, translator) ==
    LET before(k) == SubSeq(events, 1, k - 1)
        items == [k \in DOMAIN events |->
                     translate_stream_event(events[k], active_after(before(k), last))]
    IN IF ~req.openai THEN FlattenSeq(items)
       ELSE FlattenSeq([k \in DOMAIN events |->
                           IF has_translator(before(k), translator)
                           THEN SelectSeq(items[k], process_event) ELSE <<>>])

DONE == <<[kind |-> "[DONE]", id |-> 0, text |-> <<>>]>>
stream_error == <<[kind |-> "error", id |-> 0, text |-> <<>>]>>

unified_not(events) == events   \* mutant

\* Only the first interaction.created and the last interaction.completed of the
\* buffered streams are shown.
unified(events) ==
    LET shown(k) ==
            CASE events[k].kind = "created" ->
                    \A j \in 1..(k - 1) : events[j].kind # "created"
              [] events[k].kind = "completed" ->
                    \A j \in (k + 1)..Len(events) : events[j].kind # "completed"
              [] OTHER -> TRUE
    IN FlattenSeq([k \in DOMAIN events |-> IF shown(k) THEN <<events[k]>> ELSE <<>>])

translate_buffered_sse_to_client(bytes) ==
    LET events == unified(events_in(bytes))
    IN Translate(events, 0, FALSE)
       \o IF req.openai /\ has_translator(events, FALSE) THEN DONE ELSE <<>>

substitute_id_not(buffer, from, to) == buffer   \* mutant

\* MemSseBuffer::substitute_id and drain.
substitute_id(buffer, from, to) ==
    [i \in DOMAIN buffer |->
        [k \in DOMAIN buffer[i] |->
            [buffer[i][k] EXCEPT !.ev.id = IF @ = from THEN to ELSE @]]]
drain(buffer) == FlattenSeq(buffer)

capture_and_translate_sse ==
    LET final == Last(ids)
        substituted ==
            FoldLeft(LAMBDA b, i : IF i = final THEN b ELSE substitute_id(b, i, final),
                     sse_buffer, ids)
    IN translate_buffered_sse_to_client(drain(substituted))

-----------------------------------------------------------------------------
(* Sending *)

\* The size after drop_fields decides whether the request is split at all.
Begin ==
    /\ phase = "begin"
    /\ LET b == build_request_body(req)
           p == split_plan(req, ProxyLimit)
           whole == body_size(drop_fields(b, req.drop)) <= ProxyLimit
       IN /\ phase' = IF whole \/ (can_split_under_limit(b, ProxyLimit) /\ p.ok)
                      THEN "send" ELSE "refused"
          /\ plan' = IF ~whole /\ phase' = "send" THEN p.val ELSE <<>>
    /\ UNCHANGED <<req, prev, sent, served, ids, out, answering>>

\* The body of the next piece: the tools go with the first one of a new chain.
next_body ==
    IF ~IsSplit THEN build_request_body(req)
    ELSE LET p == plan[piece + 1]
             chunk == build_chunk_request(p.input, p.system, prev, req.stream)
         IN [chunk EXCEPT !.tools = p.tools /\ req.tools]

Send ==
    /\ phase = "send"
    /\ sent' = Append(sent, drop_fields(next_body, req.drop))
    /\ phase' = IF req.stream THEN "stream" ELSE "body"
    /\ \E shape \in Shapes : served' = Append(served, answer(shape, piece + 1))
    /\ wire' = halves(Last(served'))
    /\ line_buf' = <<>> /\ found' = 0 /\ lost' = {}
    /\ sse_buffer' = Append(sse_buffer, <<>>)
    /\ UNCHANGED <<req, plan, prev, ids, last_active, translating, out>>

\* send_chunk: the call, or an answer that is not a success, ends the request.
SendFails ==
    /\ phase = "send"
    /\ phase' = "failed"
    /\ UNCHANGED <<req, plan, prev, sent, served, ids, out, answering>>

-----------------------------------------------------------------------------
(* Reading the stream of a request that is not split *)

Deliver(n) ==
    /\ wire' = SubSeq(wire, n + 1, Len(wire))

\* Bytes that are not UTF-8, also because a character was cut, and a line that
\* is too long end the stream with an error event.
StreamChunk(n) ==
    /\ phase = "stream" /\ ~IsSplit /\ n <= Len(wire)
    /\ Deliver(n)
    /\ LET bytes == SubSeq(wire, 1, n)
           text == line_buf \o bytes
           events == events_in(text)
       IN IF is_utf8(bytes) /\ Len(text) <= LineLimit
          THEN /\ line_buf' = rest_of(text)
               /\ out' = out \o Translate(events, last_active, translating)
               /\ last_active' = active_after(events, last_active)
               /\ translating' = (req.openai /\ has_translator(events, translating))
               /\ UNCHANGED phase
          ELSE /\ out' = out \o stream_error
               /\ phase' = "failed"
               /\ UNCHANGED <<line_buf, last_active, translating>>
    /\ UNCHANGED <<req, plan, prev, sent, served, found, ids, sse_buffer, lost>>

StreamEnds ==
    /\ phase = "stream" /\ ~IsSplit /\ wire = <<>>
    /\ out' = out \o IF translating THEN DONE ELSE <<>>
    /\ phase' = "done"
    /\ UNCHANGED <<req, plan, prev, sent, served, ids, answering>>

\* The connection breaks in the middle.
StreamBreaks ==
    /\ phase = "stream" /\ wire # <<>>
    /\ out' = out \o IF IsSplit THEN <<>> ELSE stream_error
    /\ phase' = "failed"
    /\ UNCHANGED <<req, plan, prev, sent, served, ids, answering>>

\* The client disconnects; a split request is dropped, a stream ends with 499.
ClientGone ==
    /\ phase \notin Ended
    /\ phase' = "gone"
    /\ UNCHANGED <<req, plan, prev, sent, served, ids, out, answering>>

-----------------------------------------------------------------------------
(* Reading the stream of a piece *)

buffered == Sum([i \in DOMAIN sse_buffer |-> Len(sse_buffer[i])])

\* Mutant: neither limit.
PieceChunkUnlimited(n) ==
    /\ phase = "stream" /\ IsSplit /\ n <= Len(wire)
    /\ Deliver(n)
    /\ LET bytes == SubSeq(wire, 1, n)
           p == parse_sse_for_interaction_id(line_buf \o bytes)
       IN /\ sse_buffer' = [sse_buffer EXCEPT ![piece] = @ \o bytes]
          /\ found' = IF p.id # 0 THEN p.id ELSE found
          /\ line_buf' = p.rest
    /\ UNCHANGED <<req, phase, plan, prev, sent, served, ids, lost, last_active,
                   translating, out>>

\* Everything is buffered, but bytes that are not UTF-8 are left out of the
\* text in which the id is looked for.
PieceChunk(n) ==
    /\ phase = "stream" /\ IsSplit /\ n <= Len(wire)
    /\ Deliver(n)
    /\ LET bytes == SubSeq(wire, 1, n)
           p == parse_sse_for_interaction_id(line_buf \o bytes)
       IN \/ /\ buffered + n > SseLimit
             /\ phase' = "failed"
             /\ UNCHANGED <<sse_buffer, lost, line_buf, found>>
          \/ /\ buffered + n <= SseLimit
             /\ sse_buffer' = [sse_buffer EXCEPT ![piece] = @ \o bytes]
             /\ IF is_utf8(bytes)
                THEN /\ found' = IF p.id # 0 THEN p.id ELSE found
                     /\ line_buf' = p.rest
                     /\ phase' = IF Len(p.rest) > LineLimit THEN "failed" ELSE phase
                     /\ UNCHANGED lost
                ELSE /\ lost' = lost \union ToSet(bytes)
                     /\ UNCHANGED <<found, line_buf, phase>>
    /\ UNCHANGED <<req, plan, prev, sent, served, ids, last_active, translating, out>>

next_chunks_fit_not(id) == TRUE   \* mutant

\* The next chunks, with the real id in place of the placeholder.
next_chunks_fit(id) ==
    \A j \in (piece + 1)..Len(plan) :
        body_size(build_chunk_request(plan[j].input, None, IdLength[id], FALSE))
            <= ProxyLimit
SystemIsSplit == IsSplit /\ Cardinality({j \in DOMAIN plan : plan[j].system # None}) > 1

\* The id of the piece is known: the next piece, or the end.
Acked(id) ==
    /\ ids' = Append(ids, id)
    /\ prev' = IdLength[id]
    /\ phase' = IF piece = 1 /\ IsSplit /\ ~SystemIsSplit /\ ~next_chunks_fit(id)
                THEN "failed"
                ELSE IF piece < Len(plan) THEN "send" ELSE "finish"

PieceEnds ==
    /\ phase = "stream" /\ IsSplit /\ wire = <<>>
    /\ IF found = 0 THEN phase' = "no_id" /\ UNCHANGED <<ids, prev>>
                    ELSE Acked(found)
    /\ UNCHANGED <<req, plan, sent, served, out, answering>>

\* An answer that is not streamed comes whole, is valid UTF-8 and parses, or
\* ends the request.
ReadBody ==
    /\ phase = "body"
    /\ \/ Acked(piece) /\ sse_buffer' = [sse_buffer EXCEPT ![piece] = wire]
       \/ phase' = "failed" /\ UNCHANGED <<ids, prev, sse_buffer>>
    /\ UNCHANGED <<req, plan, sent, served, wire, line_buf, found, lost, last_active,
                   translating, out>>

-----------------------------------------------------------------------------
(* The end of a split request, and of one that is not streamed *)

\* The texts of an answer, as build_response_from_interaction shows them.
texts(events) == SelectSeq(events, LAMBDA e : e.kind = "delta")

\* merge_interaction_responses: the steps of all the pieces under the last id;
\* a split system prompt shows only the last answer.
merge_interaction_responses(bodies) ==
    LET shown == IF SystemIsSplit THEN <<Last(bodies)>> ELSE bodies
        all == texts(events_in(FlattenSeq(shown)))
    IN <<[kind |-> "message", id |-> Last(ids),
          text |-> [k \in DOMAIN all |-> all[k].text]]>>

Finish ==
    /\ phase = "finish"
    /\ out' = IF req.stream THEN capture_and_translate_sse
              ELSE merge_interaction_responses(sse_buffer)
    /\ phase' = "done"
    /\ UNCHANGED <<req, plan, prev, sent, served, ids, answering>>

-----------------------------------------------------------------------------
Init ==
    /\ req \in Requests
    /\ phase = "begin" /\ plan = <<>> /\ prev = req.prev
    /\ sent = <<>> /\ served = <<>> /\ wire = <<>> /\ line_buf = <<>>
    /\ found = 0 /\ ids = <<>> /\ sse_buffer = <<>> /\ lost = {}
    /\ last_active = 0 /\ translating = FALSE /\ out = <<>>

handler ==
    \/ Begin \/ Send \/ SendFails
    \/ \E n \in ChunkSizes : StreamChunk(n) \/ PieceChunk(n)
    \/ StreamEnds \/ StreamBreaks \/ PieceEnds \/ ReadBody \/ Finish

Terminated == phase \in Ended /\ UNCHANGED vars

\* Every step goes on in the request, so that a state without a next one is
\* the only way not to end: the run checks that there is none.
Next == handler \/ ClientGone \/ Terminated

Spec == Init /\ [][Next]_vars

-----------------------------------------------------------------------------
(* Properties *)

Phase == {"begin", "send", "stream", "body", "finish"} \union Ended

\* Types, and the limits of both buffers while they are filled.
TypeOK ==
    /\ req \in Requests /\ phase \in Phase
    /\ Len(served) = piece /\ Len(sse_buffer) = piece /\ Len(ids) <= piece
    /\ prev = None \/ prev \in Nat
    /\ last_active \in {0, 1} /\ translating \in BOOLEAN
    /\ req.stream => buffered <= SseLimit
    /\ phase \in {"stream", "send"} => Len(line_buf) <= LineLimit

\* proxy_limit: no piece is larger than the limit, with the id it really
\* continues and after the prompt was cut.  Two kinds of piece are never
\* measured so: the first one of a chain that goes on, and one that continues
\* an id that is longer than the id of the first piece.
PiecesFitTheLimit ==
    IsSplit =>
        \A i \in DOMAIN sent :
            (IF i = 1 THEN req.prev = None ELSE sent[i].prev <= IdLength[1])
                => body_size(sent[i]) <= ProxyLimit

Inputs == FlattenSeq([i \in DOMAIN sent |-> sent[i].input])
SystemWords ==
    FlattenSeq([i \in DOMAIN sent |-> IF sent[i].system = None THEN <<>>
                                      ELSE sent[i].system])

\* What the pieces carry, one after the other, is the request: no content item
\* and no word of the prompt is lost, repeated or moved, and all of it is sent
\* before an answer is shown.
RequestArrivesInOrder ==
    LET system == drop_fields(build_request_body(req), req.drop).system
    IN /\ IsPrefix(Inputs, req.contents)
       /\ IsPrefix(SystemWords, IF system = None THEN <<>> ELSE system)
       /\ phase \in {"finish", "done"} =>
              /\ Inputs = req.contents
              /\ SystemWords = IF system = None THEN <<>> ELSE system

Created(events) == \E k \in DOMAIN events : events[k].kind = "created"
Completed(events) == \E k \in DOMAIN events : events[k].kind = "completed"
StepsStop(events) ==
    Len(SelectSeq(events, LAMBDA e : e.kind = "step_start"))
        = Len(SelectSeq(events, LAMBDA e : e.kind = "step_stop"))

Texts(events) ==
    LET t == texts(events) IN [k \in DOMAIN t |-> t[k].text]
Count(kind) == Len(SelectSeq(out, LAMBDA i : i.kind = kind))

\* The client reads every text of every answer, in order and once, wherever
\* the transport cut the bytes; while it streams, a beginning of them.  Of a
\* split system prompt that is not streamed nothing is claimed: the code answers
\* with the last answer alone, where protocol-conversion_delta.md wants all of
\* them merged.
AnswerIsWhole ==
    LET all == Texts(FlattenSeq(served))
        deltas == SelectSeq(out, LAMBDA i : i.kind = "block_delta")
        shown == [k \in DOMAIN deltas |-> deltas[k].text]
    IN IF req.stream
       THEN /\ IsPrefix(shown, all)
            /\ phase = "done" /\ (~req.openai \/ Created(served[1])) => shown = all
       ELSE phase = "done" /\ ~SystemIsSplit => out[1].text = all

\* However many answers there are, an Anthropic client sees one message: it
\* starts once and first, its blocks are closed, and it stops once, as the last
\* thing, if the last answer was completed.  An OpenAI client sees [DONE] once.
OneMessage ==
    LET at(i, kind) == out[i].kind = kind
    IN req.stream =>
        /\ Count("message_start") <= 1 /\ Count("[DONE]") <= 1
        /\ \A i \in DOMAIN out : at(i, "message_start") => i = 1
        /\ \A i \in DOMAIN out :
               at(i, "message_stop") /\ (phase = "done" => Completed(Last(served)))
                   => i = Len(out)
        /\ phase = "done" /\ Created(served[1]) =>
               IF req.openai THEN at(Len(out), "[DONE]")
               ELSE /\ at(1, "message_start")
                    /\ Completed(Last(served)) => at(Len(out), "message_stop")
                    /\ (\A i \in DOMAIN served :
                           StepsStop(served[i]) \/ (~IsSplit /\ Completed(served[i])))
                           => Count("block_start") = Count("block_stop")

\* The message carries the id of the last interaction, the one that is
\* published and can be continued, never that of a piece before it.
OnlyTheFinalId ==
    phase = "done" =>
        \A i \in DOMAIN out : out[i].kind \in {"message_start", "message"} =>
                                  out[i].id = piece

\* A piece whose stream names its interaction is recognised, however the bytes
\* were cut, unless a character was cut in the chunk that named it.
IdIsFound ==
    phase = "no_id" =>
        \/ ~Created(Last(served))
        \/ \E h \in lost : h.ev.kind = "created"

\* The handler's documentation (protocol-conversion.md:913): a request that can
\* be split, also one whose system prompt must be, is split and sent.
SplittableIsSent ==
    phase = "refused" =>
        ~can_split_under_limit(build_request_body(req), ProxyLimit)

=============================================================================
