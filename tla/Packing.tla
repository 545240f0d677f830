------------------------------ MODULE Packing ------------------------------
(***************************************************************************)
(* How a request that is too large for the service is cut into pieces       *)
(* (src/interactions.rs, the planning part of src/interactions_handler.rs). *)
(*                                                                         *)
(* A content item is its size.  A system prompt is a sequence of words:     *)
(* `size` is the size of the word, `sep` the rank of the delimiter after    *)
(* it.  A request body is a record of the fields whose size matters.        *)
(***************************************************************************)
EXTENDS Naturals, Sequences, FiniteSets, SequencesExt, FiniteSetsExt

CONSTANTS
    None,        \* a field that is not set
    BaseSize,    \* model and punctuation
    ToolsSize,   \* tools and generation_config
    SystemSize,  \* system_instruction, without its text
    PrevSize,    \* previous_interaction_id, without the id
    DelimSize,   \* DelimSize[d]: the delimiter of rank d, the coarsest first
    Placeholder  \* length of the id that stands for one not known yet

ASSUME PackingAssumption ==
    {BaseSize, ToolsSize, SystemSize, PrevSize, Placeholder} \subseteq Nat

Sum(s) == FoldLeft(LAMBDA a, b : a + b, 0, s)
NotAbove(a, b) == IF a < b THEN 0 ELSE a - b   \* saturating_sub

Ok(v) == [ok |-> TRUE, val |-> v]
Err == [ok |-> FALSE]

-----------------------------------------------------------------------------
(* Bodies *)

text_len(t) ==
    Sum([i \in DOMAIN t |-> t[i].size + IF i = Len(t) THEN 0 ELSE DelimSize[t[i].sep]])

\* The serialised size: `false` is a byte longer than `true`, items are
\* separated by commas.
body_size(b) ==
    BaseSize + (IF b.stream THEN 1 ELSE 2)
    + (IF b.tools THEN ToolsSize ELSE 0)
    + (IF b.system = None THEN 0 ELSE SystemSize + text_len(b.system))
    + (IF b.prev = None THEN 0 ELSE PrevSize + b.prev)
    + Sum(b.input) + NotAbove(Len(b.input), 1)

\* The configuration of an interaction goes with the first request only.
build_request_body(r) ==
    [input |-> r.contents, stream |-> r.stream, prev |-> r.prev,
     tools |-> r.tools /\ r.prev = None,
     system |-> IF r.prev = None THEN r.system ELSE None]

build_chunk_request(input, system, prev, stream) ==
    [input |-> input, stream |-> stream, prev |-> prev, tools |-> FALSE,
     system |-> system]

build_pack_body(envelope, input) == [envelope EXCEPT !.input = input]

\* drop_fields_from_value: the section may leave out fields.
drop_fields(b, drop) ==
    [b EXCEPT !.tools = @ /\ "tools" \notin drop,
              !.system = IF "system_instruction" \in drop THEN None ELSE @]

-----------------------------------------------------------------------------
(* Content *)

can_split_under_limit(b, limit) ==
    LET envelope == [b EXCEPT !.input = <<>>, !.system = None]
        fits(x) == body_size(x) <= limit
        words == IF b.system = None THEN {} ELSE ToSet(b.system)
    IN /\ body_size(envelope) < limit
       /\ \A i \in DOMAIN b.input : fits(build_pack_body(envelope, <<b.input[i]>>))
       /\ \/ b.system = None
          \/ fits([envelope EXCEPT !.system = b.system])
          \/ \A w \in words : fits([envelope EXCEPT !.system = <<w>>])

\* An item that opens a chunk must fit alone; it opens one when it does not
\* fit in the current chunk.
pack_content_into_chunks(first, subsequent, contents, limit) ==
    LET envelope(acc) == IF acc.chunks = <<>> THEN first ELSE subsequent
        size(acc, input) == body_size(build_pack_body(envelope(acc), input))
        opened(acc, c) ==
            [chunks |-> acc.chunks, current |-> <<c>>,
             ok |-> size(acc, <<c>>) <= limit]
        closed(acc) == [acc EXCEPT !.chunks = Append(@, acc.current)]
        add(acc, c) ==
            IF ~acc.ok THEN acc
            ELSE IF acc.current = <<>> THEN opened(acc, c)
            ELSE IF size(acc, Append(acc.current, c)) <= limit
                 THEN [acc EXCEPT !.current = Append(@, c)]
            ELSE opened(closed(acc), c)
        packed == FoldLeft(add, [chunks |-> <<>>, current |-> <<>>, ok |-> TRUE],
                           contents)
    IN IF ~packed.ok THEN Err
       ELSE Ok(IF packed.current = <<>> THEN packed.chunks ELSE closed(packed).chunks)

-----------------------------------------------------------------------------
(* System prompt *)

\* Mutant: the word after a delimiter is taken for a part of it.
parts_of_short(t, d) ==
    LET cuts == {i \in 1..(Len(t) - 1) : t[i].sep = d} \union {Len(t)}
        ends == SetToSortSeq(cuts, <)
    IN [k \in 1..Len(ends) |->
            SubSeq(t, IF k = 1 THEN 1 ELSE ends[k - 1] + 2, ends[k])]

\* text.split(delimiter): the words between the delimiters of rank d.
parts_of(t, d) ==
    LET cuts == {i \in 1..(Len(t) - 1) : t[i].sep = d} \union {Len(t)}
        ends == SetToSortSeq(cuts, <)
    IN [k \in 1..Len(ends) |->
            SubSeq(t, IF k = 1 THEN 1 ELSE ends[k - 1] + 1, ends[k])]

\* The parts between the delimiters of rank d are glued again as long as they
\* fit; one that does not fit is cut at finer delimiters, and its last piece
\* may be glued to what follows.
RECURSIVE split_by_best_delimiter(_, _, _)
split_by_best_delimiter(t, limit, d) ==
    LET finer(x) == split_by_best_delimiter(x, limit, d + 1)
        large(x) == text_len(x) > limit
        flushed(acc) ==
            IF acc.current = <<>> THEN acc.result
            ELSE IF large(acc.current) THEN acc.result \o finer(acc.current)
            ELSE Append(acc.result, acc.current)
        add(acc, part) ==
            IF ~large(acc.current \o part)
            THEN [acc EXCEPT !.current = @ \o part]
            ELSE IF ~large(part) THEN [result |-> flushed(acc), current |-> part]
            ELSE [result |-> flushed(acc) \o Front(finer(part)),
                  current |-> Last(finer(part))]
    IN IF d > Len(DelimSize) THEN <<t>>
       ELSE IF Len(parts_of(t, d)) = 1 THEN finer(t)
       ELSE flushed(FoldLeft(add, [result |-> <<>>, current |-> <<>>], parts_of(t, d)))

split_text_for_limit(t, limit, overhead) ==
    LET effective == NotAbove(limit, overhead)
        chunks == split_by_best_delimiter(t, effective, 1)
    IN IF effective = 0 THEN Err
       ELSE IF text_len(t) <= effective THEN Ok(<<t>>)
       ELSE IF \E i \in DOMAIN chunks : text_len(chunks[i]) > effective THEN Err
       ELSE Ok(chunks)

-----------------------------------------------------------------------------
(* Plans: the pieces, without the id each will continue *)

\* The parts of the system prompt, the first chunk with the last of them, then
\* the other chunks.
build_split_plans(sys_parts, chunks) ==
    LET n == Len(sys_parts)
        head == [i \in 1..n |->
                    [input |-> IF i = n /\ chunks # <<>> THEN chunks[1] ELSE <<>>,
                     system |-> sys_parts[i], tools |-> i = 1]]
        rest == [j \in 1..NotAbove(Len(chunks), 1) |->
                    [input |-> chunks[j + 1], system |-> None, tools |-> FALSE]]
    IN head \o rest

\* handle_split_send up to the loop over the chunks: the content is packed with
\* the whole system prompt in the first envelope, and only then is the prompt
\* split if the first envelope alone is too large.
split_plan(r, limit) ==
    LET b == build_request_body(r)
        first == [b EXCEPT !.input = <<>>, !.prev = None, !.stream = FALSE]
        subsequent == [build_chunk_request(<<>>, None, Placeholder, FALSE)
                           EXCEPT !.stream = FALSE]
        packed == pack_content_into_chunks(first, subsequent, b.input, limit)
        sys_limit == NotAbove(limit, body_size([first EXCEPT !.system = <<>>]))
        overhead == body_size(build_chunk_request(<<>>, <<>>, r.prev, r.stream))
        sys_parts == split_text_for_limit(b.system, sys_limit, overhead)
        piece(c, i) == [input |-> c, system |-> IF i = 1 THEN b.system ELSE None,
                        tools |-> i = 1 /\ b.tools]
    IN IF ~packed.ok THEN Err
       ELSE IF b.system = None \/ body_size(first) <= limit
            THEN Ok([i \in 1..Len(packed.val) |-> piece(packed.val[i], i)])
       ELSE IF ~sys_parts.ok THEN Err
       ELSE Ok(build_split_plans(sys_parts.val, packed.val))

=============================================================================
