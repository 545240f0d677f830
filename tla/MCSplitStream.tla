--------------------------- MODULE MCSplitStream ---------------------------
(***************************************************************************)
(* Instances of SplitStream.  Sizes are in tens of bytes.                   *)
(***************************************************************************)
EXTENDS SplitStream

Event(kind) == [kind |-> kind, wide |-> kind = "delta"]
Events(kinds) == [k \in DOMAIN kinds |-> Event(kinds[k])]

MCShapes ==
    {Events(s) : s \in
        {<<"created", "step_start", "delta", "step_stop", "completed">>,
         <<"created", "step_start", "delta", "completed">>,
         <<"created", "step_start", "delta">>,
         <<"status", "created", "error">>,
         <<"status", "delta">>}}

Word(size, sep) == [size |-> size, sep |-> sep]
Short == <<Word(4, 2), Word(3, 1)>>
Long == <<Word(5, 2), Word(4, 1), Word(5, 2), Word(6, 1)>>
LongWord == <<Word(5, 1), Word(30, 1)>>

Request(contents, system, tools, p, stream, openai, drop) ==
    [contents |-> contents, system |-> system, tools |-> tools, prev |-> p,
     stream |-> stream, openai |-> openai, drop |-> drop]

\* Content split in two, with the prompt in the first piece; a continued chain;
\* a prompt that is split; requests that fit, are refused, or fit only once
\* their tools are dropped.
MCRequests ==
    {Request(<<5, 6>>, Short, TRUE, None, TRUE, FALSE, {}),
     Request(<<5, 6>>, Short, TRUE, None, TRUE, FALSE, {"tools"}),
     Request(<<5, 6>>, Short, TRUE, None, TRUE, TRUE, {"tools"}),
     Request(<<5, 6, 4, 9>>, Short, FALSE, None, TRUE, TRUE, {}),
     Request(<<9, 9, 7>>, None, FALSE, 4, TRUE, FALSE, {}),
     Request(<<9, 9, 7>>, None, FALSE, 4, TRUE, TRUE, {}),
     Request(<<9, 9, 7>>, None, FALSE, 4, FALSE, FALSE, {}),
     Request(<<9, 9, 15>>, None, FALSE, 4, TRUE, FALSE, {}),
     Request(<<9, 12, 2>>, Short, TRUE, None, TRUE, FALSE, {}),
     Request(<<>>, Long, FALSE, None, TRUE, FALSE, {}),
     Request(<<>>, Long, FALSE, None, FALSE, TRUE, {}),
     Request(<<>>, LongWord, FALSE, None, TRUE, FALSE, {}),
     Request(<<3>>, Long, FALSE, None, TRUE, FALSE, {})}

MCDelimSize == <<2, 1>>
MCIdLength == <<6, 4, 7, 4>>

=============================================================================
