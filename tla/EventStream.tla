---------------------------- MODULE EventStream ----------------------------
(***************************************************************************)
(* Server-sent events as bytes.  The transport cuts the bytes of a stream   *)
(* anywhere.  An event is two halves here, which is enough to cut it: the   *)
(* second one ends with the line break that completes the event.  A `wide`  *)
(* event has a character of several bytes where the halves meet.            *)
(***************************************************************************)
EXTENDS Naturals, Sequences, FiniteSets, SequencesExt, FiniteSetsExt

halves(events) ==
    [i \in 1..(2 * Len(events)) |->
        [ev |-> events[(i + 1) \div 2], half |-> IF i % 2 = 1 THEN 1 ELSE 2]]

is_utf8(bytes) ==
    /\ ~(Head(bytes).ev.wide /\ Head(bytes).half = 2)
    /\ ~(Last(bytes).ev.wide /\ Last(bytes).half = 1)

\* The events in a text that are complete and that nothing is missing from.
events_in(text) ==
    LET begins(k) == IF k = 1 THEN TRUE ELSE text[k - 1].half = 2
        whole(k) == /\ text[k].half = 1 /\ begins(k) /\ k < Len(text)
                    /\ text[k + 1] = [ev |-> text[k].ev, half |-> 2]
    IN FlattenSeq([k \in DOMAIN text |-> IF whole(k) THEN <<text[k].ev>> ELSE <<>>])

\* What is left of a text once its events are taken (mutant: nothing).
rest_of_dropped(text) == <<>>

rest_of(text) ==
    LET ends == {k \in DOMAIN text : text[k].half = 2}
    IN SubSeq(text, Max(ends \union {0}) + 1, Len(text))

=============================================================================
