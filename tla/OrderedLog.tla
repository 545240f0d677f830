----------------------------- MODULE OrderedLog -----------------------------
(***************************************************************************)
(* What an output of the diagnostics promises: the lines that can be read   *)
(* back are lines that were sent, in the order in which they were sent,     *)
(* each once, and the only lines that go away are the oldest.  Lines are    *)
(* numbered in the order of sending; a line may be missing, because the     *)
(* channel was full, the process died or the disk failed.                   *)
(***************************************************************************)
EXTENDS Naturals, Sequences

CONSTANT Line   \* a set of numbers

VARIABLES
    log,    \* the lines that can be read back
    last    \* the newest line that could ever be read back, 0 if there was none

vars == <<log, last>>

Increasing(s) == \A i, j \in 1..Len(s) : i < j => s[i] < s[j]

Init == log = <<>> /\ last = 0

\* Some newer lines become readable, in order.
Extend ==
    LET n == Len(log)
        new == SubSeq(log', n + 1, Len(log'))
    IN /\ n < Len(log')
       /\ SubSeq(log', 1, n) = log
       /\ Increasing(new) /\ \A i \in 1..Len(new) : new[i] \in Line
       /\ last < new[1]
       /\ last' = new[Len(new)]

\* The oldest lines are deleted.
Retire ==
    /\ \E n \in 1..Len(log) : log' = SubSeq(log, n + 1, Len(log))
    /\ UNCHANGED last

Next == Extend \/ Retire

Spec == Init /\ [][Next]_vars

=============================================================================
