----------------------- MODULE MCInteractionsHandler -----------------------
(* Instances of InteractionsHandler for TLC. *)
EXTENDS InteractionsHandler, TLC

Query(kind, session, hashes, stream) ==
    [session |-> session, kind |-> kind, hashes |-> hashes, sys |-> 3,
     stream |-> stream, parts |-> 2]
Control(kind, session) ==
    [session |-> session, kind |-> kind, hashes |-> <<>>, sys |-> NoHash,
     stream |-> FALSE, parts |-> 1]

\* Twice the same split request, and what follows it.
SplitAsk ==
    ("a" :> Query("split", "s1", <<1, 2>>, FALSE)) @@
    ("b" :> Query("split", "s1", <<1, 2>>, TRUE)) @@
    ("c" :> Query("send", "s1", <<1, 2, 3>>, FALSE))

SplitFaults == ("client" :> 0) @@ ("crash" :> 1) @@ ("upstream" :> 1)

\* A split system prompt, a streamed message that follows it in a session of
\* its own, and both control actions.
CleanAsk ==
    ("a" :> Query("split_system", "s1", <<1>>, TRUE)) @@
    ("b" :> Query("send", "s2", <<1, 2>>, TRUE)) @@
    ("x" :> Control("clean_all", "s1")) @@
    ("e" :> Control("extend_lifetime", "s2"))

CleanFaults == ("client" :> 1) @@ ("crash" :> 1) @@ ("upstream" :> 1)

\* Twice the same split request.
TwinAsk == [r \in {"a", "b"} |-> SplitAsk[r]]

\* Two different split requests of one session.
CollideAsk ==
    ("a" :> Query("split", "s1", <<1, 2>>, FALSE)) @@
    ("b" :> Query("split", "s1", <<1, 3>>, FALSE))

TwinFaults == ("client" :> 1) @@ ("crash" :> 1) @@ ("upstream" :> 1)
NoFaults == ("client" :> 0) @@ ("crash" :> 0) @@ ("upstream" :> 0)
=============================================================================
