--------------------------- MODULE MCConversation ---------------------------
(* Instances of Conversation for TLC. *)
EXTENDS Conversation

\* Histories over messages with a fixed order in time: appends, deletions,
\* branches and restarts from a later message, but never two histories that
\* hold the same two messages in opposite orders.
MCHistories ==
    {<<1>>, <<2>>, <<1, 2>>, <<1, 3>>, <<2, 3>>, <<2, 4>>, <<1, 2, 3>>}

\* Two system prompts.
MCRequests ==
    {[session |-> s, hashes |-> h, sys |-> IF Len(h) = 2 THEN 2 ELSE 3] :
        s \in Session, h \in MCHistories}
=============================================================================
