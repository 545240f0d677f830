------------------------ MODULE LogicalInteractions ------------------------
(***************************************************************************)
(* What the proxy promises its clients about logical interactions, as long *)
(* as saves run to their end: one is published whole, in one step, under   *)
(* an id that was never used; it is never rewritten, it goes only when     *)
(* everything is removed, and then for good; a client is answered once,    *)
(* and only from one that a restart would find; and no interaction it is   *)
(* made of has been or will be cancelled or deleted while it lives.  How a *)
(* logical interaction comes about, in how many pieces and by whose        *)
(* request, does not show here.                                            *)
(***************************************************************************)

CONSTANTS
    Request,
    Id,
    NoId

VARIABLES
    nodes,      \* id -> what is known of the interaction: what can be replayed
    saved,      \* what a restart would find
    removed,    \* the ids of what was removed
    undone,     \* interactions of the service, cancelled or deleted
    told        \* the node each request was answered from

vars == <<nodes, saved, removed, undone, told>>

Nothing == [c \in {} |-> {}]

\* The interactions of the service that a node is made of.
Parts(node) == {node.upstream_ids[i] : i \in DOMAIN node.upstream_ids}

Init ==
    /\ nodes = Nothing /\ saved = Nothing
    /\ removed = {} /\ undone = {}
    /\ told = [r \in Request |-> NoId]

Answer(r, c) == told[r] = NoId /\ told' = [told EXCEPT ![r] = c]

\* c is new, whole, and all that is new.
Appears(c) ==
    /\ c \notin DOMAIN nodes \cup removed
    /\ DOMAIN nodes' = DOMAIN nodes \cup {c}
    /\ \A d \in DOMAIN nodes : nodes'[d] = nodes[d]
    /\ c \in Parts(nodes'[c])
    /\ Parts(nodes'[c]) \cap undone = {}

\* Who publishes may answer in the same step, if the node is on disk then.
Publish(c) ==
    /\ Appears(c)
    /\ \/ saved' \in {saved, nodes'} /\ UNCHANGED told
       \/ saved' = nodes' /\ \E r \in Request : Answer(r, c)
    /\ UNCHANGED <<removed, undone>>

Save ==
    /\ saved' = nodes
    /\ UNCHANGED <<nodes, removed, undone, told>>

\* An answer may come after its node was removed.
Tell(r, c) ==
    /\ c \in DOMAIN saved \cup removed
    /\ Answer(r, c)
    /\ UNCHANGED <<nodes, saved, removed, undone>>

Remove ==
    /\ nodes' = Nothing /\ saved' = Nothing
    /\ removed' = removed \cup DOMAIN nodes
    /\ UNCHANGED <<undone, told>>

Restart ==
    /\ nodes' = saved
    /\ UNCHANGED <<saved, removed, undone, told>>

Undo(id) ==
    /\ \A c \in DOMAIN nodes : id \notin Parts(nodes[c])
    /\ undone' = undone \cup {id}
    /\ UNCHANGED <<nodes, saved, removed, told>>

Next ==
    \/ \E c \in Id : Publish(c)
    \/ Save
    \/ \E r \in Request, c \in Id : Tell(r, c)
    \/ Remove
    \/ Restart
    \/ \E id \in Id : Undo(id)

Spec == Init /\ [][Next]_vars
=============================================================================
