---------------------------- MODULE Conversation ----------------------------
(***************************************************************************)
(* Requests answered one at a time: what find_frontier decides and what    *)
(* send_and_translate then stores, against the context that the upstream   *)
(* service has accumulated for each interaction.  A client may append to   *)
(* its history, repeat a request, rewrite its history or branch; any       *)
(* request of the set Requests may come at any time.  Concurrency,         *)
(* failures and split sends are in InteractionsHandler.                    *)
(***************************************************************************)
EXTENDS StoreV2

CONSTANTS
    Requests,   \* the requests clients send: [session, hashes, sys]
    MaxNow      \* bound: seconds of clock

ASSUME RequestsAssumption ==
    Requests \subseteq
        [session : Session, hashes : Seq(Hash) \ {<<>>},
         sys : Hash \cup {NoHash}]
ASSUME MaxNowAssumption == MaxNow \in Nat

VARIABLES
    store,      \* v2_store
    gemini,     \* the upstream service: id -> [prev, context, sys]
    now         \* unix_now()

vars == <<store, gemini, now>>

Interaction ==
    [prev : Id \cup {NoId}, context : Seq(Hash), sys : Hash \cup {NoHash}]

TypeOK ==
    /\ StoreOK(store)
    /\ IsMap(gemini, Id, Interaction)
    /\ now \in 0 .. MaxNow

-----------------------------------------------------------------------------

\* The search both ingress handlers make: no prev_id and no system hash.
frontier(r) == find_frontier(r.hashes, NoId, NoHash, store)

context_of(id) == IF id = NoId THEN <<>> ELSE gemini[id].context

\* The context the model answers in, given the frontier f: that of the
\* replayed interaction, or of the previous interaction followed by the
\* messages that are sent.
answer_context(r, f) ==
    IF f.all_known THEN context_of(f.matched_client_id)
    ELSE context_of(f.previous_interaction_id)
            \o SubSeq(r.hashes, f.index + 1, Len(r.hashes))

\* The system prompt travels with the first interaction of a chain only.
answer_system(r, f) ==
    IF f.all_known THEN gemini[f.matched_client_id].sys
    ELSE IF f.previous_interaction_id = NoId THEN r.sys
    ELSE gemini[f.previous_interaction_id].sys

-----------------------------------------------------------------------------

Init ==
    /\ store = NewStore
    /\ gemini = EmptyMap
    /\ now = 0

\* A request with something new: POST the new messages, store the nodes and
\* the session's last interaction.
Deliver(r) ==
    LET f    == frontier(r)
        prev == f.previous_interaction_id
        node(id) == [prev_id |-> prev,
                     message_hashes |-> r.hashes,
                     system_instruction_hash |->
                        IF prev = NoId THEN r.sys ELSE NoHash,
                     upstream_ids |-> <<id>>,
                     last_seen_utc |-> now]
    IN  /\ ~f.all_known
        /\ \E id \in Id \ DOMAIN gemini :
             /\ gemini' = Put(gemini, id,
                    [prev |-> prev, context |-> answer_context(r, f),
                     sys |-> answer_system(r, f)])
             /\ store' = set_last_interaction(
                    insert_client(insert_upstream(store, id, prev),
                                  id, node(id)),
                    r.session, id)
        /\ UNCHANGED now

\* A restart: the indexes are rebuilt in an arbitrary order.
Reload ==
    /\ store' \in load_from_disk(Document(store))
    /\ UNCHANGED <<gemini, now>>

Tick ==
    /\ now < MaxNow
    /\ now' = now + 1
    /\ UNCHANGED <<store, gemini>>

Next ==
    \/ \E r \in Requests : Deliver(r)
    \/ Reload
    \/ Tick

Spec == Init /\ [][Next]_vars

-----------------------------------------------------------------------------
(* Properties *)

IsSuffix(s, t) ==
    Len(s) <= Len(t) /\ s = SubSeq(t, Len(t) - Len(s) + 1, Len(t))

\* The upstream context of each stored node ends with the whole history that
\* the node's message_hashes claim was delivered.
HistoryIsUpstream ==
    \A c \in DOMAIN store.clients :
        IsSuffix(store.clients[c].message_hashes, gemini[c].context)

(* Whatever the order of appends, rewrites, branches and restarts, and
   however often a message comes again, the context in which the next request
   is answered, be it replayed or sent, contains each of its messages: the
   frontier never skips a message that was not delivered (find_frontier,
   session.rs). *)
NothingMissing ==
    \A r \in Requests :
        Messages(r.hashes) \subseteq Messages(answer_context(r, frontier(r)))

(* It contains them in the order of the request, as long as no stored history
   was delivered in another: then the walk along several nodes never puts
   together a history that the service has not seen in this order. *)
NothingLost ==
    HistoryIsUpstream =>
        \A r \in Requests :
            IsSubsequence(r.hashes, answer_context(r, frontier(r)))

(* session_delta.md, "If prefix ends at a client interaction boundary": the
   request continues the node whose last message is the last that was
   matched. *)
BoundaryIsContinued ==
    \A r \in Requests :
        LET f    == frontier(r)
            msgs == store.clients[f.previous_interaction_id].message_hashes
        IN  ~f.all_known /\ f.index > 0 => msgs[Len(msgs)] = r.hashes[f.index]

(* A client that has only appended: when every stored history that has a
   message in common with the request is an initial part of it, the request
   is answered in exactly its own history, each message delivered once. *)
LinearHistoryIsExact ==
    \A r \in Requests :
        (\A c \in DOMAIN store.clients :
            LET h == store.clients[c].message_hashes
            IN  SharesMessage(h, r.hashes) => IsInitial(h, r.hashes))
        => answer_context(r, frontier(r)) = r.hashes

(* The stored chain is the upstream chain: a node's prev_id and its upstream
   node's prev_id are the interaction the service continued from, and the
   system prompt of the node that begins the chain is the one its answers are
   given under. *)
ChainIsUpstreamChain ==
    \A c \in DOMAIN store.clients :
        LET node == store.clients[c]
        IN  /\ node.prev_id = gemini[c].prev
            /\ store.upstreams[c] = gemini[c].prev
            /\ gemini[c].sys = IF node.prev_id = NoId
                                 THEN node.system_instruction_hash
                               ELSE gemini[node.prev_id].sys

(* What makes ChainIsUpstreamChain inductive: the store knows no interaction
   the service does not have. *)
StoreIsKnown ==
    \A c \in DOMAIN store.clients :
        /\ c \in DOMAIN gemini /\ c \in DOMAIN store.upstreams
        /\ store.clients[c].prev_id \in DOMAIN gemini \cup {NoId}

(* session_delta.md, "All known": a replay happens for the client node whose
   hashes are the request's. *)
ReplayAnswersRequest ==
    \A r \in Requests :
        LET f == frontier(r)
        IN  f.all_known =>
              store.clients[f.matched_client_id].message_hashes = r.hashes
=============================================================================
