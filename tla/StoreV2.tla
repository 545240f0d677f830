------------------------------ MODULE StoreV2 ------------------------------
(***************************************************************************)
(* The session store of src/src/session.rs: every method of                *)
(* InteractionStore and StoreV2 as an operator from store to store, and    *)
(* the frontier search.  A store is the record                             *)
(*                                                                         *)
(*   clients         id -> ClientInteractionNode                           *)
(*   upstreams       id -> prev_id of the UpstreamInteractionNode          *)
(*   prev_to_client  id -> the child inserted last (derived index)         *)
(*   sessions        session -> last_interaction_id                        *)
(*   in_flight       batch id -> InFlightBatch                             *)
(*                                                                         *)
(* Left out, because no decision reads them: upstream_to_clients, the      *)
(* expiry times, the time stamps of sessions, batches and upstream nodes,  *)
(* and the bodies of the pieces.  hash_index is always the inverse of      *)
(* clients and is derived where it is read (lookup_hash).  Positions count *)
(* from 1, where the code counts from 0.                                   *)
(***************************************************************************)
EXTENDS Naturals, Sequences, FiniteSets

CONSTANTS
    Id,             \* upstream interaction ids; their order is the tie-break
    Session,        \* client session ids
    Hash,           \* xxh3 hashes of harness messages and system prompts
    NoId, NoHash,   \* Option::None
    TomlIntegerMax  \* the largest integer a TOML document can hold

ASSUME IdAssumption == Id \subseteq Nat /\ NoId \notin Id
ASSUME HashAssumption ==
    Hash \subseteq Nat /\ NoHash \notin Hash /\ NoHash \in Nat
ASSUME TomlAssumption == TomlIntegerMax \in Nat

PieceStatus == {"Pending", "ResponseStarted", "Sent", "Acked", "Failed"}

\* Sent and Acked carry the id of the interaction, the others none.
Piece ==
    [status : {"Sent", "Acked"}, interaction_id : Id]
    \cup [status : PieceStatus \ {"Sent", "Acked"}, interaction_id : {NoId}]

ClientInteractionNode ==
    [prev_id                 : Id \cup {NoId},
     message_hashes          : Seq(Hash),
     system_instruction_hash : Hash \cup {NoHash},
     upstream_ids            : Seq(Id),
     last_seen_utc           : Nat]

\* handle_split_send names a batch "batch-{session}-{unix seconds}".
BatchId == Session \X Nat

InFlightBatch ==
    [session_id              : Session,
     prev_interaction_id     : Id \cup {NoId},
     message_hashes          : Seq(Hash),
     system_instruction_hash : Hash \cup {NoHash},
     pieces                  : Seq(Piece) \ {<<>>}]

\* f is a function from some of the keys K to values V: a HashMap<K, V>.
IsMap(f, K, V) == DOMAIN f \subseteq K /\ f \in [DOMAIN f -> V]

Put(f, k, v) == [x \in DOMAIN f \cup {k} |-> IF x = k THEN v ELSE f[x]]
Without(f, K) == [x \in DOMAIN f \ K |-> f[x]]
EmptyMap == [x \in {} |-> {}]

\* Histories: the messages of one, whether two have one in common, whether s
\* is how t begins, and whether it can be obtained from t by leaving elements
\* out.
Messages(s) == {s[i] : i \in DOMAIN s}

SharesMessage(s, t) == Messages(s) \cap Messages(t) # {}

IsInitial(s, t) == Len(s) <= Len(t) /\ s = SubSeq(t, 1, Len(s))

IsSubsequence(s, t) ==
    \E f \in [DOMAIN s -> DOMAIN t] :
        /\ \A i, j \in DOMAIN s : i < j => f[i] < f[j]
        /\ \A i \in DOMAIN s : s[i] = t[f[i]]

StoreOK(s) ==
    /\ s = [clients |-> s.clients, upstreams |-> s.upstreams,
            prev_to_client |-> s.prev_to_client,
            sessions |-> s.sessions, in_flight |-> s.in_flight]
    /\ IsMap(s.clients, Id, ClientInteractionNode)
    /\ IsMap(s.upstreams, Id, Id \cup {NoId})
    /\ IsMap(s.prev_to_client, Id, Id)
    /\ IsMap(s.sessions, Session, Id \cup {NoId})
    /\ IsMap(s.in_flight, BatchId, InFlightBatch)

NewStore ==
    [clients |-> EmptyMap, upstreams |-> EmptyMap,
     prev_to_client |-> EmptyMap, sessions |-> EmptyMap,
     in_flight |-> EmptyMap]

-----------------------------------------------------------------------------
(* InteractionStore *)

\* Mutant: an upstream node that is a new root.
insert_upstream_unlinked(s, id, prev_id) ==
    [s EXCEPT !.upstreams = Put(@, id, NoId)]

insert_upstream(s, id, prev_id) ==
    [s EXCEPT !.upstreams = Put(@, id, prev_id)]

\* Mutant: roots are indexed as children of "no parent".
insert_client_roots_indexed(s, id, node) ==
    [s EXCEPT !.clients = Put(@, id, node),
              !.prev_to_client = Put(@, node.prev_id, id)]

\* Mutant: a node takes its parent's place.
insert_client_tip_only(s, id, node) ==
    [s EXCEPT !.clients = Put(Without(@, {node.prev_id}), id, node),
              !.prev_to_client = IF node.prev_id = NoId THEN @
                                 ELSE Put(@, node.prev_id, id)]

\* The child inserted last takes its parent's slot in prev_to_client.
insert_client(s, id, node) ==
    [s EXCEPT
        !.clients = Put(@, id, node),
        !.prev_to_client = IF node.prev_id = NoId THEN @
                           ELSE Put(@, node.prev_id, id)]

set_last_interaction(s, session, id) ==
    [s EXCEPT !.sessions = Put(@, session, id)]

lookup_hash(h, s) ==
    UNION {{[client_id |-> c, message_index |-> i] :
              i \in {j \in DOMAIN s.clients[c].message_hashes :
                        s.clients[c].message_hashes[j] = h}} :
            c \in DOMAIN s.clients}

-----------------------------------------------------------------------------
(* The frontier search *)

parent(c, s) ==
    IF s.clients[c].prev_id \in DOMAIN s.clients
      THEN s.clients[c].prev_id ELSE NoId

\* The chain above c, nearest first: ancestor(c, s)[n] is n links up, and
\* stays at the root.  A chain is never longer than the number of nodes.
ancestor(c, s) ==
    LET up[n \in 0 .. Cardinality(DOMAIN s.clients)] ==
          IF n = 0 THEN c
          ELSE IF parent(up[n - 1], s) = NoId THEN up[n - 1]
          ELSE parent(up[n - 1], s)
    IN  up

find_chain_root(c, s) == ancestor(c, s)[Cardinality(DOMAIN s.clients)]

has_next_in_chain(c, s) ==
    c \in DOMAIN s.prev_to_client /\ s.prev_to_client[c] \in DOMAIN s.clients

\* Mutant: a message that does not match is skipped.
advance_over_gaps(w, h, s) ==
    LET msgs == s.clients[w.client].message_hashes
    IN  IF w.expected \in DOMAIN msgs
          THEN [w EXCEPT !.prefix_len = @ + 1, !.expected = @ + 1] ELSE w

\* Walk forward from one position, a message of the request at a time.  On
\* reaching the end of a node the walk moves on to the node's child, before
\* it looks at the next message.
advance(w, h, s) ==
    LET msgs == s.clients[w.client].message_hashes
    IN  IF w.stop \/ w.expected > Len(msgs) \/ msgs[w.expected] # h
          THEN [w EXCEPT !.stop = TRUE]
        ELSE IF w.expected < Len(msgs)
          THEN [w EXCEPT !.prefix_len = @ + 1, !.expected = @ + 1]
        ELSE IF has_next_in_chain(w.client, s)
          THEN [w EXCEPT !.prefix_len = @ + 1, !.expected = 1,
                         !.client = s.prev_to_client[w.client]]
        ELSE [w EXCEPT !.prefix_len = @ + 1, !.stop = TRUE]

\* The positions a walk starts from: those of the first message, in a chain
\* whose root has the incoming system prompt, if one is given.
start_positions(hashes, sys, s) ==
    {p \in lookup_hash(hashes[1], s) :
        \/ sys = NoHash
        \/ s.clients[find_chain_root(p.client_id, s)]
              .system_instruction_hash = sys}

\* All the walks, after the last message.
walk_forward(hashes, sys, s) ==
    LET walks[i \in 0 .. Len(hashes)] ==
          IF i = 0
            THEN {[prefix_len |-> 0, client |-> p.client_id,
                   expected |-> p.message_index, stop |-> FALSE] :
                    p \in start_positions(hashes, sys, s)}
            ELSE {advance(w, hashes[i], s) : w \in walks[i - 1]}
    IN  walks[Len(hashes)]

\* Where they lead: the length of the prefix, and the node stood on at the end.
Prefixes(hashes, sys, s) ==
    {m \in [prefix_len : 1 .. Len(hashes), client : DOMAIN s.clients] :
        \E w \in walk_forward(hashes, sys, s) :
            m = [prefix_len |-> w.prefix_len, client |-> w.client]}

\* Mutant: the newest node, whatever its prefix.
Better_newest(m, n, s) ==
    LET seen(x) == s.clients[x.client].last_seen_utc
    IN  seen(m) > seen(n) \/ (seen(m) = seen(n) /\ m.client <= n.client)

\* Longest prefix, then newest node, then smallest id.
Better(m, n, s) ==
    LET seen(x) == s.clients[x.client].last_seen_utc
    IN  \/ m.prefix_len > n.prefix_len
        \/ /\ m.prefix_len = n.prefix_len
           /\ \/ seen(m) > seen(n)
              \/ seen(m) = seen(n) /\ m.client <= n.client

best_prefixes(ms, s) == {m \in ms : \A n \in ms : Better(m, n, s)}

\* The nearest node at or above c that holds message h, or c itself.
containing_client(c, h, s) ==
    LET holds(n) ==
          \E i \in DOMAIN s.clients[ancestor(c, s)[n]].message_hashes :
              s.clients[ancestor(c, s)[n]].message_hashes[i] = h
        levels == {n \in DOMAIN ancestor(c, s) : holds(n)}
    IN  IF levels = {} THEN c
        ELSE ancestor(c, s)[CHOOSE n \in levels : \A k \in levels : n <= k]

ended_at_client_boundary(hashes, m, s) ==
    LET last == hashes[m.prefix_len]
        msgs == s.clients[containing_client(m.client, last, s)].message_hashes
    IN  msgs # <<>> /\ msgs[Len(msgs)] = last

NoFrontier(prev) ==
    [index |-> 0, previous_interaction_id |-> prev,
     all_known |-> FALSE, matched_client_id |-> NoId]

\* Mutant: one message too far.
frontier_at_skips(hashes, incoming_prev, m, s) ==
    LET prev == s.clients[m.client].prev_id
    IN  IF m.prefix_len = Len(hashes) /\ incoming_prev \in {NoId, prev}
          THEN [index |-> m.prefix_len, previous_interaction_id |-> prev,
                all_known |-> TRUE, matched_client_id |-> m.client]
        ELSE IF ended_at_client_boundary(hashes, m, s)
          THEN [NoFrontier(m.client) EXCEPT !.index = m.prefix_len + 1]
        ELSE NoFrontier(prev)

\* The frontier at the best prefix m.
frontier_at(hashes, incoming_prev, m, s) ==
    LET prev == s.clients[m.client].prev_id
    IN  IF m.prefix_len = Len(hashes) /\ incoming_prev \in {NoId, prev}
          THEN [index |-> m.prefix_len, previous_interaction_id |-> prev,
                all_known |-> TRUE, matched_client_id |-> m.client]
        ELSE IF ended_at_client_boundary(hashes, m, s)
          THEN [NoFrontier(m.client) EXCEPT !.index = m.prefix_len]
        ELSE NoFrontier(prev)

\* There is one best prefix, or none.
find_frontier(hashes, incoming_prev, sys, s) ==
    IF hashes = <<>> THEN NoFrontier(incoming_prev)
    ELSE
      LET best  == best_prefixes(Prefixes(hashes, sys, s), s)
          found == {frontier_at(hashes, incoming_prev, m, s) : m \in best}
      IN  IF found = {} THEN NoFrontier(NoId) ELSE CHOOSE f \in found : TRUE

Frontier ==
    [index : Nat, previous_interaction_id : Id \cup {NoId},
     all_known : BOOLEAN, matched_client_id : Id \cup {NoId}]

-----------------------------------------------------------------------------
(* In-flight batches *)

batch_matches(b, session, prev, hashes, sys) ==
    /\ b.session_id = session
    /\ b.prev_interaction_id = prev
    /\ b.message_hashes = hashes
    /\ b.system_instruction_hash = sys

\* All the batches find_matching_batch may return: it takes the first one in
\* HashMap order, whatever the status of its pieces.
find_matching_batch(s, session, prev, hashes, sys) ==
    {b \in DOMAIN s.in_flight :
        batch_matches(s.in_flight[b], session, prev, hashes, sys)}

\* HashMap::insert: a batch with the same id is replaced.
create_batch(s, b, prev, hashes, sys, n) ==
    [s EXCEPT !.in_flight = Put(@, b,
        [session_id |-> b[1], prev_interaction_id |-> prev,
         message_hashes |-> hashes, system_instruction_hash |-> sys,
         pieces |-> [i \in 1 .. n |->
                       [status |-> "Pending", interaction_id |-> NoId]]])]

has_piece(s, b, i) ==
    b \in DOMAIN s.in_flight /\ i \in DOMAIN s.in_flight[b].pieces

\* Move piece i of batch b to the given status if it is in one of the
\* statuses from; otherwise the method returns Err and changes nothing.
move_piece(s, b, i, from, status, id) ==
    IF has_piece(s, b, i) /\ s.in_flight[b].pieces[i].status \in from
      THEN [s EXCEPT !.in_flight[b].pieces[i] =
                       [status |-> status, interaction_id |-> id]]
      ELSE s

mark_response_started(s, b, i) ==
    move_piece(s, b, i, {"Pending"}, "ResponseStarted", NoId)
mark_sent(s, b, i, id) ==
    move_piece(s, b, i, {"ResponseStarted"}, "Sent", id)
ack_piece(s, b, i, id) ==
    move_piece(s, b, i, {"Sent", "ResponseStarted"}, "Acked", id)

IsAcked(piece) == piece.status = "Acked"

batch_is_complete(s, b) ==
    /\ b \in DOMAIN s.in_flight
    /\ \A i \in DOMAIN s.in_flight[b].pieces :
           IsAcked(s.in_flight[b].pieces[i])

batch_ids(batch) ==
    [i \in 1 .. Len(batch.pieces) |-> batch.pieces[i].interaction_id]

\* The pieces before the first one that is not Acked.
acked_prefix(batch) ==
    {i \in DOMAIN batch.pieces : \A j \in 1 .. i : IsAcked(batch.pieces[j])}

\* Mutant: every piece is linked to what the batch continues.
chain_of_siblings(batch, I) ==
    [id \in {batch_ids(batch)[i] : i \in I} |-> batch.prev_interaction_id]

\* The upstream nodes of the pieces I of a batch, each one's prev_id the id
\* of the piece before it.
chain_of(batch, I) ==
    LET ids == batch_ids(batch)
    IN  [id \in {ids[i] : i \in I} |->
           LET i == CHOOSE k \in I : ids[k] = id
           IN  IF i = 1 THEN batch.prev_interaction_id ELSE ids[i - 1]]

insert_upstreams(s, new) ==
    [s EXCEPT !.upstreams =
        [id \in DOMAIN @ \cup DOMAIN new |->
            IF id \in DOMAIN new THEN new[id] ELSE @[id]]]

\* Mutant: the batch stays in flight.
complete_batch_kept(s, b, now) ==
    LET batch == s.in_flight[b]
        ids   == batch_ids(batch)
        node  == [prev_id |-> batch.prev_interaction_id,
                  message_hashes |-> batch.message_hashes,
                  system_instruction_hash |-> batch.system_instruction_hash,
                  upstream_ids |-> ids,
                  last_seen_utc |-> now]
    IN  IF ~batch_is_complete(s, b) THEN s
        ELSE insert_client(
               insert_upstreams(s, chain_of(batch, DOMAIN batch.pieces)),
               ids[Len(ids)], node)

\* The batch is removed first; a piece that is not Acked then makes the
\* method return Err, after the upstream nodes of the pieces before it are in.
complete_batch(s, b, now) ==
    LET batch   == s.in_flight[b]
        removed == insert_upstreams(
                     [s EXCEPT !.in_flight = Without(@, {b})],
                     chain_of(batch, acked_prefix(batch)))
        ids     == batch_ids(batch)
        id      == ids[Len(ids)]
        node    == [prev_id |-> batch.prev_interaction_id,
                    message_hashes |-> batch.message_hashes,
                    system_instruction_hash |-> batch.system_instruction_hash,
                    upstream_ids |-> ids,
                    last_seen_utc |-> now]
        done    == insert_client(removed, id, node)
    IN  IF ~batch_is_complete(s, b) THEN removed
        ELSE IF batch.session_id \in DOMAIN s.sessions
          THEN set_last_interaction(done, batch.session_id, id)
        ELSE done

acked_ids(batch) ==
    {batch.pieces[i].interaction_id :
        i \in {j \in DOMAIN batch.pieces : IsAcked(batch.pieces[j])}}

\* Acked pieces keep their status, every other piece becomes Failed, and the
\* batch stays where it is.
fail_batch(s, b) ==
    IF b \notin DOMAIN s.in_flight THEN s
    ELSE [s EXCEPT
            !.upstreams = Without(@, acked_ids(s.in_flight[b])),
            !.in_flight[b].pieces =
                [i \in DOMAIN @ |->
                    IF IsAcked(@[i]) THEN @[i]
                    ELSE [status |-> "Failed", interaction_id |-> NoId]]]

\* Mutant: the client nodes are forgotten.
clean_all_but_clients(s) ==
    [NewStore EXCEPT !.prev_to_client = s.prev_to_client,
                     !.clients = s.clients]

\* Mutant: the batches in flight go on.
clean_all_but_batches(s) ==
    [NewStore EXCEPT !.prev_to_client = s.prev_to_client,
                     !.in_flight = s.in_flight]

\* prev_to_client is not cleared.
clean_all(s) == [NewStore EXCEPT !.prev_to_client = s.prev_to_client]

discard_all_inflight(s) == [s EXCEPT !.in_flight = EmptyMap]

extend_lifetime(s, session, now) ==
    IF session \in DOMAIN s.sessions
       /\ s.sessions[session] \in DOMAIN s.clients
      THEN [s EXCEPT !.clients[s.sessions[session]].last_seen_utc = now]
      ELSE s

all_upstream_ids(s) ==
    DOMAIN s.upstreams
        \cup UNION {acked_ids(s.in_flight[b]) : b \in DOMAIN s.in_flight}

-----------------------------------------------------------------------------
(* Persistence *)

\* What a document holds: everything but the derived index.
Document(s) ==
    [clients |-> s.clients, upstreams |-> s.upstreams,
     sessions |-> s.sessions, in_flight |-> s.in_flight]

DocumentOK(d) ==
    /\ d = [clients |-> d.clients, upstreams |-> d.upstreams,
            sessions |-> d.sessions, in_flight |-> d.in_flight]
    /\ IsMap(d.clients, Id, ClientInteractionNode)
    /\ IsMap(d.upstreams, Id, Id \cup {NoId})
    /\ IsMap(d.sessions, Session, Id \cup {NoId})
    /\ IsMap(d.in_flight, BatchId, InFlightBatch)

\* The hashes are u64 and a TOML integer is an i64: one larger hash anywhere
\* in the store and toml::to_string returns an error.
Encodable(s) ==
    LET fits(x) ==
          /\ x.system_instruction_hash # NoHash =>
                 x.system_instruction_hash <= TomlIntegerMax
          /\ \A i \in DOMAIN x.message_hashes :
                 x.message_hashes[i] <= TomlIntegerMax
    IN  /\ \A c \in DOMAIN s.clients : fits(s.clients[c])
        /\ \A b \in DOMAIN s.in_flight : fits(s.in_flight[b])

\* The stores load_from_disk may build from a document: the clients are
\* indexed in HashMap order, so any child may end up in its parent's slot.
load_from_disk(doc) ==
    LET parents == {doc.clients[c].prev_id : c \in DOMAIN doc.clients} \ {NoId}
    IN  {[clients |-> doc.clients, upstreams |-> doc.upstreams,
          prev_to_client |-> index,
          sessions |-> doc.sessions, in_flight |-> doc.in_flight] :
            index \in {f \in [parents -> DOMAIN doc.clients] :
                         \A p \in parents : doc.clients[f[p]].prev_id = p}}
=============================================================================
