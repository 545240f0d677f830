--------------------------- MODULE StoreV2Proofs ---------------------------
(***************************************************************************)
(* Lemmas about the operators of StoreV2, for every store:                 *)
(*                                                                         *)
(*   - each method of the store leaves a store of the right type, and the  *)
(*     frontier search returns a frontier that only names interactions the *)
(*     store knows;                                                        *)
(*   - what the walks of the frontier search find: all they have matched   *)
(*     was delivered (MatchedIsKnown), and where the stored histories are  *)
(*     initial parts of one another they find the longest of them          *)
(*     (AppendedFrontier).                                                 *)
(*                                                                         *)
(* The walks are defined by recursion over the request.  Walks and         *)
(* WalkFrom are the inductions they need: Good is a set of pairs <<i, w>>, *)
(* what holds of the walk w after i messages.                              *)
(***************************************************************************)
EXTENDS StoreV2, SequenceTheorems, FiniteSetTheorems,
        WellFoundedInduction, TLAPS

\* A map with one entry more, or without some, is a map.
LEMMA PutIsMap ==
    ASSUME NEW K, NEW V, NEW f, IsMap(f, K, V), NEW k \in K, NEW v \in V
    PROVE  IsMap(Put(f, k, v), K, V)
BY DEF IsMap, Put

LEMMA WithoutIsMap ==
    ASSUME NEW K, NEW V, NEW f, IsMap(f, K, V), NEW S
    PROVE  IsMap(Without(f, S), K, V)
BY DEF IsMap, Without

LEMMA EmptyIsMap ==
    ASSUME NEW K, NEW V
    PROVE  IsMap(EmptyMap, K, V)
BY DEF IsMap, EmptyMap

LEMMA NewStoreOK == StoreOK(NewStore)
BY EmptyIsMap DEF StoreOK, NewStore

LEMMA insert_upstream_OK ==
    ASSUME NEW s, StoreOK(s), NEW id \in Id, NEW prev \in Id \cup {NoId}
    PROVE  StoreOK(insert_upstream(s, id, prev))
<1> DEFINE t == insert_upstream(s, id, prev)
<1>1. IsMap(Put(s.upstreams, id, prev), Id, Id \cup {NoId})
  BY PutIsMap DEF StoreOK
<1>2. t = [s EXCEPT !.upstreams = Put(s.upstreams, id, prev)]
  BY DEF insert_upstream
<1> QED
  BY <1>1, <1>2 DEF StoreOK

LEMMA insert_client_OK ==
    ASSUME NEW s, StoreOK(s), NEW id \in Id, NEW node \in ClientInteractionNode
    PROVE  StoreOK(insert_client(s, id, node))
<1> DEFINE children == IF node.prev_id = NoId THEN s.prev_to_client
                       ELSE Put(s.prev_to_client, node.prev_id, id)
<1>1. IsMap(Put(s.clients, id, node), Id, ClientInteractionNode)
  BY PutIsMap DEF StoreOK
<1>2. IsMap(children, Id, Id)
  BY PutIsMap DEF StoreOK, ClientInteractionNode
<1>3. insert_client(s, id, node) =
        [s EXCEPT !.clients = Put(s.clients, id, node),
                  !.prev_to_client = children]
  BY DEF insert_client
<1> HIDE DEF children
<1> QED
  BY <1>1, <1>2, <1>3 DEF StoreOK

LEMMA set_last_interaction_OK ==
    ASSUME NEW s, StoreOK(s), NEW x \in Session, NEW id \in Id
    PROVE  StoreOK(set_last_interaction(s, x, id))
<1>1. IsMap(Put(s.sessions, x, id), Session, Id \cup {NoId})
  BY PutIsMap DEF StoreOK
<1>2. set_last_interaction(s, x, id) =
        [s EXCEPT !.sessions = Put(s.sessions, x, id)]
  BY DEF set_last_interaction
<1> QED
  BY <1>1, <1>2 DEF StoreOK

LEMMA in_flight_OK ==
    ASSUME NEW s, StoreOK(s), NEW f, IsMap(f, BatchId, InFlightBatch)
    PROVE  StoreOK([s EXCEPT !.in_flight = f])
BY DEF StoreOK

LEMMA create_batch_OK ==
    ASSUME NEW s, StoreOK(s), NEW b \in BatchId,
           NEW prev \in Id \cup {NoId}, NEW hashes \in Seq(Hash),
           NEW sys \in Hash \cup {NoHash}, NEW n \in Nat \ {0}
    PROVE  StoreOK(create_batch(s, b, prev, hashes, sys, n))
<1> DEFINE pieces == [i \in 1 .. n |->
                        [status |-> "Pending", interaction_id |-> NoId]]
           batch == [session_id |-> b[1], prev_interaction_id |-> prev,
                     message_hashes |-> hashes,
                     system_instruction_hash |-> sys, pieces |-> pieces]
<1>1. pieces \in Seq(Piece) \ {<<>>}
  BY DEF Piece, PieceStatus
<1>2. batch \in InFlightBatch
  BY <1>1 DEF InFlightBatch, BatchId
<1>3. create_batch(s, b, prev, hashes, sys, n) =
        [s EXCEPT !.in_flight = Put(s.in_flight, b, batch)]
  BY DEF create_batch
<1> HIDE DEF batch
<1>4. IsMap(Put(s.in_flight, b, batch), BatchId, InFlightBatch)
  BY <1>2, PutIsMap DEF StoreOK
<1> QED
  BY <1>3, <1>4, in_flight_OK

\* Replacing one piece of one batch.
LEMMA set_piece_OK ==
    ASSUME NEW s, StoreOK(s), NEW b, NEW i, has_piece(s, b, i), NEW p \in Piece
    PROVE  StoreOK([s EXCEPT !.in_flight[b].pieces[i] = p])
<1> DEFINE new == [s.in_flight[b] EXCEPT !.pieces[i] = p]
           f == [s.in_flight EXCEPT ![b] = new]
<1>1. /\ b \in DOMAIN s.in_flight /\ i \in DOMAIN s.in_flight[b].pieces
      /\ s.in_flight[b] \in InFlightBatch
  BY DEF has_piece, StoreOK, IsMap
<1>2. [s.in_flight[b].pieces EXCEPT ![i] = p] \in Seq(Piece) \ {<<>>}
  <2> DEFINE q == s.in_flight[b].pieces
  <2>1. q \in Seq(Piece) /\ i \in DOMAIN q
    BY <1>1 DEF InFlightBatch
  <2> HIDE DEF q
  <2>2. [q EXCEPT ![i] = p] \in Seq(Piece) /\ [q EXCEPT ![i] = p] # <<>>
    BY <2>1
  <2> QED
    BY <2>2 DEF q
<1>3. new \in InFlightBatch
  BY <1>1, <1>2 DEF InFlightBatch
<1> HIDE DEF new
<1>4. IsMap(f, BatchId, InFlightBatch)
  BY <1>1, <1>3 DEF IsMap, StoreOK
<1>5. [s EXCEPT !.in_flight[b].pieces[i] = p] = [s EXCEPT !.in_flight = f]
  BY DEF f, new, StoreOK
<1> QED
  BY <1>4, <1>5, in_flight_OK

LEMMA move_piece_OK ==
    ASSUME NEW s, StoreOK(s), NEW b, NEW i, NEW from,
           NEW status, NEW id,
           [status |-> status, interaction_id |-> id] \in Piece
    PROVE  StoreOK(move_piece(s, b, i, from, status, id))
<1> DEFINE p == [status |-> status, interaction_id |-> id]
<1>1. p \in Piece
  OBVIOUS
<1> HIDE DEF p
<1>2. CASE has_piece(s, b, i) /\ s.in_flight[b].pieces[i].status \in from
  BY <1>1, <1>2, set_piece_OK DEF move_piece, p
<1>3. CASE ~(has_piece(s, b, i) /\ s.in_flight[b].pieces[i].status \in from)
  BY <1>3 DEF move_piece
<1> QED
  BY <1>2, <1>3

LEMMA mark_response_started_OK ==
    ASSUME NEW s, StoreOK(s), NEW b, NEW i
    PROVE  StoreOK(mark_response_started(s, b, i))
BY move_piece_OK DEF mark_response_started, Piece, PieceStatus

LEMMA acknowledge_OK ==
    ASSUME NEW s, StoreOK(s), NEW b, NEW i, NEW id \in Id
    PROVE  StoreOK(ack_piece(mark_sent(s, b, i, id), b, i, id))
<1>1. StoreOK(mark_sent(s, b, i, id))
  BY move_piece_OK DEF mark_sent, Piece, PieceStatus
<1> QED
  BY <1>1, move_piece_OK DEF ack_piece, Piece, PieceStatus

\* The pieces before the first one that is not Acked have ids.
LEMMA AckedPrefixIds ==
    ASSUME NEW batch \in InFlightBatch
    PROVE  \A i \in acked_prefix(batch) :
              i \in 1 .. Len(batch.pieces) /\ batch_ids(batch)[i] \in Id
BY DEF acked_prefix, IsAcked, batch_ids, InFlightBatch, Piece

LEMMA chain_of_OK ==
    ASSUME NEW batch \in InFlightBatch
    PROVE  IsMap(chain_of(batch, acked_prefix(batch)), Id, Id \cup {NoId})
<1> DEFINE I == acked_prefix(batch)
           ids == batch_ids(batch)
           prev(i) == IF i = 1 THEN batch.prev_interaction_id ELSE ids[i - 1]
<1>1. \A i \in I : i \in 1 .. Len(batch.pieces) /\ ids[i] \in Id
  BY AckedPrefixIds
<1>2. \A i \in I : i # 1 => i - 1 \in I
  BY <1>1 DEF acked_prefix, InFlightBatch
<1>3. \A i \in I : prev(i) \in Id \cup {NoId}
  BY <1>1, <1>2 DEF InFlightBatch
<1> HIDE DEF I, ids
<1>4. \A id \in {ids[i] : i \in I} : (CHOOSE k \in I : ids[k] = id) \in I
  OBVIOUS
<1>5. chain_of(batch, I) =
        [id \in {ids[i] : i \in I} |-> prev(CHOOSE k \in I : ids[k] = id)]
  BY DEF chain_of, ids
<1> HIDE DEF prev
<1> QED
  BY <1>1, <1>3, <1>4, <1>5 DEF IsMap, I

LEMMA insert_upstreams_OK ==
    ASSUME NEW s, StoreOK(s), NEW new, IsMap(new, Id, Id \cup {NoId})
    PROVE  StoreOK(insert_upstreams(s, new))
<1> DEFINE f == [id \in DOMAIN s.upstreams \cup DOMAIN new |->
                   IF id \in DOMAIN new THEN new[id] ELSE s.upstreams[id]]
<1>1. IsMap(f, Id, Id \cup {NoId})
  BY DEF IsMap, StoreOK
<1>2. insert_upstreams(s, new) = [s EXCEPT !.upstreams = f]
  BY DEF insert_upstreams
<1> HIDE DEF f
<1> QED
  BY <1>1, <1>2 DEF StoreOK

\* The batch is taken out, and the nodes of its Acked pieces put in.
LEMMA remove_batch_OK ==
    ASSUME NEW s, StoreOK(s), NEW b \in DOMAIN s.in_flight
    PROVE  StoreOK(insert_upstreams(
                     [s EXCEPT !.in_flight = Without(@, {b})],
                     chain_of(s.in_flight[b], acked_prefix(s.in_flight[b]))))
<1>1. s.in_flight[b] \in InFlightBatch
  BY DEF StoreOK, IsMap
<1>2. IsMap(Without(s.in_flight, {b}), BatchId, InFlightBatch)
  BY WithoutIsMap DEF StoreOK
<1>3. StoreOK([s EXCEPT !.in_flight = Without(s.in_flight, {b})])
  BY <1>2, in_flight_OK
<1> QED
  BY <1>1, <1>3, chain_of_OK, insert_upstreams_OK

\* The node of a complete batch.
LEMMA complete_node_OK ==
    ASSUME NEW s, StoreOK(s), NEW b, batch_is_complete(s, b), NEW now \in Nat
    PROVE  LET batch == s.in_flight[b]
               ids   == batch_ids(batch)
           IN  /\ ids \in Seq(Id) /\ Len(ids) \in DOMAIN ids
               /\ ids[Len(ids)] \in Id
               /\ [prev_id |-> batch.prev_interaction_id,
                   message_hashes |-> batch.message_hashes,
                   system_instruction_hash |-> batch.system_instruction_hash,
                   upstream_ids |-> ids,
                   last_seen_utc |-> now] \in ClientInteractionNode
<1> DEFINE batch == s.in_flight[b]
           ids == batch_ids(batch)
<1>1. batch \in InFlightBatch
  BY DEF StoreOK, IsMap, batch_is_complete
<1>2. \A i \in 1 .. Len(batch.pieces) : batch.pieces[i].interaction_id \in Id
  BY <1>1 DEF batch_is_complete, IsAcked, InFlightBatch, Piece
<1>3. Len(batch.pieces) \in Nat \ {0}
  BY <1>1, EmptySeq DEF InFlightBatch
<1>4. ids \in Seq(Id) /\ Len(ids) = Len(batch.pieces)
  BY <1>2, <1>3 DEF batch_ids
<1> HIDE DEF ids
<1> QED
  BY <1>1, <1>3, <1>4 DEF ClientInteractionNode, InFlightBatch, ids

LEMMA complete_batch_OK ==
    ASSUME NEW s, StoreOK(s), NEW b \in DOMAIN s.in_flight, NEW now \in Nat
    PROVE  StoreOK(complete_batch(s, b, now))
<1> DEFINE batch   == s.in_flight[b]
           removed == insert_upstreams(
                        [s EXCEPT !.in_flight = Without(@, {b})],
                        chain_of(batch, acked_prefix(batch)))
           ids     == batch_ids(batch)
           id      == ids[Len(ids)]
           node    == [prev_id |-> batch.prev_interaction_id,
                       message_hashes |-> batch.message_hashes,
                       system_instruction_hash |->
                          batch.system_instruction_hash,
                       upstream_ids |-> ids,
                       last_seen_utc |-> now]
           done    == insert_client(removed, id, node)
<1>1. StoreOK(removed)
  BY remove_batch_OK
<1>2. batch.session_id \in Session
  BY DEF StoreOK, IsMap, InFlightBatch
<1>3. CASE ~batch_is_complete(s, b)
  BY <1>1, <1>3 DEF complete_batch
<1>4. CASE batch_is_complete(s, b)
  <2>1. id \in Id /\ node \in ClientInteractionNode
    BY <1>4, complete_node_OK
  <2> HIDE DEF removed, id, node
  <2>2. StoreOK(done)
    BY <1>1, <2>1, insert_client_OK
  <2>3. complete_batch(s, b, now) =
          IF batch.session_id \in DOMAIN s.sessions
            THEN set_last_interaction(done, batch.session_id, id) ELSE done
    BY <1>4 DEF complete_batch, removed, id, node
  <2> HIDE DEF done, batch
  <2> QED
    BY <1>2, <2>1, <2>2, <2>3, set_last_interaction_OK
<1> QED
  BY <1>3, <1>4

LEMMA fail_batch_OK ==
    ASSUME NEW s, StoreOK(s), NEW b
    PROVE  StoreOK(fail_batch(s, b))
<1>1. CASE b \notin DOMAIN s.in_flight
  BY <1>1 DEF fail_batch
<1>2. CASE b \in DOMAIN s.in_flight
  <2> DEFINE q == s.in_flight[b].pieces
             failed == [i \in DOMAIN q |->
                          IF IsAcked(q[i]) THEN q[i]
                          ELSE [status |-> "Failed", interaction_id |-> NoId]]
             new == [s.in_flight[b] EXCEPT !.pieces = failed]
             rest == Without(s.upstreams, acked_ids(s.in_flight[b]))
             f == [s.in_flight EXCEPT ![b] = new]
  <2>1. s.in_flight[b] \in InFlightBatch
    BY <1>2 DEF StoreOK, IsMap
  <2>2. q \in Seq(Piece) /\ q # <<>>
    BY <2>1 DEF InFlightBatch
  <2>3. failed \in Seq(Piece) /\ failed # <<>>
    <3> HIDE DEF q
    <3>1. \A i \in 1 .. Len(q) : failed[i] \in Piece
      BY <2>2 DEF Piece, PieceStatus
    <3>2. DOMAIN q = 1 .. Len(q) /\ Len(q) \in Nat
      BY <2>2
    <3>3. failed \in Seq(Piece) /\ Len(failed) = Len(q)
      BY <3>1, <3>2
    <3> QED
      BY <2>2, <3>3, EmptySeq
  <2> HIDE DEF failed
  <2>4. new \in InFlightBatch
    BY <2>1, <2>3 DEF InFlightBatch
  <2> HIDE DEF new
  <2>5. IsMap(f, BatchId, InFlightBatch)
    BY <1>2, <2>4 DEF StoreOK, IsMap
  <2>6. IsMap(rest, Id, Id \cup {NoId})
    BY WithoutIsMap DEF StoreOK
  <2>7. fail_batch(s, b) = [s EXCEPT !.upstreams = rest, !.in_flight = f]
    BY <1>2 DEF fail_batch, f, new, failed, StoreOK
  <2> HIDE DEF rest, f
  <2> QED
    BY <2>5, <2>6, <2>7 DEF StoreOK
<1> QED
  BY <1>1, <1>2

LEMMA clean_all_OK ==
    ASSUME NEW s, StoreOK(s)
    PROVE  StoreOK(clean_all(s))
BY NewStoreOK DEF clean_all, StoreOK

LEMMA discard_all_inflight_OK ==
    ASSUME NEW s, StoreOK(s)
    PROVE  StoreOK(discard_all_inflight(s))
BY EmptyIsMap, in_flight_OK DEF discard_all_inflight

LEMMA extend_lifetime_OK ==
    ASSUME NEW s, StoreOK(s), NEW x, NEW now \in Nat
    PROVE  StoreOK(extend_lifetime(s, x, now))
<1> DEFINE c == s.sessions[x]
           node == [s.clients[c] EXCEPT !.last_seen_utc = now]
           f == [s.clients EXCEPT ![c] = node]
<1>1. CASE x \in DOMAIN s.sessions /\ c \in DOMAIN s.clients
  <2>1. s.clients[c] \in ClientInteractionNode
    BY <1>1 DEF StoreOK, IsMap
  <2>2. node \in ClientInteractionNode
    BY <2>1 DEF ClientInteractionNode
  <2> HIDE DEF node
  <2>3. IsMap(f, Id, ClientInteractionNode)
    BY <1>1, <2>2 DEF StoreOK, IsMap
  <2>4. extend_lifetime(s, x, now) = [s EXCEPT !.clients = f]
    BY <1>1 DEF extend_lifetime, f, node, StoreOK
  <2> HIDE DEF f
  <2> QED
    BY <2>3, <2>4 DEF StoreOK
<1>2. CASE ~(x \in DOMAIN s.sessions /\ c \in DOMAIN s.clients)
  BY <1>2 DEF extend_lifetime
<1> QED
  BY <1>1, <1>2

LEMMA acked_ids_OK ==
    ASSUME NEW batch \in InFlightBatch
    PROVE  acked_ids(batch) \subseteq Id
BY DEF acked_ids, IsAcked, InFlightBatch, Piece

LEMMA all_upstream_ids_OK ==
    ASSUME NEW s, StoreOK(s)
    PROVE  all_upstream_ids(s) \subseteq Id
<1>1. \A b \in DOMAIN s.in_flight : acked_ids(s.in_flight[b]) \subseteq Id
  BY acked_ids_OK DEF StoreOK, IsMap
<1> QED
  BY <1>1 DEF all_upstream_ids, StoreOK, IsMap

\* What is loaded from a document of the right type is a store.
LEMMA load_from_disk_OK ==
    ASSUME NEW d, DocumentOK(d), NEW t \in load_from_disk(d)
    PROVE  StoreOK(t)
<1> DEFINE parents == {d.clients[c].prev_id : c \in DOMAIN d.clients} \ {NoId}
<1>1. PICK index \in [parents -> DOMAIN d.clients] :
        t = [clients |-> d.clients, upstreams |-> d.upstreams,
             prev_to_client |-> index,
             sessions |-> d.sessions, in_flight |-> d.in_flight]
  BY DEF load_from_disk
<1>2. \A c \in DOMAIN d.clients : d.clients[c].prev_id \in Id \cup {NoId}
  BY DEF DocumentOK, IsMap, ClientInteractionNode
<1>3. parents \subseteq Id
  BY <1>2
<1> HIDE DEF parents
<1>4. IsMap(index, Id, Id)
  BY <1>3 DEF IsMap, DocumentOK
<1> QED
  BY <1>1, <1>4 DEF StoreOK, DocumentOK

LEMMA load_from_disk_Keeps ==
    ASSUME NEW d, NEW t \in load_from_disk(d)
    PROVE  /\ t.clients = d.clients /\ t.upstreams = d.upstreams
           /\ t.sessions = d.sessions /\ t.in_flight = d.in_flight
<1>1. PICK index :
        t = [clients |-> d.clients, upstreams |-> d.upstreams,
             prev_to_client |-> index,
             sessions |-> d.sessions, in_flight |-> d.in_flight]
  BY DEF load_from_disk
<1> QED
  BY <1>1

\* The rebuilt index gives each parent one of its children.
LEMMA load_from_disk_Links ==
    ASSUME NEW d, NEW t \in load_from_disk(d),
           NEW p \in DOMAIN t.prev_to_client
    PROVE  /\ t.prev_to_client[p] \in DOMAIN d.clients
           /\ d.clients[t.prev_to_client[p]].prev_id = p
<1> DEFINE parents == {d.clients[c].prev_id : c \in DOMAIN d.clients} \ {NoId}
<1>1. PICK index \in [parents -> DOMAIN d.clients] :
        /\ \A q \in parents : d.clients[index[q]].prev_id = q
        /\ t = [clients |-> d.clients, upstreams |-> d.upstreams,
                prev_to_client |-> index,
                sessions |-> d.sessions, in_flight |-> d.in_flight]
  BY DEF load_from_disk
<1> HIDE DEF parents
<1>2. t.prev_to_client = index /\ DOMAIN index = parents
  BY <1>1
<1> QED
  BY <1>1, <1>2

LEMMA DocumentIsOK ==
    ASSUME NEW s, StoreOK(s)
    PROVE  DocumentOK(Document(s))
BY DEF StoreOK, Document, DocumentOK

-----------------------------------------------------------------------------
(* The frontier *)

\* The interactions a frontier may name: nodes of the store, and what they
\* continue.
Named(s) == DOMAIN s.clients \cup {s.clients[c].prev_id : c \in DOMAIN s.clients}

LEMMA frontier_at_OK ==
    ASSUME NEW s, StoreOK(s), NEW hashes \in Seq(Hash), NEW prev,
           NEW m \in [prefix_len : 1 .. Len(hashes), client : DOMAIN s.clients]
    PROVE  LET f == frontier_at(hashes, prev, m, s)
           IN  /\ f \in Frontier
               /\ f.previous_interaction_id \in Named(s) \cup {NoId}
               /\ f.all_known => f.matched_client_id \in DOMAIN s.clients
               /\ f.index <= Len(hashes)
               /\ (prev = NoId /\ ~f.all_known) => f.index < Len(hashes)
<1> DEFINE c == m.client
           p == s.clients[c].prev_id
<1>1. c \in DOMAIN s.clients /\ c \in Id /\ p \in Id \cup {NoId}
  BY DEF StoreOK, IsMap, ClientInteractionNode
<1>2. m.prefix_len \in 1 .. Len(hashes) /\ Len(hashes) \in Nat
  OBVIOUS
<1>3. p \in Named(s) /\ c \in Named(s)
  BY <1>1 DEF Named
<1>4. CASE m.prefix_len = Len(hashes) /\ prev \in {NoId, p}
  BY <1>1, <1>2, <1>3, <1>4 DEF frontier_at, Frontier
<1>5. CASE ~(m.prefix_len = Len(hashes) /\ prev \in {NoId, p})
  <2>1. prev = NoId => m.prefix_len < Len(hashes)
    BY <1>2, <1>5
  <2>2. CASE ended_at_client_boundary(hashes, m, s)
    <3> DEFINE f == frontier_at(hashes, prev, m, s)
    <3>1. f = [index |-> m.prefix_len, previous_interaction_id |-> c,
               all_known |-> FALSE, matched_client_id |-> NoId]
      BY <1>5, <2>2 DEF frontier_at, NoFrontier
    <3> HIDE DEF f, c
    <3>2. f \in Frontier
      BY <1>1, <1>2, <3>1 DEF Frontier
    <3>3. /\ f.previous_interaction_id = c /\ ~f.all_known
          /\ f.index = m.prefix_len
      BY <3>1
    <3>4. m.prefix_len <= Len(hashes)
      BY <1>2
    <3> QED
      BY <1>3, <2>1, <3>2, <3>3, <3>4 DEF f
  <2>3. CASE ~ended_at_client_boundary(hashes, m, s)
    BY <1>1, <1>2, <1>3, <1>5, <2>1, <2>3 DEF frontier_at, NoFrontier, Frontier
  <2> QED
    BY <2>2, <2>3
<1> QED
  BY <1>4, <1>5

\* For every history, every store and every previous interaction: the
\* frontier only names interactions of the store, and a request without a
\* previous interaction that is not replayed has something left to send.
THEOREM find_frontier_OK ==
    ASSUME NEW s, StoreOK(s), NEW hashes \in Seq(Hash), hashes # <<>>,
           NEW prev, NEW sys
    PROVE  LET f == find_frontier(hashes, prev, sys, s)
           IN  /\ f \in Frontier
               /\ f.previous_interaction_id \in Named(s) \cup {NoId}
               /\ f.all_known => f.matched_client_id \in DOMAIN s.clients
               /\ f.index <= Len(hashes)
               /\ (prev = NoId /\ ~f.all_known) => f.index < Len(hashes)
<1> DEFINE best  == best_prefixes(Prefixes(hashes, sys, s), s)
           found == {frontier_at(hashes, prev, m, s) : m \in best}
           f     == find_frontier(hashes, prev, sys, s)
<1>1. best \subseteq [prefix_len : 1 .. Len(hashes), client : DOMAIN s.clients]
  BY DEF best_prefixes, Prefixes
<1>2. Len(hashes) \in Nat \ {0}
  BY EmptySeq
<1> HIDE DEF best
<1>3. f = IF found = {} THEN NoFrontier(NoId) ELSE CHOOSE g \in found : TRUE
  BY DEF find_frontier, best
<1>4. CASE found = {}
  BY <1>2, <1>3, <1>4 DEF NoFrontier, Frontier
<1>5. CASE found # {}
  <2>1. PICK m \in best : f = frontier_at(hashes, prev, m, s)
    BY <1>3, <1>5
  <2> QED
    BY <1>1, <2>1, frontier_at_OK
<1> QED
  BY <1>4, <1>5

-----------------------------------------------------------------------------
(* Induction over the messages of a request *)

\* Every set of numbers has a least element: the induction that follows is
\* over the least counterexample.
LEMMA LeastNumber ==
    ASSUME NEW T \in SUBSET Nat, T # {}
    PROVE  \E x \in T : \A y \in T : x <= y
<1>1. IsWellFoundedOn(OpToRel(<, Nat), Nat)
  BY NatLessThanWellFounded
<1> DEFINE R == OpToRel(<, Nat)
<1>2. \A x, y \in Nat : <<x, y>> \in R <=> x < y
  BY DEF OpToRel
<1> HIDE DEF R
<1>3. PICK x \in T : \A y \in T : ~(<<y, x>> \in R)
  BY <1>1, WFMin DEF R
<1>4. \A y \in T : x <= y
  <2> TAKE y \in T
  <2>1. x \in Nat /\ y \in Nat
    OBVIOUS
  <2>2. ~(y < x)
    BY <1>2, <1>3, <2>1
  <2> QED
    BY <2>1, <2>2
<1> QED
  BY <1>4

\* Induction up to n: a set of numbers that holds 0 and the successor of each
\* of its numbers below n holds them all.
LEMMA UpTo ==
    ASSUME NEW n \in Nat, NEW S, 0 \in S,
           \A i \in 1 .. n : i - 1 \in S => i \in S
    PROVE  \A i \in 0 .. n : i \in S
<1> DEFINE T == {i \in 0 .. n : i \notin S}
<1> SUFFICES ASSUME T # {} PROVE FALSE
  OBVIOUS
<1>1. T \in SUBSET Nat
  OBVIOUS
<1>2. PICK x \in T : \A y \in T : x <= y
  BY <1>1, LeastNumber
<1>3. x \in 1 .. n /\ x - 1 \in 0 .. n /\ ~(x <= x - 1)
  BY <1>2
<1>4. x - 1 \in S
  BY <1>2, <1>3
<1> QED
  BY <1>2, <1>3, <1>4

\* The recursive definition of the walks has a solution.
LEMMA WalksExist ==
    ASSUME NEW hashes \in Seq(Hash), NEW sys, NEW s
    PROVE  \E w : w = [i \in 0 .. Len(hashes) |->
                         IF i = 0
                           THEN {[prefix_len |-> 0, client |-> p.client_id,
                                  expected |-> p.message_index, stop |-> FALSE] :
                                   p \in start_positions(hashes, sys, s)}
                           ELSE {advance(v, hashes[i], s) : v \in w[i - 1]}]
<1> DEFINE first == {[prefix_len |-> 0, client |-> p.client_id,
                      expected |-> p.message_index, stop |-> FALSE] :
                        p \in start_positions(hashes, sys, s)}
           step(i, X) == {advance(v, hashes[i], s) : v \in X}
           Solves(w, n) ==
              w = [i \in 0 .. n |-> IF i = 0 THEN first ELSE step(i, w[i - 1])]
           S == {n \in Nat : \E w : Solves(w, n)}
<1> HIDE DEF first, step
<1>1. 0 \in S
  <2> DEFINE w == [i \in 0 .. 0 |-> first]
  <2>1. w = [i \in 0 .. 0 |-> IF i = 0 THEN first ELSE step(i, w[i - 1])]
    OBVIOUS
  <2> QED
    BY <2>1
<1>2. Len(hashes) \in Nat
  OBVIOUS
<1>3. ASSUME NEW n \in 1 .. Len(hashes), n - 1 \in S
      PROVE  n \in S
  <2>1. PICK w : Solves(w, n - 1)
    BY <1>3
  <2> DEFINE v == [i \in 0 .. n |->
                     IF i = n THEN step(n, w[n - 1]) ELSE w[i]]
             u == [i \in 0 .. n |-> IF i = 0 THEN first ELSE step(i, v[i - 1])]
  <2>2. \A i \in 0 .. n : v[i] = u[i]
    <3> SUFFICES ASSUME NEW i \in 0 .. n PROVE v[i] = u[i]
      OBVIOUS
    <3>1. CASE i = n
      <4>1. n # 0 /\ n - 1 \in 0 .. n /\ n - 1 # n
        BY <1>2
      <4> QED
        BY <3>1, <4>1
    <3>2. CASE i # n
      <4>1. i \in 0 .. (n - 1)
        BY <1>2, <3>2
      <4>2. w[i] = IF i = 0 THEN first ELSE step(i, w[i - 1])
        BY <2>1, <4>1
      <4>3. v[i] = w[i]
        BY <3>2
      <4>4. CASE i = 0
        BY <4>2, <4>3, <4>4
      <4>5. CASE i # 0
        <5>1. i - 1 \in 0 .. n /\ i - 1 # n
          BY <1>2, <4>1, <4>5
        <5>2. v[i - 1] = w[i - 1]
          BY <5>1
        <5> QED
          BY <4>2, <4>3, <4>5, <5>2
      <4> QED
        BY <4>4, <4>5
    <3> QED
      BY <3>1, <3>2
  <2>3. v = u
    BY <2>2
  <2>4. Solves(v, n)
    BY <2>3
  <2> HIDE DEF v, Solves
  <2> QED
    BY <1>2, <2>4
<1>4. Len(hashes) \in S
  <2> HIDE DEF S
  <2>1. \A n \in 1 .. Len(hashes) : n - 1 \in S => n \in S
    BY <1>3
  <2>2. \A i \in 0 .. Len(hashes) : i \in S
    BY <1>1, <1>2, <2>1, UpTo
  <2> QED
    BY <1>2, <2>2
<1>5. PICK w : Solves(w, Len(hashes))
  BY <1>4
<1> QED
  BY <1>5 DEF first, step

\* A walk at the position p.
Begin(p) ==
    [prefix_len |-> 0, client |-> p.client_id,
     expected |-> p.message_index, stop |-> FALSE]

\* w[i] is the set of all walks after i messages.
AreWalks(w, hashes, sys, s) ==
    /\ walk_forward(hashes, sys, s) = w[Len(hashes)]
    /\ \A v : v \in w[0] <=>
                 \E p \in start_positions(hashes, sys, s) : v = Begin(p)
    /\ \A i \in 1 .. Len(hashes) : \A v :
          v \in w[i] <=> \E u \in w[i - 1] : v = advance(u, hashes[i], s)

LEMMA WalkSteps ==
    ASSUME NEW hashes \in Seq(Hash), NEW sys, NEW s
    PROVE  \E w : AreWalks(w, hashes, sys, s)
<1> DEFINE first == {[prefix_len |-> 0, client |-> p.client_id,
                      expected |-> p.message_index, stop |-> FALSE] :
                        p \in start_positions(hashes, sys, s)}
           step(i, X) == {advance(v, hashes[i], s) : v \in X}
           Solution(w) ==
              w = [i \in 0 .. Len(hashes) |->
                     IF i = 0 THEN first ELSE step(i, w[i - 1])]
           walks == CHOOSE w : Solution(w)
<1>1. walk_forward(hashes, sys, s) = walks[Len(hashes)]
  BY DEF walk_forward
<1>2. Solution(walks)
  <2>1. \E w : Solution(w)
    BY WalksExist
  <2> HIDE DEF Solution
  <2> QED
    BY <2>1
<1>3. \A v : v \in first <=>
                \E p \in start_positions(hashes, sys, s) : v = Begin(p)
  BY DEF Begin
<1>4. Len(hashes) \in Nat
  OBVIOUS
<1>5. \A i, X, v : v \in step(i, X) <=>
                      \E u \in X : v = advance(u, hashes[i], s)
  OBVIOUS
<1> HIDE DEF first, step, walks
<1>6. walks[0] = first
  BY <1>2, <1>4
<1>7. \A i \in 1 .. Len(hashes) : walks[i] = step(i, walks[i - 1])
  BY <1>2, <1>4
<1>8. \A v : v \in walks[0] <=>
                \E p \in start_positions(hashes, sys, s) : v = Begin(p)
  BY <1>3, <1>6
<1>9. \A i \in 1 .. Len(hashes) : \A v :
        v \in walks[i] <=>
           \E u \in walks[i - 1] : v = advance(u, hashes[i], s)
  BY <1>5, <1>7
<1>10. AreWalks(walks, hashes, sys, s)
  BY <1>1, <1>8, <1>9 DEF AreWalks
<1> QED
  BY <1>10

\* What holds of the positions a walk starts from, and is kept by each step of
\* the walk, holds of all positions.
LEMMA Walks ==
    ASSUME NEW hashes \in Seq(Hash), NEW sys, NEW s, NEW Good,
           \A p \in start_positions(hashes, sys, s) : <<0, Begin(p)>> \in Good,
           \A i \in 1 .. Len(hashes) : \A v :
              <<i - 1, v>> \in Good => <<i, advance(v, hashes[i], s)>> \in Good
    PROVE  \A v \in walk_forward(hashes, sys, s) : <<Len(hashes), v>> \in Good
<1>1. PICK w : AreWalks(w, hashes, sys, s)
  BY WalkSteps
<1> DEFINE S == {i \in 0 .. Len(hashes) : \A v \in w[i] : <<i, v>> \in Good}
<1>2. Len(hashes) \in Nat
  OBVIOUS
<1>3. 0 \in S
  BY <1>1, <1>2 DEF AreWalks
<1>4. ASSUME NEW i \in 1 .. Len(hashes), i - 1 \in S
      PROVE  i \in S
  <2>1. ASSUME NEW v \in w[i] PROVE <<i, v>> \in Good
    <3>1. PICK u \in w[i - 1] : v = advance(u, hashes[i], s)
      BY <1>1 DEF AreWalks
    <3>2. <<i - 1, u>> \in Good
      BY <1>4
    <3> QED
      BY <3>1, <3>2
  <2> QED
    BY <1>2, <2>1
<1>5. \A i \in 0 .. Len(hashes) : i \in S
  <2> HIDE DEF S
  <2>1. \A i \in 1 .. Len(hashes) : i - 1 \in S => i \in S
    BY <1>4
  <2> QED
    BY <1>2, <1>3, <2>1, UpTo
<1> QED
  BY <1>1, <1>2, <1>5 DEF AreWalks

\* What holds of one such position, and is kept by each step, holds of one
\* position at the end.
LEMMA WalkFrom ==
    ASSUME NEW hashes \in Seq(Hash), NEW sys, NEW s, NEW Good,
           NEW p \in start_positions(hashes, sys, s), <<0, Begin(p)>> \in Good,
           \A i \in 1 .. Len(hashes) : \A v :
              <<i - 1, v>> \in Good => <<i, advance(v, hashes[i], s)>> \in Good
    PROVE  \E v \in walk_forward(hashes, sys, s) : <<Len(hashes), v>> \in Good
<1>1. PICK w : AreWalks(w, hashes, sys, s)
  BY WalkSteps
<1> DEFINE S == {i \in 0 .. Len(hashes) : \E v \in w[i] : <<i, v>> \in Good}
<1>2. Len(hashes) \in Nat
  OBVIOUS
<1>3. 0 \in S
  <2>1. Begin(p) \in w[0]
    BY <1>1 DEF AreWalks
  <2> QED
    BY <1>2, <2>1
<1>4. ASSUME NEW i \in 1 .. Len(hashes), i - 1 \in S
      PROVE  i \in S
  <2>1. PICK u \in w[i - 1] : <<i - 1, u>> \in Good
    BY <1>4
  <2>2. advance(u, hashes[i], s) \in w[i]
    BY <1>1 DEF AreWalks
  <2>3. <<i, advance(u, hashes[i], s)>> \in Good
    BY <2>1
  <2> QED
    BY <1>2, <2>2, <2>3
<1>5. \A i \in 0 .. Len(hashes) : i \in S
  <2> HIDE DEF S
  <2>1. \A i \in 1 .. Len(hashes) : i - 1 \in S => i \in S
    BY <1>4
  <2> QED
    BY <1>2, <1>3, <2>1, UpTo
<1>6. PICK v \in w[Len(hashes)] : <<Len(hashes), v>> \in Good
  BY <1>2, <1>5
<1> QED
  BY <1>1, <1>6 DEF AreWalks

\* Two histories, one after the other.
LEMMA Joined ==
    ASSUME NEW s \in Seq(Hash), NEW t \in Seq(Hash)
    PROVE  /\ s \o t \in Seq(Hash) /\ Len(s \o t) = Len(s) + Len(t)
           /\ \A i \in 1 .. Len(s) : (s \o t)[i] = s[i]
           /\ \A i \in 1 .. Len(t) : (s \o t)[Len(s) + i] = t[i]
<1>1. \A i \in 1 .. Len(s) : (s \o t)[i] = s[i]
  OBVIOUS
<1>2. \A i \in 1 .. Len(t) : (s \o t)[Len(s) + i] = t[i]
  OBVIOUS
<1>3. s \o t \in Seq(Hash) /\ Len(s \o t) = Len(s) + Len(t)
  OBVIOUS
<1> QED
  BY <1>1, <1>2, <1>3

\* The messages of two histories, one after the other.
LEMMA MessagesJoined ==
    ASSUME NEW s \in Seq(Hash), NEW t \in Seq(Hash)
    PROVE  Messages(s \o t) = Messages(s) \cup Messages(t)
<1> DEFINE st == s \o t
<1>1. /\ Len(s) \in Nat /\ Len(t) \in Nat
      /\ DOMAIN s = 1 .. Len(s) /\ DOMAIN t = 1 .. Len(t)
      /\ DOMAIN st = 1 .. Len(s) + Len(t)
      /\ \A i \in 1 .. Len(s) + Len(t) :
            st[i] = IF i <= Len(s) THEN s[i] ELSE t[i - Len(s)]
  OBVIOUS
<1> HIDE DEF st
<1>2. \A i \in DOMAIN s : i \in DOMAIN st /\ st[i] = s[i]
  BY <1>1
<1>3. \A i \in DOMAIN t : Len(s) + i \in DOMAIN st /\ st[Len(s) + i] = t[i]
  BY <1>1
<1>4. \A i \in DOMAIN st :
        \/ i \in DOMAIN s /\ st[i] = s[i]
        \/ i - Len(s) \in DOMAIN t /\ st[i] = t[i - Len(s)]
  BY <1>1
<1>5. Messages(s) \cup Messages(t) \subseteq Messages(st)
  BY <1>2, <1>3 DEF Messages
<1>6. Messages(st) \subseteq Messages(s) \cup Messages(t)
  BY <1>4 DEF Messages
<1> QED
  BY <1>5, <1>6 DEF st

\* The beginning of a history and the rest of it are the history.
LEMMA BeginningAndRest ==
    ASSUME NEW s \in Seq(Hash), NEW q \in Seq(Hash), Len(s) <= Len(q),
           \A i \in 1 .. Len(s) : s[i] = q[i]
    PROVE  /\ s \o SubSeq(q, Len(s) + 1, Len(q)) = q
           /\ Len(s) = Len(q) => s = q
<1> DEFINE n == Len(s)
           m == Len(q)
           rest == SubSeq(q, n + 1, m)
           all  == s \o rest
<1>1. n \in Nat /\ m \in Nat /\ n <= m /\ DOMAIN q = 1 .. m /\ DOMAIN s = 1 .. n
  OBVIOUS
<1>2. /\ rest \in Seq(Hash) /\ Len(rest) = m - n
      /\ \A j \in 1 .. m - n : rest[j] = q[n + j]
  OBVIOUS
<1>3. /\ all \in Seq(Hash) /\ Len(all) = n + Len(rest)
      /\ \A i \in 1 .. n : all[i] = s[i]
      /\ \A j \in 1 .. Len(rest) : all[n + j] = rest[j]
  <2> HIDE DEF rest
  <2> QED
    BY <1>2, Joined
<1> HIDE DEF n, m, rest, all
<1>4. Len(all) = m
  BY <1>1, <1>2, <1>3
<1>5. ASSUME NEW i \in 1 .. m PROVE all[i] = q[i]
  <2>1. CASE i <= n
    BY <1>1, <1>3, <2>1 DEF n
  <2>2. CASE ~(i <= n)
    <3>1. i - n \in 1 .. m - n /\ n + (i - n) = i
      BY <1>1, <2>2
    <3>2. all[n + (i - n)] = rest[i - n]
      BY <1>2, <1>3, <3>1
    <3>3. rest[i - n] = q[n + (i - n)]
      BY <1>2, <3>1
    <3> QED
      BY <3>1, <3>2, <3>3
  <2> QED
    BY <2>1, <2>2
<1>6. all = q
  BY <1>1, <1>3, <1>4, <1>5, SeqEqual DEF m
<1>7. ASSUME Len(s) = Len(q) PROVE s = q
  BY <1>7, SeqEqual
<1> QED
  BY <1>6, <1>7 DEF all, rest, n, m

-----------------------------------------------------------------------------
(* Walks over a store *)

told(c, s) == s.clients[c].message_hashes

\* The index of children gives a stored node to its parent only.  What it has
\* of nodes that clean_all has removed does not matter.
Linked(s) ==
    \A p \in DOMAIN s.prev_to_client :
        LET c == s.prev_to_client[p]
        IN  c \in DOMAIN s.clients => s.clients[c].prev_id = p

\* What a walk relies on.
Walkable(s) ==
    /\ StoreOK(s) /\ Linked(s)
    /\ \A c \in DOMAIN s.clients : told(c, s) # <<>>

Walk(s) ==
    [prefix_len : Nat, client : DOMAIN s.clients,
     expected : Nat \ {0}, stop : BOOLEAN]

history(v, s) == told(v.client, s)

Matches(v, h, s) ==
    /\ ~v.stop
    /\ v.expected \in DOMAIN history(v, s) /\ history(v, s)[v.expected] = h

Farther(v, u) == u.prefix_len = v.prefix_len + 1

\* A message stops a walk, or is matched inside a node, at the end of one that
\* has a child, or at the end of one that has none.
Stops(v, u) ==
    u.stop /\ u.prefix_len = v.prefix_len /\ u.client = v.client

StaysInside(v, u, s) ==
    /\ v.expected # Len(history(v, s)) /\ Farther(v, u)
    /\ ~u.stop /\ u.client = v.client /\ u.expected = v.expected + 1

MovesOn(v, u, s) ==
    /\ v.expected = Len(history(v, s)) /\ Farther(v, u)
    /\ ~u.stop /\ u.expected = 1
    /\ v.client \in DOMAIN s.prev_to_client
    /\ u.client = s.prev_to_client[v.client]

RunsOut(v, u, s) ==
    /\ v.expected = Len(history(v, s)) /\ Farther(v, u)
    /\ u.stop /\ u.client = v.client

LEMMA Advance ==
    ASSUME NEW s, Walkable(s), NEW v \in Walk(s), NEW h
    PROVE  LET u == advance(v, h, s)
           IN  /\ u \in Walk(s)
               /\ \/ ~Matches(v, h, s) /\ Stops(v, u)
                  \/ /\ Matches(v, h, s)
                     /\ StaysInside(v, u, s) \/ MovesOn(v, u, s) \/ RunsOut(v, u, s)
<1> DEFINE msgs == history(v, s)
           child == s.prev_to_client[v.client]
           u == advance(v, h, s)
<1>1. PICK n \in Nat, c \in DOMAIN s.clients, e \in Nat \ {0},
           b \in BOOLEAN :
        v = [prefix_len |-> n, client |-> c, expected |-> e, stop |-> b]
  BY DEF Walk
<1>2. v.prefix_len = n /\ v.client = c /\ v.expected = e /\ v.stop = b
  BY <1>1
<1>3. msgs \in Seq(Hash) /\ Len(msgs) \in Nat /\ DOMAIN msgs = 1 .. Len(msgs)
  BY <1>2 DEF Walkable, StoreOK, IsMap, ClientInteractionNode, history, told
<1> DEFINE len == Len(msgs)
<1>4. e \in Nat /\ len \in Nat /\ DOMAIN msgs = 1 .. len
  BY <1>3
<1>5. has_next_in_chain(c, s)
        => c \in DOMAIN s.prev_to_client /\ child \in DOMAIN s.clients
  BY <1>2 DEF has_next_in_chain
<1>6. u = IF b \/ e > len \/ msgs[e] # h
            THEN [v EXCEPT !.stop = TRUE]
          ELSE IF e < len
            THEN [v EXCEPT !.prefix_len = @ + 1, !.expected = @ + 1]
          ELSE IF has_next_in_chain(c, s)
            THEN [v EXCEPT !.prefix_len = @ + 1, !.expected = 1,
                           !.client = child]
          ELSE [v EXCEPT !.prefix_len = @ + 1, !.stop = TRUE]
  BY <1>2 DEF advance, history, told
<1> HIDE DEF u, msgs, child, len
<1>7. CASE b \/ e > len \/ msgs[e] # h
  <2>1. u = [prefix_len |-> n, client |-> c, expected |-> e, stop |-> TRUE]
    BY <1>1, <1>6, <1>7
  <2>2. u \in Walk(s) /\ Stops(v, u)
    BY <1>2, <2>1 DEF Walk, Stops
  <2>3. ~Matches(v, h, s)
    BY <1>2, <1>4, <1>7 DEF Matches, msgs
  <2> QED
    BY <2>2, <2>3 DEF u
<1>8. CASE ~(b \/ e > len \/ msgs[e] # h)
  <2>1. ~b /\ e \in DOMAIN msgs /\ msgs[e] = h
    BY <1>4, <1>8
  <2>2. Matches(v, h, s)
    BY <1>2, <2>1 DEF Matches, msgs
  <2>3. CASE e < len
    <3>1. u = [prefix_len |-> n + 1, client |-> c, expected |-> e + 1,
               stop |-> b]
      BY <1>1, <1>6, <1>8, <2>3
    <3>2. e # len
      BY <1>4, <2>3
    <3>3. u \in Walk(s) /\ StaysInside(v, u, s)
      BY <1>2, <2>1, <3>1, <3>2 DEF Walk, StaysInside, Farther, msgs, len
    <3> QED
      BY <2>2, <3>3 DEF u
  <2>4. CASE ~(e < len) /\ has_next_in_chain(c, s)
    <3>1. u = [prefix_len |-> n + 1, client |-> child, expected |-> 1,
               stop |-> b]
      BY <1>1, <1>6, <1>8, <2>4
    <3>2. e = len
      BY <1>4, <2>1, <2>4
    <3>3. u \in Walk(s) /\ MovesOn(v, u, s)
      BY <1>2, <1>5, <2>1, <2>4, <3>1, <3>2
         DEF Walk, MovesOn, Farther, msgs, len, child
    <3> QED
      BY <2>2, <3>3 DEF u
  <2>5. CASE ~(e < len) /\ ~has_next_in_chain(c, s)
    <3>1. u = [prefix_len |-> n + 1, client |-> c, expected |-> e,
               stop |-> TRUE]
      BY <1>1, <1>6, <1>8, <2>5
    <3>2. e = len
      BY <1>4, <2>1, <2>5
    <3>3. u \in Walk(s) /\ RunsOut(v, u, s)
      BY <1>2, <3>1, <3>2 DEF Walk, RunsOut, Farther, msgs, len
    <3> QED
      BY <2>2, <3>3 DEF u
  <2> QED
    BY <2>3, <2>4, <2>5
<1> QED
  BY <1>7, <1>8

\* Where walks start.
LEMMA Starts ==
    ASSUME NEW s, Walkable(s), NEW hashes \in Seq(Hash), NEW sys, hashes # <<>>,
           NEW p \in start_positions(hashes, sys, s)
    PROVE  Begin(p) \in Walk(s) /\ Begin(p).expected \in DOMAIN history(Begin(p), s)
<1>1. p \in lookup_hash(hashes[1], s)
  BY DEF start_positions
<1> PICK c \in DOMAIN s.clients :
        \E i \in DOMAIN s.clients[c].message_hashes :
           p = [client_id |-> c, message_index |-> i]
  BY <1>1 DEF lookup_hash
<1>2. PICK i \in DOMAIN s.clients[c].message_hashes :
        p = [client_id |-> c, message_index |-> i]
  OBVIOUS
<1>3. s.clients[c].message_hashes \in Seq(Hash)
  BY DEF Walkable, StoreOK, IsMap, ClientInteractionNode
<1>4. i \in Nat \ {0}
  BY <1>2, <1>3
<1> QED
  BY <1>2, <1>4 DEF Walk, history, told, Begin

\* All that a walk has matched is in the context of the node it stands on,
\* where that of each node (known) has the history of the node, and what the
\* context of its parent has.
LEMMA MatchedIsKnown ==
    ASSUME NEW s, Walkable(s), NEW known,
           \A c \in DOMAIN s.clients :
              /\ Messages(told(c, s)) \subseteq known[c]
              /\ s.clients[c].prev_id \in DOMAIN s.clients
                    => known[s.clients[c].prev_id] \subseteq known[c],
           NEW hashes \in Seq(Hash), NEW sys, hashes # <<>>,
           NEW v \in walk_forward(hashes, sys, s)
    PROVE  /\ v.client \in DOMAIN s.clients
           /\ \A j \in 1 .. v.prefix_len :
                 j \in DOMAIN hashes => hashes[j] \in known[v.client]
<1> DEFINE Known(n, w) ==
             /\ ~w.stop => w.prefix_len = n
             /\ \A j \in 1 .. w.prefix_len :
                   j \in DOMAIN hashes => hashes[j] \in known[w.client]
           Good == {x \in Nat \X Walk(s) : Known(x[1], x[2])}
<1>1. \A p \in start_positions(hashes, sys, s) :
        <<0, Begin(p)>> \in Good
  BY Starts DEF Begin
<1>2. ASSUME NEW i \in 1 .. Len(hashes), NEW w, <<i - 1, w>> \in Good
      PROVE  <<i, advance(w, hashes[i], s)>> \in Good
  <2> DEFINE u == advance(w, hashes[i], s)
  <2>1. w \in Walk(s) /\ Known(i - 1, w) /\ i \in Nat
    BY <1>2
  <2>2. /\ u \in Walk(s)
        /\ \/ Stops(w, u)
           \/ /\ Matches(w, hashes[i], s)
              /\ StaysInside(w, u, s) \/ MovesOn(w, u, s) \/ RunsOut(w, u, s)
    BY <2>1, Advance
  <2> HIDE DEF u
  <2>3. ASSUME Stops(w, u) PROVE Known(i, u)
    BY <2>1, <2>2, <2>3 DEF Stops
  <2>4. ASSUME Matches(w, hashes[i], s),
               StaysInside(w, u, s) \/ MovesOn(w, u, s) \/ RunsOut(w, u, s)
        PROVE  Known(i, u)
    <3>1. w.prefix_len = i - 1 /\ u.prefix_len = w.prefix_len + 1
      BY <2>1, <2>4 DEF Matches, StaysInside, MovesOn, RunsOut, Farther
    <3>2. u.prefix_len = i
      BY <2>1, <3>1
    <3>3. hashes[i] \in known[w.client]
      BY <2>1, <2>4 DEF Matches, history, Messages, Walk
    <3>4. known[w.client] \subseteq known[u.client]
      <4>1. CASE u.client = w.client
        BY <4>1
      <4>2. CASE MovesOn(w, u, s)
        <5>1. /\ s.clients[u.client].prev_id = w.client
              /\ u.client \in DOMAIN s.clients /\ w.client \in DOMAIN s.clients
          BY <2>1, <2>2, <4>2 DEF MovesOn, Walkable, Linked, Walk
        <5> QED
          BY <5>1
      <4> QED
        BY <2>4, <4>1, <4>2 DEF StaysInside, RunsOut
    <3>5. \A j \in 1 .. i : j \in 1 .. (i - 1) \/ j = i
      BY <2>1
    <3> QED
      BY <2>1, <3>1, <3>2, <3>3, <3>4, <3>5
  <2>5. Known(i, u)
    BY <2>2, <2>3, <2>4
  <2> QED
    BY <2>1, <2>2, <2>5 DEF u
<1>3. <<Len(hashes), v>> \in Good
  <2> HIDE DEF Good
  <2> QED
    BY <1>1, <1>2, Walks
<1> QED
  BY <1>3 DEF Walk

\* No walk has matched more than v.
Longest(v, hashes, sys, s) ==
    /\ v.prefix_len \in 1 .. Len(hashes)
    /\ \A u \in walk_forward(hashes, sys, s) :
          /\ u.prefix_len \in 1 .. Len(hashes)
          /\ u.client \in DOMAIN s.clients
          => u.prefix_len <= v.prefix_len

\* The frontier f at v: all is known, or the node is continued, or its parent
\* is, because the walk did not end at the boundary of a node.
DecidedAt(f, v, hashes, s) ==
    \/ /\ f.all_known /\ v.prefix_len = Len(hashes)
       /\ f.matched_client_id = v.client
    \/ /\ ~f.all_known /\ v.prefix_len # Len(hashes)
       /\ f.index = v.prefix_len
       /\ f.previous_interaction_id = v.client
    \/ /\ ~f.all_known /\ v.prefix_len # Len(hashes)
       /\ f.index = 0
       /\ f.previous_interaction_id = s.clients[v.client].prev_id
       /\ ~ended_at_client_boundary(hashes,
             [prefix_len |-> v.prefix_len, client |-> v.client], s)

LEMMA FrontierCases ==
    ASSUME NEW hashes \in Seq(Hash), hashes # <<>>, NEW sys, NEW s
    PROVE  LET f == find_frontier(hashes, NoId, sys, s)
           IN  \/ /\ ~f.all_known /\ f.index = 0
                  /\ f.previous_interaction_id = NoId
               \/ \E v \in walk_forward(hashes, sys, s) :
                    Longest(v, hashes, sys, s) /\ DecidedAt(f, v, hashes, s)
<1> DEFINE walks == walk_forward(hashes, sys, s)
           all   == Prefixes(hashes, sys, s)
           best  == best_prefixes(all, s)
           found == {frontier_at(hashes, NoId, m, s) : m \in best}
           f     == find_frontier(hashes, NoId, sys, s)
           Of(v) == [prefix_len |-> v.prefix_len, client |-> v.client]
<1>1. \A m \in all :
        /\ m.prefix_len \in 1 .. Len(hashes)
        /\ \E v \in walks : m = Of(v)
  BY DEF Prefixes
<1>2. \A u \in walks :
        /\ u.prefix_len \in 1 .. Len(hashes) /\ u.client \in DOMAIN s.clients
        => Of(u) \in all /\ Of(u).prefix_len = u.prefix_len
  BY DEF Prefixes
<1>3. f = IF found = {} THEN NoFrontier(NoId) ELSE CHOOSE g \in found : TRUE
  BY DEF find_frontier
<1> HIDE DEF walks, all
<1>4. \A m \in best : m \in all /\ \A n \in all : Better(m, n, s)
  BY DEF best_prefixes
<1> HIDE DEF best
<1>5. CASE found = {}
  BY <1>3, <1>5 DEF NoFrontier
<1>6. CASE found # {}
  <2>1. PICK m \in best : f = frontier_at(hashes, NoId, m, s)
    BY <1>3, <1>6
  <2>2. PICK v \in walks : m = Of(v)
    BY <1>1, <1>4
  <2>3. m.prefix_len = v.prefix_len /\ m.client = v.client
        /\ v.prefix_len \in 1 .. Len(hashes)
    BY <1>1, <1>4, <2>2
  <2>4. ASSUME NEW u \in walks, u.prefix_len \in 1 .. Len(hashes),
               u.client \in DOMAIN s.clients
        PROVE  u.prefix_len <= v.prefix_len
    <3>1. Better(m, Of(u), s) /\ Of(u).prefix_len = u.prefix_len
      BY <1>2, <1>4, <2>4
    <3> HIDE DEF Of
    <3>2. v.prefix_len > u.prefix_len \/ v.prefix_len = u.prefix_len
      BY <2>3, <3>1 DEF Better
    <3> QED
      BY <2>3, <2>4, <3>2
  <2> SUFFICES DecidedAt(f, v, hashes, s)
    BY <2>3, <2>4 DEF Longest, walks
  <2> DEFINE p == s.clients[m.client].prev_id
  <2>5. CASE m.prefix_len = Len(hashes)
    <3>1. f = [index |-> m.prefix_len, previous_interaction_id |-> p,
               all_known |-> TRUE, matched_client_id |-> m.client]
      BY <2>1, <2>5 DEF frontier_at
    <3> HIDE DEF f, p
    <3>2. f.all_known /\ f.matched_client_id = v.client
      BY <2>3, <3>1
    <3> QED
      BY <2>3, <2>5, <3>2 DEF DecidedAt, f
  <2>6. CASE /\ m.prefix_len # Len(hashes)
             /\ ended_at_client_boundary(hashes, m, s)
    <3>1. f = [index |-> m.prefix_len, previous_interaction_id |-> m.client,
               all_known |-> FALSE, matched_client_id |-> NoId]
      BY <2>1, <2>6 DEF frontier_at, NoFrontier
    <3> HIDE DEF f
    <3>2. /\ ~f.all_known /\ f.index = v.prefix_len
          /\ f.previous_interaction_id = v.client
      BY <2>3, <3>1
    <3> QED
      BY <2>3, <2>6, <3>2 DEF DecidedAt, f
  <2>7. CASE /\ m.prefix_len # Len(hashes)
             /\ ~ended_at_client_boundary(hashes, m, s)
    <3>1. f = [index |-> 0, previous_interaction_id |-> p,
               all_known |-> FALSE, matched_client_id |-> NoId]
      BY <2>1, <2>7 DEF frontier_at, NoFrontier
    <3> HIDE DEF f, p
    <3>2. /\ ~f.all_known /\ f.index = 0
          /\ f.previous_interaction_id = p
      BY <3>1
    <3> QED
      BY <2>2, <2>3, <2>7, <3>2 DEF DecidedAt, f, p
  <2> QED
    BY <2>5, <2>6, <2>7
<1> QED
  BY <1>5, <1>6

\* Whatever a request continues and whatever its system prompt: where all is
\* known, a walk has matched the whole request, and ends at the node matched.
LEMMA FrontierKnown ==
    ASSUME NEW hashes \in Seq(Hash), NEW prev, NEW sys, NEW s,
           find_frontier(hashes, prev, sys, s).all_known
    PROVE  LET c == find_frontier(hashes, prev, sys, s).matched_client_id
           IN  /\ hashes # <<>> /\ c \in DOMAIN s.clients
               /\ \E v \in walk_forward(hashes, sys, s) :
                     v.prefix_len = Len(hashes) /\ v.client = c
<1> DEFINE walks == walk_forward(hashes, sys, s)
           all   == Prefixes(hashes, sys, s)
           best  == best_prefixes(all, s)
           found == {frontier_at(hashes, prev, m, s) : m \in best}
           f     == find_frontier(hashes, prev, sys, s)
           Of(v) == [prefix_len |-> v.prefix_len, client |-> v.client]
<1>1. \A m \in all :
        /\ m.client \in DOMAIN s.clients
        /\ \E v \in walks : m = Of(v)
  BY DEF Prefixes
<1>2. \A id : ~NoFrontier(id).all_known
  BY DEF NoFrontier
<1>3. hashes # <<>> /\ found # {} /\ f = CHOOSE g \in found : TRUE
  BY <1>2 DEF find_frontier
<1> HIDE DEF walks, all
<1>4. \A m \in best : m \in all
  BY DEF best_prefixes
<1> HIDE DEF best
<1>5. PICK m \in best : f = frontier_at(hashes, prev, m, s)
  BY <1>3
<1>6. PICK v \in walks : m = Of(v)
  BY <1>1, <1>4
<1>7. m.prefix_len = v.prefix_len /\ m.client = v.client
  BY <1>6
<1> DEFINE p == s.clients[m.client].prev_id
<1>8. CASE m.prefix_len = Len(hashes) /\ prev \in {NoId, p}
  <2>1. f = [index |-> m.prefix_len, previous_interaction_id |-> p,
             all_known |-> TRUE, matched_client_id |-> m.client]
    BY <1>5, <1>8 DEF frontier_at
  <2> HIDE DEF f, p
  <2>2. f.matched_client_id = v.client
    BY <1>7, <2>1
  <2> QED
    BY <1>1, <1>3, <1>4, <1>7, <1>8, <2>2 DEF f, walks
<1>9. CASE ~(m.prefix_len = Len(hashes) /\ prev \in {NoId, p})
  <2>1. \/ f = [NoFrontier(m.client) EXCEPT !.index = m.prefix_len]
        \/ f = NoFrontier(p)
    BY <1>5, <1>9 DEF frontier_at
  <2>2. ~f.all_known
    BY <2>1 DEF NoFrontier
  <2> QED
    BY <2>2
<1> QED
  BY <1>8, <1>9

-----------------------------------------------------------------------------
(* Walks over histories that are initial parts of one another *)

NoRepeats(t) == \A i, j \in DOMAIN t : t[i] = t[j] => i = j

Touches(c, t, s) == SharesMessage(told(c, s), t)

\* Every stored history that has a message of t is an initial part of t.
Appended(t, s) ==
    \A c \in DOMAIN s.clients : Touches(c, t, s) => IsInitial(told(c, s), t)

\* And each of them is on top of a shorter one: no chain leads from the
\* histories that have a message of t to others.
Chained(t, s) ==
    \A c \in DOMAIN s.clients :
        LET p == s.clients[c].prev_id
        IN  p \in DOMAIN s.clients =>
              /\ Touches(c, t, s) <=> Touches(p, t, s)
              /\ Touches(c, t, s) => Len(told(p, s)) < Len(told(c, s))

\* What is stored for c, when it has a message of t.
LEMMA TouchedNode ==
    ASSUME NEW s, Walkable(s), NEW t \in Seq(Hash), Appended(t, s),
           NEW c \in DOMAIN s.clients, Touches(c, t, s)
    PROVE  /\ told(c, s) \in Seq(Hash) /\ Len(told(c, s)) \in Nat \ {0}
           /\ DOMAIN told(c, s) = 1 .. Len(told(c, s))
           /\ Len(t) \in Nat /\ Len(told(c, s)) <= Len(t)
           /\ \A i \in 1 .. Len(told(c, s)) : told(c, s)[i] = t[i]
<1> DEFINE h == told(c, s)
<1>1. h \in Seq(Hash)
  BY DEF Walkable, StoreOK, IsMap, ClientInteractionNode, told
<1>2. h # <<>>
  BY DEF Walkable
<1>3. Len(h) <= Len(t) /\ h = SubSeq(t, 1, Len(h))
  BY DEF Appended, IsInitial
<1> HIDE DEF h
<1>4. Len(h) \in Nat \ {0} /\ Len(t) \in Nat /\ DOMAIN h = 1 .. Len(h)
  BY <1>1, <1>2
<1>5. \A i \in 1 .. Len(h) : h[i] = t[i]
  <2> DEFINE n == Len(h)
  <2>1. n \in Nat /\ n <= Len(t) /\ h = SubSeq(t, 1, n)
    BY <1>3, <1>4
  <2> HIDE DEF n
  <2>2. \A i \in 1 .. n : SubSeq(t, 1, n)[i] = t[i]
    BY <1>4, <2>1
  <2> QED
    BY <2>1, <2>2 DEF n
<1> QED
  BY <1>1, <1>3, <1>4, <1>5 DEF h

\* A request that is an initial part of t, and where its walks may be after i
\* of its messages: within a node, at the end of one that has a child, at the
\* end of one that has none.
Begins(q, t) ==
    /\ q \in Seq(Hash) /\ q # <<>> /\ Len(q) <= Len(t)
    /\ \A i \in 1 .. Len(q) : q[i] = t[i]

Within(i, w, s) ==
    /\ ~w.stop /\ w.prefix_len = i
    /\ w.expected = i + 1 /\ i < Len(told(w.client, s))

Passed(i, w, s) ==
    LET p == s.clients[w.client].prev_id
    IN  /\ p \in DOMAIN s.clients /\ w.prefix_len = Len(told(p, s))
        /\ ~w.stop => w.prefix_len = i /\ w.expected = 1

AtEnd(w, s) == w.stop /\ w.prefix_len = Len(told(w.client, s))

\* The next message is the one that is expected within a node, and never the
\* first of the next node.
LEMMA NextOfAppended ==
    ASSUME NEW s, Walkable(s), NEW t \in Seq(Hash), NoRepeats(t), Appended(t, s), Chained(t, s),
           NEW q, Begins(q, t), NEW i \in 1 .. Len(q),
           NEW w \in Walk(s), Touches(w.client, t, s)
    PROVE  /\ Within(i - 1, w, s) => Matches(w, q[i], s)
           /\ Passed(i - 1, w, s) \/ AtEnd(w, s) => ~Matches(w, q[i], s)
<1> DEFINE c == w.client
<1>1. /\ i \in Nat /\ i # 0 /\ q[i] = t[i] /\ i \in DOMAIN t /\ Len(q) \in Nat
  BY DEF Begins
<1>2. /\ c \in DOMAIN s.clients
      /\ DOMAIN told(c, s) = 1 .. Len(told(c, s)) /\ Len(told(c, s)) \in Nat \ {0}
      /\ \A j \in 1 .. Len(told(c, s)) : told(c, s)[j] = t[j]
      /\ history(w, s) = told(c, s)
  BY TouchedNode DEF Walk, history, told
<1>3. ASSUME Within(i - 1, w, s) PROVE Matches(w, q[i], s)
  <2>1. w.expected = i /\ i \in 1 .. Len(told(c, s)) /\ ~w.stop
    BY <1>1, <1>2, <1>3 DEF Within
  <2> QED
    BY <1>1, <1>2, <2>1 DEF Matches
<1>4. ASSUME AtEnd(w, s) PROVE ~Matches(w, q[i], s)
  BY <1>4 DEF AtEnd, Matches
<1>5. ASSUME Passed(i - 1, w, s) PROVE ~Matches(w, q[i], s)
  <2> SUFFICES ASSUME ~w.stop PROVE ~Matches(w, q[i], s)
    BY DEF Matches
  <2> DEFINE p == s.clients[c].prev_id
  <2>1. /\ p \in DOMAIN s.clients /\ i - 1 = Len(told(p, s))
        /\ w.expected = 1
    BY <1>5 DEF Passed
  <2>2. Touches(p, t, s)
    BY <1>2, <2>1 DEF Chained
  <2>3. Len(told(p, s)) \in Nat \ {0}
    BY <2>1, <2>2, TouchedNode
  <2> HIDE DEF p
  <2>4. i # 1 /\ 1 \in DOMAIN t /\ told(c, s)[1] = t[1]
    BY <1>1, <1>2, <2>1, <2>3
  <2>5. t[1] # t[i]
    BY <1>1, <2>4 DEF NoRepeats
  <2> QED
    BY <1>1, <1>2, <2>1, <2>4, <2>5 DEF Matches
<1> QED
  BY <1>3, <1>4, <1>5

LEMMA AppendedStep ==
    ASSUME NEW s, Walkable(s), NEW t \in Seq(Hash), NoRepeats(t), Appended(t, s), Chained(t, s),
           NEW q, Begins(q, t), NEW i \in 1 .. Len(q),
           NEW w \in Walk(s), Touches(w.client, t, s),
           Within(i - 1, w, s) \/ Passed(i - 1, w, s) \/ AtEnd(w, s)
    PROVE  LET u == advance(w, q[i], s)
           IN  /\ u \in Walk(s) /\ Touches(u.client, t, s)
               /\ Within(i, u, s) \/ Passed(i, u, s) \/ AtEnd(u, s)
               /\ Within(i - 1, w, s) => /\ u.prefix_len = i
                                      /\ \/ i = Len(told(w.client, s))
                                         \/ u.client = w.client /\ Within(i, u, s)
               /\ ~Within(i - 1, w, s) => u.prefix_len = w.prefix_len
<1> DEFINE u == advance(w, q[i], s)
<1>1. /\ u \in Walk(s)
      /\ \/ ~Matches(w, q[i], s) /\ Stops(w, u)
         \/ /\ Matches(w, q[i], s)
            /\ StaysInside(w, u, s) \/ MovesOn(w, u, s) \/ RunsOut(w, u, s)
  BY Advance
<1>2. /\ Within(i - 1, w, s) => Matches(w, q[i], s)
      /\ Passed(i - 1, w, s) \/ AtEnd(w, s) => ~Matches(w, q[i], s)
  BY NextOfAppended
<1>3. i \in Nat /\ i # 0 /\ (i - 1) + 1 = i
  BY DEF Begins
<1>4. /\ w.client \in DOMAIN s.clients /\ Len(told(w.client, s)) \in Nat
      /\ history(w, s) = told(w.client, s)
  BY TouchedNode DEF Walk, history, told
<1> SUFFICES /\ Touches(u.client, t, s)
             /\ Within(i, u, s) \/ Passed(i, u, s) \/ AtEnd(u, s)
             /\ Within(i - 1, w, s) => /\ u.prefix_len = i
                                    /\ \/ i = Len(told(w.client, s))
                                       \/ u.client = w.client /\ Within(i, u, s)
             /\ ~Within(i - 1, w, s) => u.prefix_len = w.prefix_len
  BY <1>1
<1> HIDE DEF u
<1>5. CASE ~Matches(w, q[i], s) /\ Stops(w, u)
  <2>1. ~Within(i - 1, w, s) /\ (Passed(i - 1, w, s) \/ AtEnd(w, s))
    BY <1>2, <1>5
  <2>2. u.client = w.client /\ u.prefix_len = w.prefix_len /\ u.stop
    BY <1>5 DEF Stops
  <2>3. Passed(i, u, s) \/ AtEnd(u, s)
    BY <2>1, <2>2 DEF Passed, AtEnd
  <2> QED
    BY <2>1, <2>2, <2>3
<1>6. CASE /\ Matches(w, q[i], s)
           /\ StaysInside(w, u, s) \/ MovesOn(w, u, s) \/ RunsOut(w, u, s)
  <2>1. /\ Within(i - 1, w, s) /\ w.prefix_len = i - 1 /\ w.expected = i
        /\ i - 1 < Len(told(w.client, s))
    BY <1>2, <1>3, <1>6 DEF Within
  <2>2. u.prefix_len = i
    BY <1>3, <1>6, <2>1 DEF StaysInside, MovesOn, RunsOut, Farther
  <2>3. CASE StaysInside(w, u, s)
    <3>1. /\ u.client = w.client /\ ~u.stop /\ u.expected = i + 1
          /\ i # Len(told(w.client, s))
      BY <1>4, <2>1, <2>3 DEF StaysInside
    <3>2. i < Len(told(w.client, s))
      BY <1>3, <1>4, <2>1, <3>1
    <3>3. Within(i, u, s)
      BY <2>2, <3>1, <3>2 DEF Within
    <3> QED
      BY <2>1, <2>2, <3>1, <3>3
  <2>4. CASE MovesOn(w, u, s)
    <3>1. /\ s.clients[u.client].prev_id = w.client
          /\ u.client \in DOMAIN s.clients
          /\ u.expected = 1 /\ i = Len(told(w.client, s))
      BY <1>1, <1>4, <2>1, <2>4 DEF MovesOn, Walkable, Linked, Walk
    <3>2. Touches(u.client, t, s)
      BY <1>4, <3>1 DEF Chained
    <3>3. Passed(i, u, s)
      BY <1>4, <2>2, <3>1 DEF Passed
    <3> QED
      BY <2>1, <2>2, <3>1, <3>2, <3>3
  <2>5. CASE RunsOut(w, u, s)
    <3>1. u.client = w.client /\ u.stop /\ i = Len(told(w.client, s))
      BY <1>4, <2>1, <2>5 DEF RunsOut
    <3>2. AtEnd(u, s)
      BY <2>2, <3>1 DEF AtEnd
    <3> QED
      BY <2>1, <2>2, <3>1, <3>2
  <2> QED
    BY <1>6, <2>3, <2>4, <2>5
<1> QED
  BY <1>1, <1>5, <1>6

\* All walks of such a request.
LEMMA AppendedWalks ==
    ASSUME NEW s, Walkable(s), NEW t \in Seq(Hash), NoRepeats(t), Appended(t, s), Chained(t, s),
           NEW q, Begins(q, t), NEW sys,
           NEW v \in walk_forward(q, sys, s)
    PROVE  /\ v \in Walk(s) /\ Touches(v.client, t, s)
           /\ Within(Len(q), v, s) \/ Passed(Len(q), v, s) \/ AtEnd(v, s)
<1> DEFINE Good == {x \in Nat \X Walk(s) :
                      /\ Touches(x[2].client, t, s)
                      /\ Within(x[1], x[2], s) \/ Passed(x[1], x[2], s) \/ AtEnd(x[2], s)}
<1>1. q \in Seq(Hash) /\ q # <<>> /\ Len(q) \in Nat /\ 1 \in DOMAIN q
      /\ 1 \in DOMAIN t /\ q[1] = t[1] /\ DOMAIN t = 1 .. Len(t)
  BY DEF Begins
<1>2. ASSUME NEW p \in start_positions(q, sys, s)
      PROVE  <<0, Begin(p)>> \in Good
  <2> DEFINE w == Begin(p)
  <2>1. w \in Walk(s) /\ w.expected \in DOMAIN history(w, s)
        /\ w.prefix_len = 0 /\ ~w.stop
    BY <1>1, <1>2, Starts DEF Begin
  <2>2. history(w, s)[w.expected] = q[1]
    BY DEF start_positions, lookup_hash, history, told, Begin
  <2> HIDE DEF w
  <2>3. w.client \in DOMAIN s.clients /\ history(w, s) = told(w.client, s)
    BY <2>1 DEF Walk, history, told
  <2>4. Touches(w.client, t, s)
    BY <1>1, <2>1, <2>2, <2>3 DEF Touches, SharesMessage, Messages
  <2>5. /\ w.expected \in 1 .. Len(told(w.client, s))
        /\ Len(told(w.client, s)) \in Nat /\ Len(told(w.client, s)) <= Len(t)
        /\ told(w.client, s)[w.expected] = t[w.expected]
    BY <2>1, <2>3, <2>4, TouchedNode
  <2>6. w.expected = 1
    BY <1>1, <2>2, <2>3, <2>5 DEF NoRepeats
  <2>7. Within(0, w, s)
    BY <2>1, <2>5, <2>6 DEF Within
  <2> QED
    BY <2>1, <2>4, <2>7 DEF w
<1>3. ASSUME NEW i \in 1 .. Len(q), NEW w, <<i - 1, w>> \in Good
      PROVE  <<i, advance(w, q[i], s)>> \in Good
  <2>1. /\ w \in Walk(s) /\ Touches(w.client, t, s) /\ i \in Nat
        /\ Within(i - 1, w, s) \/ Passed(i - 1, w, s) \/ AtEnd(w, s)
    BY <1>3
  <2> DEFINE u == advance(w, q[i], s)
  <2>2. /\ u \in Walk(s) /\ Touches(u.client, t, s)
        /\ Within(i, u, s) \/ Passed(i, u, s) \/ AtEnd(u, s)
    BY <2>1, AppendedStep
  <2> HIDE DEF u
  <2> QED
    BY <2>1, <2>2 DEF u
<1>4. <<Len(q), v>> \in Good
  <2> HIDE DEF Good
  <2> QED
    BY <1>1, <1>2, <1>3, Walks
<1> QED
  BY <1>4

\* One of the walks covers all that c and the request have in common.
LEMMA AppendedFrom ==
    ASSUME NEW s, Walkable(s), NEW t \in Seq(Hash), NoRepeats(t), Appended(t, s), Chained(t, s),
           NEW q, Begins(q, t),
           NEW c \in DOMAIN s.clients, Touches(c, t, s)
    PROVE  \E v \in walk_forward(q, NoHash, s) :
              /\ v \in Walk(s) /\ v.prefix_len \in 1 .. Len(q)
              /\ v.prefix_len = Len(q) \/ v.prefix_len >= Len(told(c, s))
<1> DEFINE L == Len(told(c, s))
           Far(i, w) == (w.client = c /\ Within(i, w, s)) \/ w.prefix_len >= L
           Good == {x \in Nat \X Walk(s) :
                      /\ Touches(x[2].client, t, s)
                      /\ Within(x[1], x[2], s) \/ Passed(x[1], x[2], s) \/ AtEnd(x[2], s)
                      /\ x[2].prefix_len <= x[1] /\ Far(x[1], x[2])}
           p == [client_id |-> c, message_index |-> 1]
<1>1. /\ q \in Seq(Hash) /\ q # <<>> /\ Len(q) \in Nat /\ 1 \in DOMAIN q
      /\ 1 \in 1 .. Len(q) /\ q[1] = t[1]
  BY DEF Begins
<1>2. /\ L \in Nat \ {0} /\ DOMAIN told(c, s) = 1 .. L
      /\ 1 \in DOMAIN told(c, s) /\ told(c, s)[1] = q[1]
  BY <1>1, TouchedNode
<1>3. p \in start_positions(q, NoHash, s)
  <2>1. p \in lookup_hash(q[1], s)
    BY <1>2 DEF lookup_hash, told
  <2> QED
    BY <2>1 DEF start_positions
<1>4. <<0, Begin(p)>> \in Good
  <2> DEFINE w == Begin(p)
  <2>1. /\ w \in Walk(s) /\ w.prefix_len = 0 /\ ~w.stop /\ w.expected = 1
        /\ w.client = c
    BY <1>1, <1>3, Starts DEF Begin
  <2> HIDE DEF w
  <2>2. Within(0, w, s)
    BY <1>2, <2>1 DEF Within
  <2> QED
    BY <2>1, <2>2 DEF w
<1>5. ASSUME NEW i \in 1 .. Len(q), NEW w, <<i - 1, w>> \in Good
      PROVE  <<i, advance(w, q[i], s)>> \in Good
  <2>1. /\ w \in Walk(s) /\ Touches(w.client, t, s)
        /\ Within(i - 1, w, s) \/ Passed(i - 1, w, s) \/ AtEnd(w, s)
        /\ w.prefix_len <= i - 1 /\ Far(i - 1, w)
    BY <1>5
  <2> DEFINE u == advance(w, q[i], s)
  <2>2. /\ u \in Walk(s) /\ Touches(u.client, t, s)
        /\ Within(i, u, s) \/ Passed(i, u, s) \/ AtEnd(u, s)
        /\ Within(i - 1, w, s) => /\ u.prefix_len = i
                               /\ \/ i = Len(told(w.client, s))
                                  \/ u.client = w.client /\ Within(i, u, s)
        /\ ~Within(i - 1, w, s) => u.prefix_len = w.prefix_len
    BY <2>1, AppendedStep
  <2> HIDE DEF u
  <2>3. i \in Nat /\ w.prefix_len \in Nat
    BY <1>1, <2>1 DEF Walk
  <2>4. u.prefix_len <= i /\ Far(i, u)
    <3>1. CASE ~Within(i - 1, w, s)
      BY <1>2, <2>1, <2>2, <2>3, <3>1
    <3>2. CASE Within(i - 1, w, s) /\ w.prefix_len >= L
      BY <1>2, <2>1, <2>2, <2>3, <3>2
    <3>3. CASE Within(i - 1, w, s) /\ w.client = c
      <4>1. i = L \/ (u.client = c /\ Within(i, u, s))
        BY <2>2, <3>3
      <4> QED
        BY <1>2, <2>2, <2>3, <3>3, <4>1
    <3> QED
      BY <2>1, <3>1, <3>2, <3>3
  <2> QED
    BY <2>2, <2>3, <2>4 DEF u
<1>6. PICK v \in walk_forward(q, NoHash, s) : <<Len(q), v>> \in Good
  <2> HIDE DEF Good, p
  <2> QED
    BY <1>1, <1>3, <1>4, <1>5, WalkFrom
<1>7. v \in Walk(s) /\ v.prefix_len \in Nat /\ v.prefix_len <= Len(q)
      /\ Far(Len(q), v)
  BY <1>6 DEF Walk
<1>8. v.prefix_len = Len(q) \/ v.prefix_len >= L
  BY <1>7 DEF Within
<1>9. v.prefix_len \in 1 .. Len(q)
  BY <1>1, <1>2, <1>7, <1>8
<1> QED
  BY <1>6, <1>7, <1>8, <1>9

\* The chain above a node begins with the node.
LEMMA AncestorOfSelf ==
    ASSUME NEW s, IsFiniteSet(DOMAIN s.clients), NEW c
    PROVE  ancestor(c, s)[0] = c /\ 0 \in DOMAIN ancestor(c, s)
           /\ DOMAIN ancestor(c, s) \subseteq Nat
<1> DEFINE N == Cardinality(DOMAIN s.clients)
           above(x) == IF parent(x, s) = NoId THEN x ELSE parent(x, s)
           Solves(w, n) ==
              w = [i \in 0 .. n |-> IF i = 0 THEN c ELSE above(w[i - 1])]
           S == {n \in Nat : \E w : Solves(w, n)}
<1>1. N \in Nat
  BY FS_CardinalityType
<1> HIDE DEF N, above
<1>2. 0 \in S
  <2> DEFINE w == [i \in 0 .. 0 |-> c]
  <2>1. w = [i \in 0 .. 0 |-> IF i = 0 THEN c ELSE above(w[i - 1])]
    OBVIOUS
  <2> QED
    BY <2>1
<1>3. ASSUME NEW n \in 1 .. N, n - 1 \in S
      PROVE  n \in S
  <2>1. PICK w : Solves(w, n - 1)
    BY <1>3
  <2> DEFINE v == [i \in 0 .. n |-> IF i = n THEN above(w[n - 1]) ELSE w[i]]
             u == [i \in 0 .. n |-> IF i = 0 THEN c ELSE above(v[i - 1])]
  <2>2. \A i \in 0 .. n : v[i] = u[i]
    <3> SUFFICES ASSUME NEW i \in 0 .. n PROVE v[i] = u[i]
      OBVIOUS
    <3>1. CASE i = n
      <4>1. n # 0 /\ n - 1 \in 0 .. n /\ n - 1 # n
        BY <1>1
      <4> QED
        BY <3>1, <4>1
    <3>2. CASE i # n
      <4>1. i \in 0 .. (n - 1)
        BY <1>1, <3>2
      <4>2. w[i] = IF i = 0 THEN c ELSE above(w[i - 1])
        BY <2>1, <4>1
      <4>3. v[i] = w[i]
        BY <3>2
      <4>4. CASE i = 0
        BY <4>2, <4>3, <4>4
      <4>5. CASE i # 0
        <5>1. i - 1 \in 0 .. n /\ i - 1 # n
          BY <1>1, <4>1, <4>5
        <5>2. v[i - 1] = w[i - 1]
          BY <5>1
        <5> QED
          BY <4>2, <4>3, <4>5, <5>2
      <4> QED
        BY <4>4, <4>5
    <3> QED
      BY <3>1, <3>2
  <2>3. v = u
    BY <2>2
  <2>4. Solves(v, n)
    BY <2>3
  <2> HIDE DEF v, Solves
  <2> QED
    BY <1>1, <2>4
<1>4. N \in S
  <2> HIDE DEF S
  <2>1. \A n \in 1 .. N : n - 1 \in S => n \in S
    BY <1>3
  <2>2. \A i \in 0 .. N : i \in S
    BY <1>1, <1>2, <2>1, UpTo
  <2> QED
    BY <1>1, <2>2
<1> DEFINE up == CHOOSE w : Solves(w, N)
<1>5. ancestor(c, s) = up
  BY DEF ancestor, N, above
<1>6. Solves(up, N)
  <2>1. \E w : Solves(w, N)
    BY <1>4
  <2> HIDE DEF Solves
  <2> QED
    BY <2>1
<1> HIDE DEF up
<1>7. up[0] = c /\ DOMAIN up = 0 .. N
  BY <1>1, <1>6
<1> QED
  BY <1>1, <1>5, <1>7

\* A walk that ends with the last message of a node ended at its boundary.
LEMMA EndIsBoundary ==
    ASSUME NEW s, IsFiniteSet(DOMAIN s.clients), NEW q, NEW c, NEW n,
           told(c, s) \in Seq(Hash), told(c, s) # <<>>,
           told(c, s)[Len(told(c, s))] = q[n]
    PROVE  ended_at_client_boundary(q, [prefix_len |-> n, client |-> c], s)
<1> DEFINE up == ancestor(c, s)
           holds(k) == \E i \in DOMAIN s.clients[up[k]].message_hashes :
                          s.clients[up[k]].message_hashes[i] = q[n]
           levels == {k \in DOMAIN up : holds(k)}
           first  == CHOOSE k \in levels : \A j \in levels : k <= j
<1>1. up[0] = c /\ 0 \in DOMAIN up /\ DOMAIN up \subseteq Nat
  BY AncestorOfSelf
<1>2. Len(told(c, s)) \in DOMAIN told(c, s)
  OBVIOUS
<1>3. containing_client(c, q[n], s) = IF levels = {} THEN c ELSE up[first]
  BY DEF containing_client
<1> HIDE DEF up
<1>4. holds(0)
  BY <1>1, <1>2 DEF told
<1> HIDE DEF holds
<1>5. 0 \in levels /\ levels \subseteq Nat
  BY <1>1, <1>4
<1> HIDE DEF levels
<1>6. first = 0
  <2>1. \A j \in levels : 0 <= j
    BY <1>5
  <2>2. first \in levels /\ \A j \in levels : first <= j
    BY <1>5, <2>1
  <2>3. first <= 0 /\ first \in Nat
    BY <1>5, <2>2
  <2> HIDE DEF first
  <2> QED
    BY <2>3
<1>7. containing_client(c, q[n], s) = c
  BY <1>1, <1>3, <1>6
<1> QED
  BY <1>7 DEF ended_at_client_boundary, told

\* Where such a request goes: it is the history of the node that answers it,
\* or continues the whole history of a node, or starts a new chain.
LEMMA AppendedFrontier ==
    ASSUME NEW s, Walkable(s), IsFiniteSet(DOMAIN s.clients),
           NEW t \in Seq(Hash), NoRepeats(t), Appended(t, s), Chained(t, s),
           NEW q, Begins(q, t)
    PROVE  LET f    == find_frontier(q, NoId, NoHash, s)
               prev == f.previous_interaction_id
               c    == f.matched_client_id
           IN  /\ f.all_known =>
                     /\ c \in DOMAIN s.clients /\ Touches(c, t, s)
                     /\ Len(q) <= Len(told(c, s))
                     /\ \/ Len(q) = Len(told(c, s))
                        \/ q # t
               /\ ~f.all_known =>
                     \/ prev = NoId /\ f.index = 0
                     \/ /\ prev \in DOMAIN s.clients /\ Touches(prev, t, s)
                        /\ f.index = Len(told(prev, s)) /\ f.index < Len(q)
<1> DEFINE f     == find_frontier(q, NoId, NoHash, s)
           prev  == f.previous_interaction_id
           walks == walk_forward(q, NoHash, s)
<1>1. q \in Seq(Hash) /\ q # <<>> /\ Len(q) \in Nat /\ Len(q) <= Len(t)
      /\ Len(t) \in Nat /\ \A i \in 1 .. Len(q) : q[i] = t[i]
  BY DEF Begins
<1>2. CASE ~f.all_known /\ f.index = 0 /\ prev = NoId
  BY <1>2
<1>3. ASSUME NEW v \in walks, Longest(v, q, NoHash, s)
      PROVE  /\ v.client \in DOMAIN s.clients /\ Touches(v.client, t, s)
             /\ Len(told(v.client, s)) \in Nat \ {0}
             /\ Len(told(v.client, s)) <= Len(t)
             /\ v.prefix_len # Len(q) => AtEnd(v, s)
             /\ v.prefix_len = Len(q) =>
                   /\ Len(q) <= Len(told(v.client, s))
                   /\ Len(q) = Len(told(v.client, s)) \/ q # t
  <2> DEFINE c == v.client
  <2>1. /\ v \in Walk(s) /\ Touches(c, t, s)
        /\ Within(Len(q), v, s) \/ Passed(Len(q), v, s) \/ AtEnd(v, s)
    BY AppendedWalks
  <2>2. c \in DOMAIN s.clients /\ v.prefix_len \in Nat
    BY <2>1 DEF Walk
  <2>3. Len(told(c, s)) \in Nat \ {0} /\ Len(told(c, s)) <= Len(t)
    BY <2>1, <2>2, TouchedNode
  <2>4. CASE Within(Len(q), v, s)
    <3>1. v.prefix_len = Len(q) /\ Len(q) < Len(told(c, s))
      BY <2>4 DEF Within
    <3> QED
      BY <1>1, <2>1, <2>2, <2>3, <3>1
  <2>5. CASE AtEnd(v, s)
    <3>1. v.prefix_len = Len(told(c, s))
      BY <2>5 DEF AtEnd
    <3> QED
      BY <1>1, <2>1, <2>2, <2>3, <2>5, <3>1
  <2>6. CASE Passed(Len(q), v, s)
    <3> DEFINE p == s.clients[c].prev_id
    <3>1. p \in DOMAIN s.clients /\ v.prefix_len = Len(told(p, s))
      BY <2>6 DEF Passed
    <3>2. Len(told(p, s)) < Len(told(c, s))
      BY <2>1, <2>2, <3>1 DEF Chained
    <3>3. PICK u \in walks :
            /\ u \in Walk(s) /\ u.prefix_len \in 1 .. Len(q)
            /\ u.prefix_len = Len(q) \/ u.prefix_len >= Len(told(c, s))
      BY <2>1, <2>2, AppendedFrom
    <3>4. u.prefix_len <= v.prefix_len
      BY <1>3, <3>3 DEF Walk, Longest
    <3> HIDE DEF walks
    <3>5. v.prefix_len = Len(q)
      BY <1>1, <1>3, <2>2, <2>3, <3>1, <3>2, <3>3, <3>4 DEF Longest
    <3>6. Len(q) <= Len(told(c, s)) /\ Len(q) # Len(told(c, s))
      BY <1>1, <2>2, <2>3, <3>1, <3>2, <3>5
    <3>7. q # t
      BY <1>1, <2>3, <3>6
    <3> QED
      BY <2>1, <2>2, <2>3, <3>5, <3>6, <3>7
  <2> QED
    BY <2>1, <2>4, <2>5, <2>6
<1>4. \/ ~f.all_known /\ f.index = 0 /\ prev = NoId
      \/ \E v \in walks :
            Longest(v, q, NoHash, s) /\ DecidedAt(f, v, q, s)
  BY <1>1, FrontierCases
<1> HIDE DEF f, walks
<1>5. ASSUME NEW v \in walks, Longest(v, q, NoHash, s),
             ~f.all_known, v.prefix_len # Len(q),
             f.index = v.prefix_len, prev = v.client
      PROVE  /\ prev \in DOMAIN s.clients /\ Touches(prev, t, s)
             /\ f.index = Len(told(prev, s)) /\ f.index < Len(q)
  <2>1. AtEnd(v, s) /\ prev \in DOMAIN s.clients /\ Touches(prev, t, s)
    BY <1>3, <1>5
  <2>2. f.index = Len(told(prev, s))
    BY <1>5, <2>1 DEF AtEnd
  <2>3. f.index < Len(q)
    BY <1>1, <1>5 DEF Longest
  <2> QED
    BY <2>1, <2>2, <2>3
<1>6. ASSUME NEW v \in walks, Longest(v, q, NoHash, s),
             v.prefix_len # Len(q)
      PROVE  ended_at_client_boundary(q,
               [prefix_len |-> v.prefix_len, client |-> v.client], s)
  <2> DEFINE c == v.client
             n == v.prefix_len
  <2>1. AtEnd(v, s) /\ c \in DOMAIN s.clients /\ Touches(c, t, s)
    BY <1>3, <1>6
  <2>2. n = Len(told(c, s))
    BY <2>1 DEF AtEnd
  <2>3. /\ told(c, s) \in Seq(Hash) /\ Len(told(c, s)) \in Nat \ {0}
        /\ \A i \in 1 .. Len(told(c, s)) : told(c, s)[i] = t[i]
    BY <2>1, TouchedNode
  <2>4. told(c, s)[Len(told(c, s))] = q[n]
    BY <1>1, <1>6, <2>2, <2>3 DEF Longest
  <2> HIDE DEF c, n
  <2>5. told(c, s) # <<>>
    BY <2>3
  <2>6. ended_at_client_boundary(q, [prefix_len |-> n, client |-> c], s)
    BY <2>3, <2>4, <2>5, EndIsBoundary
  <2> QED
    BY <2>6 DEF c, n
<1>7. ASSUME NEW v \in walks, Longest(v, q, NoHash, s),
             f.all_known, v.prefix_len = Len(q),
             f.matched_client_id = v.client
      PROVE  /\ v.client \in DOMAIN s.clients /\ Touches(v.client, t, s)
             /\ Len(q) <= Len(told(v.client, s))
             /\ Len(q) = Len(told(v.client, s)) \/ q # t
  BY <1>3, <1>7
<1> QED
  BY <1>2, <1>4, <1>5, <1>6, <1>7 DEF f, DecidedAt

\* A request that has no message of t continues no chain that has.
LEMMA OtherChains ==
    ASSUME NEW s, Walkable(s), NEW t \in Seq(Hash), Appended(t, s), Chained(t, s),
           NEW q \in Seq(Hash), q # <<>>, ~SharesMessage(q, t)
    PROVE  LET f    == find_frontier(q, NoId, NoHash, s)
               prev == f.previous_interaction_id
           IN  ~f.all_known /\ prev \in DOMAIN s.clients
                 => ~Touches(prev, t, s)
<1> DEFINE f     == find_frontier(q, NoId, NoHash, s)
           prev  == f.previous_interaction_id
           walks == walk_forward(q, NoHash, s)
           Good  == {x \in Nat \X Walk(s) : ~Touches(x[2].client, t, s)}
<1>1. Len(q) \in Nat /\ 1 \in DOMAIN q
  OBVIOUS
<1>2. ASSUME NEW p \in start_positions(q, NoHash, s)
      PROVE  <<0, Begin(p)>> \in Good
  <2> DEFINE w == Begin(p)
  <2>1. w \in Walk(s) /\ w.expected \in DOMAIN history(w, s)
    BY Starts
  <2>2. history(w, s)[w.expected] = q[1]
    BY DEF start_positions, lookup_hash, history, told, Begin
  <2> HIDE DEF w
  <2>3. w.client \in DOMAIN s.clients /\ history(w, s) = told(w.client, s)
    BY <2>1 DEF Walk, history, told
  <2>4. ASSUME Touches(w.client, t, s) PROVE FALSE
    <3>1. /\ w.expected \in 1 .. Len(told(w.client, s))
          /\ told(w.client, s)[w.expected] = t[w.expected]
          /\ w.expected \in DOMAIN t
      BY <2>1, <2>3, <2>4, TouchedNode
    <3>2. q[1] \in Messages(q) /\ q[1] \in Messages(t)
      BY <1>1, <2>2, <2>3, <3>1 DEF Messages
    <3> QED
      BY <3>2 DEF SharesMessage
  <2> QED
    BY <2>1, <2>4 DEF w
<1>3. ASSUME NEW i \in 1 .. Len(q), NEW w, <<i - 1, w>> \in Good
      PROVE  <<i, advance(w, q[i], s)>> \in Good
  <2> DEFINE u == advance(w, q[i], s)
  <2>1. w \in Walk(s) /\ ~Touches(w.client, t, s) /\ i \in Nat
    BY <1>3
  <2>2. /\ u \in Walk(s)
        /\ Stops(w, u) \/ StaysInside(w, u, s) \/ MovesOn(w, u, s) \/ RunsOut(w, u, s)
    BY <2>1, Advance
  <2> HIDE DEF u
  <2>3. CASE MovesOn(w, u, s)
    <3>1. /\ s.clients[u.client].prev_id = w.client
          /\ u.client \in DOMAIN s.clients
          /\ w.client \in DOMAIN s.clients
      BY <2>1, <2>2, <2>3 DEF MovesOn, Walkable, Linked, Walk
    <3>2. ~Touches(u.client, t, s)
      BY <2>1, <3>1 DEF Chained
    <3> QED
      BY <2>1, <2>2, <3>2 DEF u
  <2>4. CASE u.client = w.client
    BY <2>1, <2>2, <2>4 DEF u
  <2> QED
    BY <2>2, <2>3, <2>4 DEF Stops, StaysInside, RunsOut
<1>4. ASSUME NEW v \in walks
      PROVE  v.client \in DOMAIN s.clients /\ ~Touches(v.client, t, s)
  <2>1. <<Len(q), v>> \in Good
    <3> HIDE DEF Good
    <3> QED
      BY <1>2, <1>3, Walks
  <2> QED
    BY <2>1 DEF Walk
<1>5. \/ ~f.all_known /\ prev = NoId
      \/ \E v \in walks : DecidedAt(f, v, q, s)
  BY FrontierCases
<1> HIDE DEF f, walks
<1>6. NoId \notin DOMAIN s.clients
  BY IdAssumption DEF Walkable, StoreOK, IsMap
<1>7. ASSUME ~f.all_known, prev \in DOMAIN s.clients
      PROVE  ~Touches(prev, t, s)
  <2>1. PICK v \in walks : \/ prev = v.client
                           \/ prev = s.clients[v.client].prev_id
    BY <1>5, <1>6, <1>7 DEF DecidedAt
  <2>2. v.client \in DOMAIN s.clients /\ ~Touches(v.client, t, s)
    BY <1>4
  <2> QED
    BY <1>7, <2>1, <2>2 DEF Chained
<1> QED
  BY <1>7 DEF f
=============================================================================
