---------------------------- MODULE BatchProofs ----------------------------
(***************************************************************************)
(* The pieces of a split request: the Acked ones form the chain that the   *)
(* service has built, and a client node is published over a whole chain,   *)
(* in memory and in the document.  Both need that no two handlers at work  *)
(* share the name of a batch (NamesAreFree): a name holds the session and  *)
(* the second only, and the run batch_name shows what two handlers of one  *)
(* name do.                                                                *)
(*                                                                         *)
(* The invariant has three parts.  Sound is about one store and what the   *)
(* service knows; InStep says how far the batch of a handler at work has   *)
(* come; and no two handlers work on one batch.  A step changes one batch  *)
(* at most, so the InStep of all the other handlers is left alone.         *)
(***************************************************************************)
EXTENDS InteractionsHandlerProofs

\* What piece i of a batch continues.
Before(batch, i) ==
    IF i = 1 THEN batch.prev_interaction_id
    ELSE batch.pieces[i - 1].interaction_id

\* AckedPiecesAreChained for one batch, g being what the service knows.
ChainedBatch(batch, g) ==
    \A i \in DOMAIN batch.pieces : IsAcked(batch.pieces[i]) =>
        /\ i # 1 => IsAcked(batch.pieces[i - 1])
        /\ batch.pieces[i].interaction_id \in DOMAIN g
        /\ g[batch.pieces[i].interaction_id].prev = Before(batch, i)

\* No piece of a batch has an upstream node yet, and no two are one.
ApartBatch(batch, upstreams) ==
    \A i \in DOMAIN batch.pieces :
        LET id == batch.pieces[i].interaction_id
        IN  id \in Id =>
              /\ id \notin DOMAIN upstreams
              /\ \A j \in DOMAIN batch.pieces :
                    batch.pieces[j].interaction_id = id => j = i

\* NodeIsWhole for one client node.
WholeNode(c, node, upstreams, g) ==
    LET ids == node.upstream_ids
    IN  /\ ids # <<>> /\ ids[Len(ids)] = c
        /\ \A i \in DOMAIN ids :
             LET before == IF i = 1 THEN node.prev_id ELSE ids[i - 1]
             IN  /\ ids[i] \in DOMAIN upstreams /\ upstreams[ids[i]] = before
                 /\ ids[i] \in DOMAIN g /\ g[ids[i]].prev = before

Sound(s, g) ==
    /\ DOMAIN s.upstreams \subseteq DOMAIN g
    /\ \A b \in DOMAIN s.in_flight :
          /\ ChainedBatch(s.in_flight[b], g)
          /\ ApartBatch(s.in_flight[b], s.upstreams)
    /\ \A c \in DOMAIN s.clients : WholeNode(c, s.clients[c], s.upstreams, g)

Working(r) == task[r].pc \in {"mark", "send", "ack", "complete"}

\* How far the batch has come whose pieces the handler of r sends, unless
\* clean_all has removed it.
InStep(r) ==
    LET t     == task[r]
        batch == store.in_flight[t.batch]
    IN  Working(r) /\ t.batch \in DOMAIN store.in_flight =>
          /\ batch.prev_interaction_id = t.prev
          /\ DOMAIN batch.pieces = 1 .. piece_count(r)
          /\ t.pc # "complete" =>
               /\ \A j \in DOMAIN batch.pieces :
                    /\ j < t.piece => IsAcked(batch.pieces[j])
                    /\ j > t.piece => batch.pieces[j].status = "Pending"
               /\ batch.pieces[t.piece].status =
                    IF t.pc = "mark" THEN "Pending" ELSE "ResponseStarted"
          /\ t.pc \in {"mark", "send"} => t.last = Before(batch, t.piece)
          /\ t.pc = "ack" => gemini[t.last].prev = Before(batch, t.piece)
          /\ t.pc = "complete" =>
               /\ \A j \in DOMAIN batch.pieces : IsAcked(batch.pieces[j])
               /\ t.last = batch.pieces[piece_count(r)].interaction_id

\* The interaction a handler holds has no upstream node yet.
Received(r) ==
    /\ Holds(r) => task[r].last \notin DOMAIN store.upstreams
    /\ task[r].pc \in {"store", "streaming"} =>
          gemini[task[r].last].prev = task[r].prev

\* What the batch of a handler at work is called.
OwnName(r) ==
    Working(r) => /\ ask[r].kind # "send"
                  /\ task[r].batch[1] = ask[r].session

BInv ==
    /\ OInv
    /\ Sound(store, gemini) /\ Sound(disk, gemini)
    /\ \A r \in Request : InStep(r) /\ Received(r) /\ OwnName(r)
    /\ \A r, q \in Request :
          Working(r) /\ Working(q) /\ task[r].batch = task[q].batch => r = q

\* The name of a new batch is not that of a batch somebody works on.
NameIsFree(r) ==
    CreateBatch(r) =>
        \A q \in Request :
            Working(q) => task[q].batch # <<ask[r].session, now>>

\* The premise of the theorems: there is no such step in the behaviour.
NamesAreFree == [][\A r \in Request : NameIsFree(r)]_vars

-----------------------------------------------------------------------------
(* Stores that are sound *)

\* The service forgets no interaction, and what it continued.
Grown(g, h) ==
    /\ DOMAIN g \subseteq DOMAIN h
    /\ \A id \in DOMAIN g : h[id].prev = g[id].prev

\* The batches of t other than b are those of s.
OtherBatches(s, t, b) ==
    \A c \in DOMAIN t.in_flight : c # b =>
        c \in DOMAIN s.in_flight /\ t.in_flight[c] = s.in_flight[c]

LEMMA SoundGrown ==
    ASSUME NEW s, NEW g, NEW h, Sound(s, g), Grown(g, h)
    PROVE  Sound(s, h)
<1>1. DOMAIN s.upstreams \subseteq DOMAIN h
  BY DEF Sound, Grown
<1>2. ASSUME NEW b \in DOMAIN s.in_flight
      PROVE  ChainedBatch(s.in_flight[b], h)
  BY DEF Sound, Grown, ChainedBatch
<1>3. ASSUME NEW c \in DOMAIN s.clients
      PROVE  WholeNode(c, s.clients[c], s.upstreams, h)
  BY DEF Sound, Grown, WholeNode
<1> QED
  BY <1>1, <1>2, <1>3 DEF Sound

LEMMA SoundDocument ==
    ASSUME NEW s, NEW g
    PROVE  Sound(s, g) <=> Sound(Document(s), g)
BY DEF Sound, Document

\* Only the time a node was last seen is another.
LEMMA SoundKept ==
    ASSUME NEW s, StoreOK(s), NEW t, NEW g, Sound(s, g),
           t.in_flight = s.in_flight, t.upstreams = s.upstreams,
           DOMAIN t.clients = DOMAIN s.clients, Kept(s, t)
    PROVE  Sound(t, g)
<1>1. ASSUME NEW c \in DOMAIN s.clients
      PROVE  /\ t.clients[c].prev_id = s.clients[c].prev_id
             /\ t.clients[c].upstream_ids = s.clients[c].upstream_ids
  BY DEF Kept, StoreOK, IsMap, ClientInteractionNode
<1>2. ASSUME NEW c \in DOMAIN t.clients
      PROVE  WholeNode(c, t.clients[c], t.upstreams, g)
  BY <1>1 DEF Sound, WholeNode
<1> QED
  BY <1>2 DEF Sound

\* Only batch b is another.
LEMMA SoundBatch ==
    ASSUME NEW s, NEW t, NEW g, NEW b, Sound(s, g),
           t.upstreams = s.upstreams, t.clients = s.clients,
           OtherBatches(s, t, b),
           b \in DOMAIN t.in_flight =>
              /\ ChainedBatch(t.in_flight[b], g)
              /\ ApartBatch(t.in_flight[b], s.upstreams)
    PROVE  Sound(t, g)
<1>1. ASSUME NEW c \in DOMAIN t.in_flight
      PROVE  /\ ChainedBatch(t.in_flight[c], g)
             /\ ApartBatch(t.in_flight[c], t.upstreams)
  BY DEF Sound, OtherBatches
<1> QED
  BY <1>1 DEF Sound

\* New upstream nodes, and perhaps one client node over a whole chain.
LEMMA SoundPublish ==
    ASSUME NEW s, NEW t, NEW g, Sound(s, g),
           DOMAIN s.upstreams \subseteq DOMAIN t.upstreams,
           DOMAIN t.upstreams \subseteq DOMAIN g,
           \A id \in DOMAIN s.upstreams : t.upstreams[id] = s.upstreams[id],
           \A b \in DOMAIN t.in_flight :
              /\ b \in DOMAIN s.in_flight
              /\ t.in_flight[b] = s.in_flight[b]
              /\ \A id \in DOMAIN t.upstreams \ DOMAIN s.upstreams :
                    ~InBatch(s, b, id),
           \/ t.clients = s.clients
           \/ \E c, node : /\ t.clients = Put(s.clients, c, node)
                           /\ WholeNode(c, node, t.upstreams, g)
    PROVE  Sound(t, g)
<1>1. ASSUME NEW b \in DOMAIN t.in_flight
      PROVE  /\ ChainedBatch(t.in_flight[b], g)
             /\ ApartBatch(t.in_flight[b], t.upstreams)
  <2>1. /\ ChainedBatch(s.in_flight[b], g)
        /\ ApartBatch(s.in_flight[b], s.upstreams)
    BY DEF Sound
  <2>2. ASSUME NEW i \in DOMAIN s.in_flight[b].pieces,
               s.in_flight[b].pieces[i].interaction_id \in Id
        PROVE  s.in_flight[b].pieces[i].interaction_id
                  \notin DOMAIN t.upstreams
    BY <2>1, <2>2 DEF ApartBatch, InBatch
  <2> QED
    BY <2>1, <2>2 DEF ApartBatch
<1>2. ASSUME NEW c \in DOMAIN s.clients
      PROVE  WholeNode(c, s.clients[c], t.upstreams, g)
  BY DEF Sound, WholeNode
<1>3. ASSUME NEW c \in DOMAIN t.clients
      PROVE  WholeNode(c, t.clients[c], t.upstreams, g)
  <2>1. CASE t.clients = s.clients
    BY <1>2, <1>3, <2>1
  <2>2. ASSUME NEW d, NEW node, t.clients = Put(s.clients, d, node),
               WholeNode(d, node, t.upstreams, g)
        PROVE  WholeNode(c, t.clients[c], t.upstreams, g)
    <3>1. \/ c = d /\ t.clients[c] = node
          \/ c \in DOMAIN s.clients /\ t.clients[c] = s.clients[c]
      BY <1>3, <2>2 DEF Put
    <3> QED
      BY <1>2, <2>2, <3>1
  <2> QED
    BY <2>1, <2>2
<1> QED
  BY <1>1, <1>3 DEF Sound

-----------------------------------------------------------------------------
(* What the store's operations do to a batch *)

\* t is s with other pieces in batch b.
NewPieces(s, t, b, pieces) ==
    /\ t.clients = s.clients /\ t.upstreams = s.upstreams
    /\ DOMAIN t.in_flight = DOMAIN s.in_flight
    /\ OtherBatches(s, t, b)
    /\ t.in_flight[b] \in InFlightBatch
    /\ t.in_flight[b].session_id = s.in_flight[b].session_id
    /\ t.in_flight[b].prev_interaction_id = s.in_flight[b].prev_interaction_id
    /\ t.in_flight[b].message_hashes = s.in_flight[b].message_hashes
    /\ t.in_flight[b].system_instruction_hash =
          s.in_flight[b].system_instruction_hash
    /\ t.in_flight[b].pieces = pieces

LEMMA move_piece_Effect ==
    ASSUME NEW s, StoreOK(s), NEW b, NEW i, NEW from, NEW status, NEW id,
           [status |-> status, interaction_id |-> id] \in Piece,
           has_piece(s, b, i), s.in_flight[b].pieces[i].status \in from
    PROVE  NewPieces(s, move_piece(s, b, i, from, status, id), b,
              [s.in_flight[b].pieces EXCEPT
                  ![i] = [status |-> status, interaction_id |-> id]])
<1> DEFINE t == move_piece(s, b, i, from, status, id)
           p == [status |-> status, interaction_id |-> id]
           old == s.in_flight[b]
           q   == [old.pieces EXCEPT ![i] = p]
           new == [old EXCEPT !.pieces = q]
           f   == [s.in_flight EXCEPT ![b] = new]
<1>1. t = [s EXCEPT !.in_flight[b].pieces[i] = p]
  BY DEF move_piece
<1>2. /\ b \in DOMAIN s.in_flight /\ i \in DOMAIN old.pieces
      /\ old \in InFlightBatch
  BY DEF has_piece, StoreOK, IsMap
<1>3. t = [s EXCEPT !.in_flight = f]
  BY <1>1, <1>2 DEF StoreOK, IsMap, InFlightBatch
<1>4. t.clients = s.clients /\ t.upstreams = s.upstreams /\ t.in_flight = f
  BY <1>3 DEF StoreOK
<1>5. /\ DOMAIN f = DOMAIN s.in_flight /\ f[b] = new
      /\ \A c \in DOMAIN s.in_flight : c # b => f[c] = s.in_flight[c]
  BY <1>2 DEF StoreOK, IsMap
<1>6. /\ new.session_id = old.session_id
      /\ new.prev_interaction_id = old.prev_interaction_id
      /\ new.message_hashes = old.message_hashes
      /\ new.system_instruction_hash = old.system_instruction_hash
      /\ new.pieces = q
  BY <1>2 DEF InFlightBatch
<1>7. StoreOK(t)
  BY move_piece_OK
<1> HIDE DEF t, p, q, new, f
<1>8. t.in_flight[b] \in InFlightBatch
  BY <1>2, <1>4, <1>5, <1>7 DEF StoreOK, IsMap
<1> QED
  BY <1>4, <1>5, <1>6, <1>8 DEF NewPieces, OtherBatches, t, p, q

LEMMA move_piece_Idle ==
    ASSUME NEW s, NEW b, NEW i, NEW from, NEW status, NEW id,
           ~(has_piece(s, b, i) /\ s.in_flight[b].pieces[i].status \in from)
    PROVE  move_piece(s, b, i, from, status, id) = s
BY DEF move_piece

\* From ResponseStarted a piece becomes Acked in one step of the handler.
LEMMA acknowledge_Effect ==
    ASSUME NEW s, StoreOK(s), NEW b, NEW i, NEW id \in Id, has_piece(s, b, i),
           s.in_flight[b].pieces[i].status = "ResponseStarted"
    PROVE  NewPieces(s, ack_piece(mark_sent(s, b, i, id), b, i, id), b,
              [s.in_flight[b].pieces EXCEPT
                  ![i] = [status |-> "Acked", interaction_id |-> id]])
<1> DEFINE u == mark_sent(s, b, i, id)
           t == ack_piece(u, b, i, id)
           x == [status |-> "Sent", interaction_id |-> id]
           y == [status |-> "Acked", interaction_id |-> id]
           p == s.in_flight[b].pieces
           q == [p EXCEPT ![i] = x]
<1>1. x \in Piece /\ y \in Piece /\ x.status = "Sent"
  BY DEF Piece
<1>2. b \in DOMAIN s.in_flight /\ i \in DOMAIN p /\ p \in Seq(Piece)
  BY DEF has_piece, StoreOK, IsMap, InFlightBatch
<1>3. NewPieces(s, u, b, q)
  BY <1>1, move_piece_Effect DEF mark_sent
<1>4. StoreOK(u)
  BY <1>1, move_piece_OK DEF mark_sent
<1> HIDE DEF u, x, y, p
<1>5. /\ DOMAIN q = DOMAIN p /\ q[i] = x
      /\ [q EXCEPT ![i] = y] = [p EXCEPT ![i] = y]
  BY <1>2
<1> HIDE DEF q
<1>6. has_piece(u, b, i) /\ u.in_flight[b].pieces[i].status = "Sent"
  BY <1>1, <1>2, <1>3, <1>5 DEF has_piece, NewPieces
<1>7. NewPieces(u, t, b, [u.in_flight[b].pieces EXCEPT ![i] = y])
  BY <1>1, <1>4, <1>6, move_piece_Effect DEF ack_piece, y
<1>8. NewPieces(u, t, b, [p EXCEPT ![i] = y])
  BY <1>3, <1>5, <1>7 DEF NewPieces
<1> HIDE DEF t
<1>9. NewPieces(s, t, b, [p EXCEPT ![i] = y])
  BY <1>3, <1>8 DEF NewPieces, OtherBatches
<1> QED
  BY <1>9 DEF t, u, p, y

LEMMA acknowledge_Absent ==
    ASSUME NEW s, NEW b, NEW i, NEW id, b \notin DOMAIN s.in_flight
    PROVE  ack_piece(mark_sent(s, b, i, id), b, i, id) = s
<1>1. ~has_piece(s, b, i)
  BY DEF has_piece
<1>2. mark_sent(s, b, i, id) = s
  BY <1>1 DEF mark_sent, move_piece
<1>3. ack_piece(s, b, i, id) = s
  BY <1>1 DEF ack_piece, move_piece
<1> QED
  BY <1>2, <1>3

\* t is s with a new batch b.
Created(s, t, b, prev, hashes, sys, n) ==
    /\ t.clients = s.clients /\ t.upstreams = s.upstreams
    /\ OtherBatches(s, t, b)
    /\ t.in_flight[b].session_id = b[1]
    /\ t.in_flight[b].prev_interaction_id = prev
    /\ t.in_flight[b].message_hashes = hashes
    /\ t.in_flight[b].system_instruction_hash = sys
    /\ t.in_flight[b].pieces =
         [i \in 1 .. n |-> [status |-> "Pending", interaction_id |-> NoId]]

LEMMA create_batch_Effect ==
    ASSUME NEW s, StoreOK(s), NEW b, NEW prev, NEW hashes, NEW sys,
           NEW n \in Nat
    PROVE  Created(s, create_batch(s, b, prev, hashes, sys, n), b, prev,
                   hashes, sys, n)
<1> DEFINE t == create_batch(s, b, prev, hashes, sys, n)
           new == [i \in 1 .. n |->
                     [status |-> "Pending", interaction_id |-> NoId]]
           batch == [session_id |-> b[1], prev_interaction_id |-> prev,
                     message_hashes |-> hashes,
                     system_instruction_hash |-> sys, pieces |-> new]
<1>1. t = [s EXCEPT !.in_flight = Put(s.in_flight, b, batch)]
  BY DEF create_batch
<1>2. /\ batch.session_id = b[1] /\ batch.prev_interaction_id = prev
      /\ batch.message_hashes = hashes
      /\ batch.system_instruction_hash = sys /\ batch.pieces = new
  OBVIOUS
<1> HIDE DEF t, batch, new
<1>3. /\ t.clients = s.clients /\ t.upstreams = s.upstreams
      /\ t.in_flight = Put(s.in_flight, b, batch)
  BY <1>1 DEF StoreOK
<1>4. t.in_flight[b] = batch /\ OtherBatches(s, t, b)
  BY <1>3 DEF Put, OtherBatches
<1> QED
  BY <1>2, <1>3, <1>4 DEF Created, t, new

\* The Acked pieces have no upstream node that could be removed.
LEMMA fail_batch_Effect ==
    ASSUME NEW s, StoreOK(s), NEW b \in DOMAIN s.in_flight,
           ApartBatch(s.in_flight[b], s.upstreams)
    PROVE  LET old == s.in_flight[b].pieces
           IN  NewPieces(s, fail_batch(s, b), b,
                  [i \in DOMAIN old |->
                      IF IsAcked(old[i]) THEN old[i]
                      ELSE [status |-> "Failed", interaction_id |-> NoId]])
<1> DEFINE t   == fail_batch(s, b)
           old == s.in_flight[b]
           q   == [i \in DOMAIN old.pieces |->
                     IF IsAcked(old.pieces[i]) THEN old.pieces[i]
                     ELSE [status |-> "Failed", interaction_id |-> NoId]]
           new == [old EXCEPT !.pieces = q]
           f   == [s.in_flight EXCEPT ![b] = new]
           ups == Without(s.upstreams, acked_ids(old))
<1>1. old \in InFlightBatch
  BY DEF StoreOK, IsMap
<1>2. t = [s EXCEPT !.upstreams = ups, !.in_flight = f]
  BY <1>1 DEF fail_batch, StoreOK, IsMap, InFlightBatch
<1>3. ups = s.upstreams
  <2>1. acked_ids(old) \subseteq Id
    BY <1>1, acked_ids_OK
  <2>2. \A id \in acked_ids(old) : id \notin DOMAIN s.upstreams
    BY <2>1 DEF acked_ids, ApartBatch
  <2> QED
    BY <2>2 DEF Without, StoreOK, IsMap
<1> HIDE DEF ups
<1>4. t.clients = s.clients /\ t.upstreams = s.upstreams /\ t.in_flight = f
  BY <1>2, <1>3 DEF StoreOK
<1>5. /\ DOMAIN f = DOMAIN s.in_flight /\ f[b] = new
      /\ \A c \in DOMAIN s.in_flight : c # b => f[c] = s.in_flight[c]
  BY DEF StoreOK, IsMap
<1>6. /\ new.session_id = old.session_id
      /\ new.prev_interaction_id = old.prev_interaction_id
      /\ new.message_hashes = old.message_hashes
      /\ new.system_instruction_hash = old.system_instruction_hash
      /\ new.pieces = q
  BY <1>1 DEF InFlightBatch
<1>7. StoreOK(t)
  BY fail_batch_OK
<1> HIDE DEF t, q, new, f
<1>8. t.in_flight[b] \in InFlightBatch
  BY <1>4, <1>5, <1>7 DEF StoreOK, IsMap
<1> QED
  BY <1>4, <1>5, <1>6, <1>8 DEF NewPieces, OtherBatches, t, q

\* The upstream nodes that complete_batch writes.
LEMMA chain_of_Links ==
    ASSUME NEW batch \in InFlightBatch, NEW ups, ApartBatch(batch, ups)
    PROVE  LET I   == acked_prefix(batch)
               new == chain_of(batch, I)
           IN  /\ DOMAIN new = {batch.pieces[i].interaction_id : i \in I}
               /\ \A i \in I :
                     /\ i \in DOMAIN batch.pieces
                     /\ batch.pieces[i].interaction_id \in Id
                     /\ new[batch.pieces[i].interaction_id] = Before(batch, i)
<1> DEFINE I   == acked_prefix(batch)
           ids == batch_ids(batch)
           prev(i) == IF i = 1 THEN batch.prev_interaction_id ELSE ids[i - 1]
           new == chain_of(batch, I)
<1>1. batch.pieces \in Seq(Piece) /\ DOMAIN batch.pieces = 1 .. Len(batch.pieces)
  BY DEF InFlightBatch
<1>2. \A i \in I : i \in 1 .. Len(batch.pieces) /\ ids[i] \in Id
  BY AckedPrefixIds
<1>3. \A i \in DOMAIN batch.pieces : ids[i] = batch.pieces[i].interaction_id
  BY <1>1 DEF batch_ids
<1>4. \A i \in I : prev(i) = Before(batch, i)
  BY <1>1, <1>2, <1>3 DEF Before
<1>5. \A i \in I : i \in DOMAIN batch.pieces
  BY <1>1, <1>2
<1> HIDE DEF I, ids
<1>6. new = [id \in {ids[i] : i \in I} |-> prev(CHOOSE k \in I : ids[k] = id)]
  BY DEF chain_of, ids
<1>7. ASSUME NEW i \in I PROVE (CHOOSE k \in I : ids[k] = ids[i]) = i
  <2>1. \A k \in I : ids[k] = ids[i] => k = i
    BY <1>2, <1>3, <1>5 DEF ApartBatch
  <2> QED
    BY <2>1
<1> HIDE DEF new, prev
<1>8. DOMAIN new = {ids[i] : i \in I} /\ \A i \in I : new[ids[i]] = prev(i)
  BY <1>6, <1>7
<1>9. \A i \in I : ids[i] = batch.pieces[i].interaction_id
  BY <1>3, <1>5
<1>10. DOMAIN new = {batch.pieces[i].interaction_id : i \in I}
  BY <1>8, <1>9
<1>11. \A i \in I : /\ i \in DOMAIN batch.pieces
                    /\ batch.pieces[i].interaction_id \in Id
                    /\ new[batch.pieces[i].interaction_id] = Before(batch, i)
  BY <1>2, <1>4, <1>5, <1>8, <1>9
<1> QED
  BY <1>10, <1>11 DEF new, I

LEMMA insert_upstreams_Effect ==
    ASSUME NEW s, StoreOK(s), NEW new
    PROVE  LET t == insert_upstreams(s, new)
           IN  /\ t.clients = s.clients /\ t.in_flight = s.in_flight
               /\ t.sessions = s.sessions
               /\ DOMAIN t.upstreams = DOMAIN s.upstreams \cup DOMAIN new
               /\ \A id \in DOMAIN t.upstreams :
                     t.upstreams[id] = IF id \in DOMAIN new THEN new[id]
                                       ELSE s.upstreams[id]
<1> DEFINE t == insert_upstreams(s, new)
           f == [id \in DOMAIN s.upstreams \cup DOMAIN new |->
                   IF id \in DOMAIN new THEN new[id] ELSE s.upstreams[id]]
<1>1. t = [s EXCEPT !.upstreams = f]
  BY DEF insert_upstreams
<1>2. /\ DOMAIN f = DOMAIN s.upstreams \cup DOMAIN new
      /\ \A id \in DOMAIN f :
           f[id] = IF id \in DOMAIN new THEN new[id] ELSE s.upstreams[id]
  OBVIOUS
<1> HIDE DEF t, f
<1>3. /\ t.clients = s.clients /\ t.in_flight = s.in_flight
      /\ t.sessions = s.sessions /\ t.upstreams = f
  BY <1>1 DEF StoreOK
<1> QED
  BY <1>2, <1>3 DEF t

\* The node that complete_batch makes of a batch.
NodeOf(batch, n) ==
    [prev_id                 |-> batch.prev_interaction_id,
     message_hashes          |-> batch.message_hashes,
     system_instruction_hash |-> batch.system_instruction_hash,
     upstream_ids            |-> batch_ids(batch),
     last_seen_utc           |-> n]

\* t is s after complete_batch.
Completed(s, t, b, n) ==
    LET batch == s.in_flight[b]
        new   == chain_of(batch, acked_prefix(batch))
        ids   == batch_ids(batch)
    IN  /\ t.in_flight = Without(s.in_flight, {b})
        /\ DOMAIN t.upstreams = DOMAIN s.upstreams \cup DOMAIN new
        /\ \A id \in DOMAIN t.upstreams :
              t.upstreams[id] = IF id \in DOMAIN new THEN new[id]
                                ELSE s.upstreams[id]
        /\ t.clients = IF batch_is_complete(s, b)
                         THEN Put(s.clients, ids[Len(ids)], NodeOf(batch, n))
                         ELSE s.clients

LEMMA complete_batch_Effect ==
    ASSUME NEW s, StoreOK(s), NEW b \in DOMAIN s.in_flight, NEW n \in Nat
    PROVE  Completed(s, complete_batch(s, b, n), b, n)
<1> DEFINE batch   == s.in_flight[b]
           fewer   == Without(s.in_flight, {b})
           s1      == [s EXCEPT !.in_flight = fewer]
           chain   == chain_of(batch, acked_prefix(batch))
           removed == insert_upstreams(s1, chain)
           ids     == batch_ids(batch)
           id      == ids[Len(ids)]
           node    == NodeOf(batch, n)
           done    == insert_client(removed, id, node)
           final   == IF batch.session_id \in DOMAIN s.sessions
                        THEN set_last_interaction(done, batch.session_id, id)
                        ELSE done
           t       == complete_batch(s, b, n)
<1>1. t = IF ~batch_is_complete(s, b) THEN removed ELSE final
  BY DEF complete_batch, NodeOf
<1>2. StoreOK(s1)
  <2>1. IsMap(fewer, BatchId, InFlightBatch)
    BY WithoutIsMap DEF StoreOK
  <2> QED
    BY <2>1, in_flight_OK
<1>3. s1.clients = s.clients /\ s1.upstreams = s.upstreams
      /\ s1.in_flight = fewer
  BY DEF StoreOK
<1>4. StoreOK(removed)
  BY remove_batch_OK
<1> HIDE DEF s1, chain
<1>5. /\ removed.clients = s.clients /\ removed.in_flight = fewer
      /\ DOMAIN removed.upstreams = DOMAIN s.upstreams \cup DOMAIN chain
      /\ \A x \in DOMAIN removed.upstreams :
            removed.upstreams[x] = IF x \in DOMAIN chain THEN chain[x]
                                   ELSE s.upstreams[x]
  BY <1>2, <1>3, insert_upstreams_Effect
<1> HIDE DEF removed, node, id, t
<1>6. /\ done.in_flight = removed.in_flight
      /\ done.upstreams = removed.upstreams
      /\ done.clients = Put(s.clients, id, node)
      /\ done = [done EXCEPT !.sessions = done.sessions]
  BY <1>4, <1>5 DEF insert_client, StoreOK
<1> HIDE DEF done
<1>7. /\ final.in_flight = done.in_flight
      /\ final.upstreams = done.upstreams
      /\ final.clients = done.clients
  BY <1>6 DEF set_last_interaction
<1> HIDE DEF final, fewer
<1>8. /\ t.in_flight = fewer
      /\ t.upstreams = removed.upstreams
      /\ t.clients = IF batch_is_complete(s, b)
                       THEN Put(s.clients, id, node) ELSE s.clients
  BY <1>1, <1>5, <1>6, <1>7
<1> QED
  BY <1>5, <1>8 DEF Completed, t, fewer, chain, id, node

-----------------------------------------------------------------------------
(* The store's operations leave a sound store *)

LEMMA SoundCreate ==
    ASSUME NEW s, StoreOK(s), NEW g, Sound(s, g), NEW b, NEW prev,
           NEW hashes, NEW sys, NEW n \in Nat
    PROVE  Sound(create_batch(s, b, prev, hashes, sys, n), g)
<1> DEFINE t == create_batch(s, b, prev, hashes, sys, n)
<1>1. /\ t.clients = s.clients /\ t.upstreams = s.upstreams
      /\ OtherBatches(s, t, b)
      /\ t.in_flight[b].pieces =
           [i \in 1 .. n |-> [status |-> "Pending", interaction_id |-> NoId]]
  BY create_batch_Effect DEF Created
<1> HIDE DEF t
<1>2. \A i \in DOMAIN t.in_flight[b].pieces :
         /\ ~IsAcked(t.in_flight[b].pieces[i])
         /\ t.in_flight[b].pieces[i].interaction_id \notin Id
  BY <1>1, IdAssumption DEF IsAcked
<1>3. /\ ChainedBatch(t.in_flight[b], g)
      /\ ApartBatch(t.in_flight[b], s.upstreams)
  BY <1>2 DEF ChainedBatch, ApartBatch
<1> QED
  BY <1>1, <1>3, SoundBatch DEF t

\* No piece of p that changes to one of q is Acked, before or after.
UnackedChange(p, q) ==
    /\ DOMAIN q = DOMAIN p
    /\ \A j \in DOMAIN q :
          \/ q[j] = p[j]
          \/ ~IsAcked(p[j]) /\ ~IsAcked(q[j]) /\ q[j].interaction_id = NoId

LEMMA SoundUnacked ==
    ASSUME NEW s, StoreOK(s), NEW g, Sound(s, g), NEW t,
           NEW b \in DOMAIN s.in_flight, NEW pieces,
           NewPieces(s, t, b, pieces),
           UnackedChange(s.in_flight[b].pieces, pieces)
    PROVE  Sound(t, g)
<1> DEFINE old == s.in_flight[b]
           new == t.in_flight[b]
<1>1. /\ old \in InFlightBatch /\ old.pieces \in Seq(Piece)
      /\ ChainedBatch(old, g) /\ ApartBatch(old, s.upstreams)
  BY DEF StoreOK, IsMap, InFlightBatch, Sound
<1>2. new.pieces = pieces /\ new.prev_interaction_id = old.prev_interaction_id
  BY DEF NewPieces
<1> HIDE DEF old, new
<1>3. \A j \in DOMAIN pieces : \/ pieces[j] = old.pieces[j]
                               \/ /\ ~IsAcked(old.pieces[j])
                                  /\ ~IsAcked(pieces[j])
                                  /\ pieces[j].interaction_id = NoId
  BY DEF old, UnackedChange
<1>4. DOMAIN pieces = DOMAIN old.pieces
  BY DEF old, UnackedChange
<1>5. ChainedBatch(new, g)
  <2> SUFFICES ASSUME NEW i \in DOMAIN pieces, IsAcked(pieces[i])
               PROVE  /\ i # 1 => IsAcked(pieces[i - 1])
                      /\ pieces[i].interaction_id \in DOMAIN g
                      /\ g[pieces[i].interaction_id].prev = Before(new, i)
    BY <1>2 DEF ChainedBatch
  <2>1. pieces[i] = old.pieces[i] /\ IsAcked(old.pieces[i])
    BY <1>3
  <2>2. /\ i # 1 => IsAcked(old.pieces[i - 1])
        /\ old.pieces[i].interaction_id \in DOMAIN g
        /\ g[old.pieces[i].interaction_id].prev = Before(old, i)
    BY <1>1, <1>4, <2>1 DEF ChainedBatch
  <2>3. i # 1 => i - 1 \in DOMAIN pieces
    BY <1>1, <1>4
  <2>4. i # 1 => pieces[i - 1] = old.pieces[i - 1]
    BY <1>3, <2>2, <2>3
  <2> QED
    BY <1>2, <2>1, <2>2, <2>4 DEF Before
<1>6. ApartBatch(new, s.upstreams)
  <2> SUFFICES ASSUME NEW i \in DOMAIN pieces,
                      pieces[i].interaction_id \in Id
               PROVE  /\ pieces[i].interaction_id \notin DOMAIN s.upstreams
                      /\ \A j \in DOMAIN pieces :
                            pieces[j].interaction_id =
                               pieces[i].interaction_id => j = i
    BY <1>2 DEF ApartBatch
  <2>1. \A j \in DOMAIN pieces : pieces[j].interaction_id \in Id =>
                                    pieces[j] = old.pieces[j]
    BY <1>3, IdAssumption
  <2> QED
    BY <1>1, <1>4, <2>1 DEF ApartBatch
<1> QED
  BY <1>5, <1>6, SoundBatch DEF NewPieces, new

LEMMA SoundMark ==
    ASSUME NEW s, StoreOK(s), NEW g, Sound(s, g), NEW b, NEW i
    PROVE  Sound(mark_response_started(s, b, i), g)
<1> DEFINE t == mark_response_started(s, b, i)
           p == s.in_flight[b].pieces
           x == [status |-> "ResponseStarted", interaction_id |-> NoId]
<1>1. CASE has_piece(s, b, i) /\ p[i].status = "Pending"
  <2>1. x \in Piece /\ x.status = "ResponseStarted" /\ x.interaction_id = NoId
    BY DEF Piece, PieceStatus
  <2>2. NewPieces(s, t, b, [p EXCEPT ![i] = x])
    BY <1>1, <2>1, move_piece_Effect DEF mark_response_started
  <2>3. b \in DOMAIN s.in_flight /\ i \in DOMAIN p /\ p \in Seq(Piece)
    BY <1>1 DEF has_piece, StoreOK, IsMap, InFlightBatch
  <2> HIDE DEF t, x, p
  <2>4. /\ DOMAIN [p EXCEPT ![i] = x] = DOMAIN p
        /\ \A j \in DOMAIN p : [p EXCEPT ![i] = x][j] =
                                  IF j = i THEN x ELSE p[j]
    BY <2>3
  <2>5. ~IsAcked(x) /\ ~IsAcked(p[i])
    BY <1>1, <2>1 DEF IsAcked
  <2> DEFINE q == [p EXCEPT ![i] = x]
  <2> HIDE DEF q
  <2>6. UnackedChange(p, q)
    BY <2>1, <2>4, <2>5 DEF q, UnackedChange
  <2> QED
    BY <2>2, <2>3, <2>6, SoundUnacked DEF q, p, t
<1>2. CASE ~(has_piece(s, b, i) /\ p[i].status = "Pending")
  <2>1. t = s
    BY <1>2, move_piece_Idle DEF mark_response_started
  <2> QED
    BY <2>1
<1> QED
  BY <1>1, <1>2

LEMMA SoundFail ==
    ASSUME NEW s, StoreOK(s), NEW g, Sound(s, g), NEW b
    PROVE  Sound(fail_batch(s, b), g)
<1>1. CASE b \notin DOMAIN s.in_flight
  BY <1>1 DEF fail_batch
<1>2. CASE b \in DOMAIN s.in_flight
  <2> DEFINE p == s.in_flight[b].pieces
             q == [i \in DOMAIN p |->
                     IF IsAcked(p[i]) THEN p[i]
                     ELSE [status |-> "Failed", interaction_id |-> NoId]]
  <2>1. NewPieces(s, fail_batch(s, b), b, q)
    BY <1>2, fail_batch_Effect DEF Sound
  <2>2. UnackedChange(p, q)
    BY DEF IsAcked, UnackedChange
  <2> HIDE DEF q
  <2> QED
    BY <1>2, <2>1, <2>2, SoundUnacked
<1> QED
  BY <1>1, <1>2

\* The next piece is acknowledged with an interaction that continues the one
\* before it.
LEMMA SoundAck ==
    ASSUME NEW s, StoreOK(s), NEW g, Sound(s, g), NEW b, NEW i, NEW x \in Id,
           has_piece(s, b, i),
           s.in_flight[b].pieces[i].status = "ResponseStarted",
           \A j \in DOMAIN s.in_flight[b].pieces :
              /\ j < i => IsAcked(s.in_flight[b].pieces[j])
              /\ j > i => ~IsAcked(s.in_flight[b].pieces[j]),
           x \in DOMAIN g \ DOMAIN s.upstreams, ~InBatch(s, b, x),
           g[x].prev = Before(s.in_flight[b], i)
    PROVE  Sound(ack_piece(mark_sent(s, b, i, x), b, i, x), g)
<1> DEFINE t   == ack_piece(mark_sent(s, b, i, x), b, i, x)
           old == s.in_flight[b]
           p   == old.pieces
           y   == [status |-> "Acked", interaction_id |-> x]
           q   == [p EXCEPT ![i] = y]
           new == t.in_flight[b]
<1>1. NewPieces(s, t, b, q)
  BY acknowledge_Effect
<1>2. /\ b \in DOMAIN s.in_flight /\ i \in DOMAIN p /\ p \in Seq(Piece)
      /\ DOMAIN p = 1 .. Len(p) /\ Len(p) \in Nat
  BY DEF has_piece, StoreOK, IsMap, InFlightBatch
<1>3. ChainedBatch(old, g) /\ ApartBatch(old, s.upstreams)
  BY <1>2 DEF Sound
<1>4. y.interaction_id = x /\ IsAcked(y)
  BY DEF IsAcked
<1> HIDE DEF y, p
<1>5. /\ DOMAIN q = DOMAIN p /\ q[i] = y
      /\ \A j \in DOMAIN p : j # i => q[j] = p[j]
  BY <1>2
<1> HIDE DEF q
<1>6. new.pieces = q /\ new.prev_interaction_id = old.prev_interaction_id
  BY <1>1 DEF NewPieces
<1> HIDE DEF t, new, old
<1>7. \A j \in DOMAIN p : /\ j < i => IsAcked(p[j])
                          /\ j > i => ~IsAcked(p[j])
  BY DEF p, old
<1>8. ChainedBatch(new, g)
  <2> SUFFICES ASSUME NEW j \in DOMAIN q, IsAcked(q[j])
               PROVE  /\ j # 1 => IsAcked(q[j - 1])
                      /\ q[j].interaction_id \in DOMAIN g
                      /\ g[q[j].interaction_id].prev = Before(new, j)
    BY <1>6 DEF ChainedBatch
  <2>1. j \in Int /\ i \in Int /\ j <= i
    BY <1>2, <1>5, <1>7
  <2>2. j # 1 => j - 1 \in DOMAIN p /\ j - 1 < i
    BY <1>2, <1>5, <2>1
  <2>3. j # 1 => q[j - 1] = p[j - 1] /\ IsAcked(p[j - 1])
    BY <1>5, <1>7, <2>1, <2>2
  <2>4. Before(new, j) = Before(old, j)
    BY <1>6, <2>3 DEF Before, p
  <2>5. CASE j = i
    BY <1>4, <1>5, <2>3, <2>4, <2>5 DEF old
  <2>6. CASE j # i
    <3>1. q[j] = p[j] /\ IsAcked(p[j])
      BY <1>5, <2>6
    <3> QED
      BY <1>3, <1>5, <2>3, <2>4, <3>1 DEF ChainedBatch, p
  <2> QED
    BY <2>5, <2>6
<1>9. ApartBatch(new, s.upstreams)
  <2> SUFFICES ASSUME NEW j \in DOMAIN q, q[j].interaction_id \in Id
               PROVE  /\ q[j].interaction_id \notin DOMAIN s.upstreams
                      /\ \A k \in DOMAIN q :
                            q[k].interaction_id = q[j].interaction_id => k = j
    BY <1>6 DEF ApartBatch
  <2>1. \A k \in DOMAIN p : p[k].interaction_id # x
    BY <1>2 DEF InBatch, p, old
  <2>2. CASE j = i
    BY <1>4, <1>5, <2>1, <2>2
  <2>3. CASE j # i
    BY <1>3, <1>4, <1>5, <2>1, <2>3 DEF ApartBatch, p
  <2> QED
    BY <2>2, <2>3
<1> QED
  BY <1>1, <1>8, <1>9, SoundBatch DEF NewPieces, new, t

LEMMA SoundComplete ==
    ASSUME NEW s, StoreOK(s), NEW g, Sound(s, g), NEW K, OwnedBy(s, K),
           NEW b \in DOMAIN s.in_flight, NEW n \in Nat
    PROVE  Sound(complete_batch(s, b, n), g)
<1> DEFINE t     == complete_batch(s, b, n)
           batch == s.in_flight[b]
           I     == acked_prefix(batch)
           new   == chain_of(batch, I)
           ids   == batch_ids(batch)
           id(i) == batch.pieces[i].interaction_id
<1>1. /\ batch \in InFlightBatch /\ ChainedBatch(batch, g)
      /\ ApartBatch(batch, s.upstreams)
  BY DEF StoreOK, IsMap, Sound
<1>2. /\ t.in_flight = Without(s.in_flight, {b})
      /\ DOMAIN t.upstreams = DOMAIN s.upstreams \cup DOMAIN new
      /\ \A x \in DOMAIN t.upstreams :
            t.upstreams[x] = IF x \in DOMAIN new THEN new[x] ELSE s.upstreams[x]
      /\ t.clients = IF batch_is_complete(s, b)
                       THEN Put(s.clients, ids[Len(ids)], NodeOf(batch, n))
                       ELSE s.clients
  <2>1. Completed(s, t, b, n)
    BY complete_batch_Effect
  <2> HIDE DEF t
  <2> QED
    BY <2>1 DEF Completed
<1>3. /\ DOMAIN new = {id(i) : i \in I}
      /\ \A i \in I : /\ i \in DOMAIN batch.pieces /\ id(i) \in Id
                      /\ new[id(i)] = Before(batch, i)
  BY <1>1, chain_of_Links
<1>4. \A i \in I : IsAcked(batch.pieces[i])
  <2>1. batch.pieces \in Seq(Piece)
    BY <1>1 DEF InFlightBatch
  <2> QED
    BY <2>1 DEF acked_prefix
<1> HIDE DEF I, t, new
<1>5. ASSUME NEW x \in DOMAIN new
      PROVE  /\ x \in Id /\ x \in DOMAIN g \ DOMAIN s.upstreams
             /\ InBatch(s, b, x)
  <2>1. PICK i \in I : x = id(i)
    BY <1>3
  <2> QED
    BY <1>1, <1>3, <1>4, <2>1 DEF ChainedBatch, ApartBatch, InBatch
<1>6. ASSUME NEW c \in DOMAIN t.in_flight
      PROVE  /\ c \in DOMAIN s.in_flight /\ t.in_flight[c] = s.in_flight[c]
             /\ \A x \in DOMAIN t.upstreams \ DOMAIN s.upstreams :
                   ~InBatch(s, c, x)
  <2>1. /\ c \in DOMAIN s.in_flight /\ c # b
        /\ t.in_flight[c] = s.in_flight[c]
    BY <1>2 DEF Without
  <2> QED
    BY <1>2, <1>5, <2>1 DEF OwnedBy
<1>7. ASSUME batch_is_complete(s, b)
      PROVE  WholeNode(ids[Len(ids)], NodeOf(batch, n), t.upstreams, g)
  <2>1. ids \in Seq(Id) /\ Len(ids) \in DOMAIN ids
    BY <1>7, complete_node_OK
  <2>2. batch.pieces \in Seq(Piece) /\ DOMAIN ids = DOMAIN batch.pieces
    BY <1>1 DEF batch_ids, InFlightBatch
  <2>3. \A i \in DOMAIN ids : ids[i] = id(i)
    BY <2>2 DEF batch_ids
  <2>4. I = DOMAIN ids
    BY <1>7, <2>2 DEF I, acked_prefix, batch_is_complete
  <2>5. \A i \in DOMAIN ids :
           Before(batch, i) =
              IF i = 1 THEN batch.prev_interaction_id ELSE ids[i - 1]
    BY <2>1, <2>2, <2>3 DEF Before
  <2> HIDE DEF ids
  <2>6. ASSUME NEW i \in DOMAIN ids
        PROVE  /\ ids[i] \in DOMAIN t.upstreams
               /\ t.upstreams[ids[i]] = Before(batch, i)
               /\ ids[i] \in DOMAIN g /\ g[ids[i]].prev = Before(batch, i)
    <3>1. ids[i] \in DOMAIN new /\ new[ids[i]] = Before(batch, i)
      BY <1>3, <2>3, <2>4
    <3> QED
      BY <1>1, <1>2, <1>4, <2>2, <2>3, <2>4, <3>1 DEF ChainedBatch
  <2>7. /\ NodeOf(batch, n).upstream_ids = ids
        /\ NodeOf(batch, n).prev_id = batch.prev_interaction_id
    BY DEF NodeOf, ids
  <2> QED
    BY <2>1, <2>5, <2>6, <2>7 DEF WholeNode
<1> HIDE DEF ids
<1>8. \/ t.clients = s.clients
      \/ \E c, node : /\ t.clients = Put(s.clients, c, node)
                      /\ WholeNode(c, node, t.upstreams, g)
  BY <1>2, <1>7
<1>9. /\ DOMAIN s.upstreams \subseteq DOMAIN t.upstreams
      /\ DOMAIN t.upstreams \subseteq DOMAIN g
      /\ \A x \in DOMAIN s.upstreams : t.upstreams[x] = s.upstreams[x]
  BY <1>2, <1>5 DEF Sound
<1>10. Sound(t, g)
  BY <1>6, <1>8, <1>9, SoundPublish
<1> QED
  BY <1>10 DEF t

\* Interaction x, which no batch and no node has yet, is stored as a node.
LEMMA SoundStore ==
    ASSUME NEW s, NEW g, Sound(s, g), NEW t, NEW node, NEW x, NEW prev,
           t.in_flight = s.in_flight,
           t.upstreams = Put(s.upstreams, x, prev),
           t.clients = Put(s.clients, x, node),
           node.upstream_ids = <<x>>, node.prev_id = prev,
           x \in DOMAIN g \ DOMAIN s.upstreams, g[x].prev = prev,
           \A b \in DOMAIN s.in_flight : ~InBatch(s, b, x)
    PROVE  Sound(t, g)
<1>1. /\ DOMAIN t.upstreams = DOMAIN s.upstreams \cup {x}
      /\ t.upstreams[x] = prev
      /\ \A id \in DOMAIN s.upstreams : t.upstreams[id] = s.upstreams[id]
  BY DEF Put
<1>2. WholeNode(x, node, t.upstreams, g)
  BY <1>1 DEF WholeNode
<1>3. /\ DOMAIN s.upstreams \subseteq DOMAIN t.upstreams
      /\ DOMAIN t.upstreams \subseteq DOMAIN g
  BY <1>1 DEF Sound
<1>4. \A b \in DOMAIN t.in_flight :
         /\ b \in DOMAIN s.in_flight
         /\ t.in_flight[b] = s.in_flight[b]
         /\ \A id \in DOMAIN t.upstreams \ DOMAIN s.upstreams :
               ~InBatch(s, b, id)
  BY <1>1
<1> QED
  BY <1>1, <1>2, <1>3, <1>4, SoundPublish

LEMMA SoundEmpty ==
    ASSUME NEW t, NEW g, t.clients = EmptyMap, t.upstreams = EmptyMap,
           t.in_flight = EmptyMap
    PROVE  Sound(t, g)
BY DEF Sound, EmptyMap

-----------------------------------------------------------------------------
(* What the service does *)

LEMMA CreateGrown ==
    ASSUME NEW id, NEW prev, NEW content, Create(id, prev, content)
    PROVE  /\ Grown(gemini, gemini')
           /\ id \in DOMAIN gemini' /\ gemini'[id].prev = prev
BY DEF Create, Put, fresh, Grown

LEMMA CallFailsGrown ==
    ASSUME NEW prev, NEW content, CallFails(prev, content)
    PROVE  Grown(gemini, gemini')
BY CreateGrown DEF CallFails, Grown

LEMMA set_stateGrown ==
    ASSUME IInv, NEW id, NEW st
    PROVE  Grown(gemini, set_state(id, st))
<1>1. IsMap(gemini, Id, Interaction)
  BY DEF IInv, TypeOK
<1>2. CASE id \notin DOMAIN gemini
  BY <1>2 DEF set_state, Grown
<1>3. CASE id \in DOMAIN gemini
  <2> DEFINE new == IF gemini[id].state = "deleted" THEN "deleted" ELSE st
             x   == [gemini[id] EXCEPT !.state = new]
  <2>1. set_state(id, st) = [gemini EXCEPT ![id] = x]
    BY <1>1, <1>3 DEF set_state, IsMap
  <2>2. x.prev = gemini[id].prev
    BY <1>1, <1>3 DEF IsMap, Interaction
  <2> HIDE DEF x
  <2> QED
    BY <1>1, <1>3, <2>1, <2>2 DEF Grown, IsMap
<1> QED
  BY <1>2, <1>3

-----------------------------------------------------------------------------
(* Steps of one handler *)

\* The batch that q works on is as it was, or gone.
Undisturbed(q) ==
    Working(q) /\ task[q].batch \in DOMAIN store'.in_flight =>
        /\ task[q].batch \in DOMAIN store.in_flight
        /\ store'.in_flight[task[q].batch] = store.in_flight[task[q].batch]

Others(r) == \A q \in Request \ {r} : task'[q] = task[q]

\* No other handler notices the step of r.
Discreet(r) ==
    \A q \in Request \ {r} :
        /\ Undisturbed(q)
        /\ Holds(q) => task[q].last \notin DOMAIN store'.upstreams
        /\ Working(r)' /\ Working(q) => task[q].batch # task'[r].batch

LEMMA SavedSound ==
    ASSUME BInv, Grown(gemini, gemini'), Sound(store', gemini'), Saves
    PROVE  Sound(disk', gemini')
<1>1. CASE disk' = disk
  <2>1. Sound(disk, gemini)
    BY DEF BInv
  <2> QED
    BY <1>1, <2>1, SoundGrown
<1>2. CASE disk' = Document(store')
  BY <1>2, SoundDocument
<1> QED
  BY <1>1, <1>2 DEF Saves

LEMMA InStepKept ==
    ASSUME BInv, Grown(gemini, gemini'), NEW q \in Request,
           task'[q] = task[q], Undisturbed(q)
    PROVE  InStep(q)'
<1>1. InStep(q) /\ (Holds(q) => task[q].last \in DOMAIN gemini)
  <2>1. InStep(q) /\ InteractionsHaveOneOwner
    BY DEF BInv, OInv
  <2> QED
    BY <2>1 DEF InteractionsHaveOneOwner, OneHolder
<1>2. piece_count(q)' = piece_count(q)
  BY DEF piece_count, system_parts, splits_system, new_messages
<1> SUFFICES ASSUME Working(q)', task'[q].batch \in DOMAIN store'.in_flight
             PROVE  InStep(q)'
  BY DEF InStep
<1> DEFINE b == task[q].batch
<1>3. /\ Working(q) /\ b \in DOMAIN store.in_flight
      /\ store'.in_flight[b] = store.in_flight[b]
  BY DEF Working, Undisturbed
<1>4. task[q].pc = "ack" => gemini'[task[q].last].prev = gemini[task[q].last].prev
  BY <1>1 DEF Holds, Grown
<1> QED
  BY <1>1, <1>2, <1>3, <1>4 DEF InStep, Working

LEMMA OneStep ==
    ASSUME BInv, OInv', NEW r \in Request, Others(r), Discreet(r),
           Grown(gemini, gemini'), Sound(store', gemini'), Saves,
           InStep(r)', Received(r)', OwnName(r)'
    PROVE  BInv'
<1>1. ASSUME NEW q \in Request PROVE InStep(q)' /\ OwnName(q)'
  BY InStepKept DEF Others, Discreet, BInv, OwnName, Working
<1>2. ASSUME NEW q \in Request \ {r} PROVE Received(q)'
  <2>1. task'[q] = task[q] /\ Received(q)
    BY DEF Others, BInv
  <2>2. Holds(q) => /\ task[q].last \in DOMAIN gemini
                    /\ task[q].last \notin DOMAIN store'.upstreams
    BY DEF BInv, OInv, InteractionsHaveOneOwner, OneHolder, Discreet
  <2> QED
    BY <2>1, <2>2 DEF Received, Holds, Grown
<1>3. ASSUME NEW p \in Request, NEW q \in Request, Working(p)', Working(q)',
             task'[p].batch = task'[q].batch
      PROVE  p = q
  BY <1>3 DEF Others, Discreet, Working, BInv
<1>4. Sound(disk', gemini')
  BY SavedSound
<1> QED
  BY <1>1, <1>2, <1>3, <1>4 DEF BInv

\* After its step r neither works on a batch nor holds an interaction.
Rests(r) ==
    /\ Others(r)
    /\ task'[r].pc \notin {"store", "streaming", "mark", "send", "ack",
                           "complete"}

LEMMA RestStep ==
    ASSUME BInv, OInv', NEW r \in Request, Rests(r),
           \A q \in Request \ {r} :
               /\ Undisturbed(q)
               /\ Holds(q) => task[q].last \notin DOMAIN store'.upstreams,
           Grown(gemini, gemini'), Sound(store', gemini'), Saves
    PROVE  BInv'
<1>1. ~Working(r)' /\ ~Holds(r)'
  BY DEF Rests, Working, Holds
<1>2. InStep(r)' /\ Received(r)' /\ OwnName(r)'
  BY <1>1 DEF InStep, Received, OwnName, Holds
<1> QED
  BY <1>1, <1>2, OneStep DEF Discreet, Rests

\* The step changes neither the batches nor the upstream nodes.
LEMMA SameStep ==
    ASSUME BInv, OInv', NEW r \in Request, Rests(r),
           store'.in_flight = store.in_flight,
           store'.upstreams = store.upstreams,
           DOMAIN store'.clients = DOMAIN store.clients, Kept(store, store'),
           Grown(gemini, gemini'), Saves
    PROVE  BInv'
<1>1. Sound(store', gemini')
  BY SoundKept, SoundGrown DEF BInv, OInv, IInv, TypeOK
<1>2. ASSUME NEW q \in Request \ {r}
      PROVE  /\ Undisturbed(q)
             /\ Holds(q) => task[q].last \notin DOMAIN store'.upstreams
  BY DEF BInv, Received, Undisturbed
<1> QED
  BY <1>1, <1>2, RestStep

LEMMA IdleStep ==
    ASSUME BInv, OInv', NEW r \in Request, Rests(r),
           store' = store, disk' = disk, Grown(gemini, gemini')
    PROVE  BInv'
BY SameStep, SameNodes DEF BInv, OInv, IInv, TypeOK, Saves

LEMMA GotoRests ==
    ASSUME IInv, NEW r \in Request, NEW pc, Goto(r, pc),
           pc \notin {"store", "streaming", "mark", "send", "ack", "complete"}
    PROVE  Rests(r)
<1>1. task \in [Request -> Task]
  BY DEF IInv, TypeOK
<1>2. task'[r].pc = pc /\ \A q \in Request \ {r} : task'[q] = task[q]
  BY <1>1 DEF Goto, Task
<1> QED
  BY <1>2 DEF Rests, Others

LEMMA AnswerRests ==
    ASSUME IInv, NEW r \in Request, NEW id, Answer(r, id)
    PROVE  Rests(r)
<1>1. CASE task' = [task EXCEPT ![r].pc = "done", ![r].node = id]
  BY <1>1 DEF Rests, Others, IInv, TypeOK, Task
<1>2. CASE Goto(r, "failed")
  BY <1>2, GotoRests
<1> QED
  BY <1>1, <1>2 DEF Answer

LEMMA GrownSame == Grown(gemini, gemini)
BY DEF Grown

LEMMA WaitingBInv ==
    ASSUME BInv, OInv', NEW r \in Request,
           \/ Arrive(r) \/ Probe(r) \/ Poll(r) \/ PollTimeout(r) \/ Recheck(r)
           \/ JoinBatch(r) \/ DupPoll(r) \/ DupTimeout(r) \/ DupReady(r)
           \/ Replay(r)
    PROVE  BInv'
<1>1. IInv /\ task \in [Request -> Task]
  BY DEF BInv, OInv, IInv, TypeOK
<1>2. UNCHANGED <<store, disk, gemini>>
  BY DEF Arrive, Probe, Poll, PollTimeout, Recheck, JoinBatch, DupPoll,
         DupTimeout, DupReady, Replay
<1> SUFFICES Rests(r)
  BY <1>2, IdleStep, GrownSame
<1>3. ASSUME NEW id, ReplayFrom(r, id)
      PROVE  Rests(r)
  BY <1>1, <1>3 DEF ReplayFrom, Rests, Others, Task
<1>4. ASSUME NEW pc \in {"poll", "dup"}, NEW b,
             task' = [task EXCEPT ![r].pc = pc, ![r].batch = b]
      PROVE  Rests(r)
  BY <1>1, <1>4 DEF Rests, Others, Task
<1>5. CASE Arrive(r)
  <2>1. CASE \E id : ReplayFrom(r, id)
    BY <1>3, <2>1
  <2>2. ASSUME NEW n, NEW p,
               task' = [task EXCEPT ![r].pc = "probe", ![r].start = n,
                                    ![r].prev = p]
        PROVE  Rests(r)
    BY <1>1, <2>2 DEF Rests, Others, Task
  <2> QED
    BY <1>5, <2>1, <2>2 DEF Arrive
<1>6. CASE Probe(r) \/ JoinBatch(r)
  BY <1>1, <1>4, <1>6, GotoRests DEF Probe, JoinBatch
<1>7. CASE Poll(r) \/ PollTimeout(r) \/ DupPoll(r) \/ DupTimeout(r)
  BY <1>1, <1>7, GotoRests DEF Poll, PollTimeout, DupPoll, DupTimeout
<1>8. CASE Recheck(r) \/ DupReady(r)
  BY <1>1, <1>3, <1>8, GotoRests DEF Recheck, DupReady
<1>9. CASE Replay(r)
  <2>1. ASSUME NEW ids,
               task' = [task EXCEPT ![r].pc = "fetch", ![r].fetch = ids]
        PROVE  Rests(r)
    BY <1>1, <2>1 DEF Rests, Others, Task
  <2> QED
    BY <1>1, <1>9, <2>1, GotoRests DEF Replay
<1> QED
  BY <1>5, <1>6, <1>7, <1>8, <1>9

LEMMA EndingBInv ==
    ASSUME BInv, OInv', NEW r \in Request,
           \/ FetchFails(r) \/ PostFails(r) \/ StreamEnds(r)
           \/ StreamBreaks(r) \/ NoCreatedEvent(r) \/ TranslateFails(r)
           \/ ClientGone(r) \/ Cancel(r) \/ Clean(r)
    PROVE  BInv'
<1>1. IInv /\ task \in [Request -> Task]
  BY DEF BInv, OInv, IInv, TypeOK
<1>2. UNCHANGED <<store, disk>>
  BY DEF FetchFails, PostFails, StreamEnds, StreamBreaks, NoCreatedEvent,
         TranslateFails, ClientGone, Cancel, Clean
<1>3. CASE Cancel(r) \/ Clean(r)
  <2>1. Grown(gemini, gemini')
    BY <1>1, <1>3, set_stateGrown, GrownSame DEF Cancel, Clean
  <2>2. ASSUME NEW id, task[r].pc \in {"cancel", "clean"},
               task' = [task EXCEPT ![r].undo = @ \ {id}]
        PROVE  Rests(r)
    BY <1>1, <2>2 DEF Rests, Others, Task
  <2>3. Rests(r)
    BY <1>1, <1>3, <2>2, GotoRests DEF Cancel, Clean, At
  <2> QED
    BY <1>2, <2>1, <2>3, IdleStep
<1>4. CASE ~(Cancel(r) \/ Clean(r))
  <2>1. Grown(gemini, gemini')
    BY <1>4, CallFailsGrown, CreateGrown, GrownSame
       DEF FetchFails, PostFails, StreamEnds, StreamBreaks, NoCreatedEvent,
           TranslateFails, ClientGone
  <2>2. Rests(r)
    <3>1. CASE StreamEnds(r)
      BY <1>1, <3>1 DEF StreamEnds, Rests, Others, Task
    <3>2. CASE ~StreamEnds(r)
      BY <1>1, <1>4, <3>2, GotoRests
         DEF FetchFails, PostFails, StreamBreaks, NoCreatedEvent,
             TranslateFails, ClientGone
    <3> QED
      BY <3>1, <3>2
  <2> QED
    BY <1>2, <2>1, <2>2, IdleStep
<1> QED
  BY <1>3, <1>4

-----------------------------------------------------------------------------
(* Steps that save *)

LEMMA OwnBatch ==
    ASSUME BInv, NEW r \in Request, Working(r),
           OtherBatches(store, store', task[r].batch),
           store'.upstreams = store.upstreams,
           Others(r), task'[r].batch = task[r].batch
    PROVE  Discreet(r)
<1> SUFFICES ASSUME NEW q \in Request \ {r}
             PROVE  /\ Undisturbed(q)
                    /\ Holds(q) => task[q].last \notin DOMAIN store'.upstreams
                    /\ Working(q) => task[q].batch # task'[r].batch
  BY DEF Discreet
<1>1. Working(q) => task[q].batch # task[r].batch
  BY DEF BInv
<1>2. Undisturbed(q)
  BY <1>1 DEF Undisturbed, OtherBatches
<1> QED
  BY <1>1, <1>2 DEF BInv, Received

LEMMA PieceFailsBInv ==
    ASSUME BInv, OInv', NEW r \in Request, PieceFails(r)
    PROVE  BInv'
<1> DEFINE b == task[r].batch
           s == fail_batch(store, b)
<1>1. task \in [Request -> Task] /\ StoreOK(store) /\ Sound(store, gemini)
  BY DEF BInv, OInv, IInv, TypeOK
<1>2. Working(r) /\ Grown(gemini, gemini') /\ Commit(s)
  BY CallFailsGrown DEF PieceFails, Working, At
<1>3. OtherBatches(store, s, b) /\ s.upstreams = store.upstreams
  <2>1. CASE b \in DOMAIN store.in_flight
    BY <1>1, <2>1, fail_batch_Effect DEF Sound, NewPieces
  <2>2. CASE b \notin DOMAIN store.in_flight
    BY <2>2 DEF fail_batch, OtherBatches
  <2> QED
    BY <2>1, <2>2
<1>4. Sound(s, gemini')
  BY <1>1, <1>2, SoundFail, SoundGrown
<1>5. Rests(r) /\ task'[r].batch = b
  <2>1. ASSUME NEW u,
               task' = [task EXCEPT ![r].pc = "cancel", ![r].undo = u]
        PROVE  Rests(r) /\ task'[r].batch = b
    BY <1>1, <2>1 DEF Rests, Others, Task
  <2> QED
    BY <2>1 DEF PieceFails
<1> HIDE DEF s
<1>6. store' = s /\ Saves
  BY <1>2, CommitSaves
<1>7. Discreet(r)
  BY <1>2, <1>3, <1>5, <1>6, OwnBatch DEF Rests
<1> QED
  BY <1>2, <1>4, <1>5, <1>6, <1>7, RestStep DEF Discreet

LEMMA TouchingBInv ==
    ASSUME BInv, OInv', NEW r \in Request,
           Fetch(r) \/ Upsert(r) \/ ExtendLifetime(r)
    PROVE  BInv'
<1>1. IInv /\ task \in [Request -> Task] /\ StoreOK(store) /\ now \in Nat
  BY DEF BInv, OInv, IInv, TypeOK
<1>2. Grown(gemini, gemini')
  BY GrownSame DEF Fetch, Upsert, ExtendLifetime
<1>3. ASSUME NEW s, Commit(s), s.in_flight = store.in_flight,
             s.upstreams = store.upstreams, Rests(r),
             DOMAIN s.clients = DOMAIN store.clients, Kept(store, s)
      PROVE  BInv'
  BY <1>2, <1>3, CommitSaves, SameStep
<1>4. CASE Fetch(r)
  <2>1. ASSUME NEW ids, NEW pc \in {"done", "fetch"},
               task' = [task EXCEPT ![r].fetch = ids, ![r].pc = pc]
        PROVE  Rests(r)
    BY <1>1, <2>1 DEF Rests, Others, Task
  <2>2. Rests(r)
    <3> DEFINE ids == Tail(task[r].fetch)
               pc  == IF Tail(task[r].fetch) = <<>> THEN "done" ELSE "fetch"
    <3>1. pc \in {"done", "fetch"}
      OBVIOUS
    <3>2. task' = [task EXCEPT ![r].fetch = ids, ![r].pc = pc]
      BY <1>1, <1>4 DEF Fetch
    <3> HIDE DEF ids, pc
    <3> QED
      BY <2>1, <3>1, <3>2
  <2> QED
    BY <1>1, <1>3, <1>4, <2>2, SameNodes DEF Fetch
<1>5. CASE Upsert(r)
  <2> DEFINE s == set_last_interaction(store, ask[r].session, task[r].last)
  <2>1. Commit(s) /\ Rests(r)
    BY <1>1, <1>5, AnswerRests DEF Upsert
  <2>2. /\ s.in_flight = store.in_flight /\ s.clients = store.clients
        /\ s.upstreams = store.upstreams
    BY <1>1 DEF set_last_interaction, StoreOK
  <2> HIDE DEF s
  <2> QED
    BY <1>1, <1>3, <2>1, <2>2, SameNodes
<1>6. CASE ExtendLifetime(r)
  <2> DEFINE s == extend_lifetime(store, ask[r].session, now)
  <2>1. Commit(s) /\ Rests(r)
    BY <1>1, <1>6, GotoRests DEF ExtendLifetime
  <2>2. /\ s.in_flight = store.in_flight
        /\ DOMAIN s.clients = DOMAIN store.clients /\ Kept(store, s)
    BY <1>1, extend_lifetime_From DEF Kept
  <2>3. s.upstreams = store.upstreams
    <3>1. ASSUME NEW f, s = [store EXCEPT !.clients = f]
          PROVE  s.upstreams = store.upstreams
      BY <1>1, <3>1 DEF StoreOK
    <3>2. s = store \/ \E f : s = [store EXCEPT !.clients = f]
      BY <1>1 DEF extend_lifetime, StoreOK, IsMap
    <3> QED
      BY <3>1, <3>2
  <2> HIDE DEF s
  <2> QED
    BY <1>3, <2>1, <2>2, <2>3
<1> QED
  BY <1>4, <1>5, <1>6

LEMMA CleanAllBInv ==
    ASSUME BInv, OInv', NEW r \in Request, CleanAll(r)
    PROVE  BInv'
<1>1. task \in [Request -> Task]
  BY DEF BInv, OInv, IInv, TypeOK
<1>2. Rests(r)
  <2>1. ASSUME NEW u,
               task' = [task EXCEPT ![r].pc = "clean", ![r].undo = u]
        PROVE  Rests(r)
    BY <1>1, <2>1 DEF Rests, Others, Task
  <2> QED
    BY <2>1 DEF CleanAll
<1>3. store' = clean_all(store) /\ Saves
  BY CommitSaves DEF CleanAll
<1>4. /\ store'.clients = EmptyMap /\ store'.upstreams = EmptyMap
      /\ store'.in_flight = EmptyMap
  BY <1>3 DEF clean_all, NewStore
<1>5. Sound(store', gemini')
  BY <1>4, SoundEmpty
<1>6. Grown(gemini, gemini')
  BY GrownSame DEF CleanAll
<1>7. ASSUME NEW q \in Request \ {r}
      PROVE  /\ Undisturbed(q)
             /\ Holds(q) => task[q].last \notin DOMAIN store'.upstreams
  BY <1>4 DEF Undisturbed, EmptyMap
<1> QED
  BY <1>2, <1>3, <1>5, <1>6, <1>7, RestStep

-----------------------------------------------------------------------------
(* Steps that publish *)

LEMMA with_node_Effect ==
    ASSUME IInv, NEW r \in Request
    PROVE  LET t  == with_node(r)
               id == task[r].last
           IN  /\ t.in_flight = store.in_flight
               /\ t.upstreams = Put(store.upstreams, id, task[r].prev)
               /\ \E node : /\ t.clients = Put(store.clients, id, node)
                            /\ node.upstream_ids = <<id>>
                            /\ node.prev_id = task[r].prev
<1> DEFINE id   == task[r].last
           prev == task[r].prev
           node == [prev_id |-> prev,
                    message_hashes |-> ask[r].hashes,
                    system_instruction_hash |-> system_hash(r),
                    upstream_ids |-> <<id>>,
                    last_seen_utc |-> now]
<1>1. StoreOK(store)
  BY DEF IInv, TypeOK
<1>2. with_node(r) =
        set_last_interaction(
          insert_client(insert_upstream(store, id, prev), id, node),
          ask[r].session, id)
  BY DEF with_node
<1>3. node.upstream_ids = <<id>> /\ node.prev_id = prev
  OBVIOUS
<1> HIDE DEF node, id, prev
<1>4. /\ with_node(r).in_flight = store.in_flight
      /\ with_node(r).upstreams = Put(store.upstreams, id, prev)
      /\ with_node(r).clients = Put(store.clients, id, node)
  BY <1>1, <1>2
     DEF set_last_interaction, insert_client, insert_upstream, StoreOK
<1> QED
  BY <1>3, <1>4 DEF id, prev

LEMMA StoringBInv ==
    ASSUME BInv, OInv', NEW r \in Request, StoreNode(r) \/ StreamCreated(r)
    PROVE  BInv'
<1> DEFINE x == task[r].last
           p == task[r].prev
<1>1. IInv /\ Sound(store, gemini) /\ Received(r)
  BY DEF BInv, OInv
<1>2. Rests(r)
  BY <1>1, AnswerRests, GotoRests DEF StoreNode, StreamCreated
<1>3. gemini' = gemini /\ store' = with_node(r) /\ Saves
  BY CommitSaves DEF StoreNode, StreamCreated
<1>4. task[r].pc \in {"store", "streaming"} /\ Holds(r)
  BY DEF StoreNode, StreamCreated, At, Holds
<1>5. /\ x \in DOMAIN gemini \ DOMAIN store.upstreams /\ gemini[x].prev = p
      /\ \A b \in DOMAIN store.in_flight : ~InBatch(store, b, x)
      /\ \A q \in Request \ {r} : Holds(q) => task[q].last # x
  BY <1>1, <1>4 DEF Received, BInv, OInv, InteractionsHaveOneOwner, OneHolder
<1>6. /\ store'.in_flight = store.in_flight
      /\ store'.upstreams = Put(store.upstreams, x, p)
      /\ \E node : /\ store'.clients = Put(store.clients, x, node)
                   /\ node.upstream_ids = <<x>> /\ node.prev_id = p
  BY <1>1, <1>3, with_node_Effect
<1> HIDE DEF x, p
<1>7. Sound(store', gemini')
  BY <1>1, <1>3, <1>5, <1>6, SoundStore
<1>8. ASSUME NEW q \in Request \ {r}
      PROVE  /\ Undisturbed(q)
             /\ Holds(q) => task[q].last \notin DOMAIN store'.upstreams
  BY <1>5, <1>6 DEF Undisturbed, BInv, Received, Put
<1> QED
  BY <1>2, <1>3, <1>7, <1>8, RestStep, GrownSame

\* The pieces that a completed batch leaves as upstream nodes were its own.
LEMMA CompletedBatch ==
    ASSUME BInv, NEW b \in DOMAIN store.in_flight,
           store' = complete_batch(store, b, now), gemini' = gemini
    PROVE  /\ Sound(store', gemini')
           /\ \A q \in Request :
                /\ Undisturbed(q)
                /\ Holds(q) => task[q].last \notin DOMAIN store'.upstreams
<1>1. /\ StoreOK(store) /\ now \in Nat /\ Sound(store, gemini)
      /\ OwnedBy(store, DOMAIN gemini)
  BY DEF BInv, OInv, IInv, TypeOK, InteractionsHaveOneOwner, OneOwner, OwnedBy
<1>2. Sound(store', gemini')
  BY <1>1, SoundComplete
<1>3. Completed(store, store', b, now)
  BY <1>1, complete_batch_Effect
<1>4. ASSUME NEW x \in DOMAIN store'.upstreams
      PROVE  x \in DOMAIN store.upstreams \/ InBatch(store, b, x)
  <2> DEFINE batch == store.in_flight[b]
             I     == acked_prefix(batch)
  <2>1. batch \in InFlightBatch /\ ApartBatch(batch, store.upstreams)
    BY <1>1 DEF StoreOK, IsMap, Sound
  <2>2. /\ DOMAIN chain_of(batch, I) = {batch.pieces[i].interaction_id : i \in I}
        /\ \A i \in I : i \in DOMAIN batch.pieces
    BY <2>1, chain_of_Links
  <2> QED
    BY <1>3, <2>2 DEF Completed, InBatch
<1>5. ASSUME NEW q \in Request, Holds(q)
      PROVE  task[q].last \notin DOMAIN store'.upstreams
  BY <1>4, <1>5
     DEF BInv, Received, OInv, InteractionsHaveOneOwner, OneHolder
<1>6. ASSUME NEW q \in Request PROVE Undisturbed(q)
  BY <1>3 DEF Completed, Undisturbed, Without
<1> QED
  BY <1>2, <1>5, <1>6

LEMMA CompleteBInv ==
    ASSUME BInv, OInv', NEW r \in Request, Complete(r)
    PROVE  BInv'
<1> DEFINE b == task[r].batch
<1>1. IInv /\ StoreOK(store)
  BY DEF BInv, OInv, IInv, TypeOK
<1>2. gemini' = gemini
  BY DEF Complete
<1>3. Rests(r)
  BY <1>1, AnswerRests, GotoRests DEF Complete
<1>4. Saves
  BY CommitSaves DEF Complete, Saves
<1>5. CASE b \in DOMAIN store.in_flight
  <2>1. store' = complete_batch(store, b, now)
    BY <1>5, CommitSaves DEF Complete
  <2> QED
    BY <1>2, <1>3, <1>4, <1>5, <2>1, CompletedBatch, RestStep, GrownSame
<1>6. CASE b \notin DOMAIN store.in_flight
  <2>1. store' = store
    BY <1>6 DEF Complete, batch_is_complete
  <2> QED
    BY <1>1, <1>2, <1>3, <1>4, <2>1, SameStep, SameNodes, GrownSame
<1> QED
  BY <1>5, <1>6

\* A step of no handler.
LEMMA NobodyStep ==
    ASSUME BInv, OInv', task' = task,
           \A q \in Request :
              /\ Undisturbed(q)
              /\ Holds(q) => task[q].last \notin DOMAIN store'.upstreams,
           gemini' = gemini, Sound(store', gemini'), Saves
    PROVE  BInv'
<1>1. ASSUME NEW q \in Request PROVE InStep(q)' /\ OwnName(q)'
  BY InStepKept, GrownSame DEF BInv, OwnName, Working
<1>2. ASSUME NEW q \in Request PROVE Received(q)'
  BY DEF BInv, Received, Holds
<1>3. Sound(disk', gemini')
  BY SavedSound, GrownSame
<1> QED
  BY <1>1, <1>2, <1>3 DEF BInv, Working

LEMMA StartupBInv ==
    ASSUME BInv, OInv', Startup
    PROVE  BInv'
<1>1. task' = task /\ gemini' = gemini /\ Saves
  BY CommitSaves DEF Startup, StartupComplete, StartupDiscard, Saves
<1>2. CASE StartupComplete
  BY <1>1, <1>2, CompletedBatch, NobodyStep DEF StartupComplete
<1>3. CASE StartupDiscard
  <2> DEFINE s == discard_all_inflight(store)
  <2>1. StoreOK(store) /\ Sound(store, gemini)
    BY DEF BInv, OInv, IInv, TypeOK
  <2>2. /\ s.clients = store.clients /\ s.in_flight = EmptyMap
        /\ s.upstreams = store.upstreams
    BY <2>1 DEF discard_all_inflight, StoreOK
  <2>3. store' \in {store, s}
    BY <1>3, CommitSaves DEF StartupDiscard
  <2> HIDE DEF s
  <2>4. Sound(s, gemini)
    BY <2>1, <2>2 DEF Sound, EmptyMap
  <2>5. ASSUME NEW q \in Request
        PROVE  /\ Undisturbed(q)
               /\ Holds(q) => task[q].last \notin DOMAIN store'.upstreams
    BY <2>2, <2>3 DEF Undisturbed, EmptyMap, BInv, Received
  <2> QED
    BY <1>1, <2>1, <2>3, <2>4, <2>5, NobodyStep
<1> QED
  BY <1>2, <1>3 DEF Startup

LEMMA CrashBInv ==
    ASSUME BInv, OInv', Crash
    PROVE  BInv'
<1>1. /\ store'.clients = disk.clients /\ store'.in_flight = disk.in_flight
      /\ store'.upstreams = disk.upstreams
  BY load_from_disk_Keeps DEF Crash
<1>2. disk' = disk /\ gemini' = gemini
  BY DEF Crash
<1>3. Sound(store', gemini') /\ Sound(disk', gemini')
  BY <1>1, <1>2 DEF BInv, Sound
<1>4. \A r \in Request : ~Holds(r)' /\ ~Working(r)'
  BY DEF Crash, in_progress, Holds, Working, Ends, NewTask
<1>5. \A r \in Request : InStep(r)' /\ Received(r)' /\ OwnName(r)'
  BY <1>4 DEF InStep, Received, OwnName, Holds
<1> QED
  BY <1>3, <1>4, <1>5 DEF BInv

-----------------------------------------------------------------------------
(* Steps of the handler that works on a batch *)

LEMMA SameCount ==
    ASSUME NEW r, task'[r].start = task[r].start, task'[r].prev = task[r].prev
    PROVE  piece_count(r)' = piece_count(r)
BY DEF piece_count, system_parts, splits_system, new_messages

LEMMA PostBInv ==
    ASSUME BInv, OInv', NEW r \in Request, Post(r)
    PROVE  BInv'
<1>1. task \in [Request -> Task] /\ Sound(store, gemini)
  BY DEF BInv, OInv, IInv, TypeOK
<1>2. PICK x \in Id :
        /\ Create(x, task[r].prev, new_messages(r))
        /\ task' = [task EXCEPT ![r].last = x,
                     ![r].pc = IF ask[r].stream THEN "streaming" ELSE "store"]
  BY DEF Post
<1>3. store' = store /\ disk' = disk
  BY DEF Post
<1>4. /\ task'[r].last = x /\ task'[r].prev = task[r].prev
      /\ task'[r].pc \in {"streaming", "store"} /\ Others(r)
  <2>1. ASSUME NEW pc,
               task' = [task EXCEPT ![r].last = x, ![r].pc = pc]
        PROVE  /\ task'[r].last = x /\ task'[r].prev = task[r].prev
               /\ task'[r].pc = pc /\ Others(r)
    BY <1>1, <2>1 DEF Task, Others
  <2> QED
    BY <1>2, <2>1
<1>5. /\ Grown(gemini, gemini') /\ x \notin DOMAIN gemini
      /\ gemini'[x].prev = task[r].prev
  BY <1>2, CreateGrown, CreateGrows
<1>6. InStep(r)' /\ OwnName(r)' /\ ~Working(r)'
  BY <1>4 DEF InStep, OwnName, Working
<1>7. Received(r)'
  BY <1>1, <1>3, <1>4, <1>5 DEF Received, Sound
<1>8. Discreet(r)
  BY <1>3, <1>6 DEF Discreet, Undisturbed, BInv, Received
<1>9. Sound(store', gemini')
  BY <1>1, <1>3, <1>5, SoundGrown
<1> QED
  BY <1>3, <1>4, <1>5, <1>6, <1>7, <1>8, <1>9, OneStep DEF Saves

LEMMA SendPieceBInv ==
    ASSUME BInv, OInv', NEW r \in Request, SendPiece(r)
    PROVE  BInv'
<1>1. /\ task \in [Request -> Task] /\ Sound(store, gemini) /\ InStep(r)
      /\ task[r].pc = "send" /\ Working(r)
  BY DEF BInv, OInv, IInv, TypeOK, SendPiece, At, Working
<1>2. PICK x \in Id :
        /\ Create(x, task[r].last, piece_content(r))
        /\ task' = [task EXCEPT ![r].last = x, ![r].pc = "ack"]
  BY DEF SendPiece
<1>3. store' = store /\ disk' = disk
  BY DEF SendPiece
<1>4. /\ task'[r].last = x /\ task'[r].pc = "ack" /\ Others(r)
      /\ task'[r].prev = task[r].prev /\ task'[r].start = task[r].start
      /\ task'[r].batch = task[r].batch /\ task'[r].piece = task[r].piece
  BY <1>1, <1>2 DEF Task, Others
<1>5. /\ Grown(gemini, gemini') /\ x \notin DOMAIN gemini
      /\ gemini'[x].prev = task[r].last
  BY <1>2, CreateGrown, CreateGrows
<1>6. piece_count(r)' = piece_count(r)
  BY <1>4, SameCount
<1>7. InStep(r)'
  BY <1>1, <1>3, <1>4, <1>5, <1>6 DEF InStep, Working
<1>8. Received(r)' /\ OwnName(r)'
  BY <1>1, <1>3, <1>4, <1>5 DEF Received, Sound, BInv, OwnName
<1>9. Discreet(r)
  BY <1>1, <1>3, <1>4, OwnBatch DEF OtherBatches
<1>10. Sound(store', gemini')
  BY <1>1, <1>3, <1>5, SoundGrown
<1> QED
  BY <1>3, <1>4, <1>5, <1>7, <1>8, <1>9, <1>10, OneStep DEF Saves

LEMMA MarkBInv ==
    ASSUME BInv, OInv', NEW r \in Request, Mark(r)
    PROVE  BInv'
<1> DEFINE b == task[r].batch
           i == task[r].piece
           s == mark_response_started(store, b, i)
           p == store.in_flight[b].pieces
           x == [status |-> "ResponseStarted", interaction_id |-> NoId]
           q == [p EXCEPT ![i] = x]
<1>1. /\ task \in [Request -> Task] /\ Sound(store, gemini) /\ InStep(r)
      /\ StoreOK(store) /\ task[r].pc = "mark" /\ Working(r)
      /\ i \in 1 .. piece_count(r)
  BY DEF BInv, OInv, IInv, TypeOK, Progress, Mark, At, Working
<1>2. /\ task'[r].pc = "send" /\ Others(r)
      /\ task'[r].prev = task[r].prev /\ task'[r].start = task[r].start
      /\ task'[r].batch = b /\ task'[r].piece = i
      /\ task'[r].last = task[r].last
  BY <1>1 DEF Mark, Goto, Task, Others
<1>3. store' = s /\ Saves /\ gemini' = gemini
  BY CommitSaves DEF Mark
<1>4. Sound(store', gemini')
  BY <1>1, <1>3, SoundMark
<1>5. x \in Piece /\ x.status = "ResponseStarted"
  BY DEF Piece, PieceStatus
<1>6. b \in DOMAIN store.in_flight =>
        /\ i \in DOMAIN p /\ p \in Seq(Piece) /\ DOMAIN p = 1 .. piece_count(r)
        /\ p[i].status = "Pending"
  BY <1>1 DEF InStep, StoreOK, IsMap, InFlightBatch
<1>7. b \in DOMAIN store.in_flight => NewPieces(store, s, b, q)
  BY <1>1, <1>5, <1>6, move_piece_Effect DEF mark_response_started, has_piece
<1>8. b \notin DOMAIN store.in_flight => s = store
  BY DEF mark_response_started, move_piece, has_piece
<1> HIDE DEF s, x
<1>9. b \in DOMAIN store.in_flight =>
        /\ DOMAIN q = DOMAIN p /\ q[i] = x
        /\ \A j \in DOMAIN p : j # i => q[j] = p[j]
  BY <1>6
<1> HIDE DEF q
<1>10. s.upstreams = store.upstreams /\ OtherBatches(store, s, b)
  BY <1>7, <1>8 DEF NewPieces, OtherBatches
<1>11. Discreet(r)
  BY <1>1, <1>2, <1>3, <1>10, OwnBatch
<1>12. piece_count(r)' = piece_count(r)
  BY <1>2, SameCount
<1>13. InStep(r)'
  <2> SUFFICES ASSUME b \in DOMAIN store'.in_flight
               PROVE  InStep(r)'
    BY <1>2 DEF InStep
  <2>1. b \in DOMAIN store.in_flight
    BY <1>3, <1>8
  <2>2. /\ store'.in_flight[b].pieces = q
        /\ store'.in_flight[b].prev_interaction_id =
              store.in_flight[b].prev_interaction_id
    BY <1>3, <1>7, <2>1 DEF NewPieces
  <2>3. i \in Nat /\ (i # 1 => i - 1 \in DOMAIN p /\ i - 1 # i)
    BY <1>1, <1>6, <2>1
  <2>4. Before(store'.in_flight[b], i) = Before(store.in_flight[b], i)
    BY <1>9, <2>1, <2>2, <2>3 DEF Before
  <2>5. /\ task[r].last = Before(store.in_flight[b], i)
        /\ store.in_flight[b].prev_interaction_id = task[r].prev
        /\ \A j \in DOMAIN p : /\ j < i => IsAcked(p[j])
                               /\ j > i => p[j].status = "Pending"
    BY <1>1, <2>1 DEF InStep
  <2>6. \A j \in DOMAIN q : /\ j < i => IsAcked(q[j])
                            /\ j > i => q[j].status = "Pending"
    <3> SUFFICES ASSUME NEW j \in DOMAIN q, j < i \/ j > i
                 PROVE  /\ j < i => IsAcked(q[j])
                        /\ j > i => q[j].status = "Pending"
      OBVIOUS
    <3>1. j \in DOMAIN p /\ j # i
      BY <1>6, <1>9, <2>1, <2>3
    <3>2. q[j] = p[j]
      BY <1>9, <2>1, <3>1
    <3> QED
      BY <2>5, <3>1, <3>2
  <2> HIDE DEF p
  <2> QED
    BY SMTT(30), <1>2, <1>5, <1>6, <1>9, <1>12, <2>1, <2>2, <2>4, <2>5, <2>6 DEF InStep
<1>14. Received(r)' /\ OwnName(r)'
  BY <1>1, <1>2 DEF Received, Holds, BInv, OwnName
<1> QED
  BY <1>2, <1>3, <1>4, <1>11, <1>13, <1>14, OneStep, GrownSame

LEMMA AckBInv ==
    ASSUME BInv, OInv', NEW r \in Request, Ack(r)
    PROVE  BInv'
<1> DEFINE b == task[r].batch
           i == task[r].piece
           x == task[r].last
           s == ack_piece(mark_sent(store, b, i, x), b, i, x)
           p == store.in_flight[b].pieces
           y == [status |-> "Acked", interaction_id |-> x]
           q == [p EXCEPT ![i] = y]
<1>1. /\ task \in [Request -> Task] /\ Sound(store, gemini) /\ InStep(r)
      /\ StoreOK(store) /\ task[r].pc = "ack" /\ Working(r) /\ Holds(r)
      /\ i \in 1 .. piece_count(r) /\ x \in Id /\ IInv
  BY DEF BInv, OInv, IInv, TypeOK, Progress, Ack, At, Working, Holds
<1>2. /\ Others(r) /\ task'[r].batch = b /\ task'[r].last = x
      /\ task'[r].prev = task[r].prev /\ task'[r].start = task[r].start
      /\ \/ task'[r].pc = "mark" /\ task'[r].piece = i + 1
         \/ task'[r].pc = "complete" /\ i = piece_count(r)
         \/ task'[r].pc = "failed"
  BY <1>1 DEF Ack, Goto, Task, Others
<1>3. store' = s /\ Saves /\ gemini' = gemini
  BY CommitSaves DEF Ack
<1>4. b \in DOMAIN store.in_flight =>
        /\ i \in DOMAIN p /\ p \in Seq(Piece) /\ DOMAIN p = 1 .. piece_count(r)
        /\ p[i].status = "ResponseStarted" /\ has_piece(store, b, i)
        /\ \A j \in DOMAIN p : /\ j < i => IsAcked(p[j])
                               /\ j > i => p[j].status = "Pending"
        /\ gemini[x].prev = Before(store.in_flight[b], i)
        /\ store.in_flight[b].prev_interaction_id = task[r].prev
  BY <1>1 DEF InStep, StoreOK, IsMap, InFlightBatch, has_piece
<1>5. b \in DOMAIN store.in_flight => NewPieces(store, s, b, q)
  BY <1>1, <1>4, acknowledge_Effect
<1>6. b \notin DOMAIN store.in_flight => s = store
  BY acknowledge_Absent
<1>7. Sound(s, gemini)
  <2>1. CASE b \notin DOMAIN store.in_flight
    BY <1>1, <1>6, <2>1
  <2>2. CASE b \in DOMAIN store.in_flight
    <3>1. /\ x \in DOMAIN gemini \ DOMAIN store.upstreams
          /\ ~InBatch(store, b, x)
      BY <1>1, <2>2
         DEF BInv, Received, OInv, InteractionsHaveOneOwner, OneHolder
    <3>2. \A j \in DOMAIN p : j > i => ~IsAcked(p[j])
      BY <1>4, <2>2 DEF IsAcked
    <3> QED
      BY <1>1, <1>4, <2>2, <3>1, <3>2, SoundAck
  <2> QED
    BY <2>1, <2>2
<1>8. y.interaction_id = x /\ IsAcked(y)
  BY DEF IsAcked
<1> HIDE DEF s, y
<1>9. b \in DOMAIN store.in_flight =>
        /\ DOMAIN q = DOMAIN p /\ q[i] = y
        /\ \A j \in DOMAIN p : j # i => q[j] = p[j]
  BY <1>4
<1> HIDE DEF q
<1>10. s.upstreams = store.upstreams /\ OtherBatches(store, s, b)
  BY <1>5, <1>6 DEF NewPieces, OtherBatches
<1>11. Discreet(r)
  BY <1>1, <1>2, <1>3, <1>10, OwnBatch
<1>12. piece_count(r)' = piece_count(r)
  BY <1>2, SameCount
<1>13. InStep(r)'
  <2> SUFFICES ASSUME b \in DOMAIN store'.in_flight
               PROVE  InStep(r)'
    BY <1>2 DEF InStep
  <2>1. b \in DOMAIN store.in_flight
    BY <1>3, <1>6
  <2>2. /\ store'.in_flight[b].pieces = q
        /\ store'.in_flight[b].prev_interaction_id = task[r].prev
    BY <1>3, <1>4, <1>5, <2>1 DEF NewPieces
  <2>3. i \in Nat \ {0} /\ i + 1 # 1 /\ (i + 1) - 1 = i
    BY <1>1
  <2>4. \A j \in DOMAIN q : j \in Int
    BY <1>1, <1>4, <1>9, <2>1
  <2>5. \A j \in DOMAIN q : /\ j <= i => IsAcked(q[j])
                            /\ j > i => q[j].status = "Pending"
    <3> SUFFICES ASSUME NEW j \in DOMAIN q
                 PROVE  /\ j <= i => IsAcked(q[j])
                        /\ j > i => q[j].status = "Pending"
      OBVIOUS
    <3>1. CASE j = i
      BY <1>8, <1>9, <2>1, <2>3, <3>1
    <3>2. CASE j # i
      <4>1. j \in DOMAIN p /\ q[j] = p[j]
        BY <1>9, <2>1, <3>2
      <4>2. /\ j < i => IsAcked(p[j])
            /\ j > i => p[j].status = "Pending"
        BY <1>4, <2>1, <4>1
      <4> HIDE DEF p
      <4> QED
        BY <2>3, <2>4, <3>2, <4>1, <4>2
    <3> QED
      BY <3>1, <3>2
  <2> HIDE DEF p, b, x
  <2>6. CASE task'[r].pc = "failed"
    BY <2>6 DEF InStep, Working
  <2>7. CASE task'[r].pc = "mark" /\ task'[r].piece = i + 1
    <3>1. \A j \in DOMAIN q : /\ j < i + 1 => IsAcked(q[j])
                              /\ j > i + 1 => q[j].status = "Pending"
      BY <2>3, <2>4, <2>5
    <3>2. i + 1 \in DOMAIN q /\ q[i + 1].status = "Pending"
      <4>1. i + 1 \in 1 .. piece_count(r)
        BY <1>12, <2>7 DEF OInv, IInv, Progress
      <4>2. i + 1 \in DOMAIN q
        BY <1>4, <1>9, <2>1, <4>1
      <4>3. i + 1 > i
        BY <2>3
      <4> QED
        BY <2>5, <4>2, <4>3
    <3>3. x = Before(store'.in_flight[b], i + 1)
      BY <1>8, <1>9, <2>1, <2>2, <2>3 DEF Before
    <3> QED
      BY SMTT(30), <1>2, <1>4, <1>9, <1>12, <2>1, <2>2, <2>7, <3>1, <3>2,
         <3>3 DEF InStep
  <2>8. CASE task'[r].pc = "complete" /\ i = piece_count(r)
    <3>1. \A j \in DOMAIN q : IsAcked(q[j])
      <4>1. \A j \in DOMAIN q : j <= i
        BY <1>1, <1>4, <1>9, <2>1, <2>3, <2>8
      <4> QED
        BY <2>5, <4>1
    <3>2. x = q[piece_count(r)].interaction_id
      BY <1>8, <1>9, <2>1, <2>8
    <3> QED
      BY <1>2, <1>4, <1>9, <1>12, <2>1, <2>2, <2>8, <3>1, <3>2 DEF InStep
  <2> QED
    BY <1>2, <2>6, <2>7, <2>8
<1>14. Received(r)' /\ OwnName(r)'
  BY <1>1, <1>2 DEF Received, Holds, BInv, OwnName
<1> QED
  BY <1>2, <1>3, <1>7, <1>11, <1>13, <1>14, OneStep, GrownSame

LEMMA CreateBatchBInv ==
    ASSUME BInv, OInv', NEW r \in Request, CreateBatch(r), NameIsFree(r)
    PROVE  BInv'
<1> DEFINE b == <<ask[r].session, now>>
           n == piece_count(r)
           s == create_batch(store, b, task[r].prev, ask[r].hashes,
                             system_hash(r), n)
<1>1. /\ task \in [Request -> Task] /\ Sound(store, gemini) /\ IInv
      /\ StoreOK(store) /\ is_query(r) /\ ~Working(r)
  BY RunningQuery
     DEF BInv, OInv, IInv, TypeOK, CreateBatch, At, Ends, Working
<1>2. n \in Nat \ {0}
  BY <1>1, piece_count_OK
<1>3. store' = s /\ Saves /\ gemini' = gemini
  BY CommitSaves DEF CreateBatch
<1>4. /\ Others(r) /\ task'[r].pc = "mark" /\ task'[r].batch = b
      /\ task'[r].piece = 1 /\ task'[r].last = task[r].prev
      /\ task'[r].prev = task[r].prev /\ task'[r].start = task[r].start
  <2>1. ASSUME NEW c,
               task' = [task EXCEPT ![r].pc = "mark", ![r].batch = c,
                                    ![r].piece = 1, ![r].last = task[r].prev]
        PROVE  /\ Others(r) /\ task'[r].pc = "mark" /\ task'[r].batch = c
               /\ task'[r].piece = 1 /\ task'[r].last = task[r].prev
               /\ task'[r].prev = task[r].prev
               /\ task'[r].start = task[r].start
    BY <1>1, <2>1 DEF Task, Others
  <2> HIDE DEF b
  <2> QED
    BY <2>1 DEF CreateBatch, b
<1>5. Sound(store', gemini')
  BY <1>1, <1>2, <1>3, SoundCreate
<1>6. /\ s.upstreams = store.upstreams /\ OtherBatches(store, s, b)
      /\ s.in_flight[b].prev_interaction_id = task[r].prev
      /\ s.in_flight[b].pieces =
           [i \in 1 .. n |-> [status |-> "Pending", interaction_id |-> NoId]]
  BY <1>1, <1>2, create_batch_Effect DEF Created
<1>7. \A q \in Request : Working(q) => task[q].batch # b
  BY DEF NameIsFree
<1>8. n' = n
  BY <1>4, SameCount
<1> HIDE DEF s, b, n
<1>9. Discreet(r)
  BY <1>3, <1>4, <1>6, <1>7
     DEF Discreet, Undisturbed, OtherBatches, BInv, Received
<1>10. InStep(r)'
  <2>1. /\ \A j \in 1 .. n : s.in_flight[b].pieces[j].status = "Pending"
        /\ DOMAIN s.in_flight[b].pieces = 1 .. n
    BY <1>6
  <2>2. Before(s.in_flight[b], 1) = task[r].prev
    BY <1>6 DEF Before
  <2>3. 1 \in 1 .. n /\ \A j \in 1 .. n : ~(j < 1)
    BY <1>2
  <2>4. piece_count(r)' = n
    BY <1>8 DEF n
  <2> QED
    BY <1>3, <1>4, <1>6, <2>1, <2>2, <2>3, <2>4 DEF InStep
<1>11. Received(r)' /\ OwnName(r)'
  <2>1. b[1] = ask[r].session
    BY DEF b
  <2>2. ask[r].kind # "send"
    BY DEF CreateBatch
  <2> QED
    BY <1>4, <2>1, <2>2 DEF Received, Holds, OwnName
<1> QED
  BY <1>3, <1>4, <1>5, <1>9, <1>10, <1>11, OneStep, GrownSame

-----------------------------------------------------------------------------
(* The theorems *)

LEMMA InitBInv == Init => BInv
<1> SUFFICES ASSUME Init PROVE BInv
  OBVIOUS
<1>1. Sound(store, gemini) /\ Sound(disk, gemini)
  BY SoundEmpty DEF Init, NewStore, Document
<1>2. \A r \in Request : ~Holds(r) /\ ~Working(r)
  BY DEF Init, NewTask, Holds, Working
<1>3. \A r \in Request : InStep(r) /\ Received(r) /\ OwnName(r)
  BY <1>2 DEF InStep, Received, OwnName, Holds
<1> QED
  BY <1>1, <1>2, <1>3, InitOInv DEF BInv

LEMMA HandlerBInv ==
    ASSUME BInv, OInv', NEW r \in Request, Handler(r), NameIsFree(r)
    PROVE  BInv'
<1>1. CASE \/ Arrive(r) \/ Probe(r) \/ Poll(r) \/ PollTimeout(r)
           \/ Recheck(r) \/ Replay(r) \/ JoinBatch(r) \/ DupPoll(r)
           \/ DupTimeout(r) \/ DupReady(r)
  BY <1>1, WaitingBInv
<1>2. CASE \/ FetchFails(r) \/ PostFails(r) \/ StreamEnds(r)
           \/ StreamBreaks(r) \/ NoCreatedEvent(r) \/ TranslateFails(r)
           \/ Cancel(r) \/ Clean(r)
  BY <1>2, EndingBInv
<1>3. CASE \/ Fetch(r) \/ Upsert(r) \/ ExtendLifetime(r) \/ PieceFails(r)
           \/ CleanAll(r)
  BY <1>3, TouchingBInv, PieceFailsBInv, CleanAllBInv
<1>4. CASE StoreNode(r) \/ StreamCreated(r) \/ Complete(r)
  BY <1>4, StoringBInv, CompleteBInv
<1>5. CASE Post(r) \/ CreateBatch(r) \/ Mark(r) \/ SendPiece(r) \/ Ack(r)
  BY <1>5, PostBInv, CreateBatchBInv, MarkBInv, SendPieceBInv, AckBInv
<1> QED
  BY <1>1, <1>2, <1>3, <1>4, <1>5 DEF Handler

LEMMA NextBInv ==
    ASSUME BInv, [Next]_vars, [\A r \in Request : NameIsFree(r)]_vars
    PROVE  BInv'
<1>1. OInv'
  BY NextOInv DEF BInv
<1>2. CASE Tick \/ UNCHANGED vars
  <2>1. UNCHANGED <<store, disk, task, gemini>>
    BY <1>2 DEF Tick, vars
  <2> QED
    BY <1>1, <2>1, NobodyStep DEF BInv, Undisturbed, Received, Saves
<1>3. CASE (\E r \in Request : Handler(r) \/ ClientGone(r))
           /\ \A r \in Request : NameIsFree(r)
  BY <1>1, <1>3, HandlerBInv, EndingBInv
<1>4. CASE Crash
  BY <1>1, <1>4, CrashBInv
<1>5. CASE Startup
  BY <1>1, <1>5, StartupBInv
<1> QED
  BY <1>2, <1>3, <1>4, <1>5 DEF Next

LEMMA AlwaysBInv == Spec /\ NamesAreFree => []BInv
<1>1. BInv /\ [Next]_vars /\ [\A r \in Request : NameIsFree(r)]_vars => BInv'
  BY NextBInv
<1> QED
  BY <1>1, InitBInv, PTL DEF Spec, NamesAreFree

LEMMA BInvChained == BInv => AckedPiecesAreChained
<1> SUFFICES ASSUME BInv, NEW b \in DOMAIN store.in_flight,
                    NEW i \in DOMAIN store.in_flight[b].pieces,
                    IsAcked(store.in_flight[b].pieces[i])
             PROVE  LET batch == store.in_flight[b]
                        ids   == batch_ids(batch)
                    IN  /\ ids[i] \in DOMAIN gemini
                        /\ i = 1 =>
                             gemini[ids[i]].prev = batch.prev_interaction_id
                        /\ i > 1 => /\ IsAcked(batch.pieces[i - 1])
                                    /\ gemini[ids[i]].prev = ids[i - 1]
  BY DEF AckedPiecesAreChained
<1> DEFINE batch == store.in_flight[b]
           ids   == batch_ids(batch)
<1>1. batch.pieces \in Seq(Piece) /\ ChainedBatch(batch, gemini)
  BY DEF BInv, OInv, IInv, TypeOK, StoreOK, IsMap, InFlightBatch, Sound
<1>2. \A j \in DOMAIN batch.pieces : ids[j] = batch.pieces[j].interaction_id
  BY <1>1 DEF batch_ids
<1>3. i > 1 => i - 1 \in DOMAIN batch.pieces
  BY <1>1
<1> HIDE DEF ids
<1>4. /\ i # 1 => IsAcked(batch.pieces[i - 1])
      /\ ids[i] \in DOMAIN gemini /\ gemini[ids[i]].prev = Before(batch, i)
  BY <1>1, <1>2 DEF ChainedBatch
<1> QED
  BY <1>2, <1>3, <1>4 DEF Before, ids

LEMMA BInvWhole == BInv => NodesAreWhole
BY DEF BInv, Sound, WholeNode, NodesAreWhole, NodeIsWhole, IsChain

\* Whatever pieces fail, are lost or abandoned, and whoever crashes or cleans
\* up meanwhile: when no two handlers at work share the name of a batch, the
\* Acked pieces of a batch come first and are the chain the service has built
\* (handle_split_send, mark_started_and_persist, ack_and_persist).
THEOREM ChainedBatches == Spec /\ NamesAreFree => []AckedPiecesAreChained
BY AlwaysBInv, BInvChained, PTL

\* Under the same premise a client node, in memory or in the document, is over
\* a whole chain of upstream nodes which ends in its own id and is the chain
\* the service has built (complete_batch, start-up, the store of a node).
THEOREM WholeNodes == Spec /\ NamesAreFree => []NodesAreWhole
BY AlwaysBInv, BInvWhole, PTL

SplitsAlone(r) ==
    \A q \in Request \ {r} :
        ~(/\ ask[q].kind \in {"split", "split_system"}
          /\ ask[q].session = ask[r].session)

\* The premise holds when every session has at most one split request.
THEOREM OneSplitEach ==
    ASSUME \A r \in Request :
              ask[r].kind \in {"split", "split_system"} => SplitsAlone(r)
    PROVE  Spec => NamesAreFree
<1>1. ASSUME BInv, NEW r \in Request
      PROVE  NameIsFree(r)
  <2> SUFFICES ASSUME CreateBatch(r), NEW q \in Request, Working(q)
               PROVE  task[q].batch # <<ask[r].session, now>>
    BY DEF NameIsFree
  <2>1. is_query(r) /\ is_query(q) /\ q # r
    BY <1>1, RunningQuery
       DEF BInv, OInv, CreateBatch, At, Working, Ends
  <2>2. /\ ask[r].kind \in {"split", "split_system"}
        /\ ask[q].kind \in {"split", "split_system"}
        /\ task[q].batch[1] = ask[q].session
    BY <1>1, <2>1 DEF CreateBatch, is_query, BInv, OwnName
  <2> QED
    BY <2>1, <2>2 DEF SplitsAlone
<1>2. BInv => \A r \in Request : NameIsFree(r)
  BY <1>1
<1>3. BInv /\ [Next]_vars => BInv'
  BY <1>2, NextBInv
<1>4. BInv /\ [Next]_vars => [\A r \in Request : NameIsFree(r)]_vars
  BY <1>2
<1> QED
  BY <1>3, <1>4, InitBInv, PTL DEF Spec, NamesAreFree

-----------------------------------------------------------------------------
(* A batch stays that of its request, and its pieces only advance *)

SameRequest(x, y) ==
    /\ y.session_id = x.session_id
    /\ y.prev_interaction_id = x.prev_interaction_id
    /\ y.message_hashes = x.message_hashes
    /\ y.system_instruction_hash = x.system_instruction_hash

Advanced(p, q) ==
    /\ DOMAIN q = DOMAIN p
    /\ \A i \in DOMAIN p :
          q[i] = p[i] \/ PieceOrder[p[i].status] < PieceOrder[q[i].status]

\* Every batch of t is one of s that has gone on.
Onward(s, t) ==
    \A b \in DOMAIN t.in_flight :
        /\ b \in DOMAIN s.in_flight
        /\ SameRequest(s.in_flight[b], t.in_flight[b])
        /\ Advanced(s.in_flight[b].pieces, t.in_flight[b].pieces)

LEMMA OnwardSame ==
    ASSUME NEW s, NEW t, t.in_flight = s.in_flight
    PROVE  Onward(s, t)
BY DEF Onward, SameRequest, Advanced

LEMMA OnwardFewer ==
    ASSUME NEW s, NEW t, NEW B, t.in_flight = Without(s.in_flight, B)
    PROVE  Onward(s, t)
BY DEF Onward, SameRequest, Advanced, Without

LEMMA OnwardPieces ==
    ASSUME NEW s, NEW t, NEW b \in DOMAIN s.in_flight, NEW pieces,
           NewPieces(s, t, b, pieces),
           Advanced(s.in_flight[b].pieces, pieces)
    PROVE  Onward(s, t)
<1> SUFFICES ASSUME NEW c \in DOMAIN t.in_flight
             PROVE  /\ c \in DOMAIN s.in_flight
                    /\ SameRequest(s.in_flight[c], t.in_flight[c])
                    /\ Advanced(s.in_flight[c].pieces, t.in_flight[c].pieces)
  BY DEF Onward
<1>1. CASE c = b
  BY <1>1 DEF NewPieces, SameRequest
<1>2. CASE c # b
  <2>1. c \in DOMAIN s.in_flight /\ t.in_flight[c] = s.in_flight[c]
    BY <1>2 DEF NewPieces, OtherBatches
  <2> QED
    BY <2>1 DEF SameRequest, Advanced
<1> QED
  BY <1>1, <1>2

LEMMA PieceOrderOK ==
    ASSUME NEW p \in Piece
    PROVE  PieceOrder[p.status] \in Nat
BY DEF Piece, PieceStatus, PieceOrder

LEMMA OnwardTransitive ==
    ASSUME NEW s, NEW u, NEW t, StoreOK(s), StoreOK(u), StoreOK(t),
           Onward(s, u), Onward(u, t)
    PROVE  Onward(s, t)
<1> SUFFICES ASSUME NEW b \in DOMAIN t.in_flight
             PROVE  /\ b \in DOMAIN s.in_flight
                    /\ SameRequest(s.in_flight[b], t.in_flight[b])
                    /\ Advanced(s.in_flight[b].pieces, t.in_flight[b].pieces)
  BY DEF Onward
<1> DEFINE p == s.in_flight[b].pieces
           q == u.in_flight[b].pieces
           z == t.in_flight[b].pieces
<1>1. b \in DOMAIN u.in_flight /\ b \in DOMAIN s.in_flight
  BY DEF Onward
<1>2. SameRequest(s.in_flight[b], t.in_flight[b])
  BY <1>1 DEF Onward, SameRequest
<1>3. Advanced(p, q) /\ Advanced(q, z)
  BY <1>1 DEF Onward
<1>4. p \in Seq(Piece) /\ q \in Seq(Piece) /\ z \in Seq(Piece)
  BY <1>1 DEF StoreOK, IsMap, InFlightBatch
<1> HIDE DEF p, q, z
<1>5. ASSUME NEW i \in DOMAIN p
      PROVE  z[i] = p[i] \/ PieceOrder[p[i].status] < PieceOrder[z[i].status]
  <2>1. p[i] \in Piece /\ q[i] \in Piece /\ z[i] \in Piece
    BY <1>3, <1>4 DEF Advanced
  <2>2. /\ PieceOrder[p[i].status] \in Nat /\ PieceOrder[q[i].status] \in Nat
        /\ PieceOrder[z[i].status] \in Nat
    BY <2>1, PieceOrderOK
  <2> QED
    BY <1>3, <2>2 DEF Advanced
<1> QED
  BY <1>1, <1>2, <1>3, <1>5 DEF Advanced, p, z

LEMMA move_piece_Onward ==
    ASSUME NEW s, StoreOK(s), NEW b, NEW i, NEW from, NEW status, NEW id,
           [status |-> status, interaction_id |-> id] \in Piece,
           \A f \in from : PieceOrder[f] < PieceOrder[status]
    PROVE  Onward(s, move_piece(s, b, i, from, status, id))
<1> DEFINE t == move_piece(s, b, i, from, status, id)
           p == s.in_flight[b].pieces
           x == [status |-> status, interaction_id |-> id]
           q == [p EXCEPT ![i] = x]
<1>1. CASE has_piece(s, b, i) /\ p[i].status \in from
  <2>1. NewPieces(s, t, b, q)
    BY <1>1, move_piece_Effect
  <2>2. b \in DOMAIN s.in_flight /\ i \in DOMAIN p /\ p \in Seq(Piece)
    BY <1>1 DEF has_piece, StoreOK, IsMap, InFlightBatch
  <2>3. x.status = status
    OBVIOUS
  <2> HIDE DEF t, p, x
  <2>4. Advanced(p, q)
    BY <1>1, <2>2, <2>3 DEF Advanced
  <2> QED
    BY <2>1, <2>2, <2>4, OnwardPieces DEF p, t
<1>2. CASE ~(has_piece(s, b, i) /\ p[i].status \in from)
  BY <1>2, move_piece_Idle, OnwardSame
<1> QED
  BY <1>1, <1>2

LEMMA mark_response_started_Onward ==
    ASSUME NEW s, StoreOK(s), NEW b, NEW i
    PROVE  Onward(s, mark_response_started(s, b, i))
<1>1. [status |-> "ResponseStarted", interaction_id |-> NoId] \in Piece
  BY DEF Piece, PieceStatus
<1>2. \A f \in {"Pending"} : PieceOrder[f] < PieceOrder["ResponseStarted"]
  BY DEF PieceOrder
<1> QED
  BY <1>1, <1>2, move_piece_Onward DEF mark_response_started

LEMMA acknowledge_Onward ==
    ASSUME NEW s, StoreOK(s), NEW b, NEW i, NEW x \in Id
    PROVE  Onward(s, ack_piece(mark_sent(s, b, i, x), b, i, x))
<1> DEFINE u == mark_sent(s, b, i, x)
           t == ack_piece(u, b, i, x)
<1>1. /\ [status |-> "Sent", interaction_id |-> x] \in Piece
      /\ [status |-> "Acked", interaction_id |-> x] \in Piece
  BY DEF Piece
<1>2. \A f \in {"ResponseStarted"} : PieceOrder[f] < PieceOrder["Sent"]
  BY DEF PieceOrder
<1>3. \A f \in {"Sent", "ResponseStarted"} :
         PieceOrder[f] < PieceOrder["Acked"]
  BY DEF PieceOrder
<1>4. Onward(s, u) /\ StoreOK(u)
  BY <1>1, <1>2, move_piece_Onward, move_piece_OK DEF mark_sent
<1> HIDE DEF u
<1>5. Onward(u, t) /\ StoreOK(t)
  BY <1>1, <1>3, <1>4, move_piece_Onward, move_piece_OK DEF ack_piece
<1> HIDE DEF t
<1>6. Onward(s, t)
  BY <1>4, <1>5, OnwardTransitive
<1> QED
  BY <1>6 DEF t, u

LEMMA fail_batch_Onward ==
    ASSUME NEW s, StoreOK(s), NEW b
    PROVE  Onward(s, fail_batch(s, b))
<1> DEFINE t   == fail_batch(s, b)
           old == s.in_flight[b]
           q   == [i \in DOMAIN old.pieces |->
                     IF IsAcked(old.pieces[i]) THEN old.pieces[i]
                     ELSE [status |-> "Failed", interaction_id |-> NoId]]
           new == [old EXCEPT !.pieces = q]
           f   == [s.in_flight EXCEPT ![b] = new]
           ups == Without(s.upstreams, acked_ids(old))
<1>1. CASE b \notin DOMAIN s.in_flight
  BY <1>1, OnwardSame DEF fail_batch
<1>2. CASE b \in DOMAIN s.in_flight
  <2>1. old \in InFlightBatch /\ old.pieces \in Seq(Piece)
    BY <1>2 DEF StoreOK, IsMap, InFlightBatch
  <2>2. t = [s EXCEPT !.upstreams = ups, !.in_flight = f]
    BY <1>2, <2>1 DEF fail_batch, StoreOK, IsMap, InFlightBatch
  <2> HIDE DEF ups
  <2>3. t.in_flight = f
    BY <2>2 DEF StoreOK
  <2>4. SameRequest(old, new) /\ new.pieces = q
    BY <2>1 DEF InFlightBatch, SameRequest
  <2>5. Advanced(old.pieces, q)
    <3> SUFFICES ASSUME NEW i \in DOMAIN old.pieces, ~IsAcked(old.pieces[i])
                 PROVE  \/ q[i] = old.pieces[i]
                        \/ PieceOrder[old.pieces[i].status]
                             < PieceOrder[q[i].status]
      BY DEF Advanced
    <3>1. old.pieces[i] \in Piece
      BY <2>1
    <3>2. q[i] = [status |-> "Failed", interaction_id |-> NoId]
      OBVIOUS
    <3>3. CASE old.pieces[i].status = "Failed"
      BY <3>1, <3>2, <3>3 DEF Piece, PieceStatus
    <3>4. CASE old.pieces[i].status # "Failed"
      <4>1. old.pieces[i].status \in {"Pending", "ResponseStarted", "Sent"}
        BY <3>1, <3>4 DEF Piece, PieceStatus, IsAcked
      <4>2. \A st \in {"Pending", "ResponseStarted", "Sent"} :
              PieceOrder[st] < PieceOrder["Failed"]
        BY DEF PieceOrder
      <4> HIDE DEF old, q
      <4> QED
        BY <3>2, <4>1, <4>2
    <3> QED
      BY <3>3, <3>4
  <2>6. /\ DOMAIN f = DOMAIN s.in_flight /\ f[b] = new
        /\ \A c \in DOMAIN s.in_flight : c # b => f[c] = s.in_flight[c]
    BY <1>2 DEF StoreOK, IsMap
  <2> HIDE DEF t, q, new, f
  <2> QED
    BY <2>3, <2>4, <2>5, <2>6 DEF Onward, SameRequest, Advanced, t
<1> QED
  BY <1>1, <1>2

LEMMA StepOnward ==
    ASSUME IInv, [Next]_vars
    PROVE  /\ Saves
           /\ \/ Onward(store, store')
              \/ \E r \in Request : CreateBatch(r)
              \/ Crash
<1>1. /\ StoreOK(store) /\ now \in Nat /\ task \in [Request -> Task]
      /\ \A r \in Request : Progress(r)
  BY DEF IInv, TypeOK
<1>2. CASE UNCHANGED <<store, disk>>
  BY <1>2, OnwardSame DEF Saves
<1>3. ASSUME NEW r \in Request,
             \/ Fetch(r) \/ Upsert(r) \/ ExtendLifetime(r) \/ StoreNode(r)
             \/ StreamCreated(r)
      PROVE  Saves /\ Onward(store, store')
  <2>1. CASE StoreNode(r) \/ StreamCreated(r)
    <3>1. store' = with_node(r) /\ Saves
      BY <2>1, CommitSaves DEF StoreNode, StreamCreated
    <3>2. store'.in_flight = store.in_flight
      BY <3>1, with_node_Effect
    <3> QED
      BY <3>1, <3>2, OnwardSame
  <2>2. CASE Fetch(r)
    BY <2>2, CommitSaves, OnwardSame DEF Fetch
  <2>3. CASE Upsert(r)
    <3> DEFINE s == set_last_interaction(store, ask[r].session, task[r].last)
    <3>1. store' = s /\ Saves
      BY <2>3, CommitSaves DEF Upsert
    <3>2. s.in_flight = store.in_flight
      BY <1>1 DEF set_last_interaction, StoreOK
    <3> QED
      BY <3>1, <3>2, OnwardSame
  <2>4. CASE ExtendLifetime(r)
    <3>1. store' = extend_lifetime(store, ask[r].session, now) /\ Saves
      BY <2>4, CommitSaves DEF ExtendLifetime
    <3>2. store'.in_flight = store.in_flight
      BY <1>1, <3>1, extend_lifetime_From
    <3> QED
      BY <3>1, <3>2, OnwardSame
  <2> QED
    BY <1>3, <2>1, <2>2, <2>3, <2>4
<1>4. ASSUME NEW r \in Request, Mark(r) \/ PieceFails(r) \/ Ack(r)
      PROVE  Saves /\ Onward(store, store')
  <2>1. CASE Mark(r)
    BY <1>1, <2>1, CommitSaves, mark_response_started_Onward DEF Mark
  <2>2. CASE PieceFails(r)
    BY <1>1, <2>2, CommitSaves, fail_batch_Onward DEF PieceFails
  <2>3. CASE Ack(r)
    <3>1. task[r].last \in Id
      BY <1>1, <2>3 DEF Ack, At, Progress
    <3> QED
      BY <1>1, <2>3, <3>1, CommitSaves, acknowledge_Onward DEF Ack
  <2> QED
    BY <1>4, <2>1, <2>2, <2>3
<1>5. ASSUME NEW b \in DOMAIN store.in_flight,
             store' = complete_batch(store, b, now)
      PROVE  Onward(store, store')
  <2>1. Completed(store, store', b, now)
    BY <1>1, <1>5, complete_batch_Effect
  <2> QED
    BY <2>1, OnwardFewer DEF Completed
<1>6. ASSUME NEW r \in Request, Complete(r)
      PROVE  Saves /\ Onward(store, store')
  <2>1. Saves
    BY <1>6, CommitSaves DEF Complete, Saves
  <2>2. CASE task[r].batch \in DOMAIN store.in_flight
    <3>1. store' = complete_batch(store, task[r].batch, now)
      BY <1>6, <2>2, CommitSaves DEF Complete
    <3> QED
      BY <1>5, <2>1, <2>2, <3>1
  <2>3. CASE task[r].batch \notin DOMAIN store.in_flight
    BY <1>6, <2>1, <2>3, OnwardSame DEF Complete, batch_is_complete
  <2> QED
    BY <2>2, <2>3
<1>7. ASSUME store'.in_flight = EmptyMap
      PROVE  Onward(store, store')
  BY <1>7 DEF Onward, EmptyMap
<1>8. ASSUME NEW r \in Request, CleanAll(r)
      PROVE  Saves /\ Onward(store, store')
  <2>1. store' = clean_all(store) /\ Saves
    BY <1>8, CommitSaves DEF CleanAll
  <2> QED
    BY <1>7, <2>1 DEF clean_all, NewStore
<1>9. CASE Startup
  <2>1. Saves
    BY <1>9, CommitSaves DEF Startup, StartupComplete, StartupDiscard, Saves
  <2>2. CASE StartupComplete
    BY <1>5, <2>1, <2>2 DEF StartupComplete
  <2>3. CASE StartupDiscard
    <3>1. store' \in {store, discard_all_inflight(store)}
      BY <2>3, CommitSaves DEF StartupDiscard
    <3>2. discard_all_inflight(store).in_flight = EmptyMap
      BY <1>1 DEF discard_all_inflight, StoreOK
    <3> QED
      BY <1>7, <2>1, <3>1, <3>2, OnwardSame
  <2> QED
    BY <1>9, <2>2, <2>3 DEF Startup
<1>10. CASE Crash
  BY <1>10 DEF Crash, Saves
<1>11. ASSUME NEW r \in Request, CreateBatch(r)
       PROVE  Saves
  BY <1>11, CommitSaves DEF CreateBatch
<1>12. ASSUME NEW r \in Request, Handler(r) \/ ClientGone(r)
       PROVE  \/ UNCHANGED <<store, disk>> \/ CreateBatch(r)
              \/ (Saves /\ Onward(store, store'))
  <2>1. CASE \/ Arrive(r) \/ Probe(r) \/ Poll(r) \/ PollTimeout(r)
             \/ Recheck(r) \/ Replay(r) \/ JoinBatch(r) \/ DupPoll(r)
             \/ DupTimeout(r) \/ DupReady(r) \/ FetchFails(r)
    BY <2>1 DEF Arrive, Probe, Poll, PollTimeout, Recheck, Replay, JoinBatch,
                DupPoll, DupTimeout, DupReady, FetchFails
  <2>2. CASE \/ Post(r) \/ PostFails(r) \/ StreamEnds(r)
             \/ StreamBreaks(r) \/ NoCreatedEvent(r) \/ TranslateFails(r)
             \/ Cancel(r) \/ Clean(r) \/ ClientGone(r) \/ SendPiece(r)
    BY <2>2 DEF Post, PostFails, StreamEnds, StreamBreaks, NoCreatedEvent,
                TranslateFails, Cancel, Clean, ClientGone, SendPiece
  <2> QED
    BY <1>3, <1>4, <1>6, <1>8, <1>12, <2>1, <2>2 DEF Handler
<1>13. CASE Tick \/ UNCHANGED vars
  BY <1>2, <1>13 DEF Tick, vars
<1> QED
  BY <1>2, <1>9, <1>10, <1>11, <1>12, <1>13 DEF Next

\* The name of a new batch is not that of a batch in flight.
NameIsUnused(r) ==
    CreateBatch(r) => <<ask[r].session, now>> \notin DOMAIN store.in_flight

NamesAreUnused == [][\A r \in Request : NameIsUnused(r)]_vars

\* While the process runs, no interleaving of handlers takes a piece back to
\* an earlier status or gives an Acked piece another interaction, unless a
\* new batch replaces one of the same name (mark_response_started, mark_sent,
\* ack_piece, fail_batch).
THEOREM PiecesAdvance == Spec /\ NamesAreUnused => PiecesOnlyAdvance
<1> DEFINE A == up /\ up' =>
                 \A b \in DOMAIN store.in_flight \cap DOMAIN store'.in_flight :
                    Advanced(store.in_flight[b].pieces,
                             store'.in_flight[b].pieces)
<1>1. ASSUME IInv, [Next]_vars, [\A r \in Request : NameIsUnused(r)]_vars
      PROVE  A
  <2>1. CASE Onward(store, store')
    BY <2>1 DEF Onward
  <2>2. CASE UNCHANGED vars
    BY <2>2 DEF vars, Advanced
  <2>3. ASSUME NEW r \in Request, CreateBatch(r), NameIsUnused(r)
        PROVE  A
    <3> DEFINE c == <<ask[r].session, now>>
               s == create_batch(store, c, task[r].prev, ask[r].hashes,
                                 system_hash(r), piece_count(r))
    <3>1. store' = s
      BY <2>3, CommitSaves DEF CreateBatch
    <3>2. OtherBatches(store, s, c)
      <4>1. piece_count(r) \in Nat /\ StoreOK(store)
        BY <1>1, <2>3, RunningQuery, piece_count_OK
           DEF IInv, TypeOK, CreateBatch, At, Ends
      <4> QED
        BY <4>1, create_batch_Effect DEF Created
    <3>3. c \notin DOMAIN store.in_flight
      BY <2>3 DEF NameIsUnused
    <3> HIDE DEF s, c
    <3> QED
      BY <3>1, <3>2, <3>3 DEF OtherBatches, Advanced
  <2>4. CASE Crash
    BY <2>4 DEF Crash
  <2> QED
    BY <1>1, <2>1, <2>2, <2>3, <2>4, StepOnward
<1>2. A => [up /\ up' =>
             \A b \in DOMAIN store.in_flight \cap DOMAIN store'.in_flight :
               \A i \in DOMAIN store.in_flight[b].pieces :
                 LET p == store.in_flight[b].pieces[i]
                     q == store'.in_flight[b].pieces[i]
                 IN  \/ q = p
                     \/ PieceOrder[p.status] < PieceOrder[q.status]]_vars
  BY DEF Advanced
<1>3. IInv /\ [Next]_vars /\ [\A r \in Request : NameIsUnused(r)]_vars => A
  BY <1>1
<1> HIDE DEF A
<1> QED
  BY <1>2, <1>3, AlwaysIInv, PTL DEF Spec, NamesAreUnused, PiecesOnlyAdvance

-----------------------------------------------------------------------------
(* Identical requests converge *)

Converged(s) ==
    \A b, c \in DOMAIN s.in_flight :
        SameRequest(s.in_flight[b], s.in_flight[c])
            => b = c \/ CutsPrompt(s.in_flight[c])

LEMMA SameCutsPrompt ==
    ASSUME NEW x, NEW y, SameRequest(x, y) \/ SameRequest(y, x), CutsPrompt(x)
    PROVE  CutsPrompt(y)
BY DEF SameRequest, CutsPrompt

LEMMA OnwardConverged ==
    ASSUME NEW s, NEW t, Onward(s, t), Converged(s)
    PROVE  Converged(t)
<1> SUFFICES ASSUME NEW b \in DOMAIN t.in_flight, NEW c \in DOMAIN t.in_flight,
                    SameRequest(t.in_flight[b], t.in_flight[c]), b # c
             PROVE  CutsPrompt(t.in_flight[c])
  BY DEF Converged
<1>1. /\ b \in DOMAIN s.in_flight /\ SameRequest(s.in_flight[b], t.in_flight[b])
      /\ c \in DOMAIN s.in_flight /\ SameRequest(s.in_flight[c], t.in_flight[c])
  BY DEF Onward
<1>2. SameRequest(s.in_flight[b], s.in_flight[c])
  BY <1>1 DEF SameRequest
<1>3. CutsPrompt(s.in_flight[c])
  BY <1>1, <1>2 DEF Converged
<1> QED
  BY <1>1, <1>3, SameCutsPrompt

\* A batch is only created when there is none for the same request, or when
\* its request has its system prompt cut.
LEMMA CreateConverged ==
    ASSUME NEW s, StoreOK(s), Converged(s), NEW b, NEW prev, NEW hashes,
           NEW sys, NEW n \in Nat,
           \/ find_matching_batch(s, b[1], prev, hashes, sys) = {}
           \/ \A y : /\ y.session_id = b[1]
                     /\ y.prev_interaction_id = prev
                     /\ y.message_hashes = hashes
                     => CutsPrompt(y)
    PROVE  Converged(create_batch(s, b, prev, hashes, sys, n))
<1> DEFINE t == create_batch(s, b, prev, hashes, sys, n)
<1>1. /\ OtherBatches(s, t, b)
      /\ t.in_flight[b].session_id = b[1]
      /\ t.in_flight[b].prev_interaction_id = prev
      /\ t.in_flight[b].message_hashes = hashes
      /\ t.in_flight[b].system_instruction_hash = sys
  <2>1. Created(s, t, b, prev, hashes, sys, n)
    BY create_batch_Effect
  <2> HIDE DEF t
  <2> QED
    BY <2>1 DEF Created
<1> HIDE DEF t
<1>2. ASSUME NEW c \in DOMAIN t.in_flight, c # b,
             \/ SameRequest(t.in_flight[b], t.in_flight[c])
             \/ SameRequest(t.in_flight[c], t.in_flight[b])
      PROVE  CutsPrompt(t.in_flight[b])
  <2>1. CASE find_matching_batch(s, b[1], prev, hashes, sys) = {}
    <3>1. c \in DOMAIN s.in_flight /\ t.in_flight[c] = s.in_flight[c]
      BY <1>1, <1>2 DEF OtherBatches
    <3>2. batch_matches(s.in_flight[c], b[1], prev, hashes, sys)
      BY <1>1, <1>2, <3>1 DEF SameRequest, batch_matches
    <3> QED
      BY <2>1, <3>1, <3>2 DEF find_matching_batch
  <2>2. CASE \A y : /\ y.session_id = b[1]
                    /\ y.prev_interaction_id = prev
                    /\ y.message_hashes = hashes
                    => CutsPrompt(y)
    BY <1>1, <2>2
  <2> QED
    BY <2>1, <2>2
<1>3. ASSUME NEW c \in DOMAIN t.in_flight, NEW d \in DOMAIN t.in_flight,
             SameRequest(t.in_flight[c], t.in_flight[d]), c # d
      PROVE  CutsPrompt(t.in_flight[d])
  <2>1. CASE c = b
    BY <1>2, <1>3, <2>1, SameCutsPrompt
  <2>2. CASE d = b
    BY <1>2, <1>3, <2>2
  <2>3. CASE c # b /\ d # b
    BY <1>1, <1>3, <2>3 DEF OtherBatches, Converged
  <2> QED
    BY <2>1, <2>2, <2>3
<1> QED
  BY <1>3 DEF Converged, t

\* However identical requests race, and after every restart, at most one batch
\* is in flight for a request, whatever other requests there are, except for
\* requests that begin a chain with their system prompt cut: that split never
\* looks for the batch of another (handle_split_send's check under the write
\* lock, send_split_system_instruction's lack of one).
THEOREM OneBatchEach == Spec => []OneBatchPerRequest
<1> DEFINE Inv == IInv /\ Converged(store) /\ Converged(disk)
<1>1. Init => Inv
  <2> SUFFICES ASSUME Init PROVE Inv
    OBVIOUS
  <2>1. store.in_flight = EmptyMap /\ disk.in_flight = EmptyMap
    BY DEF Init, NewStore, Document
  <2> QED
    BY <2>1, InitIInv DEF Converged, EmptyMap
<1>2. ASSUME Inv, [Next]_vars
      PROVE  Inv'
  <2>1. Converged(store')
    <3>1. CASE Onward(store, store')
      BY <1>2, <3>1, OnwardConverged
    <3>2. ASSUME NEW r \in Request, CreateBatch(r)
          PROVE  Converged(store')
      <4> DEFINE c == <<ask[r].session, now>>
                 s == create_batch(store, c, task[r].prev, ask[r].hashes,
                                   system_hash(r), piece_count(r))
      <4>1. store' = s
        BY <3>2, CommitSaves DEF CreateBatch
      <4>2. c[1] = ask[r].session
        OBVIOUS
      <4>3. piece_count(r) \in Nat /\ StoreOK(store)
        BY <1>2, <3>2, RunningQuery, piece_count_OK
           DEF IInv, TypeOK, CreateBatch, At, Ends
      <4>4. CASE splits_system(r)
        <5>1. \A y : /\ y.session_id = c[1]
                     /\ y.prev_interaction_id = task[r].prev
                     /\ y.message_hashes = ask[r].hashes
                     => CutsPrompt(y)
          BY <4>2, <4>4 DEF splits_system, CutsPrompt
        <5> HIDE DEF c
        <5> QED
          BY <1>2, <4>1, <4>3, <5>1, CreateConverged
      <4>5. CASE ~splits_system(r)
        <5>1. find_matching_batch(store, c[1], task[r].prev, ask[r].hashes,
                                  system_hash(r)) = {}
          BY <3>2, <4>2, <4>5 DEF CreateBatch, matching_batches
        <5> HIDE DEF c
        <5> QED
          BY <1>2, <4>1, <4>3, <5>1, CreateConverged
      <4> QED
        BY <4>4, <4>5
    <3>3. CASE Crash
      <4>1. store'.in_flight = disk.in_flight
        BY <3>3, load_from_disk_Keeps DEF Crash
      <4> QED
        BY <1>2, <4>1 DEF Converged
    <3> QED
      BY <1>2, <3>1, <3>2, <3>3, StepOnward
  <2>2. Converged(disk')
    <3>1. disk' = disk \/ disk'.in_flight = store'.in_flight
      BY <1>2, StepOnward DEF Saves, Document
    <3> QED
      BY <1>2, <2>1, <3>1 DEF Converged
  <2> QED
    BY <1>2, <2>1, <2>2, NextIInv DEF Converged
<1>3. Inv => OneBatchPerRequest
  BY DEF Converged, SameRequest, OneBatchPerRequest, batch_matches
<1>4. Inv /\ [Next]_vars => Inv'
  BY <1>2
<1> HIDE DEF Inv
<1> QED
  BY <1>1, <1>3, <1>4, PTL DEF Spec
=============================================================================
