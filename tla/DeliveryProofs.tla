--------------------------- MODULE DeliveryProofs ---------------------------
(***************************************************************************)
(* What a request says reaches the service, whole and through any pieces,  *)
(* failures, identical requests, restarts and clean-ups: the context of    *)
(* the interaction a request is answered from has all of its messages, and *)
(* so has that of every client node for the messages of the node.  Where   *)
(* all requests are beginnings of the histories of clients that only       *)
(* append, the messages are also in their order.                           *)
(*                                                                         *)
(* One invariant gives both results.  R is what holds of a history and the *)
(* context it has become: equality for clients that only append, inclusion *)
(* of the messages for all others.  A is what is promised of an answer.    *)
(* The invariant says that R holds of every client node, of every batch    *)
(* whose last piece is Acked, and of what each handler has sent so far; it *)
(* is kept by each step as long as find_frontier leads to contexts that    *)
(* keep R and A (Routed), and that follows from the invariant again.       *)
(***************************************************************************)
EXTENDS BatchProofs

Known(g) == DOMAIN g \cup {NoId}

\* context_of, in what the service knows.
said(g, id) == IF id = NoId THEN <<>> ELSE g[id].context

Histories == {ask[r].hashes : r \in {q \in Request : is_query(q)}}

\* Appending the same messages to a history and to its context keeps R.
Keeps(R) ==
    /\ R \subseteq Seq(Hash) \X Seq(Hash)
    /\ <<<<>>, <<>>>> \in R
    /\ \A x, y, z \in Seq(Hash) : <<x, y>> \in R => <<x \o z, y \o z>> \in R

\* The history h is sent after prev, whose context has how h begins.
Based(R, h, prev, g) ==
    /\ h \in Histories /\ prev \in Known(g)
    /\ \E k \in 0 .. Len(h) - 1 : <<SubSeq(h, 1, k), said(g, prev)>> \in R

\* The context of id has all of h, and all that is in the context of prev.
Carried(R, h, prev, id, g) ==
    /\ id \in DOMAIN g
    /\ <<h, said(g, id)>> \in R
    /\ Messages(said(g, prev)) \subseteq Messages(said(g, id))

NodeCarries(R, c, node, g) ==
    /\ Based(R, node.message_hashes, node.prev_id, g)
    /\ Carried(R, node.message_hashes, node.prev_id, c, g)

\* A batch whose last piece is Acked could be published.
BatchCarries(R, batch, g) ==
    LET h    == batch.message_hashes
        prev == batch.prev_interaction_id
        last == batch.pieces[Len(batch.pieces)]
    IN  /\ Based(R, h, prev, g)
        /\ IsAcked(last) => Carried(R, h, prev, last.interaction_id, g)

Bounded(s) == \E n \in Nat : \A c \in DOMAIN s.clients : Len(told(c, s)) <= n

StoreCarries(R, s, g) ==
    /\ \A c \in DOMAIN s.clients : NodeCarries(R, c, s.clients[c], g)
    /\ \A b \in DOMAIN s.in_flight : BatchCarries(R, s.in_flight[b], g)
    /\ IsFiniteSet(DOMAIN s.clients) /\ Bounded(s)

\* How many messages of r are in pieces 1 to i, and before them.
prompt_parts(r, t) ==
    IF ask[r].kind = "split_system" /\ t.prev = NoId
      THEN ask[r].parts - 1 ELSE 0
reached(r, t, i) ==
    t.start + IF i <= prompt_parts(r, t) THEN 0 ELSE i - prompt_parts(r, t)

SentSoFar(R, r, t, i, g) ==
    /\ <<SubSeq(ask[r].hashes, 1, reached(r, t, i)), said(g, t.last)>> \in R
    /\ Messages(said(g, t.prev)) \subseteq Messages(said(g, t.last))

\* t is the progress of request r.
TaskCarries(R, A, r, t, g) ==
    LET h == ask[r].hashes
    IN  /\ t.prev \in Known(g) /\ t.last \in Known(g) /\ t.node \in Known(g)
        /\ is_query(r) =>
             /\ t.pc # "clean"
             /\ <<SubSeq(h, 1, t.start), said(g, t.prev)>> \in R
             /\ t.pc \in {"mark", "send"} =>
                   SentSoFar(R, r, t, t.piece - 1, g)
             /\ t.pc = "ack" => SentSoFar(R, r, t, t.piece, g)
             /\ t.pc \in {"store", "streaming", "draining", "complete",
                          "upsert"} => Carried(R, h, t.prev, t.last, g)
             /\ t.pc \in {"replay", "fetch", "done"} =>
                   t.node \in DOMAIN g /\ <<h, said(g, t.node)>> \in A

\* The batch a handler works on is about the history of its request.
SameHistory(r, t, s) ==
    t.pc \in {"mark", "send", "ack", "complete"}
      /\ t.batch \in DOMAIN s.in_flight
      => s.in_flight[t.batch].message_hashes = ask[r].hashes

\* Interaction id is about to be published: a batch or a handler has it.
Taken(id) ==
    \/ \E b \in DOMAIN store.in_flight : InBatch(store, b, id)
    \/ \E q \in Request : Holds(q) /\ task[q].last = id

\* The index of children gives id to a parent.
IsIndexed(id, s) ==
    \E p \in DOMAIN s.prev_to_client : s.prev_to_client[p] = id

\* No child in the index is yet to be published.
IndexIsPast ==
    \A id \in Id : IsIndexed(id, store) => id \in DOMAIN gemini /\ ~Taken(id)

Delivered(R, A) ==
    /\ StoreCarries(R, store, gemini)
    /\ StoreCarries(R, disk, gemini)
    /\ \A r \in Request :
          /\ TaskCarries(R, A, r, task[r], gemini)
          /\ SameHistory(r, task[r], store)
    /\ Linked(store) /\ IndexIsPast

RInv(R, A) == BInv /\ Delivered(R, A)

\* Where find_frontier leads a request, R holds of what is known already, and
\* where all is known, A holds of the answer.
Routed(R, A) ==
    \A r \in Request : is_query(r) =>
        LET h == ask[r].hashes
            f == find_frontier(h, NoId, NoHash, store)
        IN  /\ ~f.all_known =>
                  /\ f.previous_interaction_id \in Known(gemini)
                  /\ <<SubSeq(h, 1, f.index),
                       said(gemini, f.previous_interaction_id)>> \in R
            /\ \A prev, sys :
                  LET w == find_frontier(h, prev, sys, store)
                  IN  w.all_known =>
                        /\ w.matched_client_id \in DOMAIN gemini
                        /\ <<h, said(gemini, w.matched_client_id)>> \in A

-----------------------------------------------------------------------------
(* What the service knows only grows *)

\* h knows all that g does, and the contexts are the same.
Wider(g, h) ==
    /\ DOMAIN g \subseteq DOMAIN h
    /\ \A id \in DOMAIN g : h[id].context = g[id].context

LEMMA SaidWider ==
    ASSUME NEW g, NEW h, Wider(g, h), NEW id \in Known(g)
    PROVE  id \in Known(h) /\ said(h, id) = said(g, id)
BY DEF Wider, Known, said

LEMMA BasedWider ==
    ASSUME NEW R, NEW t, NEW prev, NEW g, NEW h, Wider(g, h),
           Based(R, t, prev, g)
    PROVE  Based(R, t, prev, h)
BY SaidWider DEF Based

LEMMA CarriedWider ==
    ASSUME NEW R, NEW t, NEW prev, NEW id, NEW g, NEW h, Wider(g, h),
           prev \in Known(g), Carried(R, t, prev, id, g)
    PROVE  Carried(R, t, prev, id, h)
<1>1. id \in Known(g) /\ id \in DOMAIN h
  BY DEF Carried, Known, Wider
<1>2. said(h, id) = said(g, id) /\ said(h, prev) = said(g, prev)
  BY <1>1, SaidWider
<1> QED
  BY <1>1, <1>2 DEF Carried

LEMMA StoreWider ==
    ASSUME NEW R, NEW s, NEW g, NEW h, Wider(g, h), StoreCarries(R, s, g)
    PROVE  StoreCarries(R, s, h)
<1>1. ASSUME NEW c \in DOMAIN s.clients
      PROVE  NodeCarries(R, c, s.clients[c], h)
  <2>1. NodeCarries(R, c, s.clients[c], g)
    BY DEF StoreCarries
  <2> DEFINE x == s.clients[c]
  <2>2. /\ Based(R, x.message_hashes, x.prev_id, g)
        /\ Carried(R, x.message_hashes, x.prev_id, c, g)
    BY <2>1 DEF NodeCarries
  <2>3. x.prev_id \in Known(g)
    BY <2>2 DEF Based
  <2>4. /\ Based(R, x.message_hashes, x.prev_id, h)
        /\ Carried(R, x.message_hashes, x.prev_id, c, h)
    BY <2>2, <2>3, BasedWider, CarriedWider
  <2> QED
    BY <2>4 DEF NodeCarries
<1>2. ASSUME NEW b \in DOMAIN s.in_flight
      PROVE  BatchCarries(R, s.in_flight[b], h)
  <2>1. BatchCarries(R, s.in_flight[b], g)
    BY DEF StoreCarries
  <2> DEFINE x == s.in_flight[b]
             last == x.pieces[Len(x.pieces)]
  <2>2. /\ Based(R, x.message_hashes, x.prev_interaction_id, g)
        /\ IsAcked(last) => Carried(R, x.message_hashes,
               x.prev_interaction_id, last.interaction_id, g)
    BY <2>1 DEF BatchCarries
  <2>3. x.prev_interaction_id \in Known(g)
    BY <2>2 DEF Based
  <2>4. /\ Based(R, x.message_hashes, x.prev_interaction_id, h)
        /\ IsAcked(last) => Carried(R, x.message_hashes,
               x.prev_interaction_id, last.interaction_id, h)
    BY <2>2, <2>3, BasedWider, CarriedWider
  <2> QED
    BY <2>4 DEF BatchCarries
<1> QED
  BY <1>1, <1>2 DEF StoreCarries

LEMMA TaskWider ==
    ASSUME NEW R, NEW A, NEW r, NEW t, NEW g, NEW h, Wider(g, h),
           TaskCarries(R, A, r, t, g)
    PROVE  TaskCarries(R, A, r, t, h)
<1>1. /\ t.prev \in Known(g) /\ t.last \in Known(g) /\ t.node \in Known(g)
      /\ t.node \in DOMAIN g => t.node \in DOMAIN h
  BY DEF TaskCarries, Wider
<1>2. /\ t.prev \in Known(h) /\ t.last \in Known(h) /\ t.node \in Known(h)
      /\ said(h, t.prev) = said(g, t.prev) /\ said(h, t.last) = said(g, t.last)
      /\ said(h, t.node) = said(g, t.node)
  BY <1>1, SaidWider
<1>3. \A x : Carried(R, x, t.prev, t.last, g) => Carried(R, x, t.prev, t.last, h)
  BY <1>1, CarriedWider
<1> QED
  BY <1>1, <1>2, <1>3 DEF TaskCarries, SentSoFar

LEMMA WiderSame == Wider(gemini, gemini)
BY DEF Wider

\* Create adds what is sent to the context of what it continues.
LEMMA CreateWider ==
    ASSUME NEW id, NEW prev, NEW content, Create(id, prev, content)
    PROVE  /\ Wider(gemini, gemini') /\ id \in DOMAIN gemini'
           /\ said(gemini', id) = said(gemini, prev) \o content
<1>1. Wider(gemini, gemini') /\ id \in DOMAIN gemini'
  BY DEF Create, Put, fresh, Wider
<1>2. gemini'[id].context = context_of(prev) \o content
  BY DEF Create, Put
<1>3. id # NoId
  BY IdAssumption DEF Create, fresh
<1> QED
  BY <1>1, <1>2, <1>3 DEF said, context_of

LEMMA CallFailsWider ==
    ASSUME NEW prev, NEW content, CallFails(prev, content)
    PROVE  Wider(gemini, gemini')
BY CreateWider DEF CallFails, Wider

LEMMA set_stateWider ==
    ASSUME IInv, NEW id, NEW st
    PROVE  Wider(gemini, set_state(id, st))
<1>1. IsMap(gemini, Id, Interaction)
  BY DEF IInv, TypeOK
<1>2. CASE id \notin DOMAIN gemini
  BY <1>2 DEF set_state, Wider
<1>3. CASE id \in DOMAIN gemini
  <2> DEFINE new == IF gemini[id].state = "deleted" THEN "deleted" ELSE st
             x   == [gemini[id] EXCEPT !.state = new]
  <2>1. set_state(id, st) = [gemini EXCEPT ![id] = x]
    BY <1>1, <1>3 DEF set_state, IsMap
  <2>2. x.context = gemini[id].context
    BY <1>1, <1>3 DEF IsMap, Interaction
  <2> HIDE DEF x
  <2> QED
    BY <1>1, <1>3, <2>1, <2>2 DEF Wider, IsMap
<1> QED
  BY <1>2, <1>3

-----------------------------------------------------------------------------
(* Stores that carry what they say *)

last_piece(batch) == batch.pieces[Len(batch.pieces)]

\* The batches of t are some of those of s, about the same history.
HistoriesKept(s, t) ==
    \A b \in DOMAIN t.in_flight :
        /\ b \in DOMAIN s.in_flight
        /\ t.in_flight[b].message_hashes = s.in_flight[b].message_hashes

\* Nothing in t is new but the status of pieces, and no last one is Acked anew.
Tame(s, t) ==
    /\ t.prev_to_client = s.prev_to_client
    /\ \A c \in DOMAIN t.clients :
          /\ c \in DOMAIN s.clients
          /\ t.clients[c].message_hashes = s.clients[c].message_hashes
          /\ t.clients[c].prev_id = s.clients[c].prev_id
    /\ HistoriesKept(s, t)
    /\ \A b \in DOMAIN t.in_flight :
          /\ t.in_flight[b].prev_interaction_id =
                s.in_flight[b].prev_interaction_id
          /\ IsAcked(last_piece(t.in_flight[b])) =>
                last_piece(t.in_flight[b]) = last_piece(s.in_flight[b])

LEMMA TameStore ==
    ASSUME NEW R, NEW s, NEW t, NEW g, StoreCarries(R, s, g), Tame(s, t)
    PROVE  StoreCarries(R, t, g)
<1>1. ASSUME NEW c \in DOMAIN t.clients
      PROVE  NodeCarries(R, c, t.clients[c], g)
  BY DEF StoreCarries, Tame, NodeCarries
<1>2. ASSUME NEW b \in DOMAIN t.in_flight
      PROVE  BatchCarries(R, t.in_flight[b], g)
  <2> DEFINE x == s.in_flight[b]
             y == t.in_flight[b]
  <2>1. BatchCarries(R, x, g)
    BY DEF StoreCarries, Tame, HistoriesKept
  <2>2. /\ y.message_hashes = x.message_hashes
        /\ y.prev_interaction_id = x.prev_interaction_id
        /\ IsAcked(last_piece(y)) => last_piece(y) = last_piece(x)
    BY DEF Tame, HistoriesKept
  <2> HIDE DEF x, y
  <2>3. BatchCarries(R, y, g)
    BY <2>1, <2>2 DEF BatchCarries, last_piece
  <2> QED
    BY <2>3 DEF y
<1>3. IsFiniteSet(DOMAIN t.clients)
  <2>1. DOMAIN t.clients \subseteq DOMAIN s.clients
    BY DEF Tame
  <2> QED
    BY <2>1, FS_Subset DEF StoreCarries
<1>4. Bounded(t)
  <2>1. PICK n \in Nat : \A c \in DOMAIN s.clients : Len(told(c, s)) <= n
    BY DEF StoreCarries, Bounded
  <2>2. \A c \in DOMAIN t.clients : Len(told(c, t)) <= n
    BY <2>1 DEF Tame, told
  <2> QED
    BY <2>2 DEF Bounded
<1> QED
  BY <1>1, <1>2, <1>3, <1>4 DEF StoreCarries

LEMMA TameLinked ==
    ASSUME NEW s, NEW t, Linked(s), Tame(s, t)
    PROVE  Linked(t)
BY DEF Linked, Tame

LEMMA HistoryKept ==
    ASSUME NEW s, NEW t, HistoriesKept(s, t), NEW r, NEW u,
           SameHistory(r, u, s)
    PROVE  SameHistory(r, u, t)
BY DEF SameHistory, HistoriesKept

LEMMA TameSame ==
    ASSUME NEW s, NEW t, t.clients = s.clients, t.in_flight = s.in_flight,
           t.prev_to_client = s.prev_to_client
    PROVE  Tame(s, t)
BY DEF Tame, HistoriesKept

LEMMA TameSet ==
    ASSUME NEW s, StoreOK(s), NEW x, NEW id
    PROVE  Tame(s, set_last_interaction(s, x, id))
<1> DEFINE t == set_last_interaction(s, x, id)
<1>1. /\ t.clients = s.clients /\ t.in_flight = s.in_flight
      /\ t.prev_to_client = s.prev_to_client
  BY DEF set_last_interaction, StoreOK
<1> QED
  BY <1>1, TameSame

LEMMA TameEmpty ==
    ASSUME NEW s, StoreOK(s)
    PROVE  Tame(s, clean_all(s)) /\ Tame(s, discard_all_inflight(s))
<1>1. /\ clean_all(s).clients = EmptyMap /\ clean_all(s).in_flight = EmptyMap
      /\ clean_all(s).prev_to_client = s.prev_to_client
  BY DEF clean_all, NewStore
<1>2. /\ discard_all_inflight(s).clients = s.clients
      /\ discard_all_inflight(s).in_flight = EmptyMap
      /\ discard_all_inflight(s).prev_to_client = s.prev_to_client
  BY DEF discard_all_inflight, StoreOK
<1>3. DOMAIN EmptyMap = {}
  BY DEF EmptyMap
<1> HIDE DEF EmptyMap
<1> QED
  BY <1>1, <1>2, <1>3 DEF Tame, HistoriesKept

LEMMA TameExtend ==
    ASSUME NEW s, StoreOK(s), NEW x, NEW n \in Nat
    PROVE  Tame(s, extend_lifetime(s, x, n))
<1> DEFINE t == extend_lifetime(s, x, n)
<1>1. /\ t.in_flight = s.in_flight /\ DOMAIN t.clients = DOMAIN s.clients
      /\ \A c \in DOMAIN s.clients :
            t.clients[c] = [s.clients[c] EXCEPT
                !.last_seen_utc = t.clients[c].last_seen_utc]
  BY extend_lifetime_From
<1>2. t.prev_to_client = s.prev_to_client
  <2>1. ASSUME NEW f, t = [s EXCEPT !.clients = f]
        PROVE  t.prev_to_client = s.prev_to_client
    BY <2>1 DEF StoreOK
  <2>2. t = s \/ \E f : t = [s EXCEPT !.clients = f]
    BY DEF extend_lifetime, StoreOK, IsMap
  <2> QED
    BY <2>1, <2>2
<1> HIDE DEF t
<1>3. \A c \in DOMAIN s.clients :
        /\ t.clients[c].message_hashes = s.clients[c].message_hashes
        /\ t.clients[c].prev_id = s.clients[c].prev_id
  BY <1>1 DEF StoreOK, IsMap, ClientInteractionNode
<1>4. Tame(s, t)
  BY <1>1, <1>2, <1>3 DEF Tame, HistoriesKept
<1> QED
  BY <1>4 DEF t

\* Only pieces of batch b are others.
LEMMA TamePieces ==
    ASSUME NEW s, StoreOK(s), NEW t, NEW b \in DOMAIN s.in_flight, NEW pieces,
           NewPieces(s, t, b, pieces),
           UnackedChange(s.in_flight[b].pieces, pieces),
           t.prev_to_client = s.prev_to_client
    PROVE  Tame(s, t)
<1> DEFINE p == s.in_flight[b].pieces
<1>1. /\ p \in Seq(Piece) \ {<<>>} /\ t.in_flight[b].pieces = pieces
      /\ pieces \in Seq(Piece) \ {<<>>} /\ DOMAIN pieces = DOMAIN p
  BY DEF StoreOK, IsMap, InFlightBatch, NewPieces, UnackedChange
<1>2. Len(pieces) = Len(p) /\ Len(p) \in DOMAIN p
  BY <1>1
<1>3. IsAcked(pieces[Len(pieces)]) => pieces[Len(pieces)] = p[Len(p)]
  BY <1>1, <1>2 DEF UnackedChange
<1>4. HistoriesKept(s, t)
  BY DEF NewPieces, OtherBatches, HistoriesKept
<1>5. ASSUME NEW c \in DOMAIN t.in_flight
      PROVE  /\ t.in_flight[c].prev_interaction_id =
                   s.in_flight[c].prev_interaction_id
             /\ IsAcked(last_piece(t.in_flight[c])) =>
                   last_piece(t.in_flight[c]) = last_piece(s.in_flight[c])
  BY <1>1, <1>3 DEF NewPieces, OtherBatches, last_piece
<1> QED
  BY <1>4, <1>5 DEF Tame, NewPieces

LEMMA move_piece_Index ==
    ASSUME NEW s, StoreOK(s), NEW b, NEW i, NEW from, NEW status, NEW id
    PROVE  move_piece(s, b, i, from, status, id).prev_to_client
              = s.prev_to_client
<1>1. ASSUME NEW f
      PROVE  [s EXCEPT !.in_flight = f].prev_to_client = s.prev_to_client
  BY DEF StoreOK
<1>2. \/ move_piece(s, b, i, from, status, id) = s
      \/ \E f : move_piece(s, b, i, from, status, id) =
                   [s EXCEPT !.in_flight = f]
  BY DEF move_piece, StoreOK
<1> QED
  BY <1>1, <1>2

LEMMA TameMark ==
    ASSUME NEW s, StoreOK(s), NEW b, NEW i
    PROVE  Tame(s, mark_response_started(s, b, i))
<1> DEFINE t == mark_response_started(s, b, i)
           p == s.in_flight[b].pieces
           x == [status |-> "ResponseStarted", interaction_id |-> NoId]
<1>1. t.prev_to_client = s.prev_to_client
  BY move_piece_Index DEF mark_response_started
<1>2. CASE has_piece(s, b, i) /\ p[i].status = "Pending"
  <2>1. x \in Piece /\ x.status = "ResponseStarted" /\ x.interaction_id = NoId
    BY DEF Piece, PieceStatus
  <2>2. NewPieces(s, t, b, [p EXCEPT ![i] = x])
    BY <1>2, <2>1, move_piece_Effect DEF mark_response_started
  <2>3. b \in DOMAIN s.in_flight /\ i \in DOMAIN p /\ p \in Seq(Piece)
    BY <1>2 DEF has_piece, StoreOK, IsMap, InFlightBatch
  <2> HIDE DEF t, x, p
  <2>4. /\ DOMAIN [p EXCEPT ![i] = x] = DOMAIN p
        /\ \A j \in DOMAIN p : [p EXCEPT ![i] = x][j] =
                                  IF j = i THEN x ELSE p[j]
    BY <2>3
  <2>5. ~IsAcked(x) /\ ~IsAcked(p[i])
    BY <1>2, <2>1 DEF IsAcked
  <2> DEFINE q == [p EXCEPT ![i] = x]
  <2> HIDE DEF q
  <2>6. UnackedChange(p, q)
    BY <2>1, <2>4, <2>5 DEF q, UnackedChange
  <2> QED
    BY <1>1, <2>2, <2>3, <2>6, TamePieces DEF q, p, t
<1>3. CASE ~(has_piece(s, b, i) /\ p[i].status = "Pending")
  <2>1. t = s
    BY <1>3, move_piece_Idle DEF mark_response_started
  <2> QED
    BY <2>1, TameSame
<1> QED
  BY <1>2, <1>3

LEMMA TameFail ==
    ASSUME NEW s, StoreOK(s), NEW g, Sound(s, g), NEW b
    PROVE  Tame(s, fail_batch(s, b))
<1>1. CASE b \notin DOMAIN s.in_flight
  BY <1>1, TameSame DEF fail_batch
<1>2. CASE b \in DOMAIN s.in_flight
  <2> DEFINE p == s.in_flight[b].pieces
             q == [i \in DOMAIN p |->
                     IF IsAcked(p[i]) THEN p[i]
                     ELSE [status |-> "Failed", interaction_id |-> NoId]]
             t == fail_batch(s, b)
  <2>1. NewPieces(s, t, b, q)
    BY <1>2, fail_batch_Effect DEF Sound
  <2>2. UnackedChange(p, q)
    BY DEF IsAcked, UnackedChange
  <2>3. t.prev_to_client = s.prev_to_client
    <3>1. ASSUME NEW f, NEW ups
          PROVE  [s EXCEPT !.upstreams = ups, !.in_flight = f].prev_to_client
                    = s.prev_to_client
      BY DEF StoreOK
    <3>2. \E f, ups : t = [s EXCEPT !.upstreams = ups, !.in_flight = f]
      BY <1>2 DEF fail_batch, StoreOK, IsMap, InFlightBatch
    <3> QED
      BY <3>1, <3>2
  <2> HIDE DEF q, t
  <2>4. Tame(s, t)
    BY <1>2, <2>1, <2>2, <2>3, TamePieces
  <2> QED
    BY <2>4 DEF t
<1> QED
  BY <1>1, <1>2

\* The last piece may be Acked with an interaction that carries the history.
LEMMA AckStore ==
    ASSUME NEW R, NEW s, StoreOK(s), NEW g, StoreCarries(R, s, g),
           NEW b \in DOMAIN s.in_flight, NEW i, NEW x \in Id,
           has_piece(s, b, i),
           s.in_flight[b].pieces[i].status = "ResponseStarted",
           i = Len(s.in_flight[b].pieces) =>
              Carried(R, s.in_flight[b].message_hashes,
                      s.in_flight[b].prev_interaction_id, x, g)
    PROVE  LET t == ack_piece(mark_sent(s, b, i, x), b, i, x)
           IN  /\ StoreCarries(R, t, g) /\ t.clients = s.clients
               /\ HistoriesKept(s, t)
<1> DEFINE u   == mark_sent(s, b, i, x)
           t   == ack_piece(u, b, i, x)
           old == s.in_flight[b]
           p   == old.pieces
           y   == [status |-> "Acked", interaction_id |-> x]
           q   == [p EXCEPT ![i] = y]
           new == t.in_flight[b]
<1>1. NewPieces(s, t, b, q)
  BY acknowledge_Effect
<1>2. /\ i \in DOMAIN p /\ p \in Seq(Piece) \ {<<>>}
      /\ Len(p) \in DOMAIN p
  BY DEF has_piece, StoreOK, IsMap, InFlightBatch
<1>3. /\ Len(q) = Len(p)
      /\ q[Len(p)] = IF i = Len(p) THEN y ELSE p[Len(p)]
  BY <1>2
<1>4. y.interaction_id = x
  OBVIOUS
<1>5. /\ new.pieces = q /\ new.message_hashes = old.message_hashes
      /\ new.prev_interaction_id = old.prev_interaction_id
      /\ t.clients = s.clients /\ OtherBatches(s, t, b)
  BY <1>1 DEF NewPieces
<1>6. BatchCarries(R, old, g)
  BY DEF StoreCarries
<1> HIDE DEF t, q, y
<1>7. BatchCarries(R, new, g)
  <2>1. /\ Based(R, old.message_hashes, old.prev_interaction_id, g)
        /\ IsAcked(p[Len(p)]) => Carried(R, old.message_hashes,
              old.prev_interaction_id, p[Len(p)].interaction_id, g)
    BY <1>6 DEF BatchCarries
  <2> HIDE DEF new, old
  <2>2. IsAcked(q[Len(q)]) => Carried(R, old.message_hashes,
            old.prev_interaction_id, q[Len(q)].interaction_id, g)
    BY <1>3, <1>4, <2>1 DEF old
  <2> QED
    BY <1>5, <2>1, <2>2 DEF BatchCarries
<1>8. ASSUME NEW c \in DOMAIN t.in_flight
      PROVE  /\ BatchCarries(R, t.in_flight[c], g) /\ c \in DOMAIN s.in_flight
             /\ t.in_flight[c].message_hashes = s.in_flight[c].message_hashes
  BY <1>5, <1>7 DEF StoreCarries, OtherBatches
<1>9. StoreCarries(R, t, g)
  BY <1>5, <1>8 DEF StoreCarries, Bounded, told
<1> QED
  BY <1>5, <1>8, <1>9 DEF HistoriesKept, t

LEMMA CreateStore ==
    ASSUME NEW R, NEW s, StoreOK(s), NEW g, StoreCarries(R, s, g), NEW b,
           NEW prev, NEW hashes, NEW sys, NEW n \in Nat \ {0},
           Based(R, hashes, prev, g)
    PROVE  LET t == create_batch(s, b, prev, hashes, sys, n)
           IN  /\ StoreCarries(R, t, g) /\ t.clients = s.clients
               /\ t.prev_to_client = s.prev_to_client
               /\ OtherBatches(s, t, b)
               /\ t.in_flight[b].message_hashes = hashes
<1> DEFINE t == create_batch(s, b, prev, hashes, sys, n)
<1>1. Created(s, t, b, prev, hashes, sys, n)
  BY create_batch_Effect
<1>2. t.prev_to_client = s.prev_to_client
  BY DEF create_batch, StoreOK
<1> HIDE DEF t
<1>3. BatchCarries(R, t.in_flight[b], g)
  <2> DEFINE p == [i \in 1 .. n |->
                     [status |-> "Pending", interaction_id |-> NoId]]
  <2>1. Len(p) = n /\ n \in 1 .. n
    OBVIOUS
  <2>2. ~IsAcked(p[Len(p)])
    BY <2>1 DEF IsAcked
  <2>3. t.in_flight[b].pieces = p
    BY <1>1 DEF Created
  <2> HIDE DEF p
  <2> QED
    BY <1>1, <2>2, <2>3 DEF BatchCarries, Created
<1>4. /\ t.clients = s.clients /\ OtherBatches(s, t, b)
      /\ t.in_flight[b].message_hashes = hashes
  BY <1>1 DEF Created
<1>5. \A c \in DOMAIN t.in_flight : BatchCarries(R, t.in_flight[c], g)
  BY <1>3, <1>4 DEF OtherBatches, StoreCarries
<1>6. StoreCarries(R, t, g)
  BY <1>4, <1>5 DEF StoreCarries, Bounded, told
<1> QED
  BY <1>2, <1>4, <1>6 DEF t

\* x, which is in no index yet, becomes a client node, a child of its prev_id.
Publishes(s, t, x, node) ==
    /\ t.clients = Put(s.clients, x, node)
    /\ t.prev_to_client = IF node.prev_id = NoId THEN s.prev_to_client
                          ELSE Put(s.prev_to_client, node.prev_id, x)
    /\ \A b \in DOMAIN t.in_flight :
          b \in DOMAIN s.in_flight /\ t.in_flight[b] = s.in_flight[b]

LEMMA PublishedStore ==
    ASSUME NEW R, NEW s, NEW t, NEW g, NEW x, NEW node,
           StoreCarries(R, s, g), Publishes(s, t, x, node),
           NodeCarries(R, x, node, g), Len(node.message_hashes) \in Nat
    PROVE  StoreCarries(R, t, g)
<1>1. /\ DOMAIN t.clients = DOMAIN s.clients \cup {x}
      /\ \A c \in DOMAIN t.clients :
            \/ c = x /\ t.clients[c] = node
            \/ c \in DOMAIN s.clients /\ t.clients[c] = s.clients[c]
  BY DEF Publishes, Put
<1>2. \A c \in DOMAIN t.clients : NodeCarries(R, c, t.clients[c], g)
  BY <1>1 DEF StoreCarries
<1>3. \A b \in DOMAIN t.in_flight : BatchCarries(R, t.in_flight[b], g)
  BY DEF Publishes, StoreCarries
<1>4. IsFiniteSet(DOMAIN t.clients)
  BY <1>1, FS_AddElement DEF StoreCarries
<1>5. Bounded(t)
  <2>1. PICK n \in Nat : \A c \in DOMAIN s.clients : Len(told(c, s)) <= n
    BY DEF StoreCarries, Bounded
  <2> DEFINE k == Len(node.message_hashes)
             m == n + k
  <2>2. m \in Nat
    OBVIOUS
  <2>3. ASSUME NEW c \in DOMAIN t.clients PROVE Len(told(c, t)) <= m
    <3>1. CASE c = x /\ t.clients[c] = node
      BY <2>1, <3>1 DEF told
    <3>2. CASE c \in DOMAIN s.clients /\ t.clients[c] = s.clients[c]
      <4>1. told(c, t) = told(c, s)
        BY <3>2 DEF told
      <4> QED
        BY <2>1, <3>2, <4>1
    <3> QED
      BY <1>1, <3>1, <3>2
  <2> QED
    BY <2>2, <2>3 DEF Bounded
<1> QED
  BY <1>2, <1>3, <1>4, <1>5 DEF StoreCarries

LEMMA PublishedLinks ==
    ASSUME NEW s, NEW t, NEW x, NEW node, Linked(s), Publishes(s, t, x, node),
           \A p \in DOMAIN s.prev_to_client : s.prev_to_client[p] # x
    PROVE  Linked(t)
<1> SUFFICES ASSUME NEW p \in DOMAIN t.prev_to_client,
                    t.prev_to_client[p] \in DOMAIN t.clients
             PROVE  t.clients[t.prev_to_client[p]].prev_id = p
  BY DEF Linked
<1>1. \/ p = node.prev_id /\ t.prev_to_client[p] = x
      \/ /\ p \in DOMAIN s.prev_to_client
         /\ t.prev_to_client[p] = s.prev_to_client[p]
  BY DEF Publishes, Put
<1>2. t.clients[x] = node
  BY DEF Publishes, Put
<1>3. \A c \in DOMAIN t.clients \ {x} :
        c \in DOMAIN s.clients /\ t.clients[c] = s.clients[c]
  BY DEF Publishes, Put
<1> QED
  BY <1>1, <1>2, <1>3 DEF Linked

LEMMA acknowledge_Index ==
    ASSUME NEW s, StoreOK(s), NEW b, NEW i, NEW x \in Id
    PROVE  ack_piece(mark_sent(s, b, i, x), b, i, x).prev_to_client
              = s.prev_to_client
<1> DEFINE u == mark_sent(s, b, i, x)
<1>1. [status |-> "Sent", interaction_id |-> x] \in Piece
  BY DEF Piece
<1>2. StoreOK(u) /\ u.prev_to_client = s.prev_to_client
  BY <1>1, move_piece_OK, move_piece_Index DEF mark_sent
<1> HIDE DEF u
<1>3. ack_piece(u, b, i, x).prev_to_client = u.prev_to_client
  BY <1>2, move_piece_Index DEF ack_piece
<1> QED
  BY <1>2, <1>3 DEF u

\* What complete_batch leaves without the batch, and without a node.
LEMMA removed_Index ==
    ASSUME NEW s, StoreOK(s), NEW b \in DOMAIN s.in_flight
    PROVE  LET t == insert_upstreams(
                      [s EXCEPT !.in_flight = Without(@, {b})],
                      chain_of(s.in_flight[b], acked_prefix(s.in_flight[b])))
           IN  /\ t.clients = s.clients
               /\ t.in_flight = Without(s.in_flight, {b})
               /\ t.prev_to_client = s.prev_to_client
<1> DEFINE new == chain_of(s.in_flight[b], acked_prefix(s.in_flight[b]))
           u   == [s EXCEPT !.in_flight = Without(@, {b})]
           t   == insert_upstreams(u, new)
<1>1. /\ u.clients = s.clients /\ u.prev_to_client = s.prev_to_client
      /\ u.in_flight = Without(s.in_flight, {b})
  BY DEF StoreOK
<1>2. \E f : t = [s EXCEPT !.in_flight = Without(@, {b}), !.upstreams = f]
  BY DEF insert_upstreams, StoreOK
<1> HIDE DEF new
<1>3. /\ t.clients = s.clients /\ t.prev_to_client = s.prev_to_client
      /\ t.in_flight = Without(s.in_flight, {b})
  BY <1>2 DEF StoreOK
<1> QED
  BY <1>3 DEF new

LEMMA CompletePublishes ==
    ASSUME NEW s, StoreOK(s), NEW b, batch_is_complete(s, b), NEW n \in Nat
    PROVE  LET batch == s.in_flight[b]
               ids   == batch_ids(batch)
           IN  Publishes(s, complete_batch(s, b, n), ids[Len(ids)],
                         NodeOf(batch, n))
<1> DEFINE batch   == s.in_flight[b]
           removed == insert_upstreams(
                        [s EXCEPT !.in_flight = Without(@, {b})],
                        chain_of(batch, acked_prefix(batch)))
           ids     == batch_ids(batch)
           x       == ids[Len(ids)]
           node    == NodeOf(batch, n)
           done    == insert_client(removed, x, node)
           t       == complete_batch(s, b, n)
<1>1. b \in DOMAIN s.in_flight
  BY DEF batch_is_complete
<1>2. /\ removed.clients = s.clients
      /\ removed.in_flight = Without(s.in_flight, {b})
      /\ removed.prev_to_client = s.prev_to_client
  BY <1>1, removed_Index
<1>3. StoreOK(removed)
  BY <1>1, remove_batch_OK
<1>4. t = IF batch.session_id \in DOMAIN s.sessions
            THEN set_last_interaction(done, batch.session_id, x) ELSE done
  BY DEF complete_batch, NodeOf
<1> HIDE DEF removed, x, node, t
<1>5. /\ done.clients = Put(removed.clients, x, node)
      /\ done.prev_to_client =
            IF node.prev_id = NoId THEN removed.prev_to_client
            ELSE Put(removed.prev_to_client, node.prev_id, x)
      /\ done.in_flight = removed.in_flight
  BY <1>3 DEF insert_client, StoreOK
<1>6. /\ set_last_interaction(done, batch.session_id, x).clients = done.clients
      /\ set_last_interaction(done, batch.session_id, x).in_flight
            = done.in_flight
      /\ set_last_interaction(done, batch.session_id, x).prev_to_client
            = done.prev_to_client
  BY <1>3 DEF set_last_interaction, insert_client, StoreOK
<1> HIDE DEF done
<1>7. /\ t.clients = Put(s.clients, x, node)
      /\ t.prev_to_client = IF node.prev_id = NoId THEN s.prev_to_client
                            ELSE Put(s.prev_to_client, node.prev_id, x)
      /\ t.in_flight = Without(s.in_flight, {b})
  BY <1>2, <1>4, <1>5, <1>6
<1>8. Publishes(s, t, x, node)
  BY <1>7 DEF Publishes, Without
<1> QED
  BY <1>8 DEF t, x, node

LEMMA TameIncomplete ==
    ASSUME NEW s, StoreOK(s), NEW b \in DOMAIN s.in_flight,
           ~batch_is_complete(s, b), NEW n
    PROVE  Tame(s, complete_batch(s, b, n))
<1> DEFINE t == complete_batch(s, b, n)
<1>1. /\ t.clients = s.clients /\ t.prev_to_client = s.prev_to_client
      /\ t.in_flight = Without(s.in_flight, {b})
  BY removed_Index DEF complete_batch
<1> HIDE DEF t
<1>2. Tame(s, t)
  BY <1>1 DEF Tame, HistoriesKept, Without
<1> QED
  BY <1>2 DEF t

LEMMA with_node_Publishes ==
    ASSUME IInv, NEW r \in Request
    PROVE  \E node : /\ Publishes(store, with_node(r), task[r].last, node)
                     /\ node.prev_id = task[r].prev
                     /\ node.message_hashes = ask[r].hashes
<1> DEFINE x    == task[r].last
           prev == task[r].prev
           node == [prev_id |-> prev,
                    message_hashes |-> ask[r].hashes,
                    system_instruction_hash |-> system_hash(r),
                    upstream_ids |-> <<x>>,
                    last_seen_utc |-> now]
<1>1. StoreOK(store)
  BY DEF IInv, TypeOK
<1>2. with_node(r) =
        set_last_interaction(
          insert_client(insert_upstream(store, x, prev), x, node),
          ask[r].session, x)
  BY DEF with_node
<1>3. node.prev_id = prev /\ node.message_hashes = ask[r].hashes
  OBVIOUS
<1> HIDE DEF node, x, prev
<1>4. /\ with_node(r).in_flight = store.in_flight
      /\ with_node(r).clients = Put(store.clients, x, node)
      /\ with_node(r).prev_to_client =
            IF node.prev_id = NoId THEN store.prev_to_client
            ELSE Put(store.prev_to_client, node.prev_id, x)
  BY <1>1, <1>2
     DEF set_last_interaction, insert_client, insert_upstream, StoreOK
<1> QED
  BY <1>3, <1>4 DEF Publishes, x, prev

-----------------------------------------------------------------------------
(* What a handler has sent *)

\* A history up to n, and the messages after it.
LEMMA UpToAndOn ==
    ASSUME NEW h \in Seq(Hash), NEW n \in Nat, n < Len(h)
    PROVE  /\ SubSeq(h, 1, n) \in Seq(Hash)
           /\ SubSeq(h, n + 1, Len(h)) \in Seq(Hash)
           /\ SubSeq(h, 1, n) \o SubSeq(h, n + 1, Len(h)) = h
           /\ h[n + 1] \in Hash
           /\ SubSeq(h, 1, n) \o <<h[n + 1]>> = SubSeq(h, 1, n + 1)
           /\ SubSeq(h, n + 1, Len(h))[1] = h[n + 1]
<1>1. /\ Len(h) \in Nat /\ n + 1 \in 1 .. Len(h)
      /\ SubSeq(h, 1, n) \in Seq(Hash)
      /\ SubSeq(h, n + 1, Len(h)) \in Seq(Hash)
      /\ Len(SubSeq(h, 1, n)) = n
      /\ \A i \in 1 .. n : SubSeq(h, 1, n)[i] = h[i]
      /\ h[n + 1] \in Hash
  OBVIOUS
<1>2. SubSeq(h, n + 1, Len(h))[1] = h[n + 1]
  <2>1. 1 \in 1 .. Len(SubSeq(h, n + 1, Len(h)))
    BY <1>1
  <2> QED
    BY <1>1, <2>1
<1>3. SubSeq(h, 1, n) \o SubSeq(h, n + 1, Len(h)) = h
  BY <1>1, BeginningAndRest
<1>4. SubSeq(h, 1, n) \o <<h[n + 1]>> = SubSeq(h, 1, n + 1)
  <2>1. /\ <<h[n + 1]>> \in Seq(Hash) /\ Len(<<h[n + 1]>>) = 1
        /\ <<h[n + 1]>>[1] = h[n + 1]
    BY <1>1
  <2> DEFINE s == SubSeq(h, 1, n) \o <<h[n + 1]>>
             t == SubSeq(h, 1, n + 1)
  <2>2. /\ s \in Seq(Hash) /\ Len(s) = n + 1
        /\ \A i \in 1 .. n : s[i] = h[i]
        /\ s[n + 1] = h[n + 1]
    BY <1>1, <2>1, Joined
  <2>3. /\ t \in Seq(Hash) /\ Len(t) = n + 1
        /\ \A i \in 1 .. n + 1 : t[i] = h[i]
    BY <1>1
  <2> HIDE DEF s, t
  <2>4. \A i \in 1 .. Len(s) : s[i] = t[i]
    BY <2>2, <2>3
  <2>5. s = t
    BY <2>2, <2>3, <2>4, BeginningAndRest
  <2> QED
    BY <2>5 DEF s, t
<1> QED
  BY <1>1, <1>3, <1>4, <1>2

LEMMA WholeHistory ==
    ASSUME NEW h \in Seq(Hash)
    PROVE  SubSeq(h, 1, Len(h)) = h /\ SubSeq(h, 1, 0) = <<>>
OBVIOUS

LEMMA CreateCarries ==
    ASSUME NEW R, Keeps(R), NEW x, NEW prev, NEW content \in Seq(Hash),
           Create(x, prev, content), NEW h, <<h, said(gemini, prev)>> \in R
    PROVE  /\ <<h \o content, said(gemini', x)>> \in R
           /\ Messages(said(gemini, prev)) \subseteq Messages(said(gemini', x))
<1>1. h \in Seq(Hash) /\ said(gemini, prev) \in Seq(Hash)
  BY DEF Keeps
<1>2. said(gemini', x) = said(gemini, prev) \o content
  BY CreateWider
<1>3. <<h \o content, said(gemini, prev) \o content>> \in R
  BY <1>1 DEF Keeps
<1>4. Messages(said(gemini, prev) \o content) =
        Messages(said(gemini, prev)) \cup Messages(content)
  BY <1>1, MessagesJoined
<1> QED
  BY <1>2, <1>3, <1>4

LEMMA PostCarries ==
    ASSUME NEW R, NEW A, Keeps(R), RInv(R, A), NEW r \in Request, is_query(r),
           NEW x, Create(x, task[r].prev, new_messages(r))
    PROVE  Carried(R, ask[r].hashes, task[r].prev, x, gemini')
<1> DEFINE h == ask[r].hashes
           n == task[r].start
           p == task[r].prev
<1>1. /\ h \in Seq(Hash) /\ n \in Nat /\ n < Len(h) /\ p \in Known(gemini)
      /\ <<SubSeq(h, 1, n), said(gemini, p)>> \in R
      /\ new_messages(r) = SubSeq(h, n + 1, Len(h))
  <2>1. TaskCarries(R, A, r, task[r], gemini) /\ Progress(r) /\ task[r] \in Task
    BY DEF RInv, Delivered, BInv, OInv, IInv, TypeOK
  <2> QED
    BY <2>1, AskOK DEF TaskCarries, Progress, Task, new_messages
<1>2. Wider(gemini, gemini') /\ x \in DOMAIN gemini'
  BY CreateWider
<1>3. said(gemini', p) = said(gemini, p)
  BY <1>1, <1>2, SaidWider
<1> HIDE DEF h, n, p
<1>4. /\ SubSeq(h, n + 1, Len(h)) \in Seq(Hash)
      /\ SubSeq(h, 1, n) \o SubSeq(h, n + 1, Len(h)) = h
  BY <1>1, UpToAndOn
<1>5. /\ <<h, said(gemini', x)>> \in R
      /\ Messages(said(gemini, p)) \subseteq Messages(said(gemini', x))
  <2> DEFINE sent == SubSeq(h, 1, n)
             rest == SubSeq(h, n + 1, Len(h))
  <2>1. /\ Create(x, p, rest) /\ rest \in Seq(Hash)
        /\ <<sent, said(gemini, p)>> \in R /\ sent \o rest = h
    BY <1>1, <1>4 DEF p
  <2> HIDE DEF sent, rest
  <2>2. /\ <<sent \o rest, said(gemini', x)>> \in R
        /\ Messages(said(gemini, p)) \subseteq Messages(said(gemini', x))
    BY <2>1, CreateCarries
  <2> QED
    BY <2>1, <2>2
<1> QED
  BY <1>2, <1>3, <1>5 DEF Carried, h, p

\* What is sent with piece i is what brings the history from reached(i - 1)
\* to reached(i).
LEMMA PieceReaches ==
    ASSUME IInv, NEW r \in Request, is_query(r), NEW i \in 1 .. piece_count(r),
           i = task[r].piece
    PROVE  LET h == ask[r].hashes
               m == reached(r, task[r], i - 1)
               n == reached(r, task[r], i)
           IN  /\ piece_content(r) \in Seq(Hash)
               /\ SubSeq(h, 1, m) \in Seq(Hash)
               /\ SubSeq(h, 1, m) \o piece_content(r) = SubSeq(h, 1, n)
               /\ i = piece_count(r) => n = Len(h)
<1> DEFINE h     == ask[r].hashes
           start == task[r].start
           parts == system_parts(r)
           new   == new_messages(r)
           m     == reached(r, task[r], i - 1)
           n     == reached(r, task[r], i)
<1>1. /\ h \in Seq(Hash) /\ start \in Nat /\ start < Len(h)
      /\ parts \in Nat /\ Len(h) \in Nat
      /\ new = SubSeq(h, start + 1, Len(h))
      /\ piece_count(r) = parts + Len(new)
      /\ piece_content(r) \in Seq(Hash)
  BY piece_count_OK, piece_content_OK, AskOK
     DEF IInv, TypeOK, Task, Progress, new_messages
<1>2. parts = prompt_parts(r, task[r])
  BY DEF system_parts, splits_system, prompt_parts
<1>3. /\ m = start + IF i - 1 <= parts THEN 0 ELSE i - 1 - parts
      /\ n = start + IF i <= parts THEN 0 ELSE i - parts
  BY <1>2 DEF reached
<1>4. piece_content(r) = IF i <= parts THEN <<>> ELSE <<new[i - parts]>>
  BY DEF piece_content
<1> HIDE DEF h, start, parts, new, m, n
<1>5. /\ Len(new) = Len(h) - start
      /\ \A k \in 1 .. Len(h) - start : new[k] = h[start + k]
  BY <1>1
<1>6. i \in Nat \ {0} /\ i <= parts + (Len(h) - start)
  BY <1>1, <1>5
<1>7. /\ i \in Int /\ parts \in Int /\ start \in Int /\ Len(h) \in Int
      /\ start >= 0 /\ parts >= 0
  BY <1>1, <1>6
<1>8. CASE i <= parts
  <2>1. m = start /\ n = start
    BY <1>1, <1>3, <1>6, <1>8
  <2>2. SubSeq(h, 1, start) \in Seq(Hash)
    BY <1>1, UpToAndOn
  <2>3. SubSeq(h, 1, start) \o <<>> = SubSeq(h, 1, start)
    BY <2>2
  <2>4. i # piece_count(r)
    BY <1>1, <1>5, <1>6, <1>8
  <2> QED
    BY <1>1, <1>4, <1>8, <2>1, <2>2, <2>3, <2>4 DEF h, m, n
<1>9. CASE ~(i <= parts)
  <2>1. /\ m = start + (i - parts) - 1 /\ n = start + (i - parts)
        /\ i - parts \in 1 .. Len(h) - start
    <3> DEFINE len == Len(h)
    <3>1. len \in Int /\ i <= parts + (len - start)
      BY <1>6, <1>7
    <3> HIDE DEF len
    <3>2. i - parts \in 1 .. len - start
      BY <1>9, <1>7, <3>1
    <3>3. n = start + (i - parts)
      BY <1>3, <1>9
    <3>4. CASE i - 1 <= parts
      <4>1. m = start + 0
        BY <1>3, <3>4
      <4>2. i - parts = 1
        BY <1>9, <1>7, <3>4
      <4>3. start + 0 = start + 1 - 1
        BY <1>7
      <4> QED
        BY <3>2, <3>3, <4>1, <4>2, <4>3 DEF len
    <3>5. CASE ~(i - 1 <= parts)
      <4>1. m = start + (i - 1 - parts)
        BY <1>3, <3>5
      <4>2. start + (i - 1 - parts) = start + (i - parts) - 1
        BY <1>7
      <4> QED
        BY <3>2, <3>3, <4>1, <4>2 DEF len
    <3> QED
      BY <3>4, <3>5
  <2>2. /\ m \in Nat /\ m < Len(h) /\ n = m + 1
        /\ new[i - parts] = h[m + 1]
    <3> DEFINE k   == i - parts
               len == Len(h)
    <3>1. /\ k \in 1 .. len - start /\ m = start + k - 1 /\ n = start + k
          /\ new[k] = h[start + k] /\ len \in Int
      BY <1>5, <1>7, <2>1
    <3> HIDE DEF k, len
    <3>2. m \in Nat /\ m < len /\ n = m + 1 /\ start + k = m + 1
      BY <1>7, <3>1
    <3> QED
      BY <3>1, <3>2 DEF k, len
  <2>3. /\ SubSeq(h, 1, m) \in Seq(Hash)
        /\ SubSeq(h, 1, m) \o <<h[m + 1]>> = SubSeq(h, 1, m + 1)
    BY <1>1, <2>2, UpToAndOn
  <2>4. i = piece_count(r) => n = Len(h)
    BY <1>1, <1>5, <2>1
  <2> QED
    BY <1>1, <1>4, <1>9, <2>2, <2>3, <2>4 DEF h, m, n
<1> QED
  BY <1>8, <1>9

LEMMA PieceCarries ==
    ASSUME NEW R, NEW A, Keeps(R), RInv(R, A), NEW r \in Request,
           At(r, "send"), NEW x, Create(x, task[r].last, piece_content(r)),
           NEW t, t.start = task[r].start, t.prev = task[r].prev, t.last = x
    PROVE  SentSoFar(R, r, t, task[r].piece, gemini')
<1> DEFINE h == ask[r].hashes
           i == task[r].piece
           u == task[r]
<1>1. /\ IInv /\ is_query(r) /\ i \in 1 .. piece_count(r)
      /\ SentSoFar(R, r, u, i - 1, gemini) /\ u.prev \in Known(gemini)
  <2>1. IInv /\ Progress(r) /\ TaskCarries(R, A, r, u, gemini)
    BY DEF RInv, Delivered, BInv, OInv, IInv
  <2> QED
    BY <2>1, RunningQuery DEF TaskCarries, Progress, At, Ends
<1>2. /\ piece_content(r) \in Seq(Hash)
      /\ SubSeq(h, 1, reached(r, u, i - 1)) \o piece_content(r)
             = SubSeq(h, 1, reached(r, u, i))
  BY <1>1, PieceReaches
<1>3. /\ <<SubSeq(h, 1, reached(r, u, i - 1)), said(gemini, u.last)>> \in R
      /\ Messages(said(gemini, u.prev)) \subseteq Messages(said(gemini, u.last))
  BY <1>1 DEF SentSoFar
<1>4. reached(r, t, i) = reached(r, u, i)
  BY DEF reached, prompt_parts
<1>5. said(gemini', u.prev) = said(gemini, u.prev)
  BY <1>1, CreateWider, SaidWider
<1> HIDE DEF h, i, u
<1>6. /\ <<SubSeq(h, 1, reached(r, u, i)), said(gemini', x)>> \in R
      /\ Messages(said(gemini, u.last)) \subseteq Messages(said(gemini', x))
  <2> DEFINE sent == SubSeq(h, 1, reached(r, u, i - 1))
             rest == piece_content(r)
             p    == u.last
  <2>1. /\ Create(x, p, rest) /\ rest \in Seq(Hash)
        /\ <<sent, said(gemini, p)>> \in R
        /\ sent \o rest = SubSeq(h, 1, reached(r, u, i))
    BY <1>2, <1>3 DEF u
  <2> HIDE DEF sent, rest, p
  <2>2. /\ <<sent \o rest, said(gemini', x)>> \in R
        /\ Messages(said(gemini, p)) \subseteq Messages(said(gemini', x))
    BY <2>1, CreateCarries
  <2> QED
    BY <2>1, <2>2 DEF p
<1> QED
  BY <1>3, <1>4, <1>5, <1>6 DEF SentSoFar, h, i, u

\* After the last piece the whole history has been sent.
LEMMA AllSent ==
    ASSUME IInv, NEW R, NEW r \in Request, is_query(r), NEW g,
           task[r].piece = piece_count(r), task[r].last \in DOMAIN g,
           SentSoFar(R, r, task[r], task[r].piece, g)
    PROVE  Carried(R, ask[r].hashes, task[r].prev, task[r].last, g)
<1> DEFINE h == ask[r].hashes
           i == piece_count(r)
<1>1. h \in Seq(Hash) /\ i \in 1 .. i
  BY piece_count_OK, AskOK
<1>2. reached(r, task[r], i) = Len(h)
  BY <1>1, PieceReaches
<1>3. SubSeq(h, 1, Len(h)) = h
  BY <1>1, WholeHistory
<1> QED
  BY <1>2, <1>3 DEF SentSoFar, Carried

-----------------------------------------------------------------------------
(* Steps of one handler *)

\* A task that goes on to nothing that needs what it has sent.
LEMMA TaskRests ==
    ASSUME NEW R, NEW A, NEW r, NEW t, NEW u, NEW g,
           TaskCarries(R, A, r, t, g),
           u.start = t.start, u.prev = t.prev, u.last = t.last,
           u.node = t.node,
           u.pc \notin {"mark", "send", "ack", "store", "streaming",
                        "draining", "complete", "upsert", "replay", "fetch",
                        "done"},
           u.pc = "clean" => ~is_query(r)
    PROVE  TaskCarries(R, A, r, u, g)
BY DEF TaskCarries

\* A task that needs of it what it needed before.
LEMMA TaskGoesOn ==
    ASSUME NEW R, NEW A, NEW r, NEW t, NEW u, NEW g,
           TaskCarries(R, A, r, t, g),
           u.start = t.start, u.prev = t.prev, u.last = t.last,
           u.node = t.node, u.piece = t.piece,
           \/ t.pc = "mark" /\ u.pc = "send"
           \/ t.pc = "streaming" /\ u.pc = "draining"
           \/ t.pc = "complete" /\ u.pc = "upsert"
           \/ t.pc \in {"replay", "fetch"} /\ u.pc \in {"fetch", "done"}
    PROVE  TaskCarries(R, A, r, u, g)
<1>1. SentSoFar(R, r, t, t.piece - 1, g) => SentSoFar(R, r, u, t.piece - 1, g)
  BY DEF SentSoFar, reached, prompt_parts
<1> QED
  BY <1>1 DEF TaskCarries

\* The answer is of the interaction that carries the request.
LEMMA TaskAnswers ==
    ASSUME NEW R, NEW A, R \subseteq A, NEW r, NEW t, NEW u, NEW g,
           TaskCarries(R, A, r, t, g),
           u.start = t.start, u.prev = t.prev, u.last = t.last,
           t.pc \in {"store", "streaming", "draining", "complete", "upsert"},
           u.node = t.last, u.pc = "done"
    PROVE  TaskCarries(R, A, r, u, g)
BY DEF TaskCarries, Carried

LEMMA SavedStore ==
    ASSUME NEW R, StoreCarries(R, disk, gemini), Wider(gemini, gemini'),
           StoreCarries(R, store', gemini'), Saves
    PROVE  StoreCarries(R, disk', gemini')
<1>1. CASE disk' = disk
  BY <1>1, StoreWider
<1>2. CASE disk' = Document(store')
  <2>1. /\ Document(store').clients = store'.clients
        /\ Document(store').in_flight = store'.in_flight
    BY DEF Document
  <2> QED
    BY <1>2, <2>1 DEF StoreCarries, Bounded, told
<1> QED
  BY <1>1, <1>2 DEF Saves

LEMMA DeliveredStep ==
    ASSUME NEW R, NEW A, RInv(R, A), BInv', NEW r \in Request, Others(r),
           Wider(gemini, gemini'), StoreCarries(R, store', gemini'), Saves,
           TaskCarries(R, A, r, task'[r], gemini'),
           SameHistory(r, task'[r], store'),
           \A q \in Request \ {r} : SameHistory(q, task[q], store'),
           Linked(store'), IndexIsPast'
    PROVE  RInv(R, A)'
<1>1. StoreCarries(R, disk', gemini')
  BY SavedStore DEF RInv, Delivered
<1>2. ASSUME NEW q \in Request \ {r}
      PROVE  /\ TaskCarries(R, A, q, task'[q], gemini')
             /\ SameHistory(q, task'[q], store')
  BY TaskWider DEF RInv, Delivered, Others
<1>3. Delivered(R, A)'
  BY <1>1, <1>2 DEF Delivered
<1> QED
  BY <1>3 DEF RInv

\* Nothing that was not Taken becomes so, but a new interaction.
TakesNew ==
    \A id \in Id : Taken(id)' => Taken(id) \/ id \notin DOMAIN gemini

LEMMA NodeIsNotTaken ==
    ASSUME OInv, NEW id \in DOMAIN store.clients
    PROVE  id \in Id /\ id \in DOMAIN gemini /\ ~Taken(id)
<1>1. InteractionsHaveOneOwner /\ StoreOK(store)
  BY DEF OInv, IInv, TypeOK
<1>2. id \in Id
  BY <1>1 DEF StoreOK, IsMap
<1> QED
  BY <1>1, <1>2 DEF InteractionsHaveOneOwner, OneOwner, OneHolder, Taken

LEMMA IndexStep ==
    ASSUME IndexIsPast, OInv', DOMAIN gemini \subseteq DOMAIN gemini',
           TakesNew,
           \A id \in Id : IsIndexed(id, store') =>
              IsIndexed(id, store) \/ id \in DOMAIN store'.clients
    PROVE  IndexIsPast'
<1> SUFFICES ASSUME NEW id \in Id, IsIndexed(id, store')
             PROVE  id \in DOMAIN gemini' /\ ~Taken(id)'
  BY DEF IndexIsPast
<1>1. CASE id \in DOMAIN store'.clients
  <2>1. InteractionsHaveOneOwner'
    BY DEF OInv
  <2>2. /\ id \in DOMAIN gemini'
        /\ \A b \in DOMAIN store'.in_flight : ~InBatch(store', b, id)
        /\ \A q \in Request : Holds(q)' => task'[q].last # id
    BY <1>1, <2>1 DEF InteractionsHaveOneOwner, OneOwner, OneHolder
  <2> QED
    BY <2>2 DEF Taken
<1>2. CASE IsIndexed(id, store)
  BY <1>2 DEF IndexIsPast, TakesNew
<1> QED
  BY <1>1, <1>2

\* No batch gets an interaction that it did not have, nor does a handler but
\* a new one.
LEMMA TakesFrom ==
    ASSUME NEW r \in Request, Others(r), From(store, store'),
           Holds(r)' => \/ Holds(r) /\ task'[r].last = task[r].last
                        \/ task'[r].last \notin DOMAIN gemini
    PROVE  TakesNew
<1> SUFFICES ASSUME NEW id \in Id, Taken(id)'
             PROVE  Taken(id) \/ id \notin DOMAIN gemini
  BY DEF TakesNew
<1>1. CASE \E b \in DOMAIN store'.in_flight : InBatch(store', b, id)
  <2>1. \A b : InBatch(store, b, id) => b \in DOMAIN store.in_flight
    BY DEF InBatch
  <2> QED
    BY <1>1, <2>1 DEF From, Taken
<1>2. CASE \E q \in Request : Holds(q)' /\ task'[q].last = id
  BY <1>2 DEF Taken, Others, Holds
<1> QED
  BY <1>1, <1>2 DEF Taken

LEMMA TameDelivers ==
    ASSUME NEW R, NEW A, RInv(R, A), BInv', NEW r \in Request, Others(r),
           Wider(gemini, gemini'), Tame(store, store'), From(store, store'),
           Saves, TaskCarries(R, A, r, task'[r], gemini'),
           SameHistory(r, task'[r], store'),
           Holds(r)' => \/ Holds(r) /\ task'[r].last = task[r].last
                        \/ task'[r].last \notin DOMAIN gemini
    PROVE  RInv(R, A)'
<1>1. StoreCarries(R, store', gemini')
  <2>1. StoreCarries(R, store', gemini)
    BY TameStore DEF RInv, Delivered
  <2> QED
    BY <2>1, StoreWider
<1>2. \A q \in Request \ {r} : SameHistory(q, task[q], store')
  BY HistoryKept DEF RInv, Delivered, Tame
<1>3. Linked(store')
  BY TameLinked DEF RInv, Delivered
<1>4. IndexIsPast'
  <2>1. TakesNew
    BY TakesFrom
  <2>2. \A id \in Id : IsIndexed(id, store') => IsIndexed(id, store)
    BY DEF Tame, IsIndexed
  <2>3. DOMAIN gemini \subseteq DOMAIN gemini' /\ OInv' /\ IndexIsPast
    BY DEF Wider, BInv, RInv, Delivered
  <2> QED
    BY <2>1, <2>2, <2>3, IndexStep
<1> QED
  BY <1>1, <1>2, <1>3, <1>4, DeliveredStep

SameProgress(t, u) ==
    /\ u.start = t.start /\ u.prev = t.prev /\ u.last = t.last
    /\ u.node = t.node

\* The task of r goes on to nothing that needs what it has sent.
LEMMA RestDelivers ==
    ASSUME NEW R, NEW A, RInv(R, A), BInv', NEW r \in Request, Others(r),
           Wider(gemini, gemini'), Tame(store, store'), From(store, store'),
           Saves, SameProgress(task[r], task'[r]),
           task'[r].pc \notin {"mark", "send", "ack", "store", "streaming",
                              "draining", "complete", "upsert", "replay",
                              "fetch", "done"},
           task'[r].pc = "clean" => ~is_query(r)
    PROVE  RInv(R, A)'
<1>1. TaskCarries(R, A, r, task'[r], gemini')
  BY TaskRests, TaskWider DEF RInv, Delivered, SameProgress
<1>2. SameHistory(r, task'[r], store') /\ ~Holds(r)'
  BY DEF SameHistory, Holds
<1> QED
  BY <1>1, <1>2, TameDelivers

LEMMA FromSame == From(store, store)
BY DEF From

LEMMA GotoFields ==
    ASSUME IInv, NEW r \in Request, NEW pc, Goto(r, pc)
    PROVE  /\ Others(r) /\ task'[r].pc = pc
           /\ SameProgress(task[r], task'[r])
           /\ task'[r].batch = task[r].batch /\ task'[r].piece = task[r].piece
BY DEF IInv, TypeOK, Goto, Task, Others, SameProgress

\* The step of a handler that stores nothing and rests.
LEMMA IdleDelivers ==
    ASSUME NEW R, NEW A, RInv(R, A), BInv', NEW r \in Request, Others(r),
           store' = store, disk' = disk, Wider(gemini, gemini'),
           SameProgress(task[r], task'[r]),
           task'[r].pc \notin {"mark", "send", "ack", "store", "streaming",
                              "draining", "complete", "upsert", "replay",
                              "fetch", "done"},
           task'[r].pc = "clean" => ~is_query(r)
    PROVE  RInv(R, A)'
<1>1. Tame(store, store') /\ From(store, store') /\ Saves
  BY TameSame, FromSame DEF Saves
<1> QED
  BY <1>1, RestDelivers

\* find_frontier leads r to the node id, of which A holds.
LEMMA ReplayDelivers ==
    ASSUME NEW R, NEW A, RInv(R, A), BInv', NEW r \in Request, is_query(r),
           UNCHANGED <<store, disk, gemini>>, NEW id \in DOMAIN gemini,
           <<ask[r].hashes, said(gemini, id)>> \in A, ReplayFrom(r, id)
    PROVE  RInv(R, A)'
<1>1. /\ Others(r) /\ task'[r].pc = "replay" /\ task'[r].node = id
      /\ task'[r].start = task[r].start /\ task'[r].prev = task[r].prev
      /\ task'[r].last = task[r].last
  BY DEF ReplayFrom, RInv, BInv, OInv, IInv, TypeOK, Task, Others
<1>2. TaskCarries(R, A, r, task'[r], gemini)
  <2>1. TaskCarries(R, A, r, task[r], gemini)
    BY DEF RInv, Delivered
  <2> QED
    BY <1>1, <2>1 DEF TaskCarries, Known
<1>3. SameHistory(r, task'[r], store') /\ ~Holds(r)'
  BY <1>1 DEF SameHistory, Holds
<1>4. Tame(store, store') /\ From(store, store') /\ Saves
  BY TameSame, FromSame DEF Saves
<1> QED
  BY <1>1, <1>2, <1>3, <1>4, WiderSame, TameDelivers

LEMMA ArriveDelivers ==
    ASSUME NEW R, NEW A, RInv(R, A), Routed(R, A), BInv',
           NEW r \in Request, Arrive(r)
    PROVE  RInv(R, A)'
<1> DEFINE h == ask[r].hashes
           f == find_frontier(h, NoId, NoHash, store)
<1>1. is_query(r) /\ UNCHANGED <<store, disk, gemini>>
  BY DEF Arrive
<1>2. /\ ~f.all_known =>
           /\ f.previous_interaction_id \in Known(gemini)
           /\ <<SubSeq(h, 1, f.index),
                said(gemini, f.previous_interaction_id)>> \in R
      /\ f.all_known =>
           /\ f.matched_client_id \in DOMAIN gemini
           /\ <<h, said(gemini, f.matched_client_id)>> \in A
  BY <1>1 DEF Routed
<1>3. CASE f.all_known
  <2>1. ReplayFrom(r, f.matched_client_id)
    BY <1>3 DEF Arrive
  <2> HIDE DEF f
  <2> QED
    BY <1>1, <1>2, <1>3, <2>1, ReplayDelivers
<1>4. CASE ~f.all_known
  <2>1. task' = [task EXCEPT ![r].pc = "probe", ![r].start = f.index,
                             ![r].prev = f.previous_interaction_id]
    BY <1>4 DEF Arrive
  <2> DEFINE prev == f.previous_interaction_id
             n    == f.index
  <2> HIDE DEF f
  <2>2. task' = [task EXCEPT ![r].pc = "probe", ![r].start = n, ![r].prev = prev]
    BY <2>1
  <2> HIDE DEF prev, n
  <2>3. /\ Others(r) /\ task'[r].pc = "probe" /\ task'[r].start = n
        /\ task'[r].prev = prev /\ task'[r].node = task[r].node
        /\ task'[r].last = task[r].last
    BY <2>2 DEF RInv, BInv, OInv, IInv, TypeOK, Task, Others
  <2>4. TaskCarries(R, A, r, task'[r], gemini)
    <3>1. TaskCarries(R, A, r, task[r], gemini)
      BY DEF RInv, Delivered
    <3>2. prev \in Known(gemini) /\ <<SubSeq(h, 1, n), said(gemini, prev)>> \in R
      BY <1>2, <1>4 DEF prev, n
    <3> QED
      BY <2>3, <3>1, <3>2 DEF TaskCarries
  <2>5. SameHistory(r, task'[r], store') /\ ~Holds(r)'
    BY <2>3 DEF SameHistory, Holds
  <2>6. Tame(store, store') /\ From(store, store') /\ Saves
    BY <1>1, TameSame, FromSame DEF Saves
  <2> QED
    BY <1>1, <2>3, <2>4, <2>5, <2>6, WiderSame, TameDelivers
<1> QED
  BY <1>3, <1>4

LEMMA WaitingDelivers ==
    ASSUME NEW R, NEW A, RInv(R, A), Routed(R, A), BInv',
           NEW r \in Request,
           \/ Probe(r) \/ Poll(r) \/ PollTimeout(r) \/ Recheck(r)
           \/ JoinBatch(r) \/ DupPoll(r) \/ DupTimeout(r) \/ DupReady(r)
    PROVE  RInv(R, A)'
<1>1. IInv /\ task \in [Request -> Task]
  BY DEF RInv, BInv, OInv, IInv, TypeOK
<1>2. UNCHANGED <<store, disk, gemini>> /\ Wider(gemini, gemini')
  BY WiderSame
     DEF Probe, Poll, PollTimeout, Recheck, JoinBatch, DupPoll, DupTimeout,
         DupReady
<1>3. ASSUME NEW pc \in {"recheck", "dispatch", "dupready", "failed"},
             Goto(r, pc)
      PROVE  RInv(R, A)'
  BY <1>1, <1>2, <1>3, GotoFields, IdleDelivers
<1>4. ASSUME NEW pc \in {"poll", "dup"}, NEW b,
             task' = [task EXCEPT ![r].pc = pc, ![r].batch = b]
      PROVE  RInv(R, A)'
  <2>1. /\ Others(r) /\ task'[r].pc = pc
        /\ SameProgress(task[r], task'[r])
    BY <1>1, <1>4 DEF Others, SameProgress, Task
  <2> QED
    BY <1>2, <2>1, IdleDelivers
<1>5. CASE Probe(r) \/ JoinBatch(r)
  BY <1>3, <1>4, <1>5 DEF Probe, JoinBatch
<1>6. CASE Poll(r) \/ PollTimeout(r) \/ DupPoll(r) \/ DupTimeout(r)
  BY <1>3, <1>6 DEF Poll, PollTimeout, DupPoll, DupTimeout
<1>7. CASE Recheck(r) \/ DupReady(r)
  <2> DEFINE w == waiting_frontier(r)
  <2>1. is_query(r)
    BY <1>1, <1>7, RunningQuery DEF Recheck, DupReady, At, Ends
  <2>2. w.all_known =>
          /\ w.matched_client_id \in DOMAIN gemini
          /\ <<ask[r].hashes, said(gemini, w.matched_client_id)>> \in A
    BY <2>1 DEF Routed, waiting_frontier
  <2> HIDE DEF w
  <2>3. CASE w.all_known
    <3>1. ReplayFrom(r, w.matched_client_id)
      BY <1>7, <2>3 DEF Recheck, DupReady, w
    <3> QED
      BY <1>2, <2>1, <2>2, <2>3, <3>1, ReplayDelivers
  <2>4. CASE ~w.all_known
    BY <1>3, <1>7, <2>4 DEF Recheck, DupReady, w
  <2> QED
    BY <2>3, <2>4
<1> QED
  BY <1>5, <1>6, <1>7

\* A step of the handler that stores nothing and goes on to what needs what
\* it has sent.
LEMMA GoesOnDelivers ==
    ASSUME NEW R, NEW A, R \subseteq A, RInv(R, A), BInv', NEW r \in Request,
           UNCHANGED <<store, disk, gemini>>, Others(r),
           task'[r].pc \notin {"mark", "send", "ack", "complete", "store",
                              "streaming"},
           TaskCarries(R, A, r, task'[r], gemini)
    PROVE  RInv(R, A)'
<1>1. SameHistory(r, task'[r], store') /\ ~Holds(r)'
  BY DEF SameHistory, Holds
<1>2. Tame(store, store') /\ From(store, store') /\ Saves
  BY TameSame, FromSame DEF Saves
<1> QED
  BY <1>1, <1>2, WiderSame, TameDelivers

LEMMA ReplayingDelivers ==
    ASSUME NEW R, NEW A, R \subseteq A, RInv(R, A), BInv', NEW r \in Request,
           Replay(r) \/ StreamEnds(r)
    PROVE  RInv(R, A)'
<1>1. /\ IInv /\ task \in [Request -> Task]
      /\ TaskCarries(R, A, r, task[r], gemini)
  BY DEF RInv, Delivered, BInv, OInv, IInv, TypeOK
<1>2. UNCHANGED <<store, disk, gemini>>
  BY DEF Replay, StreamEnds
<1>3. CASE Replay(r)
  <2>1. CASE Goto(r, "failed")
    BY <1>1, <1>2, <2>1, GotoFields, IdleDelivers, WiderSame
  <2>2. ASSUME NEW ids,
               task' = [task EXCEPT ![r].pc = "fetch", ![r].fetch = ids]
        PROVE  RInv(R, A)'
    <3>1. /\ Others(r) /\ task'[r].pc = "fetch"
          /\ SameProgress(task[r], task'[r]) /\ task'[r].piece = task[r].piece
      BY <1>1, <2>2 DEF Others, SameProgress, Task
    <3>2. TaskCarries(R, A, r, task'[r], gemini)
      BY <1>1, <1>3, <3>1, TaskGoesOn DEF SameProgress, Replay, At
    <3> QED
      BY <1>2, <3>1, <3>2, GoesOnDelivers
  <2> QED
    BY <1>3, <2>1, <2>2 DEF Replay
<1>4. CASE StreamEnds(r)
  <2>1. /\ Others(r) /\ task'[r].pc = "done" /\ task'[r].node = task[r].last
        /\ task'[r].start = task[r].start /\ task'[r].prev = task[r].prev
        /\ task'[r].last = task[r].last
    BY <1>1, <1>4 DEF Others, StreamEnds, Task
  <2>2. TaskCarries(R, A, r, task'[r], gemini)
    BY <1>1, <1>4, <2>1, TaskAnswers DEF StreamEnds, At
  <2> QED
    BY <1>2, <2>1, <2>2, GoesOnDelivers
<1> QED
  BY <1>3, <1>4

LEMMA EndingDelivers ==
    ASSUME NEW R, NEW A, R \subseteq A, RInv(R, A), BInv', NEW r \in Request,
           \/ FetchFails(r) \/ PostFails(r) \/ StreamBreaks(r)
           \/ NoCreatedEvent(r) \/ TranslateFails(r) \/ ClientGone(r)
           \/ Cancel(r) \/ Clean(r)
    PROVE  RInv(R, A)'
<1>1. /\ IInv /\ task \in [Request -> Task]
      /\ TaskCarries(R, A, r, task[r], gemini)
  BY DEF RInv, Delivered, BInv, OInv, IInv, TypeOK
<1>2. UNCHANGED <<store, disk>>
  BY DEF FetchFails, PostFails, StreamBreaks, NoCreatedEvent, TranslateFails,
         ClientGone, Cancel, Clean
<1>3. CASE \/ FetchFails(r) \/ PostFails(r) \/ StreamBreaks(r)
           \/ NoCreatedEvent(r) \/ TranslateFails(r) \/ ClientGone(r)
  <2>1. Wider(gemini, gemini')
    BY <1>3, CallFailsWider, CreateWider, WiderSame
       DEF FetchFails, PostFails, StreamBreaks, NoCreatedEvent,
           TranslateFails, ClientGone
  <2>2. \E pc \in {"failed", "gone"} : Goto(r, pc)
    BY <1>3 DEF FetchFails, PostFails, StreamBreaks, NoCreatedEvent,
                TranslateFails, ClientGone
  <2> QED
    BY <1>1, <1>2, <2>1, <2>2, GotoFields, IdleDelivers
<1>4. CASE Cancel(r) \/ Clean(r)
  <2>1. Wider(gemini, gemini')
    BY <1>1, <1>4, set_stateWider, WiderSame DEF Cancel, Clean
  <2>2. task[r].pc \in {"cancel", "clean"}
    BY <1>4 DEF Cancel, Clean, At
  <2>3. task[r].pc = "clean" => ~is_query(r)
    BY <1>1 DEF TaskCarries
  <2>4. ASSUME NEW id, task' = [task EXCEPT ![r].undo = @ \ {id}]
        PROVE  RInv(R, A)'
    <3>1. /\ Others(r) /\ task'[r].pc = task[r].pc
          /\ SameProgress(task[r], task'[r])
      BY <1>1, <2>4 DEF Others, SameProgress, Task
    <3> QED
      BY <1>2, <2>1, <2>2, <2>3, <3>1, IdleDelivers
  <2>5. CASE Goto(r, "failed")
    BY <1>1, <1>2, <2>1, <2>5, GotoFields, IdleDelivers
  <2>6. CASE At(r, "clean") /\ Goto(r, "done") /\ gemini' = gemini
    <3>1. /\ Others(r) /\ task'[r].pc = "done" /\ ~is_query(r)
          /\ SameProgress(task[r], task'[r])
      BY <1>1, <2>3, <2>6, GotoFields DEF At
    <3>2. TaskCarries(R, A, r, task'[r], gemini)
      BY <1>1, <3>1 DEF TaskCarries, SameProgress
    <3> QED
      BY <1>2, <2>6, <3>1, <3>2, GoesOnDelivers
  <2> QED
    BY <1>4, <2>4, <2>5, <2>6 DEF Cancel, Clean
<1> QED
  BY <1>3, <1>4

-----------------------------------------------------------------------------
(* Steps that save, and steps that send *)

LEMMA TouchingDelivers ==
    ASSUME NEW R, NEW A, R \subseteq A, RInv(R, A), BInv', NEW r \in Request,
           Fetch(r) \/ Upsert(r) \/ ExtendLifetime(r)
    PROVE  RInv(R, A)'
<1>1. /\ IInv /\ task \in [Request -> Task] /\ StoreOK(store) /\ now \in Nat
      /\ TaskCarries(R, A, r, task[r], gemini)
  BY DEF RInv, Delivered, BInv, OInv, IInv, TypeOK
<1>2. gemini' = gemini /\ Wider(gemini, gemini')
  BY WiderSame DEF Fetch, Upsert, ExtendLifetime
<1>3. ASSUME NEW s, Commit(s), Tame(store, s), s.in_flight = store.in_flight,
             Others(r), task'[r].pc \in {"fetch", "done", "failed"},
             TaskCarries(R, A, r, task'[r], gemini)
      PROVE  RInv(R, A)'
  <2>1. store' = s /\ Saves /\ From(store, s)
    BY <1>3, CommitSaves, SameBatches
  <2>2. SameHistory(r, task'[r], store') /\ ~Holds(r)'
    BY <1>3 DEF SameHistory, Holds
  <2> QED
    BY <1>2, <1>3, <2>1, <2>2, TameDelivers
<1>4. CASE Fetch(r)
  <2>1. ASSUME NEW ids, NEW pc \in {"done", "fetch"},
               task' = [task EXCEPT ![r].fetch = ids, ![r].pc = pc]
        PROVE  /\ Others(r) /\ task'[r].pc = pc
               /\ SameProgress(task[r], task'[r])
               /\ task'[r].piece = task[r].piece
    BY <1>1, <2>1 DEF Others, SameProgress, Task
  <2>2. /\ Others(r) /\ task'[r].pc \in {"done", "fetch"}
        /\ SameProgress(task[r], task'[r]) /\ task'[r].piece = task[r].piece
    <3> DEFINE ids == Tail(task[r].fetch)
               pc  == IF Tail(task[r].fetch) = <<>> THEN "done" ELSE "fetch"
    <3>1. pc \in {"done", "fetch"}
      OBVIOUS
    <3>2. task' = [task EXCEPT ![r].fetch = ids, ![r].pc = pc]
      BY <1>1, <1>4 DEF Fetch
    <3> HIDE DEF ids, pc
    <3> QED
      BY <2>1, <3>1, <3>2
  <2>3. TaskCarries(R, A, r, task'[r], gemini)
    BY <1>1, <1>4, <2>2, TaskGoesOn DEF SameProgress, Fetch, At
  <2>4. Commit(store) /\ Tame(store, store)
    BY <1>4, TameSame DEF Fetch
  <2> QED
    BY <1>3, <2>2, <2>3, <2>4
<1>5. CASE Upsert(r)
  <2> DEFINE s == set_last_interaction(store, ask[r].session, task[r].last)
  <2>1. Commit(s) /\ Tame(store, s)
    BY <1>1, <1>5, TameSet DEF Upsert
  <2>2. s.in_flight = store.in_flight
    BY <1>1 DEF set_last_interaction, StoreOK
  <2> HIDE DEF s
  <2>3. CASE Goto(r, "failed")
    BY <1>1, <1>3, <2>1, <2>2, <2>3, GotoFields, TaskRests DEF SameProgress
  <2>4. CASE task' = [task EXCEPT ![r].pc = "done", ![r].node = task[r].last]
    <3>1. /\ Others(r) /\ task'[r].pc = "done"
          /\ task'[r].node = task[r].last
          /\ task'[r].start = task[r].start /\ task'[r].prev = task[r].prev
          /\ task'[r].last = task[r].last
      BY <1>1, <2>4 DEF Others, Task
    <3>2. TaskCarries(R, A, r, task'[r], gemini)
      BY <1>1, <1>5, <3>1, TaskAnswers DEF Upsert, At
    <3> QED
      BY <1>3, <2>1, <2>2, <3>1, <3>2
  <2> QED
    BY <1>5, <2>3, <2>4 DEF Upsert, Answer
<1>6. CASE ExtendLifetime(r)
  <2> DEFINE s == extend_lifetime(store, ask[r].session, now)
  <2>1. Commit(s) /\ Tame(store, s) /\ s.in_flight = store.in_flight
    BY <1>1, <1>6, TameExtend, extend_lifetime_From DEF ExtendLifetime
  <2>2. /\ Others(r) /\ task'[r].pc = "done" /\ ~is_query(r)
        /\ SameProgress(task[r], task'[r])
    BY <1>1, <1>6, GotoFields DEF ExtendLifetime, is_query
  <2>3. TaskCarries(R, A, r, task'[r], gemini)
    BY <1>1, <2>2 DEF TaskCarries, SameProgress
  <2> HIDE DEF s
  <2> QED
    BY <1>3, <2>1, <2>2, <2>3
<1> QED
  BY <1>4, <1>5, <1>6

LEMMA UndoingDelivers ==
    ASSUME NEW R, NEW A, RInv(R, A), BInv', NEW r \in Request,
           PieceFails(r) \/ CleanAll(r)
    PROVE  RInv(R, A)'
<1>1. /\ IInv /\ task \in [Request -> Task] /\ StoreOK(store)
      /\ Sound(store, gemini)
  BY DEF RInv, BInv, OInv, IInv, TypeOK
<1>2. ASSUME NEW pc \in {"cancel", "clean"}, NEW u,
             task' = [task EXCEPT ![r].pc = pc, ![r].undo = u]
      PROVE  /\ Others(r) /\ task'[r].pc = pc
             /\ SameProgress(task[r], task'[r])
  BY <1>1, <1>2 DEF Others, SameProgress, Task
<1>3. CASE PieceFails(r)
  <2> DEFINE s == fail_batch(store, task[r].batch)
  <2>1. /\ Others(r) /\ task'[r].pc = "cancel"
        /\ SameProgress(task[r], task'[r])
    BY <1>2, <1>3 DEF PieceFails
  <2>2. Commit(s) /\ Wider(gemini, gemini')
    BY <1>3, CallFailsWider DEF PieceFails
  <2>3. Tame(store, s) /\ From(store, s)
    BY <1>1, TameFail, fail_batch_From
  <2> HIDE DEF s
  <2> QED
    BY <2>1, <2>2, <2>3, CommitSaves, RestDelivers
<1>4. CASE CleanAll(r)
  <2> DEFINE s == clean_all(store)
  <2>1. /\ Others(r) /\ task'[r].pc = "clean" /\ ~is_query(r)
        /\ SameProgress(task[r], task'[r])
    BY <1>2, <1>4 DEF CleanAll, is_query
  <2>2. Commit(s) /\ Wider(gemini, gemini')
    BY <1>4, WiderSame DEF CleanAll
  <2>3. Tame(store, s)
    BY <1>1, TameEmpty
  <2>4. From(store, s)
    BY DEF From, clean_all, NewStore, EmptyMap
  <2> HIDE DEF s
  <2> QED
    BY <2>1, <2>2, <2>3, <2>4, CommitSaves, RestDelivers
<1> QED
  BY <1>3, <1>4

LEMMA MarkDelivers ==
    ASSUME NEW R, NEW A, RInv(R, A), BInv', NEW r \in Request, Mark(r)
    PROVE  RInv(R, A)'
<1> DEFINE s == mark_response_started(store, task[r].batch, task[r].piece)
<1>1. /\ IInv /\ StoreOK(store) /\ TaskCarries(R, A, r, task[r], gemini)
      /\ SameHistory(r, task[r], store) /\ task[r].pc = "mark"
  BY DEF RInv, Delivered, BInv, OInv, IInv, TypeOK, Mark, At
<1>2. /\ Others(r) /\ task'[r].pc = "send"
      /\ SameProgress(task[r], task'[r])
      /\ task'[r].batch = task[r].batch /\ task'[r].piece = task[r].piece
  BY <1>1, GotoFields DEF Mark
<1>3. store' = s /\ Saves /\ gemini' = gemini
  BY CommitSaves DEF Mark
<1>4. Tame(store, s) /\ From(store, s)
  BY <1>1, TameMark, mark_response_started_From
<1> HIDE DEF s
<1>5. TaskCarries(R, A, r, task'[r], gemini)
  BY <1>1, <1>2, TaskGoesOn DEF SameProgress
<1>6. SameHistory(r, task'[r], store')
  <2>1. SameHistory(r, task[r], store')
    BY <1>1, <1>3, <1>4, HistoryKept DEF Tame
  <2> QED
    BY <1>1, <1>2, <2>1 DEF SameHistory
<1>7. ~Holds(r)'
  BY <1>2 DEF Holds
<1> QED
  BY <1>2, <1>3, <1>4, <1>5, <1>6, <1>7, WiderSame, TameDelivers

LEMMA SendingDelivers ==
    ASSUME NEW R, NEW A, Keeps(R), RInv(R, A), BInv', NEW r \in Request,
           Post(r) \/ SendPiece(r)
    PROVE  RInv(R, A)'
<1>1. /\ IInv /\ task \in [Request -> Task]
      /\ TaskCarries(R, A, r, task[r], gemini)
      /\ SameHistory(r, task[r], store)
  BY DEF RInv, Delivered, BInv, OInv, IInv, TypeOK
<1>2. store' = store /\ disk' = disk
  BY DEF Post, SendPiece
<1>3. Tame(store, store') /\ From(store, store') /\ Saves
  BY <1>2, TameSame, FromSame DEF Saves
<1>4. is_query(r)
  BY <1>1, RunningQuery DEF Post, sends_whole, SendPiece, At, Ends
<1>5. CASE Post(r)
  <2>1. PICK x \in Id :
          /\ Create(x, task[r].prev, new_messages(r))
          /\ task' = [task EXCEPT ![r].last = x,
                       ![r].pc = IF ask[r].stream THEN "streaming" ELSE "store"]
    BY <1>5 DEF Post
  <2>2. ASSUME NEW pc,
               task' = [task EXCEPT ![r].last = x, ![r].pc = pc]
        PROVE  /\ task'[r].last = x /\ task'[r].prev = task[r].prev
               /\ task'[r].start = task[r].start
               /\ task'[r].node = task[r].node
               /\ task'[r].pc = pc /\ Others(r)
    BY <1>1, <2>2 DEF Others, Task
  <2>3. /\ task'[r].last = x /\ task'[r].prev = task[r].prev
        /\ task'[r].start = task[r].start /\ task'[r].node = task[r].node
        /\ task'[r].pc \in {"streaming", "store"} /\ Others(r)
    BY <2>1, <2>2
  <2>4. Wider(gemini, gemini') /\ x \in DOMAIN gemini' /\ x \notin DOMAIN gemini
    BY <2>1, CreateWider, CreateGrows
  <2>5. Carried(R, ask[r].hashes, task[r].prev, x, gemini')
    BY <1>4, <2>1, PostCarries
  <2>6. TaskCarries(R, A, r, task[r], gemini')
    BY <1>1, <2>4, TaskWider
  <2>7. TaskCarries(R, A, r, task'[r], gemini')
    BY <2>3, <2>4, <2>5, <2>6 DEF TaskCarries, Known
  <2>8. SameHistory(r, task'[r], store')
    BY <2>3 DEF SameHistory
  <2> QED
    BY <1>3, <2>3, <2>4, <2>7, <2>8, TameDelivers
<1>6. CASE SendPiece(r)
  <2>1. PICK x \in Id :
          /\ Create(x, task[r].last, piece_content(r))
          /\ task' = [task EXCEPT ![r].last = x, ![r].pc = "ack"]
    BY <1>6 DEF SendPiece
  <2>2. /\ task'[r].last = x /\ task'[r].prev = task[r].prev
        /\ task'[r].start = task[r].start /\ task'[r].node = task[r].node
        /\ task'[r].batch = task[r].batch /\ task'[r].piece = task[r].piece
        /\ task'[r].pc = "ack" /\ Others(r)
    BY <1>1, <2>1 DEF Others, Task
  <2>3. At(r, "send")
    BY <1>6 DEF SendPiece
  <2>4. Wider(gemini, gemini') /\ x \in DOMAIN gemini' /\ x \notin DOMAIN gemini
    BY <2>1, CreateWider, CreateGrows
  <2>5. SentSoFar(R, r, task'[r], task'[r].piece, gemini')
    BY <2>1, <2>2, <2>3, PieceCarries
  <2>6. TaskCarries(R, A, r, task[r], gemini')
    BY <1>1, <2>4, TaskWider
  <2>7. TaskCarries(R, A, r, task'[r], gemini')
    BY <2>2, <2>4, <2>5, <2>6 DEF TaskCarries, Known
  <2>8. SameHistory(r, task'[r], store')
    BY <1>1, <1>2, <2>2, <2>3 DEF SameHistory, At
  <2> QED
    BY <1>3, <2>2, <2>4, <2>7, <2>8, TameDelivers
<1> QED
  BY <1>5, <1>6

\* A piece is acknowledged: the last one with what carries the history.
LEMMA AckDelivers ==
    ASSUME NEW R, NEW A, RInv(R, A), BInv', NEW r \in Request, Ack(r)
    PROVE  RInv(R, A)'
<1> DEFINE b == task[r].batch
           i == task[r].piece
           x == task[r].last
           s == ack_piece(mark_sent(store, b, i, x), b, i, x)
<1>1. /\ IInv /\ task \in [Request -> Task] /\ StoreOK(store) /\ InStep(r)
      /\ TaskCarries(R, A, r, task[r], gemini) /\ task[r].pc = "ack"
      /\ SameHistory(r, task[r], store) /\ StoreCarries(R, store, gemini)
      /\ Linked(store) /\ IndexIsPast /\ Holds(r) /\ Working(r)
      /\ x \in Id /\ i \in 1 .. piece_count(r) /\ x \in DOMAIN gemini
  BY DEF RInv, Delivered, BInv, OInv, IInv, TypeOK, Ack, At, Holds, Progress,
         Working, InteractionsHaveOneOwner, OneHolder
<1>2. is_query(r)
  BY <1>1, RunningQuery DEF Ends
<1>3. /\ Others(r) /\ task'[r].batch = b
      /\ SameProgress(task[r], task'[r])
      /\ \/ task'[r].pc = "mark" /\ task'[r].piece = i + 1
         \/ task'[r].pc = "complete" /\ i = piece_count(r)
         \/ task'[r].pc = "failed"
  BY <1>1 DEF Ack, Goto, Task, Others, SameProgress
<1>4. store' = s /\ Saves /\ gemini' = gemini
  BY CommitSaves DEF Ack
<1>5. SentSoFar(R, r, task[r], i, gemini)
  BY <1>1, <1>2 DEF TaskCarries
<1>6. i = piece_count(r) =>
        Carried(R, ask[r].hashes, task[r].prev, x, gemini)
  BY <1>1, <1>2, <1>5, AllSent
<1>7. TaskCarries(R, A, r, task'[r], gemini)
  <2>1. CASE task'[r].pc = "mark" /\ task'[r].piece = i + 1
    <3>1. (i + 1) - 1 = i
      BY <1>1
    <3>2. SentSoFar(R, r, task'[r], i, gemini)
      BY <1>3, <1>5 DEF SentSoFar, reached, prompt_parts, SameProgress
    <3> QED
      BY <1>1, <1>3, <2>1, <3>1, <3>2 DEF TaskCarries, SameProgress
  <2>2. CASE task'[r].pc = "complete" /\ i = piece_count(r)
    BY <1>1, <1>3, <1>6, <2>2 DEF TaskCarries, SameProgress
  <2>3. CASE task'[r].pc = "failed"
    BY <1>1, <1>3, <2>3, TaskRests DEF SameProgress
  <2> QED
    BY <1>3, <2>1, <2>2, <2>3
<1>8. StoreCarries(R, s, gemini) /\ HistoriesKept(store, s)
  <2>1. CASE b \notin DOMAIN store.in_flight
    BY <1>1, <2>1, acknowledge_Absent DEF HistoriesKept
  <2>2. CASE b \in DOMAIN store.in_flight
    <3> DEFINE batch == store.in_flight[b]
    <3>1. batch.pieces \in Seq(Piece)
      BY <1>1, <2>2 DEF StoreOK, IsMap, InFlightBatch
    <3>2. /\ DOMAIN batch.pieces = 1 .. piece_count(r)
          /\ batch.pieces[i].status = "ResponseStarted"
          /\ batch.prev_interaction_id = task[r].prev
      BY <1>1, <2>2 DEF InStep
    <3>3. batch.message_hashes = ask[r].hashes
      BY <1>1, <2>2 DEF SameHistory
    <3>4. has_piece(store, b, i)
      BY <1>1, <2>2, <3>2 DEF has_piece
    <3>5. Len(batch.pieces) = piece_count(r)
      BY <1>1, <1>2, <3>1, <3>2, piece_count_OK
    <3>6. i = Len(batch.pieces) =>
            Carried(R, batch.message_hashes, batch.prev_interaction_id, x,
                    gemini)
      BY <1>6, <3>2, <3>3, <3>5
    <3> QED
      BY <1>1, <2>2, <3>2, <3>4, <3>6, AckStore
  <2> QED
    BY <2>1, <2>2
<1>9. /\ s.clients = store.clients
      /\ \A c \in DOMAIN s.in_flight : \A id \in Id :
            InBatch(s, c, id) => InBatch(store, c, id) \/ id = x
  BY <1>1, acknowledge_From
<1>10. s.prev_to_client = store.prev_to_client
  BY <1>1, acknowledge_Index
<1> HIDE DEF s
<1>11. TakesNew
  <2> SUFFICES ASSUME NEW id \in Id, Taken(id)' PROVE Taken(id)
    BY DEF TakesNew
  <2>1. CASE \E c \in DOMAIN store'.in_flight : InBatch(store', c, id)
    <3>1. \A c : InBatch(store, c, id) => c \in DOMAIN store.in_flight
      BY DEF InBatch
    <3> QED
      BY <1>1, <1>4, <1>9, <2>1, <3>1 DEF Taken
  <2>2. CASE \E q \in Request : Holds(q)' /\ task'[q].last = id
    BY <1>3, <2>2 DEF Taken, Others, Holds
  <2> QED
    BY <2>1, <2>2 DEF Taken
<1>12. IndexIsPast'
  BY <1>1, <1>4, <1>10, <1>11, IndexStep DEF BInv, IsIndexed
<1>13. Linked(store')
  BY <1>1, <1>4, <1>9, <1>10 DEF Linked
<1>14. /\ SameHistory(r, task'[r], store')
       /\ \A q \in Request \ {r} : SameHistory(q, task[q], store')
  <2>1. \A q \in Request : SameHistory(q, task[q], store')
    BY <1>4, <1>8, HistoryKept DEF RInv, Delivered
  <2> QED
    BY <1>1, <1>3, <2>1 DEF SameHistory
<1> QED
  BY <1>3, <1>4, <1>7, <1>8, <1>12, <1>13, <1>14, WiderSame, DeliveredStep

\* A batch is created for what is not known yet.
LEMMA CreateBatchDelivers ==
    ASSUME NEW R, NEW A, RInv(R, A), BInv', NEW r \in Request,
           CreateBatch(r), NameIsFree(r)
    PROVE  RInv(R, A)'
<1> DEFINE b == <<ask[r].session, now>>
           n == piece_count(r)
           h == ask[r].hashes
           s == create_batch(store, b, task[r].prev, h, system_hash(r), n)
<1>1. /\ IInv /\ task \in [Request -> Task] /\ StoreOK(store)
      /\ TaskCarries(R, A, r, task[r], gemini) /\ is_query(r)
      /\ StoreCarries(R, store, gemini) /\ Linked(store) /\ IndexIsPast
      /\ Progress(r)
  BY RunningQuery
     DEF RInv, Delivered, BInv, OInv, IInv, TypeOK, CreateBatch, At, Ends
<1>2. /\ store' = s /\ Saves /\ gemini' = gemini
  BY CommitSaves DEF CreateBatch
<1>3. /\ Others(r) /\ task'[r].pc = "mark" /\ task'[r].batch = b
      /\ task'[r].piece = 1 /\ task'[r].last = task[r].prev
      /\ task'[r].prev = task[r].prev /\ task'[r].start = task[r].start
      /\ task'[r].node = task[r].node
  <2>1. ASSUME NEW c,
               task' = [task EXCEPT ![r].pc = "mark", ![r].batch = c,
                                    ![r].piece = 1, ![r].last = task[r].prev]
        PROVE  /\ Others(r) /\ task'[r].pc = "mark" /\ task'[r].batch = c
               /\ task'[r].piece = 1 /\ task'[r].last = task[r].prev
               /\ task'[r].prev = task[r].prev
               /\ task'[r].start = task[r].start
               /\ task'[r].node = task[r].node
    BY <1>1, <2>1 DEF Task, Others
  <2> HIDE DEF b
  <2> QED
    BY <2>1 DEF CreateBatch, b
<1>4. h \in Seq(Hash) /\ task[r].start \in 0 .. Len(h) - 1
  <2>1. h \in Seq(Hash) /\ task[r].start \in Nat
    BY <1>1, AskOK DEF Task
  <2>2. task[r].start < Len(h)
    BY <1>1 DEF Progress
  <2> QED
    BY <2>1, <2>2
<1>5. <<SubSeq(h, 1, task[r].start), said(gemini, task[r].prev)>> \in R
  BY <1>1 DEF TaskCarries
<1>6. Based(R, h, task[r].prev, gemini)
  BY <1>1, <1>4, <1>5 DEF Based, Histories, TaskCarries
<1>7. n \in Nat \ {0}
  BY <1>1, piece_count_OK
<1>8. /\ StoreCarries(R, s, gemini) /\ s.clients = store.clients
      /\ s.prev_to_client = store.prev_to_client
      /\ OtherBatches(store, s, b) /\ s.in_flight[b].message_hashes = h
  BY <1>1, <1>6, <1>7, CreateStore
<1>9. From(store, s)
  BY <1>1, create_batch_From
<1>10. \A q \in Request : Working(q) => task[q].batch # b
  BY DEF NameIsFree
<1> HIDE DEF s, n, b
<1>11. TaskCarries(R, A, r, task'[r], gemini)
  <2>1. reached(r, task'[r], 0) = task[r].start
    <3>1. prompt_parts(r, task'[r]) \in Nat
      BY <1>1, AskOK DEF prompt_parts
    <3> QED
      BY <1>3, <1>4, <3>1 DEF reached
  <2>2. SentSoFar(R, r, task'[r], 0, gemini)
    BY <1>3, <1>5, <2>1 DEF SentSoFar
  <2> QED
    BY <1>1, <1>3, <1>5, <2>2 DEF TaskCarries
<1>12. /\ SameHistory(r, task'[r], store')
       /\ \A q \in Request \ {r} : SameHistory(q, task[q], store')
  BY <1>2, <1>3, <1>8, <1>10
     DEF SameHistory, OtherBatches, Working, RInv, Delivered
<1>13. TakesNew
  BY <1>2, <1>3, <1>9, TakesFrom DEF Holds
<1>14. IndexIsPast'
  BY <1>1, <1>2, <1>8, <1>13, IndexStep DEF BInv, IsIndexed
<1>15. Linked(store')
  BY <1>1, <1>2, <1>8 DEF Linked
<1> QED
  BY <1>2, <1>3, <1>8, <1>11, <1>12, <1>14, <1>15, WiderSame, DeliveredStep

-----------------------------------------------------------------------------
(* Steps that publish, start-up and restarts *)

\* Any step that keeps what is known of the progress of every request.
LEMMA DeliveredAll ==
    ASSUME NEW R, NEW A, RInv(R, A), BInv', Wider(gemini, gemini'),
           StoreCarries(R, store', gemini'), Saves,
           \A q \in Request : /\ TaskCarries(R, A, q, task'[q], gemini')
                              /\ SameHistory(q, task'[q], store'),
           Linked(store'), IndexIsPast'
    PROVE  RInv(R, A)'
<1>1. StoreCarries(R, disk', gemini')
  BY SavedStore DEF RInv, Delivered
<1>2. Delivered(R, A)'
  BY <1>1 DEF Delivered
<1> QED
  BY <1>2 DEF RInv

LEMMA TakesQuiet ==
    ASSUME QuietTasks, From(store, store')
    PROVE  TakesNew
<1> SUFFICES ASSUME NEW id \in Id, Taken(id)'
             PROVE  Taken(id)
  BY DEF TakesNew
<1>1. CASE \E b \in DOMAIN store'.in_flight : InBatch(store', b, id)
  <2>1. \A b : InBatch(store, b, id) => b \in DOMAIN store.in_flight
    BY DEF InBatch
  <2> QED
    BY <1>1, <2>1 DEF From, Taken
<1>2. CASE \E q \in Request : Holds(q)' /\ task'[q].last = id
  BY <1>2 DEF Taken, QuietTasks
<1> QED
  BY <1>1, <1>2 DEF Taken

\* The tasks of all requests are as before, or need nothing of a batch.
CarryOn(R, A) ==
    \A q \in Request :
        /\ TaskCarries(R, A, q, task'[q], gemini')
        /\ \/ task'[q] = task[q]
           \/ task'[q].pc \notin {"mark", "send", "ack", "complete"}

\* Interaction x, which a batch or a handler has, becomes a client node.
LEMMA PublishDelivers ==
    ASSUME NEW R, NEW A, RInv(R, A), BInv', gemini' = gemini, Saves,
           QuietTasks, CarryOn(R, A), NEW x \in Id, Taken(x), NEW node,
           Publishes(store, store', x, node),
           NodeCarries(R, x, node, gemini), node.message_hashes \in Seq(Hash)
    PROVE  RInv(R, A)'
<1>1. /\ StoreCarries(R, store, gemini) /\ Linked(store) /\ IndexIsPast
  BY DEF RInv, Delivered
<1>2. Wider(gemini, gemini')
  BY WiderSame
<1>3. StoreCarries(R, store', gemini')
  BY <1>1, PublishedStore
<1>4. \A p \in DOMAIN store.prev_to_client : store.prev_to_client[p] # x
  BY <1>1 DEF IndexIsPast, IsIndexed
<1>5. Linked(store')
  BY <1>1, <1>4, PublishedLinks
<1>6. From(store, store')
  BY DEF Publishes, From, InBatch
<1>7. TakesNew
  BY <1>6, TakesQuiet
<1>8. \A id \in Id : IsIndexed(id, store') =>
         IsIndexed(id, store) \/ id \in DOMAIN store'.clients
  BY DEF Publishes, IsIndexed, Put
<1>9. IndexIsPast'
  BY <1>1, <1>7, <1>8, IndexStep DEF BInv
<1>10. \A q \in Request : SameHistory(q, task'[q], store')
  BY DEF RInv, Delivered, SameHistory, Publishes, CarryOn
<1> QED
  BY <1>2, <1>3, <1>5, <1>9, <1>10, DeliveredAll DEF CarryOn

\* The store changes only as Tame says.
LEMMA QuietDelivers ==
    ASSUME NEW R, NEW A, RInv(R, A), BInv', gemini' = gemini, Saves,
           QuietTasks, CarryOn(R, A), Tame(store, store'), From(store, store')
    PROVE  RInv(R, A)'
<1>1. Wider(gemini, gemini') /\ TakesNew
  BY WiderSame, TakesQuiet
<1>2. StoreCarries(R, store', gemini') /\ Linked(store')
  BY TameStore, TameLinked DEF RInv, Delivered
<1>3. \A id \in Id : IsIndexed(id, store') => IsIndexed(id, store)
  BY DEF Tame, IsIndexed
<1>4. IndexIsPast'
  BY <1>1, <1>3, IndexStep DEF BInv, RInv, Delivered
<1>5. \A q \in Request : SameHistory(q, task[q], store')
  BY HistoryKept DEF RInv, Delivered, Tame
<1>6. \A q \in Request : SameHistory(q, task'[q], store')
  BY <1>5 DEF SameHistory, CarryOn
<1> QED
  BY <1>1, <1>2, <1>4, <1>6, DeliveredAll DEF CarryOn

\* The tasks after a step of the handler of r.
LEMMA OneCarriesOn ==
    ASSUME NEW R, NEW A, RInv(R, A), gemini' = gemini, NEW r \in Request,
           Others(r), TaskCarries(R, A, r, task'[r], gemini'),
           task'[r].pc \notin {"mark", "send", "ack", "complete", "store",
                              "streaming"}
    PROVE  CarryOn(R, A) /\ QuietTasks
BY DEF CarryOn, QuietTasks, Holds, RInv, Delivered, Others

LEMMA StoringDelivers ==
    ASSUME NEW R, NEW A, R \subseteq A, RInv(R, A), BInv', NEW r \in Request,
           StoreNode(r) \/ StreamCreated(r)
    PROVE  RInv(R, A)'
<1> DEFINE x == task[r].last
<1>1. /\ IInv /\ task \in [Request -> Task] /\ Holds(r) /\ x \in Id
      /\ task[r].pc \in {"store", "streaming"} /\ Progress(r)
      /\ TaskCarries(R, A, r, task[r], gemini)
  BY DEF RInv, Delivered, BInv, OInv, IInv, TypeOK, StoreNode, StreamCreated,
         At, Holds, Progress
<1>2. is_query(r) /\ ask[r].hashes \in Seq(Hash)
  BY <1>1, RunningQuery, AskOK DEF Ends
<1>3. gemini' = gemini /\ store' = with_node(r) /\ Saves
  BY CommitSaves DEF StoreNode, StreamCreated
<1>4. PICK node : /\ Publishes(store, with_node(r), x, node)
                  /\ node.prev_id = task[r].prev
                  /\ node.message_hashes = ask[r].hashes
  BY <1>1, with_node_Publishes
<1>5. Taken(x)
  BY <1>1 DEF Taken
<1>6. NodeCarries(R, x, node, gemini)
  <2> DEFINE h == ask[r].hashes
  <2>1. /\ <<SubSeq(h, 1, task[r].start), said(gemini, task[r].prev)>> \in R
        /\ Carried(R, h, task[r].prev, x, gemini)
        /\ task[r].prev \in Known(gemini)
    BY <1>1, <1>2 DEF TaskCarries
  <2>2. task[r].start \in 0 .. Len(h) - 1
    <3>1. task[r].start \in Nat /\ task[r].start < Len(h)
      BY <1>1, <1>2 DEF Progress, Task
    <3> QED
      BY <1>2, <3>1
  <2>3. Based(R, h, task[r].prev, gemini)
    BY <1>2, <2>1, <2>2 DEF Based, Histories
  <2> QED
    BY <1>4, <2>1, <2>3 DEF NodeCarries
<1>7. /\ Others(r) /\ TaskCarries(R, A, r, task'[r], gemini')
      /\ task'[r].pc \in {"draining", "done", "failed"}
  <2>1. CASE Goto(r, "failed")
    BY <1>1, <1>3, <2>1, GotoFields, TaskRests DEF SameProgress
  <2>2. CASE At(r, "store")
             /\ task' = [task EXCEPT ![r].pc = "done", ![r].node = x]
    <3>1. /\ Others(r) /\ task'[r].pc = "done" /\ task'[r].node = x
          /\ task'[r].start = task[r].start /\ task'[r].prev = task[r].prev
          /\ task'[r].last = task[r].last
      BY <1>1, <2>2 DEF Others, Task
    <3> QED
      BY <1>1, <1>3, <3>1, TaskAnswers
  <2>3. CASE At(r, "streaming") /\ Goto(r, "draining")
    BY <1>1, <1>3, <2>3, GotoFields, TaskGoesOn DEF SameProgress, At
  <2> QED
    BY <2>1, <2>2, <2>3 DEF StoreNode, StreamCreated, Answer
<1>8. CarryOn(R, A) /\ QuietTasks
  BY <1>3, <1>7, OneCarriesOn
<1> QED
  BY <1>1, <1>2, <1>3, <1>4, <1>5, <1>6, <1>8, PublishDelivers

\* The steps that complete a batch.
LEMMA CompletingDelivers ==
    ASSUME NEW R, NEW A, RInv(R, A), BInv', gemini' = gemini, Saves,
           QuietTasks, CarryOn(R, A), NEW b \in DOMAIN store.in_flight,
           store' = complete_batch(store, b, now)
    PROVE  RInv(R, A)'
<1> DEFINE batch == store.in_flight[b]
           ids   == batch_ids(batch)
           x     == ids[Len(ids)]
<1>1. /\ StoreOK(store) /\ now \in Nat /\ batch \in InFlightBatch
      /\ BatchCarries(R, batch, gemini)
  BY DEF RInv, Delivered, BInv, OInv, IInv, TypeOK, StoreOK, IsMap,
         StoreCarries
<1>2. CASE ~batch_is_complete(store, b)
  <2>1. Tame(store, store')
    BY <1>1, <1>2, TameIncomplete
  <2>2. store'.in_flight = Without(store.in_flight, {b})
    BY <1>1, complete_batch_From
  <2>3. From(store, store')
    BY <2>2 DEF From, InBatch, Without
  <2> QED
    BY <2>1, <2>3, QuietDelivers
<1>3. CASE batch_is_complete(store, b)
  <2>1. /\ batch.pieces \in Seq(Piece) /\ Len(batch.pieces) \in Nat \ {0}
        /\ batch.message_hashes \in Seq(Hash)
    BY <1>1 DEF InFlightBatch
  <2> DEFINE n == Len(batch.pieces)
  <2>2. /\ n \in DOMAIN batch.pieces /\ Len(ids) = n
        /\ x = batch.pieces[n].interaction_id
    BY <2>1 DEF batch_ids
  <2>3. IsAcked(batch.pieces[n])
    BY <1>3, <2>2 DEF batch_is_complete
  <2>4. x \in Id
    BY <2>1, <2>2, <2>3 DEF Piece, IsAcked
  <2>5. Taken(x)
    BY <2>2 DEF Taken, InBatch
  <2>6. Publishes(store, store', x, NodeOf(batch, now))
    BY <1>1, <1>3, CompletePublishes
  <2>7. /\ Based(R, batch.message_hashes, batch.prev_interaction_id, gemini)
        /\ Carried(R, batch.message_hashes, batch.prev_interaction_id, x,
                   gemini)
    BY <1>1, <2>2, <2>3 DEF BatchCarries
  <2> HIDE DEF x, batch
  <2>8. /\ NodeOf(batch, now).message_hashes = batch.message_hashes
        /\ NodeOf(batch, now).prev_id = batch.prev_interaction_id
    BY DEF NodeOf
  <2>9. NodeCarries(R, x, NodeOf(batch, now), gemini)
    BY <2>7, <2>8 DEF NodeCarries
  <2> QED
    BY <2>1, <2>4, <2>5, <2>6, <2>8, <2>9, PublishDelivers
<1> QED
  BY <1>2, <1>3

LEMMA CompleteDelivers ==
    ASSUME NEW R, NEW A, R \subseteq A, RInv(R, A), BInv', NEW r \in Request,
           Complete(r)
    PROVE  RInv(R, A)'
<1> DEFINE b == task[r].batch
           batch == store.in_flight[b]
           ids == batch_ids(batch)
<1>1. /\ IInv /\ task \in [Request -> Task] /\ StoreOK(store) /\ InStep(r)
      /\ TaskCarries(R, A, r, task[r], gemini) /\ task[r].pc = "complete"
      /\ Working(r)
  BY DEF RInv, Delivered, BInv, OInv, IInv, TypeOK, Complete, At, Working
<1>2. gemini' = gemini /\ is_query(r)
  BY <1>1, RunningQuery DEF Complete, Ends
<1>3. Saves
  BY CommitSaves DEF Complete, Saves
<1>4. batch_is_complete(store, b) => ids[Len(ids)] = task[r].last
  <2> SUFFICES ASSUME batch_is_complete(store, b)
               PROVE  ids[Len(ids)] = task[r].last
    OBVIOUS
  <2>1. b \in DOMAIN store.in_flight
    BY DEF batch_is_complete
  <2>2. /\ DOMAIN batch.pieces = 1 .. piece_count(r)
        /\ task[r].last = batch.pieces[piece_count(r)].interaction_id
    BY <1>1, <2>1 DEF InStep
  <2>3. batch.pieces \in Seq(Piece) /\ piece_count(r) \in Nat \ {0}
    BY <1>1, <1>2, <2>1, piece_count_OK DEF StoreOK, IsMap, InFlightBatch
  <2>4. Len(batch.pieces) = piece_count(r)
    BY <2>2, <2>3
  <2> QED
    BY <2>2, <2>3, <2>4 DEF batch_ids
<1> HIDE DEF ids
<1>5. /\ Others(r) /\ TaskCarries(R, A, r, task'[r], gemini')
      /\ task'[r].pc \in {"upsert", "done", "failed"}
  <2>1. CASE Goto(r, "failed")
    BY <1>1, <1>2, <2>1, GotoFields, TaskRests DEF SameProgress
  <2>2. CASE Goto(r, "upsert")
    BY <1>1, <1>2, <2>2, GotoFields, TaskGoesOn DEF SameProgress
  <2>3. CASE /\ batch_is_complete(store, b)
             /\ task' = [task EXCEPT ![r].pc = "done",
                                     ![r].node = ids[Len(ids)]]
    <3>1. task' = [task EXCEPT ![r].pc = "done", ![r].node = task[r].last]
      BY <1>4, <2>3
    <3>2. /\ Others(r) /\ task'[r].pc = "done"
          /\ task'[r].node = task[r].last
          /\ task'[r].start = task[r].start /\ task'[r].prev = task[r].prev
          /\ task'[r].last = task[r].last
      BY <1>1, <3>1 DEF Others, Task
    <3> QED
      BY <1>1, <1>2, <3>2, TaskAnswers
  <2> QED
    BY <2>1, <2>2, <2>3 DEF Complete, Answer, ids
<1>6. CarryOn(R, A) /\ QuietTasks
  BY <1>2, <1>5, OneCarriesOn
<1>7. CASE b \in DOMAIN store.in_flight
  <2>1. store' = complete_batch(store, b, now)
    BY <1>7, CommitSaves DEF Complete
  <2> QED
    BY <1>2, <1>3, <1>6, <1>7, <2>1, CompletingDelivers
<1>8. CASE b \notin DOMAIN store.in_flight
  <2>1. store' = store
    BY <1>8 DEF Complete, batch_is_complete
  <2>2. Tame(store, store') /\ From(store, store')
    BY <2>1, TameSame, FromSame
  <2> QED
    BY <1>2, <1>3, <1>6, <2>2, QuietDelivers
<1> QED
  BY <1>7, <1>8

LEMMA StartupDelivers ==
    ASSUME NEW R, NEW A, RInv(R, A), BInv', Startup
    PROVE  RInv(R, A)'
<1>1. task' = task /\ gemini' = gemini /\ Saves
  BY CommitSaves DEF Startup, StartupComplete, StartupDiscard, Saves
<1>2. CarryOn(R, A) /\ QuietTasks
  BY <1>1 DEF CarryOn, QuietTasks, Holds, RInv, Delivered
<1>3. CASE StartupComplete
  BY <1>1, <1>2, <1>3, CompletingDelivers DEF StartupComplete
<1>4. CASE StartupDiscard
  <2> DEFINE s == discard_all_inflight(store)
  <2>1. StoreOK(store)
    BY DEF RInv, BInv, OInv, IInv, TypeOK
  <2>2. s.in_flight = EmptyMap
    BY <2>1 DEF discard_all_inflight, StoreOK
  <2>3. store' \in {store, s}
    BY <1>4, CommitSaves DEF StartupDiscard
  <2>4. Tame(store, s) /\ Tame(store, store)
    BY <2>1, TameEmpty, TameSame
  <2>5. From(store, s) /\ From(store, store)
    BY <2>2, FromSame DEF From, EmptyMap
  <2> HIDE DEF s
  <2> QED
    BY <1>1, <1>2, <2>3, <2>4, <2>5, QuietDelivers
<1> QED
  BY <1>3, <1>4 DEF Startup

\* A restart rebuilds the index from the document.
LEMMA CrashDelivers ==
    ASSUME NEW R, NEW A, Keeps(R), RInv(R, A), BInv', Crash
    PROVE  RInv(R, A)'
<1>1. /\ store'.clients = disk.clients /\ store'.in_flight = disk.in_flight
  BY load_from_disk_Keeps DEF Crash
<1>2. disk' = disk /\ gemini' = gemini /\ OInv'
  BY DEF Crash, BInv
<1>3. StoreCarries(R, store', gemini') /\ StoreCarries(R, disk', gemini')
  BY <1>1, <1>2 DEF RInv, Delivered, StoreCarries, Bounded, told
<1>4. ASSUME NEW q \in Request
      PROVE  /\ TaskCarries(R, A, q, task'[q], gemini')
             /\ SameHistory(q, task'[q], store') /\ ~Holds(q)'
  <2>1. TaskCarries(R, A, q, task[q], gemini)
    BY DEF RInv, Delivered
  <2>2. CASE in_progress(q)
    <3> DEFINE t == [NewTask EXCEPT !.pc = "gone"]
    <3>1. /\ t.pc = "gone" /\ t.prev = NoId /\ t.last = NoId
          /\ t.node = NoId /\ t.start = 0
      BY DEF NewTask
    <3>2. task'[q] = t
      BY <2>2 DEF Crash
    <3> HIDE DEF t
    <3>3. <<SubSeq(ask[q].hashes, 1, 0), <<>>>> \in R
      <4>1. SubSeq(ask[q].hashes, 1, 0) = <<>>
        BY AskOK, WholeHistory
      <4> QED
        BY <4>1 DEF Keeps
    <3>4. TaskCarries(R, A, q, t, gemini')
      BY <3>1, <3>3 DEF TaskCarries, Known, said
    <3> QED
      BY <3>1, <3>2, <3>4 DEF SameHistory, Holds
  <2>3. CASE ~in_progress(q)
    <3>1. task'[q] = task[q] /\ task[q].pc \in Ends \cup {"idle"}
      BY <2>3 DEF Crash, in_progress
    <3> QED
      BY <1>2, <2>1, <3>1 DEF Ends, SameHistory, Holds
  <2> QED
    BY <2>2, <2>3
<1>5. /\ \A p \in DOMAIN store'.prev_to_client :
           /\ store'.prev_to_client[p] \in DOMAIN store'.clients
           /\ store'.clients[store'.prev_to_client[p]].prev_id = p
  BY <1>1, load_from_disk_Links DEF Crash
<1>6. Linked(store')
  BY <1>5 DEF Linked
<1>7. IndexIsPast'
  <2> SUFFICES ASSUME NEW id \in Id, IsIndexed(id, store')
               PROVE  id \in DOMAIN gemini' /\ ~Taken(id)'
    BY DEF IndexIsPast
  <2>1. id \in DOMAIN store'.clients
    BY <1>5 DEF IsIndexed
  <2>2. InteractionsHaveOneOwner'
    BY <1>2 DEF OInv
  <2>3. id \in DOMAIN gemini'
    BY <2>1, <2>2 DEF InteractionsHaveOneOwner, OneOwner
  <2>4. \A b \in DOMAIN store'.in_flight : ~InBatch(store', b, id)
    BY <2>1, <2>2 DEF InteractionsHaveOneOwner, OneOwner
  <2> QED
    BY <1>4, <2>3, <2>4 DEF Taken
<1>8. Delivered(R, A)'
  BY <1>3, <1>4, <1>6, <1>7 DEF Delivered
<1> QED
  BY <1>8 DEF RInv

-----------------------------------------------------------------------------
(* All steps *)

LEMMA InitDelivers ==
    ASSUME NEW R, NEW A, Keeps(R), Init
    PROVE  RInv(R, A)
<1>1. BInv
  BY InitBInv
<1>2. /\ store.clients = EmptyMap /\ store.in_flight = EmptyMap
      /\ store.prev_to_client = EmptyMap
      /\ disk.clients = EmptyMap /\ disk.in_flight = EmptyMap
  BY DEF Init, NewStore, Document
<1>3. StoreCarries(R, store, gemini) /\ StoreCarries(R, disk, gemini)
  BY <1>2, FS_EmptySet DEF StoreCarries, EmptyMap, Bounded
<1>4. Linked(store) /\ IndexIsPast
  BY <1>2 DEF Linked, IndexIsPast, IsIndexed, EmptyMap
<1>5. ASSUME NEW r \in Request
      PROVE  /\ TaskCarries(R, A, r, task[r], gemini)
             /\ SameHistory(r, task[r], store)
  <2>1. /\ task[r].pc = "idle" /\ task[r].prev = NoId /\ task[r].last = NoId
        /\ task[r].node = NoId /\ task[r].start = 0
    BY DEF Init, NewTask
  <2>2. <<SubSeq(ask[r].hashes, 1, 0), <<>>>> \in R
    <3>1. SubSeq(ask[r].hashes, 1, 0) = <<>>
      BY AskOK, WholeHistory
    <3> QED
      BY <3>1 DEF Keeps
  <2> QED
    BY <2>1, <2>2 DEF TaskCarries, SameHistory, Known, said
<1>6. Delivered(R, A)
  BY <1>3, <1>4, <1>5 DEF Delivered
<1> QED
  BY <1>1, <1>6 DEF RInv

LEMMA HandlerDelivers ==
    ASSUME NEW R, NEW A, Keeps(R), R \subseteq A, RInv(R, A), Routed(R, A),
           BInv', NEW r \in Request, Handler(r), NameIsFree(r)
    PROVE  RInv(R, A)'
<1>1. CASE \/ Arrive(r) \/ Probe(r) \/ Poll(r) \/ PollTimeout(r)
           \/ Recheck(r) \/ JoinBatch(r) \/ DupPoll(r) \/ DupTimeout(r)
           \/ DupReady(r) \/ Replay(r) \/ StreamEnds(r)
  BY <1>1, ArriveDelivers, WaitingDelivers, ReplayingDelivers
<1>2. CASE \/ FetchFails(r) \/ PostFails(r) \/ StreamBreaks(r)
           \/ NoCreatedEvent(r) \/ TranslateFails(r)
           \/ Cancel(r) \/ Clean(r)
  BY <1>2, EndingDelivers
<1>3. CASE \/ Fetch(r) \/ Upsert(r) \/ ExtendLifetime(r)
           \/ PieceFails(r) \/ CleanAll(r)
  BY <1>3, TouchingDelivers, UndoingDelivers
<1>4. CASE Post(r) \/ SendPiece(r) \/ Mark(r) \/ Ack(r) \/ CreateBatch(r)
  BY <1>4, SendingDelivers, MarkDelivers, AckDelivers, CreateBatchDelivers
<1>5. CASE StoreNode(r) \/ StreamCreated(r) \/ Complete(r)
  BY <1>5, StoringDelivers, CompleteDelivers
<1> QED
  BY <1>1, <1>2, <1>3, <1>4, <1>5 DEF Handler

LEMMA NextDelivers ==
    ASSUME NEW R, NEW A, Keeps(R), R \subseteq A, RInv(R, A), Routed(R, A),
           [Next]_vars, [\A r \in Request : NameIsFree(r)]_vars
    PROVE  RInv(R, A)'
<1>1. BInv'
  BY NextBInv DEF RInv
<1>2. CASE Tick \/ UNCHANGED vars
  <2>1. UNCHANGED <<store, disk, task, gemini>>
    BY <1>2 DEF Tick, vars
  <2>2. /\ Saves /\ CarryOn(R, A) /\ QuietTasks
    BY <2>1 DEF Saves, CarryOn, QuietTasks, Holds, RInv, Delivered
  <2>3. Tame(store, store') /\ From(store, store')
    BY <2>1, TameSame, FromSame
  <2> QED
    BY <1>1, <2>1, <2>2, <2>3, QuietDelivers
<1>3. CASE (\E r \in Request : Handler(r) \/ ClientGone(r))
           /\ \A r \in Request : NameIsFree(r)
  BY <1>1, <1>3, HandlerDelivers, EndingDelivers
<1>4. CASE Crash
  BY <1>1, <1>4, CrashDelivers
<1>5. CASE Startup
  BY <1>1, <1>5, StartupDelivers
<1> QED
  BY <1>2, <1>3, <1>4, <1>5 DEF Next

-----------------------------------------------------------------------------
(* Nothing is left out *)

\* What a walk through the store relies on, and what carries the histories.
LEMMA HistoryOK ==
    ASSUME NEW h \in Histories
    PROVE  h \in Seq(Hash) /\ h # <<>>
BY AskOK DEF Histories

LEMMA CarriedNode ==
    ASSUME NEW R, NEW A, RInv(R, A), NEW c \in DOMAIN store.clients
    PROVE  LET prev == store.clients[c].prev_id
           IN  /\ told(c, store) \in Histories /\ c \in DOMAIN gemini
               /\ told(c, store) \in Seq(Hash) /\ told(c, store) # <<>>
               /\ said(gemini, c) \in Seq(Hash)
               /\ Based(R, told(c, store), prev, gemini)
               /\ Carried(R, told(c, store), prev, c, gemini)
<1>1. NodeCarries(R, c, store.clients[c], gemini)
  BY DEF RInv, Delivered, StoreCarries
<1>2. /\ Based(R, told(c, store), store.clients[c].prev_id, gemini)
      /\ Carried(R, told(c, store), store.clients[c].prev_id, c, gemini)
  BY <1>1 DEF NodeCarries, told
<1>3. told(c, store) \in Histories /\ c \in DOMAIN gemini
  BY <1>2 DEF Based, Carried
<1>4. c \in Id /\ gemini[c] \in Interaction /\ NoId \notin Id
  BY <1>3, IdAssumption
     DEF RInv, BInv, OInv, IInv, TypeOK, IsMap
<1>5. said(gemini, c) \in Seq(Hash)
  BY <1>4 DEF said, Interaction
<1> QED
  BY <1>2, <1>3, <1>5, HistoryOK

LEMMA StoreWalkable ==
    ASSUME NEW R, NEW A, RInv(R, A)
    PROVE  Walkable(store)
BY CarriedNode
   DEF Walkable, RInv, BInv, OInv, IInv, TypeOK, Delivered

\* Every message of the history is in the context.
InContext ==
    {p \in Seq(Hash) \X Seq(Hash) : Messages(p[1]) \subseteq Messages(p[2])}

LEMMA InContextPairs ==
    /\ InContext \subseteq Seq(Hash) \X Seq(Hash)
    /\ \A x, y : <<x, y>> \in InContext
         <=> /\ x \in Seq(Hash) /\ y \in Seq(Hash)
             /\ Messages(x) \subseteq Messages(y)
BY DEF InContext

LEMMA InContextKeeps == Keeps(InContext)
<1>1. <<<<>>, <<>>>> \in InContext
  <2>1. <<>> \in Seq(Hash)
    OBVIOUS
  <2> QED
    BY <2>1, InContextPairs
<1>2. ASSUME NEW x \in Seq(Hash), NEW y \in Seq(Hash), NEW z \in Seq(Hash),
             <<x, y>> \in InContext
      PROVE  <<x \o z, y \o z>> \in InContext
  <2>1. /\ Messages(x \o z) = Messages(x) \cup Messages(z)
        /\ Messages(y \o z) = Messages(y) \cup Messages(z)
    BY MessagesJoined
  <2>2. Messages(x) \subseteq Messages(y)
    BY <1>2, InContextPairs
  <2>3. x \o z \in Seq(Hash) /\ y \o z \in Seq(Hash)
    OBVIOUS
  <2>4. Messages(x \o z) \subseteq Messages(y \o z)
    BY <2>1, <2>2
  <2> QED
    BY <2>3, <2>4, InContextPairs
<1> QED
  BY <1>1, <1>2, InContextPairs DEF Keeps

\* A walk only matches messages that are in the context of where it ends.
LEMMA MatchedIsSaid ==
    ASSUME NEW A, RInv(InContext, A), NEW h \in Seq(Hash), h # <<>>, NEW sys,
           NEW v \in walk_forward(h, sys, store)
    PROVE  /\ v.client \in DOMAIN store.clients
           /\ \A j \in 1 .. v.prefix_len : j \in DOMAIN h =>
                 h[j] \in Messages(said(gemini, v.client))
<1> DEFINE known == [c \in DOMAIN store.clients |-> Messages(said(gemini, c))]
<1>1. ASSUME NEW c \in DOMAIN store.clients
      PROVE  /\ Messages(told(c, store)) \subseteq known[c]
             /\ store.clients[c].prev_id \in DOMAIN store.clients
                   => known[store.clients[c].prev_id] \subseteq known[c]
  <2>1. Carried(InContext, told(c, store), store.clients[c].prev_id, c, gemini)
    BY CarriedNode
  <2>2. /\ Messages(told(c, store)) \subseteq Messages(said(gemini, c))
        /\ Messages(said(gemini, store.clients[c].prev_id))
              \subseteq Messages(said(gemini, c))
    BY <2>1, InContextPairs DEF Carried
  <2> QED
    BY <2>2
<1> HIDE DEF known
<1>2. /\ v.client \in DOMAIN store.clients
      /\ \A j \in 1 .. v.prefix_len :
            j \in DOMAIN h => h[j] \in known[v.client]
  BY <1>1, StoreWalkable, MatchedIsKnown
<1> QED
  BY <1>2 DEF known

LEMMA InContextRoutes ==
    ASSUME RInv(InContext, InContext)
    PROVE  Routed(InContext, InContext)
<1> SUFFICES ASSUME NEW r \in Request, is_query(r)
    PROVE  LET h == ask[r].hashes
               f == find_frontier(h, NoId, NoHash, store)
           IN  /\ ~f.all_known =>
                     /\ f.previous_interaction_id \in Known(gemini)
                     /\ <<SubSeq(h, 1, f.index),
                          said(gemini, f.previous_interaction_id)>>
                          \in InContext
               /\ \A prev, sys :
                     LET w == find_frontier(h, prev, sys, store)
                     IN  w.all_known =>
                           /\ w.matched_client_id \in DOMAIN gemini
                           /\ <<h, said(gemini, w.matched_client_id)>>
                                \in InContext
  BY DEF Routed
<1> DEFINE h == ask[r].hashes
           f == find_frontier(h, NoId, NoHash, store)
           p == f.previous_interaction_id
<1>1. h \in Seq(Hash) /\ h # <<>> /\ Len(h) \in Nat /\ DOMAIN h = 1 .. Len(h)
  BY AskOK
<1>2. ASSUME NEW n \in 0 .. Len(h), NEW id \in Known(gemini),
             \A j \in 1 .. n : h[j] \in Messages(said(gemini, id))
      PROVE  <<SubSeq(h, 1, n), said(gemini, id)>> \in InContext
  <2>1. said(gemini, id) \in Seq(Hash)
    BY <1>2, IdAssumption
       DEF Known, said, RInv, BInv, OInv, IInv, TypeOK, IsMap, Interaction
  <2>2. /\ SubSeq(h, 1, n) \in Seq(Hash) /\ DOMAIN SubSeq(h, 1, n) = 1 .. n
        /\ \A j \in 1 .. n : SubSeq(h, 1, n)[j] = h[j]
    BY <1>1, <1>2
  <2>3. Messages(SubSeq(h, 1, n)) \subseteq Messages(said(gemini, id))
    BY <1>2, <2>2 DEF Messages
  <2> QED
    BY <2>1, <2>2, <2>3, InContextPairs
<1>3. ASSUME NEW sys, NEW v \in walk_forward(h, sys, store),
             v.prefix_len \in 1 .. Len(h)
      PROVE  /\ v.client \in DOMAIN gemini
             /\ <<SubSeq(h, 1, v.prefix_len), said(gemini, v.client)>>
                  \in InContext
  <2>1. /\ v.client \in DOMAIN store.clients
        /\ \A j \in 1 .. v.prefix_len : j \in DOMAIN h =>
              h[j] \in Messages(said(gemini, v.client))
    BY <1>1, MatchedIsSaid
  <2>2. \A j \in 1 .. v.prefix_len : h[j] \in Messages(said(gemini, v.client))
    BY <1>1, <1>3, <2>1
  <2>3. v.client \in DOMAIN gemini /\ v.client \in Known(gemini)
    BY <2>1, CarriedNode DEF Known
  <2>4. v.prefix_len \in 0 .. Len(h)
    BY <1>1, <1>3
  <2> HIDE DEF h
  <2> QED
    BY <1>2, <2>2, <2>3, <2>4
<1>4. ASSUME NEW prev, NEW sys, find_frontier(h, prev, sys, store).all_known
      PROVE  LET c == find_frontier(h, prev, sys, store).matched_client_id
             IN  c \in DOMAIN gemini /\ <<h, said(gemini, c)>> \in InContext
  <2>1. PICK v \in walk_forward(h, sys, store) :
          /\ v.prefix_len = Len(h)
          /\ v.client = find_frontier(h, prev, sys, store).matched_client_id
    BY <1>1, <1>4, FrontierKnown
  <2>2. Len(h) \in 1 .. Len(h) /\ SubSeq(h, 1, Len(h)) = h
    BY <1>1
  <2> HIDE DEF h
  <2> QED
    BY <1>3, <2>1, <2>2
<1>5. ASSUME ~f.all_known
      PROVE  /\ p \in Known(gemini)
             /\ <<SubSeq(h, 1, f.index), said(gemini, p)>> \in InContext
  <2>1. 0 \in 0 .. Len(h) /\ \A j \in 1 .. 0 : FALSE
    BY <1>1
  <2>2. CASE f.index = 0 /\ p = NoId
    <3>1. p \in Known(gemini)
      BY <2>2 DEF Known
    <3> HIDE DEF f, p, h
    <3> QED
      BY <1>2, <2>1, <2>2, <3>1
  <2>3. ASSUME NEW v \in walk_forward(h, NoHash, store),
               Longest(v, h, NoHash, store), DecidedAt(f, v, h, store)
        PROVE  /\ p \in Known(gemini)
               /\ <<SubSeq(h, 1, f.index), said(gemini, p)>> \in InContext
    <3>1. v.prefix_len \in 1 .. Len(h)
      BY <2>3 DEF Longest
    <3>2. \/ f.index = v.prefix_len /\ p = v.client
          \/ f.index = 0 /\ p = store.clients[v.client].prev_id
      BY <1>5, <2>3 DEF DecidedAt
    <3>3. v.client \in DOMAIN store.clients
      BY <1>1, MatchedIsSaid
    <3>4. store.clients[v.client].prev_id \in Known(gemini)
      BY <3>3, CarriedNode DEF Based
    <3> HIDE DEF f, p, h
    <3> QED
      BY <1>2, <1>3, <2>1, <3>1, <3>2, <3>4 DEF Known
  <2> QED
    BY <1>1, <1>5, <2>2, <2>3, FrontierCases
<1> QED
  BY <1>4, <1>5

LEMMA AlwaysInContext ==
    Spec /\ NamesAreFree => []RInv(InContext, InContext)
<1>1. Init => RInv(InContext, InContext)
  BY InitDelivers, InContextKeeps
<1>2. /\ RInv(InContext, InContext) /\ [Next]_vars
      /\ [\A r \in Request : NameIsFree(r)]_vars
      => RInv(InContext, InContext)'
  BY NextDelivers, InContextKeeps, InContextRoutes
<1> QED
  BY <1>1, <1>2, PTL DEF Spec, NamesAreFree

\* Who gets an answer gets it from an interaction whose context has every
\* message of the request.
AnswersLeaveNothingOut ==
    \A r \in Request : At(r, "done") /\ is_query(r) =>
        Messages(ask[r].hashes) \subseteq Messages(gemini[task[r].node].context)

\* The context of a client node has every message of its history.
NodesLeaveNothingOut ==
    \A c \in DOMAIN store.clients :
        Messages(store.clients[c].message_hashes)
            \subseteq Messages(gemini[c].context)

LEMMA InContextDelivers ==
    RInv(InContext, InContext) => AnswersLeaveNothingOut /\ NodesLeaveNothingOut
<1> SUFFICES ASSUME RInv(InContext, InContext)
             PROVE  AnswersLeaveNothingOut /\ NodesLeaveNothingOut
  OBVIOUS
<1>1. ASSUME NEW id \in DOMAIN gemini
      PROVE  said(gemini, id) = gemini[id].context
  BY IdAssumption DEF said, RInv, BInv, OInv, IInv, TypeOK, IsMap
<1>2. ASSUME NEW r \in Request, At(r, "done"), is_query(r)
      PROVE  Messages(ask[r].hashes) \subseteq
                 Messages(gemini[task[r].node].context)
  <2>1. /\ task[r].node \in DOMAIN gemini
        /\ <<ask[r].hashes, said(gemini, task[r].node)>> \in InContext
    BY <1>2 DEF RInv, Delivered, TaskCarries, At
  <2> QED
    BY <1>1, <2>1, InContextPairs
<1>3. ASSUME NEW c \in DOMAIN store.clients
      PROVE  Messages(store.clients[c].message_hashes)
                \subseteq Messages(gemini[c].context)
  <2>1. /\ c \in DOMAIN gemini
        /\ Carried(InContext, told(c, store), store.clients[c].prev_id, c,
                   gemini)
    BY CarriedNode
  <2>2. Messages(told(c, store)) \subseteq Messages(said(gemini, c))
    BY <2>1, InContextPairs DEF Carried
  <2> QED
    BY <1>1, <2>1, <2>2 DEF told
<1> QED
  BY <1>2, <1>3 DEF AnswersLeaveNothingOut, NodesLeaveNothingOut

\* However requests, retries, identical requests, lost answers, failing and
\* abandoned pieces, clean-all, restarts and start-up interleave, and whatever
\* else is in the store: nobody is answered from an interaction that was not
\* told every message of the request, and nothing is published that was not
\* told every message of its node (new_messages, the pieces of a split,
\* find_frontier, complete_batch).
THEOREM NothingLeftOut ==
    Spec /\ NamesAreFree => [](AnswersLeaveNothingOut /\ NodesLeaveNothingOut)
BY AlwaysInContext, InContextDelivers, PTL

-----------------------------------------------------------------------------
(* In order *)

\* Of two histories that share a message one is how the other begins: requests
\* are made by clients that only append to their history.
LinearAsks ==
    /\ \A h \in Histories : NoRepeats(h)
    /\ \A g, h \in Histories :
          SharesMessage(g, h) => IsInitial(g, h) \/ IsInitial(h, g)

LEMMA InitialElements ==
    ASSUME NEW s \in Seq(Hash), NEW t \in Seq(Hash)
    PROVE  IsInitial(s, t) <=>
             Len(s) <= Len(t) /\ \A i \in 1 .. Len(s) : s[i] = t[i]
<1>1. ASSUME Len(s) <= Len(t)
      PROVE  s = SubSeq(t, 1, Len(s)) <=> \A i \in 1 .. Len(s) : s[i] = t[i]
  <2> DEFINE u == SubSeq(t, 1, Len(s))
  <2>1. /\ u \in Seq(Hash) /\ Len(u) = Len(s)
        /\ \A i \in 1 .. Len(s) : u[i] = t[i]
    BY <1>1
  <2> HIDE DEF u
  <2>2. s = u <=> \A i \in 1 .. Len(s) : s[i] = u[i]
    BY <2>1
  <2> QED
    BY <2>1, <2>2 DEF u
<1> QED
  BY <1>1 DEF IsInitial

LEMMA InitialTransitive ==
    ASSUME NEW s \in Seq(Hash), NEW t \in Seq(Hash), NEW u \in Seq(Hash),
           IsInitial(s, t), IsInitial(t, u)
    PROVE  IsInitial(s, u)
<1>1. /\ Len(s) <= Len(t) /\ \A i \in 1 .. Len(s) : s[i] = t[i]
      /\ Len(t) <= Len(u) /\ \A i \in 1 .. Len(t) : t[i] = u[i]
  BY InitialElements
<1>2. Len(s) \in Nat /\ Len(t) \in Nat /\ Len(u) \in Nat
  OBVIOUS
<1>3. Len(s) <= Len(u) /\ \A i \in 1 .. Len(s) : s[i] = u[i]
  BY <1>1, <1>2
<1> QED
  BY <1>3, InitialElements

LEMMA InitialOfLonger ==
    ASSUME NEW s \in Seq(Hash), NEW t \in Seq(Hash),
           IsInitial(s, t), Len(t) <= Len(s)
    PROVE  s = t
<1>1. Len(s) \in Nat /\ Len(t) \in Nat
  OBVIOUS
<1>2. Len(s) <= Len(t)
  BY DEF IsInitial
<1>3. Len(s) = Len(t)
  BY <1>1, <1>2
<1> QED
  BY <1>3, WholeHistory DEF IsInitial

LEMMA InitialOfSelf ==
    ASSUME NEW s \in Seq(Hash)
    PROVE  IsInitial(s, s)
BY WholeHistory DEF IsInitial

\* Of two beginnings of a history the shorter one is a beginning of the other.
LEMMA TwoInitials ==
    ASSUME NEW s \in Seq(Hash), NEW t \in Seq(Hash), NEW u \in Seq(Hash),
           IsInitial(s, u), IsInitial(t, u), Len(s) <= Len(t)
    PROVE  IsInitial(s, t)
<1>1. /\ \A i \in 1 .. Len(s) : s[i] = u[i]
      /\ \A i \in 1 .. Len(t) : t[i] = u[i]
  BY InitialElements
<1>2. Len(s) \in Nat /\ Len(t) \in Nat
  OBVIOUS
<1>3. \A i \in 1 .. Len(s) : s[i] = t[i]
  BY <1>1, <1>2
<1> QED
  BY <1>3, InitialElements

LEMMA InitialMessages ==
    ASSUME NEW s \in Seq(Hash), NEW t \in Seq(Hash), IsInitial(s, t)
    PROVE  Messages(s) \subseteq Messages(t)
<1>1. Len(s) <= Len(t) /\ \A i \in 1 .. Len(s) : s[i] = t[i]
  BY InitialElements
<1>2. /\ DOMAIN s = 1 .. Len(s) /\ DOMAIN t = 1 .. Len(t)
      /\ Len(s) \in Nat /\ Len(t) \in Nat
  OBVIOUS
<1>3. DOMAIN s \subseteq DOMAIN t
  BY <1>1, <1>2
<1> QED
  BY <1>1, <1>2, <1>3 DEF Messages

LEMMA InitialShares ==
    ASSUME NEW s \in Seq(Hash), s # <<>>, NEW t \in Seq(Hash),
           NEW u \in Seq(Hash), IsInitial(s, t), IsInitial(s, u)
    PROVE  SharesMessage(t, u)
<1>1. s[1] \in Messages(s)
  BY DEF Messages
<1> QED
  BY <1>1, InitialMessages DEF SharesMessage

LEMMA InitialIsSubsequence ==
    ASSUME NEW s \in Seq(Hash), NEW t \in Seq(Hash), IsInitial(s, t)
    PROVE  IsSubsequence(s, t)
<1> DEFINE f == [i \in DOMAIN s |-> i]
<1>1. /\ DOMAIN s = 1 .. Len(s) /\ DOMAIN t = 1 .. Len(t)
      /\ Len(s) \in Nat /\ Len(t) \in Nat
  OBVIOUS
<1>2. Len(s) <= Len(t) /\ \A i \in 1 .. Len(s) : s[i] = t[i]
  BY InitialElements
<1>3. f \in [DOMAIN s -> DOMAIN t]
  BY <1>1, <1>2
<1>4. /\ \A i, j \in DOMAIN s : i < j => f[i] < f[j]
      /\ \A i \in DOMAIN s : s[i] = t[f[i]]
  BY <1>1, <1>2
<1> QED
  BY <1>3, <1>4 DEF IsSubsequence

\* The history is the context, and is how the context begins.
IsContext == {p \in Seq(Hash) \X Seq(Hash) : p[1] = p[2]}
BeginsContext == {p \in Seq(Hash) \X Seq(Hash) : IsInitial(p[1], p[2])}

LEMMA IsContextPairs ==
    \A x, y : <<x, y>> \in IsContext <=> x \in Seq(Hash) /\ x = y
BY DEF IsContext

LEMMA BeginsContextPairs ==
    \A x, y : <<x, y>> \in BeginsContext
         <=> x \in Seq(Hash) /\ y \in Seq(Hash) /\ IsInitial(x, y)
BY DEF BeginsContext

LEMMA IsContextKeeps == Keeps(IsContext) /\ IsContext \subseteq BeginsContext
<1>1. IsContext \subseteq Seq(Hash) \X Seq(Hash)
  BY DEF IsContext
<1>2. <<<<>>, <<>>>> \in IsContext
  <2>1. <<>> \in Seq(Hash)
    OBVIOUS
  <2> QED
    BY <2>1, IsContextPairs
<1>3. ASSUME NEW x \in Seq(Hash), NEW y \in Seq(Hash), NEW z \in Seq(Hash),
             <<x, y>> \in IsContext
      PROVE  <<x \o z, y \o z>> \in IsContext
  <2>1. x = y /\ x \o z \in Seq(Hash)
    BY <1>3, IsContextPairs
  <2> QED
    BY <2>1, IsContextPairs
<1>4. IsContext \subseteq BeginsContext
  BY InitialOfSelf DEF IsContext, BeginsContext
<1> QED
  BY <1>1, <1>2, <1>3, <1>4 DEF Keeps

\* The longest of h and what is stored of it: every stored history that has a
\* message of it is a beginning of it.
LEMMA LongestHistory ==
    ASSUME LinearAsks, NEW R, NEW A, RInv(R, A), NEW h \in Histories
    PROVE  \E t \in Histories : IsInitial(h, t) /\ Appended(t, store)
<1> DEFINE C        == DOMAIN store.clients
           Touching == {h} \cup {told(c, store) :
                          c \in {d \in C : SharesMessage(told(d, store), h)}}
<1>1. /\ \A c \in C : told(c, store) \in Histories
      /\ \A g \in Histories : g \in Seq(Hash) /\ g # <<>> /\ Len(g) \in Nat
  BY CarriedNode, HistoryOK
<1>2. PICK n \in Nat : \A c \in C : Len(told(c, store)) <= n
  BY DEF RInv, Delivered, StoreCarries, Bounded
<1>3. /\ h \in Touching
      /\ \A g \in Touching :
            /\ g \in Histories /\ Len(g) <= n + Len(h)
            /\ g = h \/ SharesMessage(g, h)
  <2>1. Len(h) <= n + Len(h)
    BY <1>1
  <2>2. \A c \in C : Len(told(c, store)) <= n + Len(h)
    BY <1>1, <1>2
  <2> QED
    BY <1>1, <2>1, <2>2
<1>4. PICK t \in Touching : \A g \in Touching : Len(g) <= Len(t)
  <2> DEFINE m == n + Len(h)
             T == {k \in Nat : \E g \in Touching : k + Len(g) = m}
  <2>1. m \in Nat /\ n + Len(h) = m
    BY <1>1
  <2> HIDE DEF Touching, m
  <2>2. n \in T
    BY <1>3, <2>1
  <2>3. PICK x \in T : \A y \in T : x <= y
    BY <2>2, LeastNumber
  <2>4. PICK t \in Touching : x + Len(t) = m
    BY <2>3
  <2>5. ASSUME NEW g \in Touching PROVE Len(g) <= Len(t)
    <3>1. Len(g) \in Nat /\ Len(t) \in Nat /\ Len(g) <= m
      BY <1>1, <1>3, <2>1
    <3>2. m - Len(g) \in Nat /\ (m - Len(g)) + Len(g) = m
      BY <2>1, <3>1
    <3>3. m - Len(g) \in T
      BY <3>2
    <3>4. x <= m - Len(g) /\ x \in Nat
      BY <2>3, <3>3
    <3> QED
      BY <2>1, <2>4, <3>1, <3>4
  <2> QED
    BY <2>4, <2>5
<1> HIDE DEF Touching
<1>5. t \in Histories /\ t \in Seq(Hash) /\ h \in Seq(Hash) /\ h # <<>>
  BY <1>1, <1>3
<1>6. IsInitial(h, t)
  <2>1. CASE t = h
    BY <1>5, <2>1, InitialOfSelf
  <2>2. CASE SharesMessage(t, h)
    <3>1. IsInitial(t, h) \/ IsInitial(h, t)
      BY <1>5, <2>2 DEF LinearAsks
    <3>2. Len(h) <= Len(t)
      BY <1>3, <1>4
    <3> QED
      BY <1>5, <3>1, <3>2, InitialOfLonger
  <2> QED
    BY <1>3, <2>1, <2>2
<1>7. ASSUME NEW c \in C, Touches(c, t, store)
      PROVE  IsInitial(told(c, store), t)
  <2> DEFINE g == told(c, store)
  <2>1. g \in Histories /\ g \in Seq(Hash)
    BY <1>1
  <2>2. IsInitial(g, t) \/ IsInitial(t, g)
    BY <1>5, <1>7, <2>1 DEF LinearAsks, Touches
  <2>3. ASSUME IsInitial(t, g) PROVE IsInitial(g, t)
    <3>1. IsInitial(h, g)
      BY <1>5, <1>6, <2>1, <2>3, InitialTransitive
    <3>2. SharesMessage(g, h)
      BY <1>5, <2>1, <3>1, InitialOfSelf, InitialShares
    <3>3. g \in Touching
      BY <3>2 DEF Touching
    <3>4. t = g
      BY <1>4, <1>5, <2>1, <2>3, <3>3, InitialOfLonger
    <3> QED
      BY <1>5, <3>4, InitialOfSelf
  <2> QED
    BY <2>2, <2>3
<1> QED
  BY <1>5, <1>6, <1>7 DEF Appended

\* Every stored chain is of histories that grow.
LEMMA HistoriesGrow ==
    ASSUME NEW A, RInv(IsContext, A), NEW c \in DOMAIN store.clients,
           store.clients[c].prev_id \in DOMAIN store.clients
    PROVE  LET p == store.clients[c].prev_id
           IN  /\ IsInitial(told(p, store), told(c, store))
               /\ Len(told(p, store)) < Len(told(c, store))
<1> DEFINE p == store.clients[c].prev_id
           h == told(c, store)
           g == told(p, store)
<1>1. /\ h \in Seq(Hash) /\ g \in Seq(Hash) /\ Len(h) \in Nat
      /\ Based(IsContext, h, p, gemini)
      /\ Carried(IsContext, g, store.clients[p].prev_id, p, gemini)
  BY CarriedNode
<1> HIDE DEF p, h, g
<1>2. g = said(gemini, p)
  BY <1>1, IsContextPairs DEF Carried
<1>3. PICK k \in 0 .. Len(h) - 1 :
        <<SubSeq(h, 1, k), said(gemini, p)>> \in IsContext
  BY <1>1 DEF Based
<1>4. SubSeq(h, 1, k) = g
  BY <1>2, <1>3, IsContextPairs
<1>5. Len(g) = k /\ k < Len(h)
  <2>1. Len(SubSeq(h, 1, k)) = k
    BY <1>1, <1>3
  <2> QED
    BY <1>1, <1>3, <1>4, <2>1
<1>6. IsInitial(g, h)
  BY <1>1, <1>3, <1>4, <1>5 DEF IsInitial
<1> QED
  BY <1>5, <1>6 DEF p, h, g

LEMMA HistoriesChain ==
    ASSUME NEW A, RInv(IsContext, A), NEW t \in Seq(Hash), Appended(t, store)
    PROVE  Chained(t, store)
<1> SUFFICES ASSUME NEW c \in DOMAIN store.clients,
                    store.clients[c].prev_id \in DOMAIN store.clients
             PROVE  LET p == store.clients[c].prev_id
                    IN  /\ Touches(c, t, store) <=> Touches(p, t, store)
                        /\ Touches(c, t, store) =>
                              Len(told(p, store)) < Len(told(c, store))
  BY DEF Chained
<1> DEFINE p == store.clients[c].prev_id
           h == told(c, store)
           g == told(p, store)
<1>1. /\ h \in Seq(Hash) /\ g \in Seq(Hash) /\ g # <<>>
  BY CarriedNode
<1>2. IsInitial(g, h) /\ Len(g) < Len(h)
  BY HistoriesGrow
<1>3. ASSUME Touches(p, t, store) PROVE Touches(c, t, store)
  <2>1. Messages(g) \subseteq Messages(h)
    BY <1>1, <1>2, InitialMessages
  <2> QED
    BY <1>3, <2>1 DEF Touches, SharesMessage
<1>4. ASSUME Touches(c, t, store) PROVE Touches(p, t, store)
  <2>1. IsInitial(h, t)
    BY <1>4 DEF Appended
  <2>2. IsInitial(g, t)
    BY <1>1, <1>2, <2>1, InitialTransitive
  <2>3. SharesMessage(g, t)
    BY <1>1, <2>2, InitialOfSelf, InitialShares
  <2> QED
    BY <2>3 DEF Touches
<1> QED
  BY <1>2, <1>3, <1>4

LEMMA IsContextRoutes ==
    ASSUME LinearAsks, RInv(IsContext, BeginsContext)
    PROVE  Routed(IsContext, BeginsContext)
<1> SUFFICES ASSUME NEW r \in Request, is_query(r)
    PROVE  LET h == ask[r].hashes
               f == find_frontier(h, NoId, NoHash, store)
           IN  /\ ~f.all_known =>
                     /\ f.previous_interaction_id \in Known(gemini)
                     /\ <<SubSeq(h, 1, f.index),
                          said(gemini, f.previous_interaction_id)>>
                          \in IsContext
               /\ \A prev, sys :
                     LET w == find_frontier(h, prev, sys, store)
                     IN  w.all_known =>
                           /\ w.matched_client_id \in DOMAIN gemini
                           /\ <<h, said(gemini, w.matched_client_id)>>
                                \in BeginsContext
  BY DEF Routed
<1> DEFINE h == ask[r].hashes
           f == find_frontier(h, NoId, NoHash, store)
           p == f.previous_interaction_id
<1>1. h \in Histories /\ h \in Seq(Hash) /\ h # <<>> /\ Len(h) \in Nat
  BY AskOK DEF Histories
<1>2. PICK t \in Histories : IsInitial(h, t) /\ Appended(t, store)
  BY <1>1, LongestHistory
<1>3. /\ t \in Seq(Hash) /\ NoRepeats(t) /\ Chained(t, store)
      /\ Walkable(store) /\ IsFiniteSet(DOMAIN store.clients)
  BY <1>2, HistoryOK, HistoriesChain, StoreWalkable
     DEF LinearAsks, RInv, Delivered, StoreCarries
<1> HIDE DEF h
<1>4. Begins(h, t)
  BY <1>1, <1>2, <1>3, InitialElements DEF Begins, IsInitial
\* What is stored for c is its context, and how t begins.
<1>5. ASSUME NEW c \in DOMAIN store.clients, Touches(c, t, store)
      PROVE  /\ c \in DOMAIN gemini /\ told(c, store) = said(gemini, c)
             /\ told(c, store) \in Seq(Hash) /\ IsInitial(told(c, store), t)
             /\ Len(told(c, store)) \in Nat
  <2>1. /\ Carried(IsContext, told(c, store), store.clients[c].prev_id, c,
                   gemini)
        /\ told(c, store) \in Seq(Hash) /\ c \in DOMAIN gemini
    BY CarriedNode
  <2>2. told(c, store) = said(gemini, c)
    BY <2>1, IsContextPairs DEF Carried
  <2> QED
    BY <1>2, <1>5, <2>1, <2>2 DEF Appended
<1>6. ASSUME ~f.all_known
      PROVE  /\ p \in Known(gemini)
             /\ <<SubSeq(h, 1, f.index), said(gemini, p)>> \in IsContext
  <2>1. \/ p = NoId /\ f.index = 0
        \/ /\ p \in DOMAIN store.clients /\ Touches(p, t, store)
           /\ f.index = Len(told(p, store)) /\ f.index < Len(h)
    BY <1>2, <1>3, <1>4, <1>6, AppendedFrontier
  <2> HIDE DEF f, p
  <2>2. CASE p = NoId /\ f.index = 0
    <3>1. SubSeq(h, 1, 0) = <<>> /\ <<>> \in Seq(Hash)
      BY <1>1, WholeHistory
    <3> QED
      BY <2>2, <3>1, IsContextPairs DEF Known, said
  <2>3. CASE /\ p \in DOMAIN store.clients /\ Touches(p, t, store)
             /\ f.index = Len(told(p, store)) /\ f.index < Len(h)
    <3> DEFINE g == told(p, store)
    <3>1. /\ p \in DOMAIN gemini /\ g = said(gemini, p)
          /\ g \in Seq(Hash) /\ IsInitial(g, t) /\ Len(g) \in Nat
      BY <1>5, <2>3
    <3>2. Len(g) <= Len(h)
      BY <1>1, <2>3, <3>1
    <3>3. IsInitial(g, h)
      BY <1>1, <1>2, <1>3, <3>1, <3>2, TwoInitials
    <3>4. SubSeq(h, 1, f.index) = g
      BY <2>3, <3>3 DEF IsInitial
    <3> QED
      BY <3>1, <3>4, IsContextPairs DEF Known
  <2> QED
    BY <2>1, <2>2, <2>3
<1>7. ASSUME NEW prev, NEW sys, find_frontier(h, prev, sys, store).all_known
      PROVE  LET c == find_frontier(h, prev, sys, store).matched_client_id
             IN  c \in DOMAIN gemini /\ <<h, said(gemini, c)>> \in BeginsContext
  <2> DEFINE c == find_frontier(h, prev, sys, store).matched_client_id
  <2>1. PICK v \in walk_forward(h, sys, store) :
          v.prefix_len = Len(h) /\ v.client = c
    BY <1>1, <1>7, FrontierKnown
  <2>2. /\ v \in Walk(store) /\ Touches(v.client, t, store)
        /\ \/ Within(Len(h), v, store) \/ Passed(Len(h), v, store)
           \/ AtEnd(v, store)
    BY <1>2, <1>3, <1>4, AppendedWalks
  <2>3. v.client \in DOMAIN store.clients
    BY <2>2 DEF Walk
  <2> DEFINE g == told(v.client, store)
  <2>4. /\ v.client \in DOMAIN gemini /\ g = said(gemini, v.client)
        /\ g \in Seq(Hash) /\ IsInitial(g, t) /\ Len(g) \in Nat
    BY <1>5, <2>2, <2>3
  <2>5. Len(h) <= Len(g)
    <3>1. CASE Within(Len(h), v, store)
      BY <1>1, <2>4, <3>1 DEF Within
    <3>2. CASE AtEnd(v, store)
      BY <1>1, <2>1, <2>4, <3>2 DEF AtEnd
    <3>3. CASE Passed(Len(h), v, store)
      <4> DEFINE d == store.clients[v.client].prev_id
      <4>1. d \in DOMAIN store.clients /\ v.prefix_len = Len(told(d, store))
        BY <3>3 DEF Passed
      <4>2. Len(told(d, store)) < Len(g)
        BY <2>3, <4>1, HistoriesGrow
      <4> QED
        BY <1>1, <2>1, <2>4, <4>1, <4>2
    <3> QED
      BY <2>2, <3>1, <3>2, <3>3
  <2>6. IsInitial(h, g)
    BY <1>1, <1>2, <1>3, <2>4, <2>5, TwoInitials
  <2> HIDE DEF g, c
  <2> QED
    BY <1>1, <2>1, <2>4, <2>6, BeginsContextPairs DEF c
<1> QED
  BY <1>6, <1>7 DEF h

LEMMA AlwaysIsContext ==
    ASSUME LinearAsks
    PROVE  Spec /\ NamesAreFree => []RInv(IsContext, BeginsContext)
<1>1. Init => RInv(IsContext, BeginsContext)
  BY InitDelivers, IsContextKeeps
<1>2. /\ RInv(IsContext, BeginsContext) /\ [Next]_vars
      /\ [\A r \in Request : NameIsFree(r)]_vars
      => RInv(IsContext, BeginsContext)'
  BY NextDelivers, IsContextKeeps, IsContextRoutes
<1> QED
  BY <1>1, <1>2, PTL DEF Spec, NamesAreFree

LEMMA IsContextDelivers ==
    RInv(IsContext, BeginsContext)
        => AnswerCarriesRequest /\ PublishedIsDelivered
<1> SUFFICES ASSUME RInv(IsContext, BeginsContext)
             PROVE  AnswerCarriesRequest /\ PublishedIsDelivered
  OBVIOUS
<1>1. ASSUME NEW id \in DOMAIN gemini
      PROVE  said(gemini, id) = gemini[id].context
  BY IdAssumption DEF said, RInv, BInv, OInv, IInv, TypeOK, IsMap
<1>2. ASSUME NEW r \in Request, At(r, "done"), is_query(r)
      PROVE  IsSubsequence(ask[r].hashes, gemini[task[r].node].context)
  <2>1. /\ task[r].node \in DOMAIN gemini
        /\ <<ask[r].hashes, said(gemini, task[r].node)>> \in BeginsContext
    BY <1>2 DEF RInv, Delivered, TaskCarries, At
  <2> QED
    BY <1>1, <2>1, BeginsContextPairs, InitialIsSubsequence
<1>3. ASSUME NEW c \in DOMAIN store.clients
      PROVE  IsSubsequence(store.clients[c].message_hashes, gemini[c].context)
  <2>1. /\ c \in DOMAIN gemini /\ told(c, store) \in Seq(Hash)
        /\ Carried(IsContext, told(c, store), store.clients[c].prev_id, c,
                   gemini)
    BY CarriedNode
  <2>2. told(c, store) = said(gemini, c)
    BY <2>1, IsContextPairs DEF Carried
  <2>3. IsSubsequence(told(c, store), gemini[c].context)
    BY <1>1, <2>1, <2>2, InitialOfSelf, InitialIsSubsequence
  <2> QED
    BY <2>3 DEF told
<1> QED
  BY <1>2, <1>3 DEF AnswerCarriesRequest, PublishedIsDelivered

\* Where clients only append to their histories: nobody is answered from an
\* interaction that was not told the whole request in its order, through all
\* the splits, retries, joined batches, faults, restarts and clean-ups.
THEOREM AnswersCarryRequests ==
    ASSUME LinearAsks
    PROVE  Spec /\ NamesAreFree => []AnswerCarriesRequest
BY AlwaysIsContext, IsContextDelivers, PTL

\* Under the same premises nothing is published that was not delivered whole
\* and in order: ClientInteractionNode's "hashes of harness messages delivered
\* in this logical interaction", whether its request, the request that joined
\* its batch or the start of the process has published it.
THEOREM PublishedDelivered ==
    ASSUME LinearAsks
    PROVE  Spec /\ NamesAreFree => []PublishedIsDelivered
BY AlwaysIsContext, IsContextDelivers, PTL
=============================================================================
