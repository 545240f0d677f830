------------------------- MODULE ConversationProofs -------------------------
(***************************************************************************)
(* For every set of requests, hashes and ids:                              *)
(*                                                                         *)
(*   - the types of Conversation are respected, and the chain of client    *)
(*     nodes is the chain the service has built (IInv);                    *)
(*   - no message of a request is missing from the context it is answered  *)
(*     in (CInv);                                                          *)
(*   - nor is any out of its order, where the messages have an order that  *)
(*     all requests keep;                                                  *)
(*   - a client that only appends is answered in exactly its own history,  *)
(*     where no request says a thing twice (LInv).                         *)
(*                                                                         *)
(* The last three are about the walks of find_frontier, whose lemmas are   *)
(* in StoreV2Proofs.                                                       *)
(***************************************************************************)
EXTENDS Conversation, StoreV2Proofs

IInv == TypeOK /\ StoreIsKnown /\ ChainIsUpstreamChain

LEMMA InitIInv == Init => IInv
<1> SUFFICES ASSUME Init PROVE IInv
  OBVIOUS
<1>1. store.clients = EmptyMap /\ DOMAIN store.clients = {}
  BY DEF Init, NewStore, EmptyMap
<1>2. TypeOK
  BY NewStoreOK, EmptyIsMap, MaxNowAssumption DEF Init, TypeOK
<1> QED
  BY <1>1, <1>2 DEF IInv, StoreIsKnown, ChainIsUpstreamChain

\* A request that is delivered continues an interaction the service has.
LEMMA DeliverStep ==
    ASSUME IInv, NEW r \in Requests, Deliver(r)
    PROVE  IInv'
<1> DEFINE f    == frontier(r)
           prev == f.previous_interaction_id
<1>1. /\ r.hashes \in Seq(Hash) /\ r.hashes # <<>> /\ r.sys \in Hash \cup {NoHash}
      /\ r.session \in Session
  BY RequestsAssumption
<1>2. /\ f \in Frontier /\ prev \in Named(store) \cup {NoId}
      /\ f.index < Len(r.hashes)
  <2>1. ~f.all_known
    BY DEF Deliver
  <2> QED
    BY <1>1, <2>1, find_frontier_OK DEF frontier, IInv, TypeOK
<1>3. prev \in Id \cup {NoId} /\ prev \in DOMAIN gemini \cup {NoId}
  BY <1>2 DEF Frontier, Named, IInv, StoreIsKnown
<1> DEFINE context == answer_context(r, f)
           sys     == answer_system(r, f)
<1>4. IsMap(gemini, Id, Interaction)
  BY DEF IInv, TypeOK
<1>5. ~f.all_known
  BY DEF Deliver
<1>6. context \in Seq(Hash) /\ sys \in Hash \cup {NoHash}
  <2>1. context_of(prev) \in Seq(Hash)
    BY <1>3, <1>4 DEF context_of, IsMap, Interaction
  <2>2. SubSeq(r.hashes, f.index + 1, Len(r.hashes)) \in Seq(Hash)
    BY <1>1, <1>2 DEF Frontier
  <2>3. context = context_of(prev) \o SubSeq(r.hashes, f.index + 1, Len(r.hashes))
    BY <1>5 DEF answer_context
  <2>4. sys = IF prev = NoId THEN r.sys ELSE gemini[prev].sys
    BY <1>5 DEF answer_system
  <2>5. sys \in Hash \cup {NoHash}
    BY <1>1, <1>3, <1>4, <2>4 DEF IsMap, Interaction
  <2> QED
    BY <2>1, <2>2, <2>3, <2>5
<1> HIDE DEF context, sys
<1>7. PICK id \in Id \ DOMAIN gemini :
        /\ gemini' = Put(gemini, id, [prev |-> prev, context |-> context,
                                      sys |-> sys])
        /\ store' = set_last_interaction(
             insert_client(insert_upstream(store, id, prev), id,
                      [prev_id |-> prev,
                       message_hashes |-> r.hashes,
                       system_instruction_hash |->
                          IF prev = NoId THEN r.sys ELSE NoHash,
                       upstream_ids |-> <<id>>,
                       last_seen_utc |-> now]), r.session, id)
        /\ now' = now
  BY DEF Deliver, context, sys
<1> DEFINE new == [prev_id |-> prev,
                   message_hashes |-> r.hashes,
                   system_instruction_hash |->
                      IF prev = NoId THEN r.sys ELSE NoHash,
                   upstream_ids |-> <<id>>,
                   last_seen_utc |-> now]
           up  == [prev |-> prev, context |-> context, sys |-> sys]
<1>8. /\ new \in ClientInteractionNode /\ new.prev_id = prev
      /\ prev = NoId => new.system_instruction_hash = r.sys
  <2>1. now \in Nat
    BY MaxNowAssumption DEF IInv, TypeOK
  <2> HIDE DEF prev
  <2> QED
    BY <1>1, <1>3, <1>7, <2>1 DEF ClientInteractionNode
<1>9. /\ up \in Interaction /\ up.prev = prev
      /\ up.sys = IF prev = NoId THEN r.sys ELSE gemini[prev].sys
  BY <1>3, <1>5, <1>6 DEF Interaction, answer_system, sys
<1> HIDE DEF new, up, prev, f
<1>10. TypeOK'
  <2>1. StoreOK(insert_upstream(store, id, prev))
    BY <1>3, <1>7, insert_upstream_OK DEF IInv, TypeOK
  <2>2. StoreOK(store')
    BY <1>1, <1>7, <1>8, <2>1, insert_client_OK, set_last_interaction_OK
       DEF new
  <2>3. IsMap(gemini', Id, Interaction)
    BY <1>4, <1>7, <1>9, PutIsMap DEF up
  <2> QED
    BY <1>7, <2>2, <2>3 DEF TypeOK, IInv
<1>11. /\ store'.clients = Put(store.clients, id, new)
       /\ store'.upstreams = Put(store.upstreams, id, prev)
       /\ gemini' = Put(gemini, id, up)
  <2>1. /\ store' = set_last_interaction(
               insert_client(insert_upstream(store, id, prev), id, new),
               r.session, id)
        /\ gemini' = Put(gemini, id, up)
    BY <1>7 DEF new, up
  <2>2. StoreOK(store)
    BY DEF IInv, TypeOK
  <2> QED
    BY <2>1, <2>2
       DEF insert_client, insert_upstream, set_last_interaction, StoreOK
<1>12. \A c \in DOMAIN store.clients : c # id
  BY <1>7 DEF IInv, StoreIsKnown
<1>13. StoreIsKnown'
  BY <1>3, <1>8, <1>11, <1>12 DEF StoreIsKnown, IInv, Put
<1>14. ChainIsUpstreamChain'
  <2>1. /\ DOMAIN store'.clients = DOMAIN store.clients \cup {id}
        /\ store'.clients[id] = new /\ store'.upstreams[id] = prev
        /\ gemini'[id] = up
    BY <1>11 DEF Put
  <2>2. /\ \A c \in DOMAIN gemini : gemini'[c] = gemini[c]
        /\ \A c \in DOMAIN store.clients :
              /\ store'.clients[c] = store.clients[c]
              /\ store'.upstreams[c] = store.upstreams[c]
    BY <1>7, <1>11, <1>12 DEF Put, IInv, StoreIsKnown
  <2>3. \A c \in DOMAIN store.clients :
          LET node == store'.clients[c]
          IN  /\ node.prev_id = gemini'[c].prev
              /\ store'.upstreams[c] = gemini'[c].prev
              /\ gemini'[c].sys = IF node.prev_id = NoId
                                    THEN node.system_instruction_hash
                                  ELSE gemini'[node.prev_id].sys
    BY <2>2 DEF IInv, StoreIsKnown, ChainIsUpstreamChain
  <2>4. /\ new.prev_id = gemini'[id].prev /\ prev = gemini'[id].prev
        /\ gemini'[id].sys = IF prev = NoId
                               THEN new.system_instruction_hash
                             ELSE gemini'[prev].sys
    BY <1>3, <1>8, <1>9, <2>1, <2>2
  <2> QED
    BY <1>8, <2>1, <2>3, <2>4 DEF ChainIsUpstreamChain
<1> QED
  BY <1>10, <1>13, <1>14 DEF IInv

\* A restart changes the derived index only.
LEMMA ReloadStep ==
    ASSUME IInv, Reload
    PROVE  IInv'
<1>1. DocumentOK(Document(store)) /\ store' \in load_from_disk(Document(store))
  BY DocumentIsOK DEF IInv, TypeOK, Reload
<1>2. StoreOK(store')
  BY <1>1, load_from_disk_OK
<1>3. store'.clients = store.clients /\ store'.upstreams = store.upstreams
  BY <1>1, load_from_disk_Keeps DEF Document
<1> QED
  BY <1>2, <1>3
     DEF IInv, TypeOK, StoreIsKnown, ChainIsUpstreamChain, Reload

LEMMA NextIInv == IInv /\ [Next]_vars => IInv'
<1> SUFFICES ASSUME IInv, [Next]_vars PROVE IInv'
  OBVIOUS
<1>1. CASE \E r \in Requests : Deliver(r)
  BY <1>1, DeliverStep
<1>2. CASE Reload
  BY <1>2, ReloadStep
<1>3. CASE Tick
  BY <1>3, MaxNowAssumption DEF Tick, IInv, TypeOK, StoreIsKnown, ChainIsUpstreamChain
<1>4. CASE UNCHANGED vars
  BY <1>4 DEF vars, IInv, TypeOK, StoreIsKnown, ChainIsUpstreamChain
<1> QED
  BY <1>1, <1>2, <1>3, <1>4 DEF Next

LEMMA AlwaysIInv == Spec => []IInv
BY InitIInv, NextIInv, PTL DEF Spec

\* Whatever the requests, what the handlers store keeps the types of the
\* store (session.rs).
THEOREM ConversationTypes == Spec => []TypeOK
BY AlwaysIInv, PTL DEF IInv

\* Whatever the requests and the restarts, the prev_id of each client node
\* and of its upstream node is the interaction the service continued from
\* (send_and_translate).
THEOREM ChainIsUpstream == Spec => []ChainIsUpstreamChain
BY AlwaysIInv, PTL DEF IInv

-----------------------------------------------------------------------------
(* No message of a request is missing *)

\* A node holds a whole request, whose last messages were sent after what the
\* service had; its context has all of them.
Delivered(c) ==
    LET node == store.clients[c]
        msgs == node.message_hashes
    IN  /\ \E r \in Requests : msgs = r.hashes
        /\ \E n \in 0 .. Len(msgs) - 1 :
              gemini[c].context =
                 context_of(node.prev_id) \o SubSeq(msgs, n + 1, Len(msgs))
        /\ Messages(msgs) \subseteq Messages(gemini[c].context)

\* The child of a node, as the index has it, is one of the nodes.
Children ==
    \A p \in DOMAIN store.prev_to_client :
        store.prev_to_client[p] \in DOMAIN store.clients

CInv ==
    /\ IInv
    /\ Linked(store) /\ Children
    /\ \A c \in DOMAIN store.clients : Delivered(c)

\* The context grows along a chain.
LEMMA ContextGrows ==
    ASSUME CInv, NEW c \in DOMAIN store.clients,
           store.clients[c].prev_id \in DOMAIN store.clients
    PROVE  Messages(gemini[store.clients[c].prev_id].context)
             \subseteq Messages(gemini[c].context)
<1> DEFINE node == store.clients[c]
           p == node.prev_id
           old == gemini[p].context
<1>1. PICK n \in 0 .. Len(node.message_hashes) - 1 :
        gemini[c].context =
          context_of(p) \o SubSeq(node.message_hashes, n + 1,
                                 Len(node.message_hashes))
  BY DEF CInv, Delivered
<1>2. p \in Id /\ p # NoId /\ p \in DOMAIN gemini
  BY IdAssumption DEF CInv, IInv, StoreIsKnown, TypeOK, StoreOK, IsMap
<1>3. old \in Seq(Hash) /\ context_of(p) = old
  BY <1>2 DEF CInv, IInv, TypeOK, IsMap, Interaction, context_of
<1> DEFINE new == SubSeq(node.message_hashes, n + 1, Len(node.message_hashes))
<1>4. new \in Seq(Hash)
  BY DEF CInv, IInv, TypeOK, StoreOK, IsMap, ClientInteractionNode
<1> HIDE DEF old, new
<1>5. Messages(old) \subseteq Messages(old \o new)
  BY <1>3, <1>4, MessagesJoined
<1> QED
  BY <1>1, <1>3, <1>5 DEF old, new

\* The stores of the invariant are those the lemmas on walks are about.
LEMMA CInvWalkable == CInv => Walkable(store)
<1> SUFFICES ASSUME CInv, NEW c \in DOMAIN store.clients
             PROVE  told(c, store) # <<>>
  BY DEF Walkable, CInv, IInv, TypeOK
<1> QED
  BY RequestsAssumption DEF CInv, Delivered, told

\* All that a walk has matched is in the context of the node it stands on.
LEMMA MatchedIsInContext ==
    ASSUME CInv, NEW hashes \in Seq(Hash), NEW sys, hashes # <<>>,
           NEW v \in walk_forward(hashes, sys, store)
    PROVE  /\ v.client \in DOMAIN store.clients
           /\ \A j \in 1 .. v.prefix_len :
                 j \in DOMAIN hashes
                   => hashes[j] \in Messages(gemini[v.client].context)
<1> DEFINE known == [c \in DOMAIN store.clients |-> Messages(gemini[c].context)]
<1>1. ASSUME NEW c \in DOMAIN store.clients
      PROVE  /\ Messages(told(c, store)) \subseteq known[c]
             /\ store.clients[c].prev_id \in DOMAIN store.clients
                   => known[store.clients[c].prev_id] \subseteq known[c]
  BY ContextGrows DEF CInv, Delivered, told
<1> HIDE DEF known
<1>2. /\ v.client \in DOMAIN store.clients
      /\ \A j \in 1 .. v.prefix_len :
            j \in DOMAIN hashes => hashes[j] \in known[v.client]
  BY <1>1, CInvWalkable, MatchedIsKnown
<1> QED
  BY <1>2 DEF known

\* What a request is answered in, by type.
LEMMA AnswerTypes ==
    ASSUME CInv, NEW r \in Requests
    PROVE  LET f == frontier(r)
               old == context_of(f.previous_interaction_id)
               new == SubSeq(r.hashes, f.index + 1, Len(r.hashes))
           IN  /\ r.hashes \in Seq(Hash) /\ r.hashes # <<>>
               /\ f.all_known => f.matched_client_id \in DOMAIN store.clients
               /\ ~f.all_known =>
                     /\ f.index \in 0 .. Len(r.hashes) - 1
                     /\ f.previous_interaction_id \in DOMAIN gemini \cup {NoId}
                     /\ old \in Seq(Hash) /\ new \in Seq(Hash)
                     /\ answer_context(r, f) = old \o new
<1> DEFINE f    == frontier(r)
           prev == f.previous_interaction_id
<1>1. r.hashes \in Seq(Hash) /\ r.hashes # <<>> /\ Len(r.hashes) \in Nat
  BY RequestsAssumption
<1>2. /\ f \in Frontier /\ prev \in Named(store) \cup {NoId}
      /\ f.all_known => f.matched_client_id \in DOMAIN store.clients
      /\ ~f.all_known => f.index < Len(r.hashes)
  BY <1>1, find_frontier_OK DEF frontier, CInv, IInv, TypeOK
<1>3. prev \in DOMAIN gemini \cup {NoId} /\ f.index \in Nat
  BY <1>2 DEF Frontier, Named, CInv, IInv, StoreIsKnown
<1>4. context_of(prev) \in Seq(Hash)
  BY <1>3 DEF context_of, CInv, IInv, TypeOK, IsMap, Interaction
<1>5. SubSeq(r.hashes, f.index + 1, Len(r.hashes)) \in Seq(Hash)
  BY <1>1, <1>3
<1>6. ~f.all_known =>
        answer_context(r, f) = context_of(prev)
          \o SubSeq(r.hashes, f.index + 1, Len(r.hashes))
  BY DEF answer_context
<1> HIDE DEF f
<1>7. ~f.all_known => f.index \in 0 .. Len(r.hashes) - 1
  BY <1>1, <1>2, <1>3
<1> QED
  BY <1>1, <1>2, <1>3, <1>4, <1>5, <1>6, <1>7 DEF f

\* For stores of the invariant, nothing is missing.
LEMMA CInvMissing == CInv => NothingMissing
<1> SUFFICES ASSUME CInv, NEW r \in Requests
             PROVE  Messages(r.hashes) \subseteq
                      Messages(answer_context(r, frontier(r)))
  BY DEF NothingMissing
<1> DEFINE f   == frontier(r)
           h   == r.hashes
           old == context_of(f.previous_interaction_id)
           new == SubSeq(h, f.index + 1, Len(h))
<1>1. /\ h \in Seq(Hash) /\ h # <<>> /\ Len(h) \in Nat /\ DOMAIN h = 1 .. Len(h)
  BY RequestsAssumption
<1>2. CASE f.all_known
  <2>1. f.matched_client_id \in DOMAIN store.clients
    BY <1>2, AnswerTypes
  <2>2. f.matched_client_id # NoId
    BY <2>1, IdAssumption DEF CInv, IInv, TypeOK, StoreOK, IsMap
  <2>3. answer_context(r, f) = gemini[f.matched_client_id].context
    BY <1>2, <2>2 DEF answer_context, context_of
  <2>4. PICK v \in walk_forward(h, NoHash, store) :
          v.prefix_len = Len(h) /\ f.matched_client_id = v.client
    BY <1>1, <1>2, FrontierCases DEF frontier, DecidedAt
  <2>5. \A j \in DOMAIN h : h[j] \in Messages(gemini[v.client].context)
    BY <1>1, <2>4, MatchedIsInContext
  <2> QED
    BY <2>3, <2>4, <2>5 DEF Messages
<1>3. CASE ~f.all_known
  <2>1. /\ f.index \in 0 .. Len(h) - 1 /\ old \in Seq(Hash) /\ new \in Seq(Hash)
        /\ answer_context(r, f) = old \o new
    BY <1>3, AnswerTypes
  <2>2. \A j \in 1 .. f.index : h[j] \in Messages(old)
    <3>1. CASE f.index = 0
      BY <3>1
    <3>2. CASE f.index # 0
      <4>1. PICK v \in walk_forward(h, NoHash, store) :
              v.prefix_len = f.index /\ f.previous_interaction_id = v.client
        BY <1>1, <1>3, <3>2, FrontierCases DEF frontier, DecidedAt
      <4>2. v.client \in DOMAIN store.clients
        BY <1>1, MatchedIsInContext
      <4>3. old = gemini[v.client].context
        BY <4>1, <4>2, IdAssumption
           DEF context_of, CInv, IInv, TypeOK, StoreOK, IsMap
      <4>4. \A j \in 1 .. v.prefix_len : j \in DOMAIN h
                => h[j] \in Messages(gemini[v.client].context)
        BY <1>1, MatchedIsInContext
      <4> QED
        BY <1>1, <2>1, <4>1, <4>3, <4>4
    <3> QED
      BY <3>1, <3>2
  <2>3. \A j \in (f.index + 1) .. Len(h) : h[j] \in Messages(new)
    <3> DEFINE n == f.index
    <3>1. n \in Nat /\ n < Len(h)
      BY <1>1, <2>1
    <3>2. DOMAIN new = 1 .. Len(h) - n /\ \A i \in DOMAIN new : new[i] = h[n + i]
      BY <1>1, <3>1
    <3> HIDE DEF n, new
    <3>3. ASSUME NEW j \in (n + 1) .. Len(h) PROVE h[j] \in Messages(new)
      <4>1. j - n \in DOMAIN new /\ n + (j - n) = j
        BY <1>1, <3>1, <3>2
      <4> QED
        BY <3>2, <4>1 DEF Messages
    <3> QED
      BY <3>3 DEF n
  <2> HIDE DEF old, new, f, h
  <2>4. Messages(old) \cup Messages(new) \subseteq Messages(old \o new)
    BY <2>1, MessagesJoined
  <2>5. \A j \in DOMAIN h : j \in 1 .. f.index \/ j \in (f.index + 1) .. Len(h)
    BY <1>1, <2>1
  <2>6. Messages(h) \subseteq Messages(old) \cup Messages(new)
    BY <2>2, <2>3, <2>5 DEF Messages
  <2> QED
    BY <2>1, <2>4, <2>6 DEF f, h
<1> QED
  BY <1>2, <1>3

\* What a delivery adds: the interaction up upstream, and its node new.
Adds(r, id, new, up) ==
    LET f    == frontier(r)
        prev == f.previous_interaction_id
    IN  /\ new.prev_id = prev /\ new.message_hashes = r.hashes
        /\ up.context = answer_context(r, f)
        /\ gemini' = Put(gemini, id, up)
        /\ store'.clients = Put(store.clients, id, new)
        /\ store'.prev_to_client =
             IF prev = NoId THEN store.prev_to_client
             ELSE Put(store.prev_to_client, prev, id)

LEMMA DeliverAdds ==
    ASSUME CInv, NEW r \in Requests, Deliver(r)
    PROVE  /\ ~frontier(r).all_known
           /\ \E id \in Id \ DOMAIN gemini : \E new, up : Adds(r, id, new, up)
<1> DEFINE f    == frontier(r)
           prev == f.previous_interaction_id
           context == answer_context(r, f)
           sys     == answer_system(r, f)
<1> HIDE DEF context, sys, f
<1>1. ~f.all_known
  BY DEF Deliver, f
<1>2. PICK id \in Id \ DOMAIN gemini :
        /\ gemini' = Put(gemini, id, [prev |-> prev, context |-> context,
                                      sys |-> sys])
        /\ store' = set_last_interaction(
             insert_client(insert_upstream(store, id, prev), id,
                      [prev_id |-> prev,
                       message_hashes |-> r.hashes,
                       system_instruction_hash |->
                          IF prev = NoId THEN r.sys ELSE NoHash,
                       upstream_ids |-> <<id>>,
                       last_seen_utc |-> now]), r.session, id)
  BY DEF Deliver, context, sys, f
<1> DEFINE new == [prev_id |-> prev,
                   message_hashes |-> r.hashes,
                   system_instruction_hash |->
                      IF prev = NoId THEN r.sys ELSE NoHash,
                   upstream_ids |-> <<id>>,
                   last_seen_utc |-> now]
           up  == [prev |-> prev, context |-> context, sys |-> sys]
<1> HIDE DEF prev
<1>3. new.prev_id = prev /\ new.message_hashes = r.hashes /\ up.context = context
  OBVIOUS
<1> HIDE DEF new, up
<1>4. /\ gemini' = Put(gemini, id, up)
      /\ store' = set_last_interaction(
            insert_client(insert_upstream(store, id, prev), id, new),
            r.session, id)
  BY <1>2 DEF new, up
<1>5. StoreOK(store)
  BY DEF CInv, IInv, TypeOK
<1>6. /\ store'.clients = Put(store.clients, id, new)
      /\ store'.prev_to_client =
           IF prev = NoId THEN store.prev_to_client
           ELSE Put(store.prev_to_client, prev, id)
  BY <1>3, <1>4, <1>5
     DEF insert_client, insert_upstream, set_last_interaction, StoreOK
<1>7. Adds(r, id, new, up)
  BY <1>3, <1>4, <1>6 DEF Adds, context, prev, f
<1> QED
  BY <1>1, <1>7 DEF f

LEMMA DeliverCInv ==
    ASSUME CInv, NEW r \in Requests, Deliver(r)
    PROVE  CInv'
<1> DEFINE f    == frontier(r)
           prev == f.previous_interaction_id
           h    == r.hashes
<1>1. IInv'
  BY DeliverStep DEF CInv
<1>2. ~f.all_known
  BY DeliverAdds
<1> PICK id \in Id \ DOMAIN gemini : \E new, up : Adds(r, id, new, up)
  BY DeliverAdds
<1> PICK new, up : Adds(r, id, new, up)
  OBVIOUS
<1>3. /\ new.prev_id = prev /\ new.message_hashes = h
      /\ up.context = answer_context(r, f)
      /\ gemini' = Put(gemini, id, up)
      /\ store'.clients = Put(store.clients, id, new)
      /\ store'.prev_to_client =
           IF prev = NoId THEN store.prev_to_client
           ELSE Put(store.prev_to_client, prev, id)
  BY DEF Adds
<1>4. /\ f.index \in 0 .. Len(h) - 1
      /\ prev \in DOMAIN gemini \cup {NoId}
      /\ answer_context(r, f) =
            context_of(prev) \o SubSeq(h, f.index + 1, Len(h))
  BY <1>2, AnswerTypes
<1>5. Messages(h) \subseteq Messages(answer_context(r, f))
  BY CInvMissing DEF NothingMissing
<1> HIDE DEF f, prev, h
<1>6. \A c \in DOMAIN store.clients :
        /\ c # id /\ c \in DOMAIN gemini
        /\ store.clients[c].prev_id \in DOMAIN gemini \cup {NoId}
  BY <1>3 DEF CInv, IInv, StoreIsKnown
<1>7. /\ DOMAIN store'.clients = DOMAIN store.clients \cup {id}
      /\ store'.clients[id] = new
      /\ \A c \in DOMAIN store.clients : store'.clients[c] = store.clients[c]
  BY <1>3, <1>6 DEF Put
<1>8. /\ gemini'[id] = up
      /\ \A c \in DOMAIN gemini : gemini'[c] = gemini[c]
  BY <1>3 DEF Put
<1>9. \A c \in DOMAIN gemini \cup {NoId} : context_of(c)' = context_of(c)
  BY <1>8 DEF context_of
<1>10. Linked(store)' /\ Children'
  BY <1>3, <1>6, <1>7 DEF Linked, Children, CInv, Put
<1>11. ASSUME NEW c \in DOMAIN store.clients PROVE Delivered(c)'
  BY <1>6, <1>7, <1>8, <1>9 DEF Delivered, CInv
<1>12. Delivered(id)'
  <2>1. \E q \in Requests : h = q.hashes
    BY DEF h
  <2> QED
    BY <1>3, <1>4, <1>5, <1>7, <1>8, <1>9, <2>1 DEF Delivered
<1> QED
  BY <1>1, <1>7, <1>10, <1>11, <1>12 DEF CInv

\* A restart rebuilds the index of children from the parents of the nodes.
LEMMA ReloadCInv ==
    ASSUME CInv, Reload
    PROVE  CInv'
<1>1. IInv'
  BY ReloadStep DEF CInv
<1>2. DocumentOK(Document(store)) /\ store' \in load_from_disk(Document(store))
  BY DocumentIsOK DEF CInv, IInv, TypeOK, Reload
<1>3. store'.clients = store.clients /\ gemini' = gemini
  BY <1>2, load_from_disk_Keeps DEF Document, Reload
<1>4. Document(store).clients = store.clients
  BY DEF Document
<1>5. Linked(store)' /\ Children'
  BY <1>2, <1>3, <1>4, load_from_disk_Links DEF Linked, Children
<1>6. ASSUME NEW c \in DOMAIN store.clients PROVE Delivered(c)'
  BY <1>3 DEF CInv, Delivered, context_of
<1> QED
  BY <1>1, <1>3, <1>5, <1>6 DEF CInv

LEMMA InitCInv == Init => CInv
<1> SUFFICES ASSUME Init PROVE CInv
  OBVIOUS
<1>1. /\ store.clients = EmptyMap /\ store.prev_to_client = EmptyMap
      /\ DOMAIN EmptyMap = {}
  BY DEF Init, NewStore, EmptyMap
<1> QED
  BY <1>1, InitIInv DEF CInv, Linked, Children

LEMMA NextCInv == CInv /\ [Next]_vars => CInv'
<1> SUFFICES ASSUME CInv, [Next]_vars PROVE CInv'
  OBVIOUS
<1>1. CASE \E r \in Requests : Deliver(r)
  BY <1>1, DeliverCInv
<1>2. CASE Reload
  BY <1>2, ReloadCInv
<1>3. CASE Tick \/ UNCHANGED vars
  <2>1. IInv'
    BY NextIInv DEF CInv
  <2>2. UNCHANGED <<store, gemini>>
    BY <1>3 DEF Tick, vars
  <2>3. Linked(store)' /\ Children'
    BY <2>2 DEF Linked, Children, CInv
  <2>4. \A c \in DOMAIN store.clients : Delivered(c)'
    BY <2>2 DEF Delivered, context_of, CInv
  <2> QED
    BY <2>1, <2>2, <2>3, <2>4 DEF CInv
<1> QED
  BY <1>1, <1>2, <1>3 DEF Next

LEMMA AlwaysCInv == Spec => []CInv
BY InitCInv, NextCInv, PTL DEF Spec

\* Whatever the requests, each next one is answered in a context that holds
\* all of its messages (find_frontier).
THEOREM NothingIsMissing == Spec => []NothingMissing
BY AlwaysCInv, CInvMissing, PTL

-----------------------------------------------------------------------------
(* Order.  Messages that have an order in time, which every request keeps. *)

context(c) == gemini[c].context

KeepsOrder(rank) ==
    \A r \in Requests : \A i, j \in DOMAIN r.hashes :
        i < j => rank[r.hashes[i]] < rank[r.hashes[j]]

\* What the walk has matched of h stands in one piece, after the first at
\* messages of the context of the node it has come to.
Block(w, h, at) ==
    /\ at \in Nat /\ at + w.prefix_len <= Len(context(w.client))
    /\ \A j \in 1 .. w.prefix_len : context(w.client)[at + j] = h[j]

\* The next message expected is the next of the node, at the end of the
\* context, or the first of a node whose parent was just finished.
Inside(w, at) ==
    at + w.prefix_len + Len(history(w, store)) + 1 =
        Len(context(w.client)) + w.expected
Finished(w, h, at) ==
    LET p    == store.clients[w.client].prev_id
        msgs == store.clients[p].message_hashes
    IN  /\ w.expected = 1 /\ p \in DOMAIN store.clients
        /\ w.prefix_len # 0 /\ at + w.prefix_len = Len(context(p))
        /\ h[w.prefix_len] = msgs[Len(msgs)]

Follows(i, w, h) ==
    \E at \in Nat :
        /\ Block(w, h, at)
        /\ \/ w.stop
           \/ /\ w.prefix_len = i
              /\ Inside(w, at) \/ Finished(w, h, at)

\* The node's history, its context, and the context it was added to.
LEMMA NodeFacts ==
    ASSUME CInv, HistoryIsUpstream, NEW c \in DOMAIN store.clients
    PROVE  LET msgs == store.clients[c].message_hashes
               p    == store.clients[c].prev_id
           IN  /\ msgs \in Seq(Hash) /\ Len(msgs) \in Nat \ {0}
               /\ \E r \in Requests : msgs = r.hashes
               /\ context(c) \in Seq(Hash) /\ Len(context(c)) \in Nat
               /\ Len(msgs) <= Len(context(c))
               /\ \A i \in 1 .. Len(msgs) :
                     context(c)[Len(context(c)) - Len(msgs) + i] = msgs[i]
               /\ p \in DOMAIN store.clients =>
                     /\ context(p) \in Seq(Hash)
                     /\ \E n \in 0 .. Len(msgs) - 1 :
                           Len(context(c)) = Len(context(p)) + Len(msgs) - n
                     /\ \A i \in 1 .. Len(context(p)) :
                           context(c)[i] = context(p)[i]
<1> DEFINE msgs == store.clients[c].message_hashes
           p    == store.clients[c].prev_id
<1>1. msgs \in Seq(Hash) /\ context(c) \in Seq(Hash)
  BY DEF context, CInv, IInv, TypeOK, StoreOK, IsMap, ClientInteractionNode,
         StoreIsKnown, Interaction
<1>2. \E r \in Requests : msgs = r.hashes
  BY DEF CInv, Delivered
<1>3. msgs # <<>>
  BY <1>2, RequestsAssumption
<1>4. IsSuffix(msgs, context(c))
  BY DEF HistoryIsUpstream, context
<1> DEFINE C == context(c)
<1> HIDE DEF msgs, C
<1>5. Len(msgs) <= Len(C) /\ msgs = SubSeq(C, Len(C) - Len(msgs) + 1, Len(C))
  BY <1>4 DEF IsSuffix, C
<1>6. Len(msgs) \in Nat \ {0} /\ Len(C) \in Nat
  BY <1>1, <1>3 DEF C
<1>7. ASSUME NEW i \in 1 .. Len(msgs)
      PROVE  C[Len(C) - Len(msgs) + i] = msgs[i]
  <2> DEFINE a == Len(C) - Len(msgs) + 1
  <2>1. a \in Nat /\ a >= 1 /\ C \in Seq(Hash) /\ i \in 1 .. Len(C) - a + 1
        /\ i \in Nat
    BY <1>1, <1>5, <1>6 DEF C
  <2>2. msgs[i] = SubSeq(C, a, Len(C))[i]
    BY <1>5
  <2> HIDE DEF a
  <2>3. SubSeq(C, a, Len(C))[i] = C[a + i - 1]
    BY <2>1
  <2>4. a + i - 1 = Len(C) - Len(msgs) + i
    BY <1>6, <2>1 DEF a
  <2> QED
    BY <2>2, <2>3, <2>4
<1>8. ASSUME p \in DOMAIN store.clients
      PROVE  /\ context(p) \in Seq(Hash)
             /\ \E n \in 0 .. Len(msgs) - 1 :
                   Len(C) = Len(context(p)) + Len(msgs) - n
             /\ \A i \in 1 .. Len(context(p)) : C[i] = context(p)[i]
  <2> DEFINE P == context(p)
  <2>1. P \in Seq(Hash) /\ context_of(p) = P
    BY <1>8, IdAssumption
       DEF context, context_of, CInv, IInv, TypeOK, StoreOK, IsMap,
           StoreIsKnown, Interaction
  <2>2. PICK n \in 0 .. Len(msgs) - 1 :
          C = context_of(p) \o SubSeq(msgs, n + 1, Len(msgs))
    BY DEF CInv, Delivered, context, msgs, C
  <2> HIDE DEF P
  <2>3. n \in Nat /\ n < Len(msgs) /\ msgs \in Seq(Hash)
    BY <1>1, <1>6 DEF msgs
  <2> DEFINE new == SubSeq(msgs, n + 1, Len(msgs))
  <2>4. new \in Seq(Hash) /\ Len(new) = Len(msgs) - n
    BY <1>6, <2>3
  <2>5. C = P \o new
    BY <2>1, <2>2
  <2> HIDE DEF new
  <2>6. /\ Len(C) = Len(P) + Len(new)
        /\ \A i \in 1 .. Len(P) : C[i] = P[i]
    BY <2>1, <2>4, <2>5, Joined
  <2> QED
    BY <1>6, <2>1, <2>4, <2>6 DEF P
<1> QED
  BY <1>1, <1>2, <1>5, <1>6, <1>7, <1>8 DEF msgs, C

\* A message that is matched is the next of the context.
LEMMA NextOfContext ==
    ASSUME CInv, HistoryIsUpstream, NEW rank \in [Hash -> Nat],
           KeepsOrder(rank), NEW r \in Requests, NEW w \in Walk(store),
           NEW at \in Nat, w.prefix_len + 1 \in DOMAIN r.hashes,
           Block(w, r.hashes, at),
           Inside(w, at) \/ Finished(w, r.hashes, at),
           Matches(w, r.hashes[w.prefix_len + 1], store)
    PROVE  /\ at + w.prefix_len + Len(history(w, store)) + 1 =
                  Len(context(w.client)) + w.expected
           /\ at + w.prefix_len + 1 <= Len(context(w.client))
           /\ context(w.client)[at + w.prefix_len + 1] =
                  r.hashes[w.prefix_len + 1]
<1> DEFINE c == w.client
           H == history(w, store)
           C == context(c)
           e == w.expected
           k == w.prefix_len
           h == r.hashes
           p == store.clients[c].prev_id
<1>1. /\ c \in DOMAIN store.clients /\ k \in Nat /\ e \in DOMAIN H
      /\ H[e] = h[k + 1] /\ h \in Seq(Hash)
  BY RequestsAssumption DEF Matches, Walk
<1>2. /\ H \in Seq(Hash) /\ Len(C) \in Nat /\ Len(H) <= Len(C)
      /\ \A i \in 1 .. Len(H) : C[Len(C) - Len(H) + i] = H[i]
  BY <1>1, NodeFacts DEF history, told
<1>3. /\ DOMAIN h = 1 .. Len(h) /\ DOMAIN H = 1 .. Len(H)
      /\ Len(H) \in Nat /\ e \in Nat /\ e \in 1 .. Len(H)
  BY <1>1, <1>2
<1>4. at + k + Len(H) + 1 = Len(C) + e
  <2>1. CASE Inside(w, at)
    BY <2>1 DEF Inside
  <2>2. CASE Finished(w, h, at)
    <3> DEFINE P  == context(p)
               PH == store.clients[p].message_hashes
    <3>1. /\ e = 1 /\ p \in DOMAIN store.clients /\ k # 0
          /\ at + k = Len(P) /\ h[k] = PH[Len(PH)]
      BY <2>2 DEF Finished
    <3>2. PICK n \in 0 .. Len(H) - 1 :
          Len(C) = Len(P) + Len(H) - n
      BY <1>1, <3>1, NodeFacts DEF history, told
    <3>3. \A i \in 1 .. Len(P) : C[i] = P[i]
      BY <1>1, <3>1, NodeFacts DEF history, told
    <3>4. /\ Len(PH) \in Nat \ {0} /\ Len(P) \in Nat /\ Len(PH) <= Len(P)
          /\ \A i \in 1 .. Len(PH) : P[Len(P) - Len(PH) + i] = PH[i]
      BY <3>1, NodeFacts
    <3>5. PICK q \in Requests : H = q.hashes
      BY <1>1, NodeFacts DEF history, told
    <3> HIDE DEF H, C, e, k, h, p, P, PH, c
    <3>6. P[Len(P)] = h[k] /\ Len(P) \in 1 .. Len(P)
      <4>1. Len(PH) \in 1 .. Len(PH) /\ Len(P) - Len(PH) + Len(PH) = Len(P)
        BY <3>4
      <4> QED
        BY <3>1, <3>4, <4>1
    <3>7. n \in Nat /\ n < Len(H)
      BY <1>3, <3>2
    <3>8. ASSUME n # 0 PROVE FALSE
      <4>1. n \in 1 .. Len(H) /\ Len(C) - Len(H) + n = Len(P)
        BY <1>2, <1>3, <3>2, <3>4, <3>7, <3>8
      <4>2. H[n] = h[k]
        BY <1>2, <3>3, <3>6, <4>1
      <4>3. k \in DOMAIN h /\ k + 1 \in DOMAIN h /\ k < k + 1
        BY <1>1, <1>3, <3>1 DEF h, k
      <4>4. rank[h[k]] < rank[h[k + 1]]
        BY <4>3 DEF KeepsOrder, h
      <4>5. H[1] = h[k + 1]
        BY <1>1, <3>1
      <4>6. h[k] \in Hash /\ h[k + 1] \in Hash
        BY <1>1, <1>3, <4>3
      <4>7. rank[h[k]] \in Nat /\ rank[h[k + 1]] \in Nat
        BY <4>6
      <4>8. CASE n = 1
        BY <4>2, <4>4, <4>5, <4>7, <4>8
      <4>9. CASE n # 1
        <5>1. 1 \in DOMAIN H /\ n \in DOMAIN H /\ 1 < n
          BY <1>3, <4>1, <4>9
        <5>2. rank[H[1]] < rank[H[n]]
          BY <3>5, <5>1 DEF KeepsOrder
        <5> QED
          BY <4>2, <4>4, <4>5, <4>7, <5>2
      <4> QED
        BY <4>8, <4>9
    <3>9. Len(C) = Len(P) + Len(H)
      BY <1>3, <3>2, <3>4, <3>7, <3>8
    <3> QED
      BY <1>3, <3>1, <3>9
  <2> QED
    BY <2>1, <2>2
<1> HIDE DEF H, C, e, k, h, p, c
<1>5. at + k + 1 = Len(C) - Len(H) + e
  <2> DEFINE l == Len(H)
             m == Len(C)
  <2>1. /\ at \in Nat /\ k \in Nat /\ e \in Nat /\ l \in Nat /\ m \in Nat
        /\ at + k + l + 1 = m + e
    BY <1>1, <1>2, <1>3, <1>4
  <2> HIDE DEF l, m
  <2>2. at + k + 1 = m - l + e
    BY <2>1
  <2> QED
    BY <2>2 DEF l, m
<1>6. C[at + k + 1] = h[k + 1] /\ at + k + 1 <= Len(C)
  BY <1>1, <1>2, <1>3, <1>5
<1> QED
  BY <1>4, <1>6 DEF H, C, e, k, h, c

\* One step of a walk.
LEMMA StillFollows ==
    ASSUME CInv, HistoryIsUpstream, NEW rank \in [Hash -> Nat],
           KeepsOrder(rank), NEW r \in Requests, NEW w \in Walk(store),
           NEW i \in 1 .. Len(r.hashes), Follows(i - 1, w, r.hashes)
    PROVE  Follows(i, advance(w, r.hashes[i], store), r.hashes)
<1> DEFINE h == r.hashes
           u == advance(w, h[i], store)
           C == context(w.client)
<1>1. /\ u \in Walk(store)
      /\ \/ Stops(w, u)
         \/ /\ Matches(w, h[i], store)
            /\ StaysInside(w, u, store) \/ MovesOn(w, u, store) \/ RunsOut(w, u, store)
  BY CInvWalkable, Advance
<1> SUFFICES Follows(i, u, h)
  OBVIOUS
<1> HIDE DEF u
<1>2. PICK at \in Nat :
        /\ Block(w, h, at)
        /\ \/ w.stop
           \/ /\ w.prefix_len = i - 1
              /\ Inside(w, at) \/ Finished(w, h, at)
  BY DEF Follows
<1>3. CASE Stops(w, u)
  BY <1>2, <1>3 DEF Stops, Block, Follows
<1>4. CASE Matches(w, h[i], store) /\ (StaysInside(w, u, store) \/ MovesOn(w, u, store) \/ RunsOut(w, u, store))
  <2>1. /\ w.prefix_len = i - 1 /\ i \in Nat /\ w.prefix_len + 1 = i
        /\ h \in Seq(Hash) /\ i \in DOMAIN h
        /\ u.prefix_len = w.prefix_len + 1
    BY <1>2, <1>4, RequestsAssumption
       DEF Matches, StaysInside, MovesOn, RunsOut, Farther
  <2>2. u.prefix_len = i
    BY <2>1
  <2>3. /\ at + w.prefix_len + Len(history(w, store)) + 1 = Len(C) + w.expected
        /\ at + i <= Len(C) /\ C[at + i] = h[i]
    <3>1. Inside(w, at) \/ Finished(w, h, at)
      BY <1>2, <1>4 DEF Matches
    <3>2. at + w.prefix_len + 1 = at + i
      BY <2>1
    <3>3. w.prefix_len + 1 \in DOMAIN h /\ Matches(w, h[w.prefix_len + 1], store)
      BY <1>4, <2>1
    <3>4. /\ at + w.prefix_len + Len(history(w, store)) + 1 = Len(C) + w.expected
          /\ at + w.prefix_len + 1 <= Len(C)
          /\ C[at + w.prefix_len + 1] = h[w.prefix_len + 1]
      <4> HIDE DEF h
      <4>1. h = r.hashes
        BY DEF h
      <4> QED
        BY <1>2, <3>1, <3>3, <4>1, NextOfContext
    <3> HIDE DEF C, h
    <3> QED
      BY <2>1, <3>2, <3>4
  <2>4. \A j \in 1 .. i : C[at + j] = h[j]
    <3>1. \A j \in 1 .. i : j \in 1 .. w.prefix_len \/ j = i
      BY <2>1
    <3> QED
      BY <1>2, <2>3, <3>1 DEF Block
  <2>5. CASE StaysInside(w, u, store)
    <3>1. u.client = w.client /\ u.expected = w.expected + 1 /\ ~u.stop
          /\ history(u, store) = history(w, store)
      BY <2>5 DEF StaysInside, history, told
    <3>2. Block(u, h, at)
      BY <2>2, <2>3, <2>4, <3>1 DEF Block
    <3>3. Inside(u, at)
      <4> DEFINE l == Len(history(w, store))
                 m == Len(C)
                 e == w.expected
                 k == w.prefix_len
      <4>1. l \in Nat /\ m \in Nat /\ e \in Nat /\ k \in Nat
        BY NodeFacts DEF Walk, history, told
      <4>2. at + k + l + 1 = m + e /\ k + 1 = i
        BY <2>1, <2>3
      <4> HIDE DEF l, m, e, k
      <4>3. at + i + l + 1 = m + (e + 1)
        BY <2>1, <4>1, <4>2
      <4> QED
        BY <2>2, <3>1, <4>3 DEF Inside, l, m, e
    <3> QED
      BY <2>2, <3>2, <3>3 DEF Follows
  <2>6. CASE MovesOn(w, u, store)
    <3> DEFINE D == context(u.client)
    <3>1. /\ u.client \in DOMAIN store.clients
          /\ store.clients[u.client].prev_id = w.client
          /\ w.client \in DOMAIN store.clients
          /\ u.expected = 1 /\ w.expected = Len(history(w, store))
          /\ history(w, store)[w.expected] = h[i]
      BY <1>1, <1>4, <2>6 DEF MovesOn, CInv, Linked, Walk, Matches
    <3>2. \A j \in 1 .. Len(C) : D[j] = C[j]
      BY <3>1, NodeFacts
    <3>3. /\ Len(C) \in Nat
          /\ Len(C) <= Len(D)
      <4> DEFINE l == Len(store.clients[u.client].message_hashes)
      <4>1. Len(C) \in Nat
        BY <3>1, NodeFacts
      <4>2. PICK n \in 0 .. l - 1 : Len(D) = Len(C) + l - n
        BY <3>1, NodeFacts
      <4>3. l \in Nat
        BY <3>1, NodeFacts
      <4> HIDE DEF l, C, D
      <4> QED
        BY <4>1, <4>2, <4>3
    <3>4. at + i = Len(C)
      <4> DEFINE l == Len(history(w, store))
                 m == Len(C)
                 k == w.prefix_len
      <4>1. l \in Nat /\ m \in Nat /\ k \in Nat
        BY <3>1, NodeFacts DEF Walk, history, told
      <4>2. at + k + l + 1 = m + l /\ k + 1 = i
        BY <2>1, <2>3, <3>1
      <4> HIDE DEF l, m, k
      <4>3. at + i = m
        BY <2>1, <4>1, <4>2
      <4> QED
        BY <4>3 DEF m
    <3> HIDE DEF C, D
    <3>5. at + i <= Len(D) /\ \A j \in 1 .. i : D[at + j] = h[j]
      <4>1. Len(D) \in Nat
        BY <3>1, NodeFacts DEF D
      <4>2. \A j \in 1 .. i : at + j \in 1 .. Len(C)
        BY <2>1, <3>3, <3>4
      <4> QED
        BY <2>1, <2>4, <3>2, <3>3, <3>4, <4>1, <4>2
    <3>6. Block(u, h, at)
      BY <2>2, <3>5 DEF Block, D
    <3>7. Finished(u, h, at)
      BY <2>1, <2>2, <3>1, <3>4 DEF Finished, C, history, told
    <3> QED
      BY <2>2, <3>6, <3>7 DEF Follows
  <2>7. CASE RunsOut(w, u, store)
    <3>1. u.client = w.client /\ u.stop
      BY <2>7 DEF RunsOut
    <3>2. Block(u, h, at)
      BY <2>2, <2>3, <2>4, <3>1 DEF Block
    <3> QED
      BY <3>1, <3>2 DEF Follows
  <2> QED
    BY <1>4, <2>5, <2>6, <2>7
<1> QED
  BY <1>1, <1>3, <1>4

\* What a walk has matched stands in one piece in the context of the node it
\* has come to.
LEMMA MatchedInOrder ==
    ASSUME CInv, HistoryIsUpstream, NEW rank \in [Hash -> Nat],
           KeepsOrder(rank), NEW r \in Requests, NEW sys,
           NEW v \in walk_forward(r.hashes, sys, store)
    PROVE  v \in Walk(store) /\ \E at \in Nat : Block(v, r.hashes, at)
<1> DEFINE h == r.hashes
           Good == {x \in Nat \X Walk(store) : Follows(x[1], x[2], h)}
<1>1. h \in Seq(Hash) /\ h # <<>>
  BY RequestsAssumption
<1>2. ASSUME NEW p \in start_positions(h, sys, store)
      PROVE  <<0, Begin(p)>> \in Good
  <2> DEFINE w == Begin(p)
  <2>1. w \in Walk(store) /\ w.expected \in DOMAIN history(w, store) /\ w.prefix_len = 0
    BY <1>1, CInvWalkable, Starts DEF Begin
  <2> HIDE DEF w
  <2>2. /\ Len(history(w, store)) \in Nat /\ history(w, store) \in Seq(Hash)
        /\ Len(context(w.client)) \in Nat
        /\ Len(history(w, store)) <= Len(context(w.client))
    BY <2>1, NodeFacts DEF history, told, Walk
  <2> DEFINE l == Len(history(w, store))
             m == Len(context(w.client))
             e == w.expected
             at == m + e - l - 1
  <2>3. l \in Nat /\ m \in Nat /\ e \in 1 .. l /\ l <= m
    BY <2>1, <2>2
  <2> HIDE DEF l, m, e
  <2>4. at \in Nat /\ at <= m /\ at + 0 = at /\ at + 0 + l + 1 = m + e
    BY <2>3
  <2>5. Block(w, h, at)
    BY <2>1, <2>4 DEF Block, m
  <2>6. Inside(w, at)
    BY <2>1, <2>4 DEF Inside, l, m, e
  <2>7. Follows(0, w, h)
    BY <2>1, <2>4, <2>5, <2>6 DEF Follows
  <2> QED
    BY <2>1, <2>7 DEF w
<1>3. ASSUME NEW i \in 1 .. Len(h), NEW w, <<i - 1, w>> \in Good
      PROVE  <<i, advance(w, h[i], store)>> \in Good
  <2>1. w \in Walk(store) /\ Follows(i - 1, w, h) /\ i \in Nat
    BY <1>3
  <2>2. advance(w, h[i], store) \in Walk(store)
    BY <2>1, CInvWalkable, Advance
  <2>3. Follows(i, advance(w, h[i], store), h)
    BY <2>1, StillFollows
  <2> QED
    BY <2>1, <2>2, <2>3
<1>4. <<Len(h), v>> \in Good
  <2> HIDE DEF Good
  <2> QED
    BY <1>1, <1>2, <1>3, Walks
<1> QED
  BY <1>4 DEF Follows

\* k messages of s in one piece of t, and the others behind t.
LEMMA PieceThenRest ==
    ASSUME NEW s \in Seq(Hash), NEW t \in Seq(Hash), NEW k \in 0 .. Len(s),
           NEW at \in Nat, at + k <= Len(t),
           \A j \in 1 .. k : t[at + j] = s[j]
    PROVE  IsSubsequence(s, t \o SubSeq(s, k + 1, Len(s)))
<1> DEFINE new == SubSeq(s, k + 1, Len(s))
           a   == t \o new
           l   == Len(s)
           m   == Len(t)
           f   == [j \in 1 .. l |-> IF j <= k THEN at + j ELSE m + (j - k)]
<1>1. /\ k \in Nat /\ l \in Nat /\ m \in Nat /\ DOMAIN s = 1 .. l
      /\ new \in Seq(Hash) /\ Len(new) = l - k
      /\ \A j \in 1 .. l - k : new[j] = s[k + j]
  OBVIOUS
<1>2. /\ a \in Seq(Hash) /\ Len(a) = m + Len(new)
      /\ \A j \in 1 .. m : a[j] = t[j]
      /\ \A j \in 1 .. Len(new) : a[m + j] = new[j]
  <2> HIDE DEF new
  <2> QED
    BY <1>1, Joined
<1> HIDE DEF new, a, l, m
<1>3. DOMAIN a = 1 .. m + (l - k)
  BY <1>1, <1>2
<1>4. k <= l /\ at + k <= m
  BY <1>1 DEF l, m
<1>5. \A j \in 1 .. l : f[j] \in 1 .. m + (l - k)
  BY <1>1, <1>4
<1>6. \A i, j \in 1 .. l : i < j => f[i] < f[j]
  BY <1>1, <1>4
<1>7. ASSUME NEW j \in 1 .. l PROVE s[j] = a[f[j]]
  <2>1. CASE j <= k
    <3>1. f[j] = at + j /\ at + j \in 1 .. m /\ j \in 1 .. k
      BY <1>1, <1>4, <2>1
    <3> QED
      BY <1>2, <3>1
  <2>2. CASE ~(j <= k)
    <3>1. f[j] = m + (j - k) /\ j - k \in 1 .. l - k /\ k + (j - k) = j
      BY <1>1, <1>4, <2>2
    <3>2. a[m + (j - k)] = new[j - k]
      BY <1>1, <1>2, <3>1
    <3>3. new[j - k] = s[k + (j - k)]
      BY <1>1, <3>1
    <3> QED
      BY <3>1, <3>2, <3>3
  <2> QED
    BY <2>1, <2>2
<1>8. f \in [DOMAIN s -> DOMAIN a]
  BY <1>1, <1>3, <1>5
<1> HIDE DEF f
<1>9. IsSubsequence(s, a)
  BY <1>1, <1>6, <1>7, <1>8 DEF IsSubsequence
<1> QED
  BY <1>9 DEF a, new

\* For stores of the invariant, nothing is lost.
LEMMA CInvLost ==
    ASSUME NEW rank \in [Hash -> Nat], KeepsOrder(rank), CInv
    PROVE  NothingLost
<1> SUFFICES ASSUME HistoryIsUpstream, NEW r \in Requests
             PROVE  IsSubsequence(r.hashes, answer_context(r, frontier(r)))
  BY DEF NothingLost
<1> DEFINE f   == frontier(r)
           h   == r.hashes
           old == context_of(f.previous_interaction_id)
           new == SubSeq(h, f.index + 1, Len(h))
<1>1. h \in Seq(Hash) /\ h # <<>> /\ Len(h) \in Nat
  BY RequestsAssumption
<1>2. CASE f.all_known
  <2>1. f.matched_client_id \in DOMAIN store.clients
    BY <1>2, AnswerTypes
  <2>2. f.matched_client_id # NoId
    BY <2>1, IdAssumption DEF CInv, IInv, TypeOK, StoreOK, IsMap
  <2>3. answer_context(r, f) = context(f.matched_client_id)
    BY <1>2, <2>2 DEF answer_context, context_of, context
  <2>4. PICK v \in walk_forward(h, NoHash, store) :
          v.prefix_len = Len(h) /\ f.matched_client_id = v.client
    BY <1>1, <1>2, FrontierCases DEF frontier, DecidedAt
  <2>5. PICK at \in Nat : Block(v, h, at)
    BY MatchedInOrder
  <2> DEFINE t == context(v.client)
  <2>6. t \in Seq(Hash)
    BY <2>1, <2>4, NodeFacts
  <2>7. at + Len(h) <= Len(t) /\ \A j \in 1 .. Len(h) : t[at + j] = h[j]
    BY <2>4, <2>5 DEF Block
  <2> HIDE DEF t, h
  <2>8. IsSubsequence(h, t \o SubSeq(h, Len(h) + 1, Len(h)))
    <3> DEFINE k == Len(h)
    <3>1. k \in 0 .. Len(h) /\ at + k <= Len(t) /\ \A j \in 1 .. k : t[at + j] = h[j]
      BY <1>1, <2>7
    <3> HIDE DEF k
    <3>2. IsSubsequence(h, t \o SubSeq(h, k + 1, Len(h)))
      BY <1>1, <2>6, <3>1, PieceThenRest
    <3> QED
      BY <3>2 DEF k
  <2>9. t \o SubSeq(h, Len(h) + 1, Len(h)) = t
    BY <1>1, <2>6
  <2> QED
    BY <2>3, <2>4, <2>8, <2>9 DEF t, h
<1>3. CASE ~f.all_known
  <2>1. /\ f.index \in 0 .. Len(h) - 1 /\ old \in Seq(Hash)
        /\ answer_context(r, f) = old \o new
    BY <1>3, AnswerTypes
  <2>2. \E at \in Nat :
          /\ at + f.index <= Len(old)
          /\ \A j \in 1 .. f.index : old[at + j] = h[j]
    <3>1. CASE f.index = 0
      BY <2>1, <3>1
    <3>2. CASE f.index # 0
      <4>1. PICK v \in walk_forward(h, NoHash, store) :
              v.prefix_len = f.index /\ f.previous_interaction_id = v.client
        BY <1>1, <1>3, <3>2, FrontierCases DEF frontier, DecidedAt
      <4>2. v.client \in DOMAIN store.clients
        BY MatchedInOrder DEF Walk
      <4>3. old = context(v.client)
        BY <4>1, <4>2, IdAssumption
           DEF context, context_of, CInv, IInv, TypeOK, StoreOK, IsMap
      <4>4. PICK at \in Nat : Block(v, h, at)
        BY MatchedInOrder
      <4> QED
        BY <4>1, <4>3, <4>4 DEF Block
    <3> QED
      BY <3>1, <3>2
  <2> DEFINE k == f.index
  <2>3. k \in 0 .. Len(h)
    BY <1>1, <2>1
  <2> HIDE DEF f, h, old
  <2>4. IsSubsequence(h, old \o SubSeq(h, k + 1, Len(h)))
    <3> HIDE DEF k
    <3> QED
      BY <1>1, <2>1, <2>2, <2>3, PieceThenRest DEF k
  <2> QED
    BY <2>1, <2>4 DEF f, h
<1> QED
  BY <1>2, <1>3

\* If the messages have an order in time that every request keeps, so that no
\* request says a thing twice, the context of each next answer holds the
\* messages of the request in their order, for as long as each node's context
\* ends with the node's history (find_frontier).
THEOREM NothingIsLost ==
    ASSUME NEW rank \in [Hash -> Nat],
           \A r \in Requests : \A i, j \in DOMAIN r.hashes :
               i < j => rank[r.hashes[i]] < rank[r.hashes[j]]
    PROVE  Spec => []NothingLost
<1>1. KeepsOrder(rank)
  BY DEF KeepsOrder
<1>2. CInv => NothingLost
  BY <1>1, CInvLost
<1> QED
  BY <1>2, AlwaysCInv, PTL

-----------------------------------------------------------------------------
(* A client that only appends *)

\* A history the service has been told as it is, with all it is on top of.
Exact(t) ==
    /\ Chained(t, store)
    /\ \A c \in DOMAIN store.clients :
          Touches(c, t, store) => context(c) = told(c, store)

Rooted ==
    \A c \in DOMAIN store.clients :
        store.clients[c].prev_id \in DOMAIN store.clients \cup {NoId}

LInv ==
    /\ CInv
    /\ Rooted
    /\ IsFiniteSet(DOMAIN store.clients)
    /\ \A r \in Requests : Appended(r.hashes, store) => Exact(r.hashes)

\* A request that begins t, or is t, is answered in its own history.
LEMMA AnsweredExactly ==
    ASSUME LInv, NEW t \in Seq(Hash), NoRepeats(t), Appended(t, store), Exact(t),
           NEW r \in Requests, Begins(r.hashes, t),
           ~frontier(r).all_known \/ r.hashes = t
    PROVE  answer_context(r, frontier(r)) = r.hashes
<1> DEFINE f    == frontier(r)
           prev == f.previous_interaction_id
           c    == f.matched_client_id
           q    == r.hashes
<1>1. /\ q \in Seq(Hash) /\ Len(q) \in Nat /\ \A i \in 1 .. Len(q) : q[i] = t[i]
      /\ Len(q) <= Len(t)
  BY DEF Begins
<1>2. /\ f.all_known =>
            /\ c \in DOMAIN store.clients /\ Touches(c, t, store)
            /\ Len(q) = Len(told(c, store)) \/ q # t
      /\ ~f.all_known =>
            \/ prev = NoId /\ f.index = 0
            \/ /\ prev \in DOMAIN store.clients /\ Touches(prev, t, store)
               /\ f.index = Len(told(prev, store)) /\ f.index < Len(q)
  BY CInvWalkable, AppendedFrontier DEF LInv, Exact, frontier
<1>3. \A x \in DOMAIN store.clients : Touches(x, t, store) =>
        /\ told(x, store) \in Seq(Hash) /\ Len(told(x, store)) \in Nat
        /\ \A i \in 1 .. Len(told(x, store)) : told(x, store)[i] = t[i]
        /\ context_of(x) = told(x, store)
  <2> TAKE x \in DOMAIN store.clients
  <2>1. x # NoId
    BY IdAssumption DEF LInv, CInv, IInv, TypeOK, StoreOK, IsMap
  <2> QED
    BY <2>1, CInvWalkable, TouchedNode DEF LInv, Exact, context_of, context
<1> DEFINE answer == answer_context(r, f)
<1>4. answer = IF f.all_known THEN context_of(c)
               ELSE context_of(prev) \o SubSeq(q, f.index + 1, Len(q))
  BY DEF answer_context
<1>5. f.all_known => q = t
  OBVIOUS
<1> SUFFICES answer = q
  OBVIOUS
<1> HIDE DEF answer, f, q
<1>6. CASE f.all_known
  <2>1. /\ c \in DOMAIN store.clients /\ Touches(c, t, store)
        /\ Len(told(c, store)) = Len(q)
    BY <1>2, <1>5, <1>6
  <2>2. told(c, store) = q
    <3>1. told(c, store) \in Seq(Hash) /\ \A i \in 1 .. Len(told(c, store)) : told(c, store)[i] = q[i]
      BY <1>1, <1>3, <2>1
    <3> HIDE DEF c
    <3> QED
      BY <1>1, <2>1, <3>1, BeginningAndRest
  <2> QED
    BY <1>3, <1>4, <1>6, <2>1, <2>2
<1>7. CASE ~f.all_known /\ prev = NoId /\ f.index = 0
  <2>1. answer = <<>> \o SubSeq(q, 0 + 1, Len(q))
    BY <1>4, <1>7 DEF context_of
  <2> QED
    BY <1>1, <2>1
<1>8. CASE /\ ~f.all_known
           /\ prev \in DOMAIN store.clients /\ Touches(prev, t, store)
           /\ f.index = Len(told(prev, store)) /\ f.index < Len(q)
  <2>1. answer = told(prev, store) \o SubSeq(q, Len(told(prev, store)) + 1, Len(q))
    BY <1>3, <1>4, <1>8
  <2> DEFINE s == told(prev, store)
  <2>2. s \in Seq(Hash) /\ Len(s) \in Nat /\ \A i \in 1 .. Len(s) : s[i] = t[i]
    BY <1>3, <1>8
  <2>3. Len(s) < Len(q)
    BY <1>8
  <2> HIDE DEF s
  <2>4. Len(s) <= Len(q) /\ \A i \in 1 .. Len(s) : s[i] = q[i]
    BY <1>1, <2>2, <2>3
  <2>5. s \o SubSeq(q, Len(s) + 1, Len(q)) = q
    BY <1>1, <2>2, <2>4, BeginningAndRest
  <2> QED
    BY <2>1, <2>5 DEF s
<1> QED
  BY <1>2, <1>6, <1>7, <1>8

\* How a delivery keeps a history exact.
LEMMA DeliverExact ==
    ASSUME LInv, NEW r \in Requests, Deliver(r),
           NEW t \in Seq(Hash), NoRepeats(t), Exact(t), Appended(t, store)'
    PROVE  Exact(t)'
<1> DEFINE f    == frontier(r)
           prev == f.previous_interaction_id
           q    == r.hashes
<1>1. q \in Seq(Hash) /\ q # <<>>
  BY RequestsAssumption
<1>2. ~f.all_known
  BY DeliverAdds DEF LInv
<1> PICK id \in Id \ DOMAIN gemini : \E new, up : Adds(r, id, new, up)
  BY DeliverAdds DEF LInv
<1> PICK new, up : Adds(r, id, new, up)
  OBVIOUS
<1>3. /\ new.prev_id = prev /\ new.message_hashes = q
      /\ up.context = answer_context(r, f)
      /\ gemini' = Put(gemini, id, up)
      /\ store'.clients = Put(store.clients, id, new)
  BY DEF Adds
<1>4. \A c \in DOMAIN store.clients :
        /\ c # id /\ c \in DOMAIN gemini
        /\ store.clients[c].prev_id \in DOMAIN gemini \cup {NoId}
        /\ store.clients[c].prev_id # id
  BY <1>3, IdAssumption DEF LInv, CInv, IInv, StoreIsKnown
<1>5. /\ DOMAIN store'.clients = DOMAIN store.clients \cup {id}
      /\ store'.clients[id] = new
      /\ \A c \in DOMAIN store.clients : store'.clients[c] = store.clients[c]
  BY <1>3, <1>4 DEF Put
<1>6. /\ gemini'[id] = up
      /\ \A c \in DOMAIN gemini : gemini'[c] = gemini[c]
  BY <1>3 DEF Put
<1>7. /\ \A c \in DOMAIN store.clients :
            /\ told(c, store)' = told(c, store) /\ context(c)' = context(c)
            /\ Touches(c, t, store)' <=> Touches(c, t, store)
      /\ told(id, store)' = q /\ context(id)' = answer_context(r, f)
      /\ Touches(id, t, store)' <=> SharesMessage(q, t)
  BY <1>3, <1>4, <1>5, <1>6 DEF told, context, Touches
<1>8. Appended(t, store)
  BY <1>5, <1>7 DEF Appended
<1>9. prev # id
  <2>1. prev \in DOMAIN gemini \cup {NoId}
    BY <1>2, AnswerTypes DEF LInv
  <2> QED
    BY <1>3, <2>1, IdAssumption
<1>10. ASSUME SharesMessage(q, t)
       PROVE  /\ prev \in DOMAIN store.clients =>
                     Touches(prev, t, store) /\ Len(told(prev, store)) < Len(q)
              /\ answer_context(r, f) = q
  <2>1. IsInitial(q, t)
    BY <1>5, <1>7, <1>10 DEF Appended
  <2>2. Begins(q, t)
    <3> DEFINE n == Len(q)
    <3>1. n \in Nat /\ n <= Len(t) /\ Len(t) \in Nat /\ q = SubSeq(t, 1, n)
      BY <1>1, <2>1 DEF IsInitial
    <3> HIDE DEF n, q
    <3>2. \A i \in 1 .. n : SubSeq(t, 1, n)[i] = t[i]
      BY <3>1
    <3> QED
      BY <1>1, <3>1, <3>2 DEF Begins, n
  <2>3. answer_context(r, f) = q
    BY <1>2, <1>8, <2>2, AnsweredExactly
  <2>4. \/ prev = NoId /\ f.index = 0
        \/ /\ prev \in DOMAIN store.clients /\ Touches(prev, t, store)
           /\ f.index = Len(told(prev, store)) /\ f.index < Len(q)
    BY <1>2, <1>8, <2>2, CInvWalkable, AppendedFrontier DEF LInv, Exact, frontier
  <2>5. NoId \notin DOMAIN store.clients
    BY IdAssumption DEF LInv, CInv, IInv, TypeOK, StoreOK, IsMap
  <2> HIDE DEF f, q
  <2> QED
    BY <2>3, <2>4, <2>5
<1>11. ASSUME ~SharesMessage(q, t), prev \in DOMAIN store.clients
       PROVE  ~Touches(prev, t, store)
  BY <1>1, <1>2, <1>8, <1>11, CInvWalkable, OtherChains DEF LInv, Exact, frontier
<1> HIDE DEF f, prev, q
<1> DEFINE ExactAt(c) ==
             LET p == store.clients[c].prev_id
             IN  /\ p \in DOMAIN store.clients =>
                      /\ Touches(c, t, store) <=> Touches(p, t, store)
                      /\ Touches(c, t, store) => Len(told(p, store)) < Len(told(c, store))
                 /\ Touches(c, t, store) => context(c) = told(c, store)
<1>12. ASSUME NEW c \in DOMAIN store.clients PROVE ExactAt(c)'
  <2>1. ExactAt(c)
    BY DEF Exact, Chained
  <2>2. store'.clients[c].prev_id = store.clients[c].prev_id
    BY <1>5
  <2>3. store.clients[c].prev_id \in DOMAIN store'.clients
           => store.clients[c].prev_id \in DOMAIN store.clients
    BY <1>4, <1>5
  <2> QED
    BY <1>7, <2>1, <2>2, <2>3
<1>13. ExactAt(id)'
  <2>1. store'.clients[id].prev_id = prev
    BY <1>3, <1>5
  <2>2. prev \in DOMAIN store'.clients => prev \in DOMAIN store.clients
    BY <1>5, <1>9
  <2> QED
    BY <1>7, <1>10, <1>11, <2>1, <2>2
<1>14. \A c \in DOMAIN store'.clients : ExactAt(c)'
  BY <1>5, <1>12, <1>13
<1> QED
  BY <1>14 DEF Exact, Chained

LEMMA DeliverLInv ==
    ASSUME \A r \in Requests : NoRepeats(r.hashes),
           LInv, NEW r \in Requests, Deliver(r)
    PROVE  LInv'
<1> DEFINE f    == frontier(r)
           prev == f.previous_interaction_id
<1>1. CInv'
  BY DeliverCInv DEF LInv
<1> PICK id \in Id \ DOMAIN gemini : \E new, up : Adds(r, id, new, up)
  BY DeliverAdds DEF LInv
<1> PICK new, up : Adds(r, id, new, up)
  OBVIOUS
<1>2. /\ new.prev_id = prev /\ new.message_hashes = r.hashes
      /\ up.context = answer_context(r, f)
      /\ gemini' = Put(gemini, id, up)
      /\ store'.clients = Put(store.clients, id, new)
  BY DEF Adds
<1>3. prev \in Named(store) \cup {NoId}
  BY RequestsAssumption, find_frontier_OK
     DEF frontier, LInv, CInv, IInv, TypeOK
<1>4. prev \in DOMAIN store.clients \cup {NoId}
  BY <1>3 DEF Named, LInv, Rooted
<1>5. \A c \in DOMAIN store.clients : c # id
  BY <1>2 DEF LInv, CInv, IInv, StoreIsKnown
<1> HIDE DEF f, prev
<1>6. /\ DOMAIN store'.clients = DOMAIN store.clients \cup {id}
      /\ store'.clients[id] = new
      /\ \A c \in DOMAIN store.clients : store'.clients[c] = store.clients[c]
  BY <1>2, <1>5 DEF Put
<1>7. Rooted'
  BY <1>2, <1>4, <1>6 DEF LInv, Rooted
<1>8. IsFiniteSet(DOMAIN store'.clients)
  BY <1>6, FS_AddElement DEF LInv
<1>9. ASSUME NEW s \in Requests, Appended(s.hashes, store)' PROVE Exact(s.hashes)'
  <2> DEFINE t == s.hashes
  <2>1. t \in Seq(Hash) /\ NoRepeats(t)
    BY RequestsAssumption
  <2>2. Appended(t, store)
    <3>1. ASSUME NEW c \in DOMAIN store.clients, Touches(c, t, store)
          PROVE  IsInitial(told(c, store), t)
      <4>1. told(c, store)' = told(c, store) /\ c \in DOMAIN store'.clients
        BY <1>6 DEF told
      <4>2. Touches(c, t, store)'
        BY <3>1, <4>1 DEF Touches
      <4> QED
        BY <1>9, <4>1, <4>2 DEF Appended
    <3> QED
      BY <3>1 DEF Appended
  <2>3. Exact(t)
    BY <2>2 DEF LInv
  <2> HIDE DEF t
  <2>4. Exact(t)'
    <3>1. Appended(t, store)'
      BY <1>9 DEF t
    <3> QED
      BY <2>1, <2>3, <3>1, DeliverExact
  <2> QED
    BY <2>4 DEF t
<1> QED
  BY <1>1, <1>7, <1>8, <1>9 DEF LInv

\* The rest of Next does not change what LInv is about.
LEMMA KeepsLInv ==
    ASSUME LInv, CInv', store'.clients = store.clients, gemini' = gemini
    PROVE  LInv'
<1>1. \A c : told(c, store)' = told(c, store) /\ context(c)' = context(c)
  BY DEF told, context
<1>2. \A c, t : Touches(c, t, store)' <=> Touches(c, t, store)
  BY <1>1 DEF Touches
<1>3. \A t : (Appended(t, store)' <=> Appended(t, store)) /\ (Exact(t)' <=> Exact(t))
  BY <1>1, <1>2 DEF Appended, Exact, Chained
<1> QED
  BY <1>3 DEF LInv, Rooted

LEMMA InitLInv == Init => LInv
<1> SUFFICES ASSUME Init PROVE LInv
  OBVIOUS
<1>1. DOMAIN store.clients = {}
  BY DEF Init, NewStore, EmptyMap
<1>2. IsFiniteSet(DOMAIN store.clients)
  BY <1>1, FS_EmptySet
<1> QED
  BY <1>1, <1>2, InitCInv DEF LInv, Rooted, Exact, Chained

LEMMA NextLInv ==
    ASSUME \A r \in Requests : NoRepeats(r.hashes), LInv, [Next]_vars
    PROVE  LInv'
<1>1. CInv'
  BY NextCInv DEF LInv
<1>2. CASE \E r \in Requests : Deliver(r)
  BY <1>2, DeliverLInv
<1>3. CASE Reload
  <2>1. DocumentOK(Document(store)) /\ store' \in load_from_disk(Document(store))
    BY <1>3, DocumentIsOK DEF LInv, CInv, IInv, TypeOK, Reload
  <2>2. store'.clients = store.clients /\ gemini' = gemini
    BY <1>3, <2>1, load_from_disk_Keeps DEF Document, Reload
  <2> QED
    BY <1>1, <2>2, KeepsLInv
<1>4. CASE Tick \/ UNCHANGED vars
  <2>1. store' = store /\ gemini' = gemini
    BY <1>4 DEF Tick, vars
  <2> QED
    BY <1>1, <2>1, KeepsLInv
<1> QED
  BY <1>2, <1>3, <1>4 DEF Next

LEMMA LInvExact ==
    ASSUME \A r \in Requests : NoRepeats(r.hashes), LInv
    PROVE  LinearHistoryIsExact
<1> SUFFICES ASSUME NEW r \in Requests, Appended(r.hashes, store)
             PROVE  answer_context(r, frontier(r)) = r.hashes
  BY DEF LinearHistoryIsExact, Appended, Touches, told
<1>1. r.hashes \in Seq(Hash) /\ r.hashes # <<>> /\ NoRepeats(r.hashes)
  BY RequestsAssumption
<1>2. Exact(r.hashes)
  BY DEF LInv
<1>3. Begins(r.hashes, r.hashes)
  BY <1>1 DEF Begins
<1> QED
  BY <1>1, <1>2, <1>3, AnsweredExactly

\* If no request says a thing twice, a client that has only appended to its
\* history has each next request answered in exactly that history, whatever
\* other clients did meanwhile (find_frontier).
THEOREM AppendingIsExact ==
    ASSUME \A r \in Requests : \A i, j \in DOMAIN r.hashes :
               r.hashes[i] = r.hashes[j] => i = j
    PROVE  Spec => []LinearHistoryIsExact
<1>1. \A r \in Requests : NoRepeats(r.hashes)
  BY DEF NoRepeats
<1>2. LInv => LinearHistoryIsExact
  BY <1>1, LInvExact
<1>3. LInv /\ [Next]_vars => LInv'
  BY <1>1, NextLInv
<1> QED
  BY <1>2, <1>3, InitLInv, PTL DEF Spec
=============================================================================
