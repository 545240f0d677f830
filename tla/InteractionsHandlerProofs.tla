--------------------- MODULE InteractionsHandlerProofs ---------------------
(***************************************************************************)
(* For every set of requests and whatever they ask, and for every number   *)
(* of faults:                                                              *)
(*                                                                         *)
(*   - the types of InteractionsHandler are respected.  This needs what    *)
(*     each handler relies on when it comes to a step: that there is a     *)
(*     message left to send, that an id has been received, and that the    *)
(*     piece it sends is one of its batch (IInv);                          *)
(*   - an interaction has one owner.  It is held by the handler that       *)
(*     received it, then is a piece of a batch or a client node (OInv).    *)
(*     Two results follow: published nodes never change, and what          *)
(*     clean-all removes stays removed as long as saves run to their end.  *)
(*                                                                         *)
(* For ownership a step is one of: quiet (no interaction gets a new        *)
(* owner), a receipt (the service creates one for a handler), an           *)
(* acknowledgement (handler to batch), a publication (handler or batch to  *)
(* node), a clean-up, a crash.                                             *)
(***************************************************************************)
EXTENDS InteractionsHandler, StoreV2Proofs

Progress(r) ==
    /\ is_query(r) => task[r].start < Len(ask[r].hashes)
    /\ task[r].pc \notin Ends \cup {"idle", "clean"} => is_query(r)
    /\ task[r].pc \in {"store", "streaming", "draining",
                       "ack", "complete", "upsert"} => task[r].last \in Id
    /\ task[r].pc \in {"mark", "send", "ack"} =>
           task[r].piece \in 1 .. piece_count(r)

IInv == TypeOK /\ \A r \in Request : Progress(r)

-----------------------------------------------------------------------------
(* What a request asks *)

LEMMA AskOK ==
    ASSUME NEW r \in Request
    PROVE  /\ ask[r] \in Ask
           /\ ask[r].session \in Session
           /\ ask[r].hashes \in Seq(Hash)
           /\ ask[r].sys \in Hash \cup {NoHash}
           /\ ask[r].parts \in Nat \ {0}
           /\ is_query(r) => ask[r].hashes # <<>>
BY AskAssumption DEF Ask

LEMMA new_messages_OK ==
    ASSUME IInv, NEW r \in Request, is_query(r)
    PROVE  /\ new_messages(r) \in Seq(Hash)
           /\ Len(new_messages(r)) \in Nat \ {0}
<1>1. /\ task[r].start \in Nat /\ task[r].start < Len(ask[r].hashes)
      /\ ask[r].hashes \in Seq(Hash) /\ Len(ask[r].hashes) \in Nat
  BY AskOK DEF IInv, Progress, TypeOK, Task
<1> DEFINE h == ask[r].hashes
           m == task[r].start + 1
<1>2. h \in Seq(Hash) /\ m \in Int /\ Len(h) \in Int
      /\ 1 <= m /\ m <= Len(h)
  BY <1>1
<1>3. new_messages(r) = SubSeq(h, m, Len(h))
  BY DEF new_messages
<1> HIDE DEF h, m
<1>4. \A i \in m .. Len(h) : h[i] \in Hash
  BY <1>2
<1>5. /\ SubSeq(h, m, Len(h)) \in Seq(Hash)
      /\ Len(SubSeq(h, m, Len(h))) = Len(h) - m + 1
  BY <1>2, <1>4, SubSeqProperties
<1> QED
  BY <1>2, <1>3, <1>5

LEMMA piece_count_OK ==
    ASSUME IInv, NEW r \in Request, is_query(r)
    PROVE  /\ system_parts(r) \in Nat
           /\ piece_count(r) = system_parts(r) + Len(new_messages(r))
           /\ piece_count(r) \in Nat \ {0}
<1>1. system_parts(r) \in Nat
  BY AskOK DEF system_parts
<1> QED
  BY <1>1, new_messages_OK DEF piece_count

LEMMA piece_content_OK ==
    ASSUME IInv, NEW r \in Request, is_query(r),
           task[r].piece \in 1 .. piece_count(r)
    PROVE  piece_content(r) \in Seq(Hash)
<1>1. CASE task[r].piece <= system_parts(r)
  BY <1>1 DEF piece_content
<1>2. CASE ~(task[r].piece <= system_parts(r))
  <2> DEFINE m == new_messages(r)
             i == task[r].piece - system_parts(r)
  <2>1. m \in Seq(Hash) /\ i \in 1 .. Len(m)
    BY <1>2, new_messages_OK, piece_count_OK
  <2>2. piece_content(r) = <<m[i]>>
    BY <1>2 DEF piece_content
  <2> HIDE DEF m, i
  <2>3. m[i] \in Hash
    BY <2>1
  <2> QED
    BY <2>2, <2>3
<1> QED
  BY <1>1, <1>2

LEMMA system_hash_OK ==
    ASSUME NEW r \in Request
    PROVE  system_hash(r) \in Hash \cup {NoHash}
BY AskOK DEF system_hash

LEMMA waiting_frontier_OK ==
    ASSUME IInv, NEW r \in Request, is_query(r)
    PROVE  waiting_frontier(r).matched_client_id \in Id \cup {NoId}
<1>1. waiting_frontier(r) \in Frontier
  BY AskOK, find_frontier_OK DEF waiting_frontier, IInv, TypeOK
<1> QED
  BY <1>1 DEF Frontier

-----------------------------------------------------------------------------
(* Steps of one task, saves, faults and the service *)

\* The task of r becomes t, the others stay what they are.
LEMMA TaskStep ==
    ASSUME IInv, NEW r \in Request, NEW t \in Task,
           task' = [task EXCEPT ![r] = t],
           is_query(r) => t.start < Len(ask[r].hashes),
           t.pc \notin Ends \cup {"idle", "clean"} => is_query(r),
           t.pc \in {"store", "streaming", "draining",
                     "ack", "complete", "upsert"} => t.last \in Id,
           t.pc \in {"mark", "send", "ack"} =>
              /\ t.piece \in 1 .. piece_count(r)
              /\ t.start = task[r].start /\ t.prev = task[r].prev
    PROVE  /\ task' \in [Request -> Task]
           /\ \A q \in Request : Progress(q)'
<1>1. task \in [Request -> Task] /\ \A q \in Request : Progress(q)
  BY DEF IInv, TypeOK
<1>2. task' \in [Request -> Task]
  BY <1>1
<1>3. ASSUME NEW q \in Request, q # r
      PROVE  Progress(q)'
  <2>1. task'[q] = task[q]
    BY <1>1, <1>3
  <2>2. piece_count(q)' = piece_count(q)
    BY <2>1 DEF piece_count, system_parts, splits_system, new_messages
  <2> QED
    BY <1>1, <2>1, <2>2 DEF Progress, is_query
<1>4. Progress(r)'
  <2>1. task'[r] = t
    BY <1>1
  <2>2. t.pc \in {"mark", "send", "ack"} => piece_count(r)' = piece_count(r)
    BY <2>1 DEF piece_count, system_parts, splits_system, new_messages
  <2> QED
    BY <2>1, <2>2 DEF Progress, is_query
<1> QED
  BY <1>2, <1>3, <1>4

\* The task of r goes on to pc with nothing else changed.
LEMMA GotoStep ==
    ASSUME IInv, NEW r \in Request, NEW pc \in PC, Goto(r, pc),
           pc \notin Ends \cup {"idle", "clean"} => is_query(r),
           pc \in {"store", "streaming", "draining",
                   "ack", "complete", "upsert"} => task[r].last \in Id,
           pc \in {"mark", "send", "ack"} =>
               task[r].piece \in 1 .. piece_count(r)
    PROVE  /\ task' \in [Request -> Task]
           /\ \A q \in Request : Progress(q)'
<1> DEFINE t == [task[r] EXCEPT !.pc = pc]
<1>1. task[r] \in Task /\ Progress(r) /\ task \in [Request -> Task]
  BY DEF IInv, TypeOK
<1>2. /\ t \in Task /\ t.pc = pc /\ t.start = task[r].start
      /\ t.last = task[r].last /\ t.piece = task[r].piece
      /\ t.prev = task[r].prev
  BY <1>1 DEF Task
<1>3. task' = [task EXCEPT ![r] = t]
  BY <1>1 DEF Goto
<1> HIDE DEF t
<1> QED
  BY <1>1, <1>2, <1>3, TaskStep DEF Progress

LEMMA ReplayFromStep ==
    ASSUME IInv, NEW r \in Request, is_query(r), NEW id \in Id \cup {NoId},
           ReplayFrom(r, id)
    PROVE  /\ task' \in [Request -> Task]
           /\ \A q \in Request : Progress(q)'
<1> DEFINE t == [task[r] EXCEPT !.pc = "replay", !.node = id]
<1>1. task[r] \in Task /\ Progress(r) /\ task \in [Request -> Task]
  BY DEF IInv, TypeOK
<1>2. t \in Task /\ t.pc = "replay" /\ t.start = task[r].start
  BY <1>1 DEF Task, PC
<1>3. task' = [task EXCEPT ![r] = t]
  BY <1>1 DEF ReplayFrom
<1> HIDE DEF t
<1> QED
  BY <1>1, <1>2, <1>3, TaskStep DEF Progress, Ends

LEMMA CommitStep ==
    ASSUME DocumentOK(disk), NEW s, StoreOK(s), Commit(s)
    PROVE  StoreOK(store') /\ DocumentOK(disk')
<1>1. store' = s /\ disk' \in {disk, Document(s)}
  BY DEF Commit
<1> QED
  BY <1>1, DocumentIsOK

LEMMA FaultStep ==
    ASSUME IInv, NEW k \in FaultKind, Fault(k)
    PROVE  faults' \in [FaultKind -> Nat]
BY DEF IInv, TypeOK, Fault

LEMMA CreateStep ==
    ASSUME IInv, NEW id \in Id, NEW prev \in Id \cup {NoId},
           NEW content \in Seq(Hash), Create(id, prev, content)
    PROVE  IsMap(gemini', Id, Interaction)
<1>1. IsMap(gemini, Id, Interaction)
  BY DEF IInv, TypeOK
<1>2. context_of(prev) \in Seq(Hash)
  BY <1>1 DEF Create, can_continue, context_of, IsMap, Interaction
<1> DEFINE new == [prev |-> prev, context |-> context_of(prev) \o content,
                   state |-> "live"]
<1>3. new \in Interaction
  BY <1>2 DEF Interaction
<1>4. gemini' = Put(gemini, id, new)
  BY DEF Create
<1> HIDE DEF new
<1> QED
  BY <1>1, <1>3, <1>4, PutIsMap

LEMMA CallFailsStep ==
    ASSUME IInv, NEW prev \in Id \cup {NoId}, NEW content \in Seq(Hash),
           CallFails(prev, content)
    PROVE  IsMap(gemini', Id, Interaction) /\ faults' \in [FaultKind -> Nat]
<1>1. CASE ~can_continue(prev) /\ UNCHANGED <<gemini, faults>>
  BY <1>1 DEF IInv, TypeOK
<1>2. CASE Fault("upstream") /\ UNCHANGED gemini
  BY <1>2, FaultStep DEF IInv, TypeOK, FaultKind
<1>3. CASE Fault("upstream") /\ \E id \in Id : Create(id, prev, content)
  BY <1>3, FaultStep, CreateStep DEF FaultKind
<1> QED
  BY <1>1, <1>2, <1>3 DEF CallFails

LEMMA set_state_OK ==
    ASSUME IInv, NEW id,
           NEW st \in {"live", "cancelled", "deleted"}
    PROVE  IsMap(set_state(id, st), Id, Interaction)
<1>1. IsMap(gemini, Id, Interaction)
  BY DEF IInv, TypeOK
<1>2. CASE id \notin DOMAIN gemini
  BY <1>1, <1>2 DEF set_state
<1>3. CASE id \in DOMAIN gemini
  <2> DEFINE new == IF gemini[id].state = "deleted" THEN "deleted" ELSE st
             x   == [gemini[id] EXCEPT !.state = new]
  <2>1. gemini[id] \in Interaction
    BY <1>1, <1>3 DEF IsMap
  <2>2. new \in {"live", "cancelled", "deleted"}
    OBVIOUS
  <2> HIDE DEF new
  <2>3. x \in Interaction
    BY <2>1, <2>2 DEF Interaction
  <2>4. set_state(id, st) = [gemini EXCEPT ![id] = x]
    BY <1>1, <1>3 DEF set_state, new, IsMap
  <2> HIDE DEF x
  <2> QED
    BY <1>1, <1>3, <2>3, <2>4 DEF IsMap
<1> QED
  BY <1>2, <1>3

LEMMA AnswerStep ==
    ASSUME IInv, NEW r \in Request, is_query(r), NEW id \in Id,
           Answer(r, id)
    PROVE  /\ task' \in [Request -> Task]
           /\ \A q \in Request : Progress(q)'
           /\ faults' \in [FaultKind -> Nat]
<1>1. CASE /\ task' = [task EXCEPT ![r].pc = "done", ![r].node = id]
           /\ UNCHANGED faults
  <2> DEFINE t == [task[r] EXCEPT !.pc = "done", !.node = id]
  <2>1. task[r] \in Task /\ Progress(r) /\ task \in [Request -> Task]
    BY DEF IInv, TypeOK
  <2>2. t \in Task /\ t.pc = "done" /\ t.start = task[r].start
    BY <2>1 DEF Task, PC, Ends
  <2>3. task' = [task EXCEPT ![r] = t]
    BY <1>1, <2>1
  <2> HIDE DEF t
  <2> QED
    BY <1>1, <2>1, <2>2, <2>3, TaskStep DEF Progress, Ends, IInv, TypeOK
<1>2. CASE Goto(r, "failed") /\ Fault("upstream")
  BY <1>2, GotoStep, FaultStep DEF PC, Ends, FaultKind
<1> QED
  BY <1>1, <1>2 DEF Answer

LEMMA Combine ==
    ASSUME IInv, StoreOK(store'), DocumentOK(disk'),
           task' \in [Request -> Task], \A q \in Request : Progress(q)',
           IsMap(gemini', Id, Interaction), faults' \in [FaultKind -> Nat],
           UNCHANGED world
    PROVE  IInv'
BY DEF IInv, TypeOK, world

LEMMA TaskOnly ==
    ASSUME IInv, UNCHANGED <<store, disk, gemini, faults, world>>,
           task' \in [Request -> Task], \A q \in Request : Progress(q)'
    PROVE  IInv'
BY DEF IInv, TypeOK, world

-----------------------------------------------------------------------------
(* Arriving, waiting, replaying *)

LEMMA ArriveStep ==
    ASSUME IInv, NEW r \in Request, Arrive(r)
    PROVE  IInv'
<1> DEFINE f == find_frontier(ask[r].hashes, NoId, NoHash, store)
<1>1. /\ is_query(r) /\ UNCHANGED <<store, disk, gemini, faults, world>>
      /\ IF f.all_known
           THEN ReplayFrom(r, f.matched_client_id)
           ELSE task' = [task EXCEPT
                           ![r].pc = "probe", ![r].start = f.index,
                           ![r].prev = f.previous_interaction_id]
  BY DEF Arrive
<1>2. /\ f \in Frontier
      /\ ~f.all_known => f.index < Len(ask[r].hashes)
  BY <1>1, AskOK, find_frontier_OK DEF IInv, TypeOK
<1> HIDE DEF f
<1>3. CASE f.all_known
  BY <1>1, <1>2, <1>3, ReplayFromStep, TaskOnly DEF Frontier
<1>4. CASE ~f.all_known
  <2> DEFINE t == [task[r] EXCEPT !.pc = "probe", !.start = f.index,
                                  !.prev = f.previous_interaction_id]
  <2>1. task[r] \in Task /\ task \in [Request -> Task]
    BY DEF IInv, TypeOK
  <2>2. t \in Task /\ t.pc = "probe" /\ t.start = f.index
    BY <1>2, <2>1 DEF Task, PC, Frontier
  <2>3. task' = [task EXCEPT ![r] = t]
    BY <1>1, <1>4, <2>1
  <2> HIDE DEF t
  <2> QED
    BY <1>1, <1>2, <1>4, <2>2, <2>3, TaskStep, TaskOnly DEF Ends
<1> QED
  BY <1>3, <1>4

\* A task that waits for a batch of the store.
LEMMA WaitStep ==
    ASSUME IInv, NEW r \in Request, is_query(r),
           NEW pc \in {"poll", "dup"}, NEW b \in matching_batches(r),
           task' = [task EXCEPT ![r].pc = pc, ![r].batch = b]
    PROVE  /\ task' \in [Request -> Task]
           /\ \A q \in Request : Progress(q)'
<1> DEFINE t == [task[r] EXCEPT !.pc = pc, !.batch = b]
<1>1. task[r] \in Task /\ Progress(r) /\ task \in [Request -> Task]
  BY DEF IInv, TypeOK
<1>2. b \in BatchId
  BY DEF matching_batches, find_matching_batch, IInv, TypeOK, StoreOK, IsMap
<1>3. t \in Task /\ t.pc = pc /\ t.start = task[r].start
  BY <1>1, <1>2 DEF Task, PC
<1>4. task' = [task EXCEPT ![r] = t]
  BY <1>1
<1> HIDE DEF t
<1> QED
  BY <1>1, <1>3, <1>4, TaskStep DEF Progress

\* Somebody who is not idle, not at an end and not cleaning is a query.
LEMMA RunningQuery ==
    ASSUME IInv, NEW r \in Request,
           task[r].pc \notin Ends \cup {"idle", "clean"}
    PROVE  is_query(r)
BY DEF IInv, Progress

LEMMA WaitingSteps ==
    ASSUME IInv, NEW r \in Request,
           Probe(r) \/ Poll(r) \/ PollTimeout(r) \/ Recheck(r)
    PROVE  IInv'
<1>1. is_query(r)
  BY RunningQuery DEF Probe, Poll, PollTimeout, Recheck, At, Ends
<1>2. CASE Probe(r)
  BY <1>1, <1>2, GotoStep, WaitStep, TaskOnly DEF Probe, PC
<1>3. CASE Poll(r)
  BY <1>1, <1>3, GotoStep, TaskOnly DEF Poll, PC
<1>4. CASE PollTimeout(r)
  BY <1>1, <1>4, GotoStep, TaskOnly DEF PollTimeout, PC
<1>5. CASE Recheck(r)
  BY <1>1, <1>5, GotoStep, ReplayFromStep, waiting_frontier_OK, TaskOnly
     DEF Recheck, PC
<1> QED
  BY <1>2, <1>3, <1>4, <1>5

LEMMA ReplayStep ==
    ASSUME IInv, NEW r \in Request, Replay(r)
    PROVE  IInv'
<1>1. is_query(r)
  BY RunningQuery DEF Replay, At, Ends
<1>2. CASE task[r].node \notin DOMAIN store.clients
  BY <1>1, <1>2, GotoStep, TaskOnly DEF Replay, PC, Ends
<1>3. CASE task[r].node \in DOMAIN store.clients
  <2> DEFINE ids == store.clients[task[r].node].upstream_ids
             t   == [task[r] EXCEPT !.pc = "fetch", !.fetch = ids]
  <2>1. task[r] \in Task /\ Progress(r) /\ task \in [Request -> Task]
    BY DEF IInv, TypeOK
  <2>2. ids \in Seq(Id)
    BY <1>3 DEF IInv, TypeOK, StoreOK, IsMap, ClientInteractionNode
  <2>3. /\ task' = [task EXCEPT ![r].pc = "fetch", ![r].fetch = ids]
        /\ UNCHANGED <<store, disk, gemini, faults, world>>
    BY <1>3 DEF Replay
  <2> HIDE DEF ids
  <2>4. t \in Task /\ t.pc = "fetch" /\ t.start = task[r].start
    BY <2>1, <2>2 DEF Task, PC
  <2>5. task' = [task EXCEPT ![r] = t]
    BY <2>1, <2>3
  <2> HIDE DEF t
  <2> QED
    BY <1>1, <2>1, <2>3, <2>4, <2>5, TaskStep, TaskOnly DEF Progress
<1> QED
  BY <1>2, <1>3

LEMMA FetchStep ==
    ASSUME IInv, NEW r \in Request, Fetch(r)
    PROVE  IInv'
<1>1. is_query(r)
  BY RunningQuery DEF Fetch, At, Ends
<1> DEFINE pc == IF Tail(task[r].fetch) = <<>> THEN "done" ELSE "fetch"
           rest == Tail(task[r].fetch)
           t == [task[r] EXCEPT !.fetch = rest, !.pc = pc]
<1>2. task[r] \in Task /\ Progress(r) /\ task \in [Request -> Task]
  BY DEF IInv, TypeOK
<1>3. pc \in {"done", "fetch"} /\ rest \in Seq(Id)
  BY <1>2 DEF Task, Fetch
<1>4. task' = [task EXCEPT ![r] = t]
  BY <1>2 DEF Fetch
<1> HIDE DEF pc, rest
<1>5. t \in Task /\ t.pc = pc /\ t.start = task[r].start
  BY <1>2, <1>3 DEF Task, PC, Ends
<1> HIDE DEF t
<1>6. task' \in [Request -> Task] /\ \A q \in Request : Progress(q)'
  BY <1>1, <1>2, <1>3, <1>4, <1>5, TaskStep DEF Progress
<1>7. StoreOK(store') /\ DocumentOK(disk')
  BY CommitStep DEF Fetch, IInv, TypeOK
<1>8. UNCHANGED <<gemini, faults, world>>
  BY DEF Fetch
<1> QED
  BY <1>6, <1>7, <1>8, Combine DEF IInv, TypeOK

LEMMA FetchFailsStep ==
    ASSUME IInv, NEW r \in Request, FetchFails(r)
    PROVE  IInv'
<1>1. is_query(r)
  BY RunningQuery DEF FetchFails, At, Ends
<1>2. task' \in [Request -> Task] /\ \A q \in Request : Progress(q)'
  BY <1>1, GotoStep DEF FetchFails, PC, Ends
<1>3. faults' \in [FaultKind -> Nat]
  BY FaultStep DEF FetchFails, FaultKind, IInv, TypeOK
<1>4. UNCHANGED <<store, disk, gemini, world>>
  BY DEF FetchFails
<1> QED
  BY <1>2, <1>3, <1>4, Combine DEF IInv, TypeOK

-----------------------------------------------------------------------------
(* Sending in one piece *)

\* The task of r has received id and goes on to pc.
LEMMA ReceiveStep ==
    ASSUME IInv, NEW r \in Request, is_query(r), NEW id \in Id,
           NEW pc \in PC \ {"mark", "send"},
           pc = "ack" => task[r].piece \in 1 .. piece_count(r),
           task' = [task EXCEPT ![r].last = id, ![r].pc = pc]
    PROVE  /\ task' \in [Request -> Task]
           /\ \A q \in Request : Progress(q)'
<1> DEFINE t == [task[r] EXCEPT !.last = id, !.pc = pc]
<1>1. task[r] \in Task /\ Progress(r) /\ task \in [Request -> Task]
  BY DEF IInv, TypeOK
<1>2. /\ t \in Task /\ t.pc = pc /\ t.start = task[r].start
      /\ t.last = id /\ t.piece = task[r].piece /\ t.prev = task[r].prev
  BY <1>1 DEF Task
<1>3. task' = [task EXCEPT ![r] = t]
  BY <1>1
<1> HIDE DEF t
<1> QED
  BY <1>1, <1>2, <1>3, TaskStep DEF Progress

LEMMA prev_OK ==
    ASSUME IInv, NEW r \in Request
    PROVE  task[r].prev \in Id \cup {NoId} /\ task[r].last \in Id \cup {NoId}
BY DEF IInv, TypeOK, Task

LEMMA PostStep ==
    ASSUME IInv, NEW r \in Request, Post(r)
    PROVE  IInv'
<1>1. is_query(r)
  BY RunningQuery DEF Post, sends_whole, At, Ends
<1> DEFINE pc == IF ask[r].stream THEN "streaming" ELSE "store"
<1>2. PICK id \in Id :
        /\ Create(id, task[r].prev, new_messages(r))
        /\ task' = [task EXCEPT ![r].last = id, ![r].pc = pc]
  BY DEF Post
<1>3. pc \in {"streaming", "store"}
  OBVIOUS
<1>4. IsMap(gemini', Id, Interaction)
  BY <1>1, <1>2, CreateStep, prev_OK, new_messages_OK
<1> HIDE DEF pc
<1>5. task' \in [Request -> Task] /\ \A q \in Request : Progress(q)'
  BY <1>1, <1>2, <1>3, ReceiveStep DEF PC
<1>6. UNCHANGED <<store, disk, faults, world>>
  BY DEF Post
<1> QED
  BY <1>4, <1>5, <1>6, Combine DEF IInv, TypeOK

LEMMA PostFailsStep ==
    ASSUME IInv, NEW r \in Request, PostFails(r)
    PROVE  IInv'
<1>1. is_query(r)
  BY RunningQuery DEF PostFails, sends_whole, At, Ends
<1>2. IsMap(gemini', Id, Interaction) /\ faults' \in [FaultKind -> Nat]
  BY <1>1, CallFailsStep, prev_OK, new_messages_OK DEF PostFails
<1>3. task' \in [Request -> Task] /\ \A q \in Request : Progress(q)'
  BY <1>1, GotoStep DEF PostFails, PC, Ends
<1>4. UNCHANGED <<store, disk, world>>
  BY DEF PostFails
<1> QED
  BY <1>2, <1>3, <1>4, Combine DEF IInv, TypeOK

LEMMA with_node_OK ==
    ASSUME IInv, NEW r \in Request, is_query(r), task[r].last \in Id
    PROVE  StoreOK(with_node(r))
<1> DEFINE id   == task[r].last
           prev == task[r].prev
           node == [prev_id |-> prev,
                    message_hashes |-> ask[r].hashes,
                    system_instruction_hash |-> system_hash(r),
                    upstream_ids |-> <<id>>,
                    last_seen_utc |-> now]
           s1   == insert_upstream(store, id, prev)
           s2   == insert_client(s1, id, node)
<1>1. id \in Id /\ prev \in Id \cup {NoId} /\ now \in Nat /\ StoreOK(store)
  BY prev_OK DEF IInv, TypeOK
<1>2. with_node(r) = set_last_interaction(s2, ask[r].session, id)
  BY DEF with_node
<1> HIDE DEF id, prev
<1>3. node \in ClientInteractionNode
  BY <1>1, AskOK, system_hash_OK DEF ClientInteractionNode
<1> HIDE DEF node
<1>4. StoreOK(s1)
  BY <1>1, insert_upstream_OK
<1> HIDE DEF s1
<1>5. StoreOK(s2)
  BY <1>1, <1>3, <1>4, insert_client_OK
<1> HIDE DEF s2
<1> QED
  BY <1>1, <1>2, <1>5, AskOK, set_last_interaction_OK

LEMMA StoreNodeStep ==
    ASSUME IInv, NEW r \in Request, StoreNode(r)
    PROVE  IInv'
<1>1. is_query(r) /\ task[r].last \in Id
  BY RunningQuery DEF StoreNode, At, Ends, IInv, Progress
<1>2. /\ task' \in [Request -> Task] /\ \A q \in Request : Progress(q)'
      /\ faults' \in [FaultKind -> Nat]
  BY <1>1, AnswerStep DEF StoreNode
<1>3. StoreOK(store') /\ DocumentOK(disk')
  BY <1>1, with_node_OK, CommitStep DEF StoreNode, IInv, TypeOK
<1>4. UNCHANGED <<gemini, world>>
  BY DEF StoreNode
<1> QED
  BY <1>2, <1>3, <1>4, Combine DEF IInv, TypeOK

LEMMA StreamCreatedStep ==
    ASSUME IInv, NEW r \in Request, StreamCreated(r)
    PROVE  IInv'
<1>1. is_query(r) /\ task[r].last \in Id
  BY RunningQuery DEF StreamCreated, At, Ends, IInv, Progress
<1>2. task' \in [Request -> Task] /\ \A q \in Request : Progress(q)'
  BY <1>1, GotoStep DEF StreamCreated, PC
<1>3. StoreOK(store') /\ DocumentOK(disk')
  BY <1>1, with_node_OK, CommitStep DEF StreamCreated, IInv, TypeOK
<1>4. UNCHANGED <<gemini, faults, world>>
  BY DEF StreamCreated
<1> QED
  BY <1>2, <1>3, <1>4, Combine DEF IInv, TypeOK

LEMMA StreamEndsStep ==
    ASSUME IInv, NEW r \in Request, StreamEnds(r)
    PROVE  IInv'
<1>1. is_query(r)
  BY RunningQuery DEF StreamEnds, At, Ends
<1> DEFINE t == [task[r] EXCEPT !.pc = "done", !.node = task[r].last]
<1>2. task[r] \in Task /\ Progress(r) /\ task \in [Request -> Task]
  BY DEF IInv, TypeOK
<1>3. t \in Task /\ t.pc = "done" /\ t.start = task[r].start
  BY <1>2 DEF Task, PC, Ends
<1>4. task' = [task EXCEPT ![r] = t]
  BY <1>2 DEF StreamEnds
<1> HIDE DEF t
<1> QED
  BY <1>1, <1>2, <1>3, <1>4, TaskStep, TaskOnly DEF Progress, Ends, StreamEnds

LEMMA StreamBreaksStep ==
    ASSUME IInv, NEW r \in Request, StreamBreaks(r)
    PROVE  IInv'
<1>1. is_query(r)
  BY RunningQuery DEF StreamBreaks, At, Ends
<1>2. task' \in [Request -> Task] /\ \A q \in Request : Progress(q)'
  BY <1>1, GotoStep DEF StreamBreaks, PC, Ends
<1>3. faults' \in [FaultKind -> Nat] /\ UNCHANGED <<store, disk, gemini, world>>
  BY FaultStep DEF StreamBreaks, FaultKind
<1> QED
  BY <1>2, <1>3, Combine DEF IInv, TypeOK

-----------------------------------------------------------------------------
(* Split sends *)

LEMMA CreateBatchStep ==
    ASSUME IInv, NEW r \in Request, CreateBatch(r)
    PROVE  IInv'
<1>1. is_query(r)
  BY RunningQuery DEF CreateBatch, At, Ends
<1> DEFINE b == <<ask[r].session, now>>
           s == create_batch(store, b, task[r].prev, ask[r].hashes,
                             system_hash(r), piece_count(r))
           t == [task[r] EXCEPT !.pc = "mark", !.batch = b, !.piece = 1,
                                !.last = task[r].prev]
<1>2. task[r] \in Task /\ Progress(r) /\ task \in [Request -> Task]
  BY DEF IInv, TypeOK
<1>3. b \in BatchId
  BY AskOK DEF BatchId, IInv, TypeOK
<1>4. /\ task' = [task EXCEPT ![r].pc = "mark", ![r].batch = b,
                              ![r].piece = 1, ![r].last = task[r].prev]
      /\ Commit(s) /\ UNCHANGED <<gemini, faults, world>>
  BY DEF CreateBatch
<1> HIDE DEF b
<1>5. /\ t \in Task /\ t.pc = "mark" /\ t.start = task[r].start
      /\ t.piece = 1 /\ t.prev = task[r].prev
  BY <1>2, <1>3, prev_OK DEF Task, PC
<1>6. task' = [task EXCEPT ![r] = t]
  BY <1>2, <1>4
<1> HIDE DEF t
<1>7. 1 \in 1 .. piece_count(r)
  BY <1>1, piece_count_OK
<1>8. task' \in [Request -> Task] /\ \A q \in Request : Progress(q)'
  BY <1>1, <1>2, <1>5, <1>6, <1>7, TaskStep DEF Progress
<1>9. StoreOK(s)
  BY <1>1, <1>3, AskOK, prev_OK, system_hash_OK, piece_count_OK,
     create_batch_OK DEF IInv, TypeOK
<1> HIDE DEF s
<1>10. StoreOK(store') /\ DocumentOK(disk')
  BY <1>4, <1>9, CommitStep DEF IInv, TypeOK
<1> QED
  BY <1>4, <1>8, <1>10, Combine DEF IInv, TypeOK

LEMMA DuplicateSteps ==
    ASSUME IInv, NEW r \in Request,
           JoinBatch(r) \/ DupPoll(r) \/ DupTimeout(r) \/ DupReady(r)
    PROVE  IInv'
<1>1. is_query(r)
  BY RunningQuery DEF JoinBatch, DupPoll, DupTimeout, DupReady, At, Ends
<1>2. CASE JoinBatch(r)
  BY <1>1, <1>2, WaitStep, TaskOnly DEF JoinBatch
<1>3. CASE DupPoll(r)
  BY <1>1, <1>3, GotoStep, TaskOnly DEF DupPoll, PC
<1>4. CASE DupTimeout(r)
  BY <1>1, <1>4, GotoStep, TaskOnly DEF DupTimeout, PC, Ends
<1>5. CASE DupReady(r)
  BY <1>1, <1>5, GotoStep, ReplayFromStep, waiting_frontier_OK, TaskOnly
     DEF DupReady, PC, Ends
<1> QED
  BY <1>2, <1>3, <1>4, <1>5

LEMMA MarkStep ==
    ASSUME IInv, NEW r \in Request, Mark(r)
    PROVE  IInv'
<1>1. is_query(r) /\ task[r].piece \in 1 .. piece_count(r)
  BY RunningQuery DEF Mark, At, Ends, IInv, Progress
<1>2. task' \in [Request -> Task] /\ \A q \in Request : Progress(q)'
  BY <1>1, GotoStep DEF Mark, PC
<1>3. StoreOK(store') /\ DocumentOK(disk')
  BY mark_response_started_OK, CommitStep DEF Mark, IInv, TypeOK
<1>4. UNCHANGED <<gemini, faults, world>>
  BY DEF Mark
<1> QED
  BY <1>2, <1>3, <1>4, Combine DEF IInv, TypeOK

LEMMA SendPieceStep ==
    ASSUME IInv, NEW r \in Request, SendPiece(r)
    PROVE  IInv'
<1>1. is_query(r) /\ task[r].piece \in 1 .. piece_count(r)
  BY RunningQuery DEF SendPiece, At, Ends, IInv, Progress
<1>2. PICK id \in Id :
        /\ Create(id, task[r].last, piece_content(r))
        /\ task' = [task EXCEPT ![r].last = id, ![r].pc = "ack"]
  BY DEF SendPiece
<1>3. IsMap(gemini', Id, Interaction)
  BY <1>1, <1>2, CreateStep, prev_OK, piece_content_OK
<1>4. task' \in [Request -> Task] /\ \A q \in Request : Progress(q)'
  BY <1>1, <1>2, ReceiveStep DEF PC
<1>5. UNCHANGED <<store, disk, faults, world>>
  BY DEF SendPiece
<1> QED
  BY <1>3, <1>4, <1>5, Combine DEF IInv, TypeOK

LEMMA PieceFailsStep ==
    ASSUME IInv, NEW r \in Request, PieceFails(r)
    PROVE  IInv'
<1>1. is_query(r) /\ task[r].piece \in 1 .. piece_count(r)
  BY RunningQuery DEF PieceFails, At, Ends, IInv, Progress
<1> DEFINE b    == task[r].batch
           undo == IF b \in DOMAIN store.in_flight
                     THEN acked_ids(store.in_flight[b]) ELSE {}
           t    == [task[r] EXCEPT !.pc = "cancel", !.undo = undo]
<1>2. task[r] \in Task /\ Progress(r) /\ task \in [Request -> Task]
  BY DEF IInv, TypeOK
<1>3. undo \subseteq Id
  BY acked_ids_OK DEF IInv, TypeOK, StoreOK, IsMap
<1>4. /\ task' = [task EXCEPT ![r].pc = "cancel", ![r].undo = undo]
      /\ CallFails(task[r].last, piece_content(r))
      /\ Commit(fail_batch(store, b)) /\ UNCHANGED world
  BY DEF PieceFails
<1> HIDE DEF undo
<1>5. t \in Task /\ t.pc = "cancel" /\ t.start = task[r].start
  BY <1>2, <1>3 DEF Task, PC
<1>6. task' = [task EXCEPT ![r] = t]
  BY <1>2, <1>4
<1> HIDE DEF t
<1>7. task' \in [Request -> Task] /\ \A q \in Request : Progress(q)'
  BY <1>1, <1>2, <1>5, <1>6, TaskStep DEF Progress
<1>8. IsMap(gemini', Id, Interaction) /\ faults' \in [FaultKind -> Nat]
  BY <1>1, <1>4, CallFailsStep, prev_OK, piece_content_OK
<1>9. StoreOK(store') /\ DocumentOK(disk')
  BY <1>4, fail_batch_OK, CommitStep DEF IInv, TypeOK
<1> QED
  BY <1>4, <1>7, <1>8, <1>9, Combine

LEMMA NoCreatedEventStep ==
    ASSUME IInv, NEW r \in Request, NoCreatedEvent(r)
    PROVE  IInv'
<1>1. is_query(r) /\ task[r].piece \in 1 .. piece_count(r)
  BY RunningQuery DEF NoCreatedEvent, At, Ends, IInv, Progress
<1>2. IsMap(gemini', Id, Interaction)
  BY <1>1, CreateStep, prev_OK, piece_content_OK DEF NoCreatedEvent
<1>3. task' \in [Request -> Task] /\ \A q \in Request : Progress(q)'
  BY <1>1, GotoStep DEF NoCreatedEvent, PC, Ends
<1>4. faults' \in [FaultKind -> Nat] /\ UNCHANGED <<store, disk, world>>
  BY FaultStep DEF NoCreatedEvent, FaultKind
<1> QED
  BY <1>2, <1>3, <1>4, Combine DEF IInv, TypeOK

LEMMA AckStep ==
    ASSUME IInv, NEW r \in Request, Ack(r)
    PROVE  IInv'
<1>1. /\ is_query(r) /\ task[r].last \in Id
      /\ task[r].piece \in 1 .. piece_count(r) /\ piece_count(r) \in Nat
  BY RunningQuery, piece_count_OK DEF Ack, At, Ends, IInv, Progress
<1> DEFINE b == task[r].batch
           i == task[r].piece
<1>2. StoreOK(store') /\ DocumentOK(disk')
  BY <1>1, acknowledge_OK, CommitStep DEF Ack, IInv, TypeOK
<1>3. UNCHANGED <<gemini, world>>
  BY DEF Ack
<1>4. CASE /\ i < piece_count(r)
           /\ task' = [task EXCEPT ![r].pc = "mark", ![r].piece = i + 1]
           /\ UNCHANGED faults
  <2> DEFINE t == [task[r] EXCEPT !.pc = "mark", !.piece = i + 1]
  <2>1. task[r] \in Task /\ Progress(r) /\ task \in [Request -> Task]
    BY DEF IInv, TypeOK
  <2>2. /\ t \in Task /\ t.pc = "mark" /\ t.start = task[r].start
        /\ t.piece = i + 1 /\ t.prev = task[r].prev
    <3>1. "mark" \in PC
      BY DEF PC
    <3>2. i + 1 \in Nat
      BY <2>1 DEF Task
    <3> HIDE DEF i
    <3> QED
      BY <2>1, <3>1, <3>2 DEF Task
  <2>3. task' = [task EXCEPT ![r] = t]
    BY <1>4, <2>1
  <2>4. i + 1 \in 1 .. piece_count(r)
    BY <1>1, <1>4
  <2> HIDE DEF t
  <2>5. task' \in [Request -> Task] /\ \A q \in Request : Progress(q)'
    BY <1>1, <2>1, <2>2, <2>3, <2>4, TaskStep DEF Progress
  <2> QED
    BY <1>2, <1>3, <1>4, <2>5, Combine DEF IInv, TypeOK
<1>5. CASE Goto(r, "complete") /\ UNCHANGED faults
  <2>1. task' \in [Request -> Task] /\ \A q \in Request : Progress(q)'
    BY <1>1, <1>5, GotoStep DEF PC
  <2> QED
    BY <1>2, <1>3, <1>5, <2>1, Combine DEF IInv, TypeOK
<1>6. CASE Goto(r, "failed") /\ Fault("upstream")
  <2>1. task' \in [Request -> Task] /\ \A q \in Request : Progress(q)'
    BY <1>1, <1>6, GotoStep DEF PC, Ends
  <2>2. faults' \in [FaultKind -> Nat]
    BY <1>6, FaultStep DEF FaultKind
  <2> QED
    BY <1>2, <1>3, <2>1, <2>2, Combine DEF IInv, TypeOK
<1> QED
  BY <1>4, <1>5, <1>6 DEF Ack

LEMMA CompleteStep ==
    ASSUME IInv, NEW r \in Request, Complete(r)
    PROVE  IInv'
<1> DEFINE b == task[r].batch
           s == complete_batch(store, b, now)
           ids == batch_ids(store.in_flight[b])
<1>1. is_query(r) /\ task[r].last \in Id
  BY RunningQuery DEF Complete, At, Ends, IInv, Progress
<1>2. UNCHANGED <<gemini, world>>
  BY DEF Complete
<1>3. StoreOK(store) /\ DocumentOK(disk) /\ now \in Nat
  BY DEF IInv, TypeOK
<1>4. b \in DOMAIN store.in_flight => StoreOK(s)
  BY <1>3, complete_batch_OK
<1>5. CASE /\ batch_is_complete(store, b) /\ Commit(s)
           /\ splits_system(r) /\ Goto(r, "upsert") /\ UNCHANGED faults
  <2>1. StoreOK(store') /\ DocumentOK(disk')
    BY <1>3, <1>4, <1>5, CommitStep DEF batch_is_complete
  <2>2. task' \in [Request -> Task] /\ \A q \in Request : Progress(q)'
    BY <1>1, <1>5, GotoStep DEF PC
  <2> QED
    BY <1>2, <1>5, <2>1, <2>2, Combine DEF IInv, TypeOK
<1>6. CASE /\ batch_is_complete(store, b) /\ Commit(s)
           /\ Answer(r, ids[Len(ids)])
  <2>1. StoreOK(store') /\ DocumentOK(disk')
    BY <1>3, <1>4, <1>6, CommitStep DEF batch_is_complete
  <2>2. ids[Len(ids)] \in Id
    BY <1>3, <1>6, complete_node_OK
  <2> HIDE DEF ids
  <2>3. /\ task' \in [Request -> Task] /\ \A q \in Request : Progress(q)'
        /\ faults' \in [FaultKind -> Nat]
    BY <1>1, <1>6, <2>2, AnswerStep
  <2> QED
    BY <1>2, <2>1, <2>3, Combine DEF IInv, TypeOK
<1>7. CASE /\ store' = IF b \in DOMAIN store.in_flight THEN s ELSE store
           /\ Goto(r, "failed") /\ UNCHANGED <<disk, faults>>
  <2>1. StoreOK(store') /\ DocumentOK(disk')
    BY <1>3, <1>4, <1>7
  <2>2. task' \in [Request -> Task] /\ \A q \in Request : Progress(q)'
    BY <1>1, <1>7, GotoStep DEF PC, Ends
  <2> QED
    BY <1>2, <1>7, <2>1, <2>2, Combine DEF IInv, TypeOK
<1> QED
  BY <1>5, <1>6, <1>7 DEF Complete

LEMMA TranslateFailsStep ==
    ASSUME IInv, NEW r \in Request, TranslateFails(r)
    PROVE  IInv'
<1>1. is_query(r)
  BY RunningQuery DEF TranslateFails, At, Ends
<1>2. task' \in [Request -> Task] /\ \A q \in Request : Progress(q)'
  BY <1>1, GotoStep DEF TranslateFails, PC, Ends
<1>3. faults' \in [FaultKind -> Nat] /\ UNCHANGED <<store, disk, gemini, world>>
  BY FaultStep DEF TranslateFails, FaultKind
<1> QED
  BY <1>2, <1>3, Combine DEF IInv, TypeOK

LEMMA UpsertStep ==
    ASSUME IInv, NEW r \in Request, Upsert(r)
    PROVE  IInv'
<1>1. is_query(r) /\ task[r].last \in Id
  BY RunningQuery DEF Upsert, At, Ends, IInv, Progress
<1>2. StoreOK(set_last_interaction(store, ask[r].session, task[r].last))
  BY <1>1, AskOK, set_last_interaction_OK DEF IInv, TypeOK
<1>3. StoreOK(store') /\ DocumentOK(disk')
  BY <1>2, CommitStep DEF Upsert, IInv, TypeOK
<1>4. /\ task' \in [Request -> Task] /\ \A q \in Request : Progress(q)'
      /\ faults' \in [FaultKind -> Nat]
  BY <1>1, AnswerStep DEF Upsert
<1>5. UNCHANGED <<gemini, world>>
  BY DEF Upsert
<1> QED
  BY <1>3, <1>4, <1>5, Combine DEF IInv, TypeOK

-----------------------------------------------------------------------------
(* Undoing, cleaning and touching *)

\* One id less to undo.
LEMMA UndoOne ==
    ASSUME IInv, NEW r \in Request, task[r].pc \in {"cancel", "clean"},
           NEW id, task' = [task EXCEPT ![r].undo = @ \ {id}]
    PROVE  /\ task' \in [Request -> Task]
           /\ \A q \in Request : Progress(q)'
<1> DEFINE t == [task[r] EXCEPT !.undo = @ \ {id}]
<1>1. task[r] \in Task /\ Progress(r) /\ task \in [Request -> Task]
  BY DEF IInv, TypeOK
<1>2. t \in Task /\ t.pc = task[r].pc /\ t.start = task[r].start
  BY <1>1 DEF Task
<1>3. task' = [task EXCEPT ![r] = t]
  BY <1>1
<1> HIDE DEF t
<1> QED
  BY <1>1, <1>2, <1>3, TaskStep DEF Progress, Ends

LEMMA CancelStep ==
    ASSUME IInv, NEW r \in Request, Cancel(r)
    PROVE  IInv'
<1>1. is_query(r) /\ task[r].pc = "cancel"
  BY RunningQuery DEF Cancel, At, Ends
<1>2. UNCHANGED <<store, disk, world>>
  BY DEF Cancel
<1>3. CASE Goto(r, "failed") /\ UNCHANGED <<gemini, faults>>
  <2>1. task' \in [Request -> Task] /\ \A q \in Request : Progress(q)'
    BY <1>1, <1>3, GotoStep DEF PC, Ends
  <2> QED
    BY <1>2, <1>3, <2>1, TaskOnly
<1>4. CASE \E id \in task[r].undo :
             /\ task' = [task EXCEPT ![r].undo = @ \ {id}]
             /\ \/ gemini' = set_state(id, "cancelled") /\ UNCHANGED faults
                \/ Fault("upstream") /\ UNCHANGED gemini
  <2>1. task' \in [Request -> Task] /\ \A q \in Request : Progress(q)'
    BY <1>1, <1>4, UndoOne
  <2>2. IsMap(gemini', Id, Interaction)
    BY <1>4, set_state_OK DEF IInv, TypeOK
  <2>3. faults' \in [FaultKind -> Nat]
    BY <1>4, FaultStep DEF IInv, TypeOK, FaultKind
  <2> QED
    BY <1>2, <2>1, <2>2, <2>3, Combine DEF IInv, TypeOK
<1> QED
  BY <1>3, <1>4 DEF Cancel

LEMMA CleanAllStep ==
    ASSUME IInv, NEW r \in Request, CleanAll(r)
    PROVE  IInv'
<1> DEFINE undo == all_upstream_ids(store)
           t    == [task[r] EXCEPT !.pc = "clean", !.undo = undo]
<1>1. task[r] \in Task /\ Progress(r) /\ task \in [Request -> Task]
  BY DEF IInv, TypeOK
<1>2. undo \subseteq Id
  BY all_upstream_ids_OK DEF IInv, TypeOK
<1>3. task' = [task EXCEPT ![r].pc = "clean", ![r].undo = undo]
  BY DEF CleanAll
<1> HIDE DEF undo
<1>4. t \in Task /\ t.pc = "clean" /\ t.start = task[r].start
  BY <1>1, <1>2 DEF Task, PC
<1>5. task' = [task EXCEPT ![r] = t]
  BY <1>1, <1>3
<1> HIDE DEF t
<1>6. task' \in [Request -> Task] /\ \A q \in Request : Progress(q)'
  BY <1>1, <1>4, <1>5, TaskStep DEF Progress
<1>7. StoreOK(store') /\ DocumentOK(disk')
  BY clean_all_OK, CommitStep DEF CleanAll, IInv, TypeOK
<1>8. cleaned' \in SUBSET Id
  BY DEF CleanAll, IInv, TypeOK, StoreOK, IsMap
<1> QED
  BY <1>6, <1>7, <1>8 DEF CleanAll, IInv, TypeOK

LEMMA CleanStep ==
    ASSUME IInv, NEW r \in Request, Clean(r)
    PROVE  IInv'
<1>1. task[r].pc = "clean"
  BY DEF Clean, At
<1>2. UNCHANGED <<store, disk, world>>
  BY DEF Clean
<1>3. CASE Goto(r, "done") /\ UNCHANGED <<gemini, faults>>
  <2>1. task' \in [Request -> Task] /\ \A q \in Request : Progress(q)'
    BY <1>1, <1>3, GotoStep DEF PC, Ends
  <2> QED
    BY <1>2, <1>3, <2>1, TaskOnly
<1>4. CASE \E id \in task[r].undo :
             /\ task' = [task EXCEPT ![r].undo = @ \ {id}]
             /\ \/ gemini' = set_state(id, "deleted") /\ UNCHANGED faults
                \/ /\ Fault("upstream")
                   /\ \/ UNCHANGED gemini
                      \/ gemini' = set_state(id, "cancelled")
  <2>1. task' \in [Request -> Task] /\ \A q \in Request : Progress(q)'
    BY <1>1, <1>4, UndoOne
  <2>2. IsMap(gemini', Id, Interaction)
    BY <1>4, set_state_OK DEF IInv, TypeOK
  <2>3. faults' \in [FaultKind -> Nat]
    BY <1>4, FaultStep DEF IInv, TypeOK, FaultKind
  <2> QED
    BY <1>2, <2>1, <2>2, <2>3, Combine DEF IInv, TypeOK
<1> QED
  BY <1>3, <1>4 DEF Clean

LEMMA ExtendLifetimeStep ==
    ASSUME IInv, NEW r \in Request, ExtendLifetime(r)
    PROVE  IInv'
<1>1. task' \in [Request -> Task] /\ \A q \in Request : Progress(q)'
  BY GotoStep DEF ExtendLifetime, PC, Ends
<1>2. StoreOK(store') /\ DocumentOK(disk')
  BY extend_lifetime_OK, CommitStep DEF ExtendLifetime, IInv, TypeOK
<1>3. UNCHANGED <<gemini, faults, world>>
  BY DEF ExtendLifetime
<1> QED
  BY <1>1, <1>2, <1>3, Combine DEF IInv, TypeOK

-----------------------------------------------------------------------------
(* The environment *)

LEMMA ClientGoneStep ==
    ASSUME IInv, NEW r \in Request, ClientGone(r)
    PROVE  IInv'
<1>1. task' \in [Request -> Task] /\ \A q \in Request : Progress(q)'
  BY GotoStep DEF ClientGone, PC, Ends
<1>2. faults' \in [FaultKind -> Nat] /\ UNCHANGED <<store, disk, gemini, world>>
  BY FaultStep DEF ClientGone, FaultKind
<1> QED
  BY <1>1, <1>2, Combine DEF IInv, TypeOK

LEMMA NewTaskOK ==
    ASSUME NEW pc \in PC
    PROVE  [NewTask EXCEPT !.pc = pc] \in Task
<1>1. NewTask \in Task
  BY DEF NewTask, Task, PC
<1> QED
  BY <1>1 DEF Task

LEMMA CrashStep ==
    ASSUME IInv, Crash
    PROVE  IInv'
<1> DEFINE gone == [NewTask EXCEPT !.pc = "gone"]
<1>1. gone \in Task /\ gone.pc = "gone" /\ gone.start = 0
  BY NewTaskOK DEF NewTask, PC, Ends
<1>2. task' = [r \in Request |-> IF in_progress(r) THEN gone ELSE task[r]]
  BY DEF Crash
<1> HIDE DEF gone
<1>3. task' \in [Request -> Task]
  BY <1>1, <1>2 DEF IInv, TypeOK
<1>4. ASSUME NEW r \in Request PROVE Progress(r)'
  <2>1. CASE in_progress(r)
    <3>1. task'[r] = gone
      BY <1>2, <2>1
    <3>2. is_query(r) => 0 < Len(ask[r].hashes)
      BY AskOK
    <3> QED
      BY <1>1, <3>1, <3>2 DEF Progress, Ends, is_query
  <2>2. CASE ~in_progress(r)
    <3>1. task'[r] = task[r] /\ task[r].pc \in Ends \cup {"idle"}
      BY <1>2, <2>2 DEF in_progress
    <3> QED
      BY <3>1 DEF IInv, Progress, Ends, is_query
  <2> QED
    BY <2>1, <2>2
<1>5. StoreOK(store') /\ DocumentOK(disk')
  BY load_from_disk_OK DEF Crash, IInv, TypeOK
<1>6. faults' \in [FaultKind -> Nat]
  BY FaultStep DEF Crash, FaultKind
<1> QED
  BY <1>3, <1>4, <1>5, <1>6 DEF Crash, IInv, TypeOK

\* A step that leaves the tasks alone.
LEMMA SameTasks ==
    ASSUME IInv, task' = task
    PROVE  task' \in [Request -> Task] /\ \A q \in Request : Progress(q)'
BY DEF IInv, TypeOK, Progress, is_query, piece_count, system_parts,
       splits_system, new_messages

LEMMA StartupStep ==
    ASSUME IInv, Startup
    PROVE  IInv'
<1>1. CASE StartupComplete
  <2>1. StoreOK(store')
    BY <1>1, complete_batch_OK DEF StartupComplete, IInv, TypeOK
  <2>2. task' = task /\ UNCHANGED <<disk, gemini, faults, world>>
    BY <1>1 DEF StartupComplete
  <2> QED
    BY <2>1, <2>2, SameTasks, Combine DEF IInv, TypeOK
<1>2. CASE StartupDiscard
  <2>1. StoreOK(store') /\ DocumentOK(disk')
    BY <1>2, discard_all_inflight_OK, CommitStep
       DEF StartupDiscard, IInv, TypeOK
  <2>2. task' = task /\ up' = TRUE /\ UNCHANGED <<gemini, now, faults, cleaned>>
    BY <1>2 DEF StartupDiscard
  <2> QED
    BY <2>1, <2>2, SameTasks DEF IInv, TypeOK
<1> QED
  BY <1>1, <1>2 DEF Startup

LEMMA TickStep ==
    ASSUME IInv, Tick
    PROVE  IInv'
BY SameTasks DEF Tick, IInv, TypeOK

-----------------------------------------------------------------------------
(* The theorem *)

LEMMA InitIInv == Init => IInv
<1> SUFFICES ASSUME Init PROVE IInv
  OBVIOUS
<1>1. NewTask \in Task /\ NewTask.pc = "idle" /\ NewTask.start = 0
  BY DEF NewTask, Task, PC
<1>2. task = [r \in Request |-> NewTask]
  BY DEF Init
<1>3. \A r \in Request : Progress(r)
  BY <1>1, <1>2, AskOK DEF Progress, Ends
<1>4. task \in [Request -> Task]
  BY <1>1, <1>2
<1>5. StoreOK(store) /\ DocumentOK(disk)
  BY NewStoreOK, DocumentIsOK DEF Init
<1>6. IsMap(gemini, Id, Interaction)
  BY EmptyIsMap DEF Init
<1> QED
  BY <1>3, <1>4, <1>5, <1>6 DEF Init, IInv, TypeOK

LEMMA HandlerStep ==
    ASSUME IInv, NEW r \in Request, Handler(r)
    PROVE  IInv'
<1>1. CASE \/ Arrive(r) \/ Probe(r) \/ Poll(r) \/ PollTimeout(r)
           \/ Recheck(r) \/ Replay(r) \/ Fetch(r) \/ FetchFails(r)
  BY <1>1, ArriveStep, WaitingSteps, ReplayStep, FetchStep, FetchFailsStep
<1>2. CASE \/ Post(r) \/ PostFails(r) \/ StoreNode(r)
           \/ StreamCreated(r) \/ StreamEnds(r) \/ StreamBreaks(r)
  BY <1>2, PostStep, PostFailsStep, StoreNodeStep, StreamCreatedStep,
     StreamEndsStep, StreamBreaksStep
<1>3. CASE \/ CreateBatch(r) \/ JoinBatch(r) \/ DupPoll(r) \/ DupTimeout(r)
           \/ DupReady(r) \/ Mark(r) \/ SendPiece(r) \/ PieceFails(r)
  BY <1>3, CreateBatchStep, DuplicateSteps, MarkStep, SendPieceStep,
     PieceFailsStep
<1>4. CASE \/ NoCreatedEvent(r) \/ Ack(r) \/ Complete(r)
           \/ TranslateFails(r) \/ Upsert(r) \/ Cancel(r)
  BY <1>4, NoCreatedEventStep, AckStep, CompleteStep, TranslateFailsStep,
     UpsertStep, CancelStep
<1>5. CASE CleanAll(r) \/ Clean(r) \/ ExtendLifetime(r)
  BY <1>5, CleanAllStep, CleanStep, ExtendLifetimeStep
<1> QED
  BY <1>1, <1>2, <1>3, <1>4, <1>5 DEF Handler

LEMMA NextIInv == IInv /\ [Next]_vars => IInv'
<1> SUFFICES ASSUME IInv, [Next]_vars PROVE IInv'
  OBVIOUS
<1>1. CASE \E r \in Request : Handler(r) \/ ClientGone(r)
  BY <1>1, HandlerStep, ClientGoneStep
<1>2. CASE Crash
  BY <1>2, CrashStep
<1>3. CASE Startup
  BY <1>3, StartupStep
<1>4. CASE Tick
  BY <1>4, TickStep
<1>5. CASE UNCHANGED vars
  BY <1>5, SameTasks, Combine DEF vars, world, IInv, TypeOK
<1> QED
  BY <1>1, <1>2, <1>3, <1>4, <1>5 DEF Next

LEMMA AlwaysIInv == Spec => []IInv
BY InitIInv, NextIInv, PTL DEF Spec

\* Whatever is asked, at every interleaving and with any number of faults of
\* each kind: the store, its document and the progress of the handlers keep
\* their types; a handler that stores an interaction has received its id, and
\* a handler that sends a piece has one to send (interactions_handler.rs).
THEOREM HandlerTypes == Spec => []TypeOK
BY AlwaysIInv, PTL DEF IInv

-----------------------------------------------------------------------------
(* One owner of an interaction *)

\* OneOwner over the interactions K.
OwnedBy(s, K) ==
    /\ DOMAIN s.clients \subseteq K
    /\ \A b \in DOMAIN s.in_flight : \A id \in Id : InBatch(s, b, id) =>
          /\ id \in K \ DOMAIN s.clients
          /\ \A c \in DOMAIN s.in_flight : InBatch(s, c, id) => c = b

\* The batches of t have no interaction that those of s do not have.
From(s, t) ==
    \A b \in DOMAIN t.in_flight : \A id \in Id :
        InBatch(t, b, id) => InBatch(s, b, id)

Clear(s, C) ==
    \A id \in C : /\ id \notin DOMAIN s.clients
                  /\ \A b \in DOMAIN s.in_flight : ~InBatch(s, b, id)

\* The client nodes of s are those of t, but for when they were last seen.
Kept(s, t) ==
    \A c \in DOMAIN s.clients :
        /\ c \in DOMAIN t.clients
        /\ t.clients[c] = [s.clients[c] EXCEPT
                             !.last_seen_utc = t.clients[c].last_seen_utc]

\* An error of the save at the end of clean-all leaves the old document.
CleanedIsGone ==
    SaveMayFail \/ (Clear(store, cleaned) /\ Clear(disk, cleaned))

OInv ==
    /\ IInv
    /\ InteractionsHaveOneOwner
    /\ cleaned \subseteq DOMAIN gemini
    /\ CleanedIsGone

-----------------------------------------------------------------------------
(* The store's operations *)

LEMMA OwnedFrom ==
    ASSUME NEW s, NEW t, NEW K, NEW L, OwnedBy(s, K), From(s, t),
           DOMAIN t.clients \subseteq DOMAIN s.clients, K \subseteq L
    PROVE  OwnedBy(t, L)
<1>1. DOMAIN t.clients \subseteq L
  BY DEF OwnedBy
<1>2. ASSUME NEW b \in DOMAIN t.in_flight, NEW id \in Id, InBatch(t, b, id)
      PROVE  /\ id \in L \ DOMAIN t.clients
             /\ \A c \in DOMAIN t.in_flight : InBatch(t, c, id) => c = b
  <2>1. InBatch(s, b, id) /\ b \in DOMAIN s.in_flight
    BY <1>2 DEF From, InBatch
  <2>2. ASSUME NEW c \in DOMAIN t.in_flight, InBatch(t, c, id)
        PROVE  InBatch(s, c, id) /\ c \in DOMAIN s.in_flight
    BY <2>2 DEF From, InBatch
  <2> QED
    BY <2>1, <2>2 DEF OwnedBy
<1> QED
  BY <1>1, <1>2 DEF OwnedBy

LEMMA ClearFrom ==
    ASSUME NEW s, NEW t, NEW C \in SUBSET Id, Clear(s, C), From(s, t),
           DOMAIN t.clients \subseteq DOMAIN s.clients
    PROVE  Clear(t, C)
<1>1. ASSUME NEW id \in C, NEW b \in DOMAIN t.in_flight, InBatch(t, b, id)
      PROVE  FALSE
  <2>1. InBatch(s, b, id) /\ b \in DOMAIN s.in_flight
    BY <1>1 DEF From, InBatch
  <2> QED
    BY <2>1 DEF Clear
<1> QED
  BY <1>1 DEF Clear

LEMMA SameBatches ==
    ASSUME NEW s, NEW t, t.in_flight = s.in_flight
    PROVE  From(s, t)
BY DEF From, InBatch

LEMMA SameNodes ==
    ASSUME NEW s, StoreOK(s), NEW t, t.clients = s.clients
    PROVE  Kept(s, t)
BY DEF Kept, StoreOK, IsMap, ClientInteractionNode

LEMMA OneMoreNode ==
    ASSUME NEW s, StoreOK(s), NEW x, x \notin DOMAIN s.clients, NEW node,
           NEW t, t.clients = Put(s.clients, x, node)
    PROVE  Kept(s, t)
<1>1. ASSUME NEW c \in DOMAIN s.clients
      PROVE  c \in DOMAIN t.clients /\ t.clients[c] = s.clients[c]
  BY DEF Put
<1> QED
  BY <1>1 DEF Kept, StoreOK, IsMap, ClientInteractionNode

LEMMA DocumentFrom ==
    ASSUME NEW s, NEW K
    PROVE  /\ OwnedBy(s, K) <=> OwnedBy(Document(s), K)
           /\ Clear(s, K) <=> Clear(Document(s), K)
           /\ Document(s).clients = s.clients
BY DEF Document, OwnedBy, Clear, InBatch

LEMMA create_batch_From ==
    ASSUME NEW s, StoreOK(s), NEW b, NEW prev, NEW hashes, NEW sys, NEW n
    PROVE  /\ From(s, create_batch(s, b, prev, hashes, sys, n))
           /\ create_batch(s, b, prev, hashes, sys, n).clients = s.clients
<1> DEFINE new == [i \in 1 .. n |->
                     [status |-> "Pending", interaction_id |-> NoId]]
           batch == [session_id |-> b[1], prev_interaction_id |-> prev,
                     message_hashes |-> hashes,
                     system_instruction_hash |-> sys, pieces |-> new]
           t == create_batch(s, b, prev, hashes, sys, n)
<1>1. t = [s EXCEPT !.in_flight = Put(s.in_flight, b, batch)]
  BY DEF create_batch
<1>2. t.in_flight = Put(s.in_flight, b, batch) /\ t.clients = s.clients
  BY <1>1 DEF StoreOK
<1>3. batch.pieces = new
  OBVIOUS
<1> HIDE DEF t, batch
<1>4. ASSUME NEW c \in DOMAIN t.in_flight, NEW id \in Id, InBatch(t, c, id)
      PROVE  InBatch(s, c, id)
  <2>1. CASE c = b
    <3>1. t.in_flight[c] = batch
      BY <1>2, <2>1 DEF Put
    <3>2. \A i \in DOMAIN new : new[i].interaction_id = NoId
      OBVIOUS
    <3> QED
      BY <1>3, <1>4, <3>1, <3>2, IdAssumption DEF InBatch
  <2>2. CASE c # b
    BY <1>2, <1>4, <2>2 DEF InBatch, Put
  <2> QED
    BY <2>1, <2>2
<1> QED
  BY <1>2, <1>4 DEF From, t

\* The only interaction a moved piece brings in is its own.
LEMMA move_piece_From ==
    ASSUME NEW s, StoreOK(s), NEW b, NEW i, NEW from, NEW status, NEW x
    PROVE  LET t == move_piece(s, b, i, from, status, x)
           IN  /\ t.clients = s.clients /\ DOMAIN t.in_flight = DOMAIN s.in_flight
               /\ \A c \in DOMAIN t.in_flight : \A id \in Id :
                     InBatch(t, c, id) =>
                        InBatch(s, c, id) \/ (c = b /\ id = x)
<1> DEFINE t == move_piece(s, b, i, from, status, x)
           p == [status |-> status, interaction_id |-> x]
<1>1. CASE ~(has_piece(s, b, i) /\ s.in_flight[b].pieces[i].status \in from)
  BY <1>1 DEF move_piece
<1>2. CASE has_piece(s, b, i) /\ s.in_flight[b].pieces[i].status \in from
  <2>1. t = [s EXCEPT !.in_flight[b].pieces[i] = p]
    BY <1>2 DEF move_piece
  <2>2. /\ b \in DOMAIN s.in_flight /\ i \in DOMAIN s.in_flight[b].pieces
        /\ s.in_flight[b] \in InFlightBatch
    BY <1>2 DEF has_piece, StoreOK, IsMap
  <2> DEFINE old == s.in_flight[b]
             q   == [old.pieces EXCEPT ![i] = p]
             new == [old EXCEPT !.pieces = q]
             f   == [s.in_flight EXCEPT ![b] = new]
  <2>3. t = [s EXCEPT !.in_flight = f]
    BY <2>1, <2>2 DEF StoreOK, IsMap, InFlightBatch
  <2>4. t.clients = s.clients /\ t.in_flight = f
    BY <2>3 DEF StoreOK
  <2>5. /\ DOMAIN f = DOMAIN s.in_flight /\ f[b] = new
        /\ \A c \in DOMAIN s.in_flight : c # b => f[c] = s.in_flight[c]
    BY <2>2 DEF StoreOK, IsMap
  <2>6. new.pieces = q
    BY <2>2 DEF InFlightBatch
  <2>7. /\ DOMAIN q = DOMAIN old.pieces /\ q[i] = p
        /\ \A j \in DOMAIN old.pieces : j # i => q[j] = old.pieces[j]
    BY <2>2 DEF InFlightBatch
  <2>8. p.interaction_id = x
    OBVIOUS
  <2> HIDE DEF t, p, q, new, f
  <2>9. ASSUME NEW c \in DOMAIN t.in_flight, NEW id \in Id, InBatch(t, c, id)
        PROVE  InBatch(s, c, id) \/ (c = b /\ id = x)
    <3>1. CASE c # b
      BY <2>4, <2>5, <2>9, <3>1 DEF InBatch
    <3>2. CASE c = b
      <4>1. PICK j \in DOMAIN q : q[j].interaction_id = id
        BY <2>4, <2>5, <2>6, <2>9, <3>2 DEF InBatch
      <4> QED
        BY <2>2, <2>7, <2>8, <3>2, <4>1 DEF InBatch
    <3> QED
      BY <3>1, <3>2
  <2> QED
    BY <2>4, <2>5, <2>9 DEF t
<1> QED
  BY <1>1, <1>2

LEMMA mark_response_started_From ==
    ASSUME NEW s, StoreOK(s), NEW b, NEW i
    PROVE  /\ From(s, mark_response_started(s, b, i))
           /\ mark_response_started(s, b, i).clients = s.clients
<1> DEFINE t == move_piece(s, b, i, {"Pending"}, "ResponseStarted", NoId)
<1>1. /\ t.clients = s.clients
      /\ \A c \in DOMAIN t.in_flight : \A id \in Id :
            InBatch(t, c, id) => InBatch(s, c, id) \/ (c = b /\ id = NoId)
  BY move_piece_From
<1>2. mark_response_started(s, b, i) = t
  BY DEF mark_response_started
<1> HIDE DEF t
<1> QED
  BY <1>1, <1>2, IdAssumption DEF From

LEMMA acknowledge_From ==
    ASSUME NEW s, StoreOK(s), NEW b, NEW i, NEW x \in Id
    PROVE  LET t == ack_piece(mark_sent(s, b, i, x), b, i, x)
           IN  /\ t.clients = s.clients
               /\ \A c \in DOMAIN t.in_flight : \A id \in Id :
                     InBatch(t, c, id) =>
                        InBatch(s, c, id) \/ (c = b /\ id = x)
<1> DEFINE u == mark_sent(s, b, i, x)
           t == ack_piece(u, b, i, x)
<1>1. /\ u.clients = s.clients /\ DOMAIN u.in_flight = DOMAIN s.in_flight
      /\ \A c \in DOMAIN u.in_flight : \A id \in Id :
            InBatch(u, c, id) => InBatch(s, c, id) \/ (c = b /\ id = x)
  BY move_piece_From DEF mark_sent
<1>2. StoreOK(u)
  BY move_piece_OK DEF mark_sent, Piece, PieceStatus
<1> HIDE DEF u
<1>3. /\ t.clients = u.clients /\ DOMAIN t.in_flight = DOMAIN u.in_flight
      /\ \A c \in DOMAIN t.in_flight : \A id \in Id :
            InBatch(t, c, id) => InBatch(u, c, id) \/ (c = b /\ id = x)
  BY <1>2, move_piece_From DEF ack_piece
<1> HIDE DEF t
<1>4. \A c \in DOMAIN t.in_flight : \A id \in Id :
        InBatch(t, c, id) => InBatch(s, c, id) \/ (c = b /\ id = x)
  BY <1>1, <1>3
<1> QED
  BY <1>1, <1>3, <1>4 DEF t, u

LEMMA fail_batch_From ==
    ASSUME NEW s, StoreOK(s), NEW b
    PROVE  /\ From(s, fail_batch(s, b))
           /\ fail_batch(s, b).clients = s.clients
<1> DEFINE t == fail_batch(s, b)
<1>1. CASE b \notin DOMAIN s.in_flight
  BY <1>1, SameBatches DEF fail_batch
<1>2. CASE b \in DOMAIN s.in_flight
  <2> DEFINE old == s.in_flight[b]
             q   == [i \in DOMAIN old.pieces |->
                       IF IsAcked(old.pieces[i]) THEN old.pieces[i]
                       ELSE [status |-> "Failed", interaction_id |-> NoId]]
             new == [old EXCEPT !.pieces = q]
             f   == [s.in_flight EXCEPT ![b] = new]
             ups == Without(s.upstreams, acked_ids(old))
  <2>1. old \in InFlightBatch
    BY <1>2 DEF StoreOK, IsMap
  <2>2. t = [s EXCEPT !.upstreams = ups, !.in_flight = f]
    BY <1>2, <2>1 DEF fail_batch, StoreOK, IsMap, InFlightBatch
  <2> HIDE DEF ups
  <2>3. t.clients = s.clients /\ t.in_flight = f
    BY <2>2 DEF StoreOK
  <2>4. /\ DOMAIN f = DOMAIN s.in_flight /\ f[b] = new
        /\ \A c \in DOMAIN s.in_flight : c # b => f[c] = s.in_flight[c]
    BY <1>2 DEF StoreOK, IsMap
  <2>5. new.pieces = q
    BY <2>1 DEF InFlightBatch
  <2>6. DOMAIN q = DOMAIN old.pieces /\ \A i \in DOMAIN old.pieces :
          q[i].interaction_id \in {old.pieces[i].interaction_id, NoId}
    OBVIOUS
  <2> HIDE DEF t, f, new, q
  <2>7. ASSUME NEW c \in DOMAIN t.in_flight, NEW id \in Id, InBatch(t, c, id)
        PROVE  InBatch(s, c, id)
    <3>1. CASE c # b
      BY <2>3, <2>4, <2>7, <3>1 DEF InBatch
    <3>2. CASE c = b
      <4>1. PICK j \in DOMAIN q : q[j].interaction_id = id
        BY <2>3, <2>4, <2>5, <2>7, <3>2 DEF InBatch
      <4> QED
        BY <1>2, <2>6, <3>2, <4>1, IdAssumption DEF InBatch
    <3> QED
      BY <3>1, <3>2
  <2> QED
    BY <2>3, <2>7 DEF From, t
<1> QED
  BY <1>1, <1>2

\* complete_batch removes the batch; the node it publishes, if any, has the
\* id of one of the batch's pieces.
LEMMA complete_batch_From ==
    ASSUME NEW s, StoreOK(s), NEW b \in DOMAIN s.in_flight, NEW n \in Nat
    PROVE  LET t == complete_batch(s, b, n)
           IN  /\ t.in_flight = Without(s.in_flight, {b})
               /\ \/ t.clients = s.clients
                  \/ \E id \in Id : \E node \in ClientInteractionNode :
                        /\ InBatch(s, b, id)
                        /\ t.clients = Put(s.clients, id, node)
<1> DEFINE batch   == s.in_flight[b]
           fewer   == Without(s.in_flight, {b})
           s1      == [s EXCEPT !.in_flight = fewer]
           chain   == chain_of(batch, acked_prefix(batch))
           removed == insert_upstreams(s1, chain)
           ids     == batch_ids(batch)
           id      == ids[Len(ids)]
           node    == [prev_id |-> batch.prev_interaction_id,
                       message_hashes |-> batch.message_hashes,
                       system_instruction_hash |->
                           batch.system_instruction_hash,
                       upstream_ids |-> ids,
                       last_seen_utc |-> n]
           done    == insert_client(removed, id, node)
           final   == IF batch.session_id \in DOMAIN s.sessions
                        THEN set_last_interaction(done, batch.session_id, id)
                        ELSE done
           t       == complete_batch(s, b, n)
<1>1. StoreOK(removed)
  BY remove_batch_OK
<1>2. removed.in_flight = fewer /\ removed.clients = s.clients
  BY DEF insert_upstreams, StoreOK
<1>3. t = IF ~batch_is_complete(s, b) THEN removed ELSE final
  BY DEF complete_batch
<1>4. CASE ~batch_is_complete(s, b)
  <2>1. t = removed
    BY <1>3, <1>4
  <2> HIDE DEF t, removed
  <2>2. t.in_flight = fewer /\ t.clients = s.clients
    BY <1>2, <2>1
  <2> QED
    BY <2>2 DEF t
<1>5. CASE batch_is_complete(s, b)
  <2>1. /\ ids \in Seq(Id) /\ Len(ids) \in DOMAIN ids /\ id \in Id
        /\ node \in ClientInteractionNode
    BY <1>5, complete_node_OK
  <2>2. InBatch(s, b, id)
    <3>1. batch \in InFlightBatch
      BY DEF StoreOK, IsMap
    <3>2. Len(ids) \in DOMAIN batch.pieces
      BY <2>1, <3>1 DEF batch_ids, InFlightBatch
    <3>3. id = batch.pieces[Len(ids)].interaction_id
      BY <2>1, <3>1 DEF batch_ids
    <3> HIDE DEF ids
    <3> QED
      BY <3>2, <3>3 DEF InBatch
  <2>3. t = final
    BY <1>3, <1>5
  <2> HIDE DEF t, removed, node, id
  <2>4. done.in_flight = fewer /\ done.clients = Put(s.clients, id, node)
    BY <1>1, <1>2 DEF insert_client, StoreOK
  <2>5. done = [done EXCEPT !.sessions = done.sessions]
    BY <1>1 DEF insert_client, StoreOK
  <2>6. final.in_flight = done.in_flight /\ final.clients = done.clients
    BY <2>5 DEF set_last_interaction
  <2>7. t.in_flight = fewer /\ t.clients = Put(s.clients, id, node)
    BY <2>3, <2>4, <2>6
  <2> QED
    BY <2>1, <2>2, <2>7 DEF t
<1> QED
  BY <1>4, <1>5

LEMMA extend_lifetime_From ==
    ASSUME NEW s, StoreOK(s), NEW x, NEW n \in Nat
    PROVE  LET t == extend_lifetime(s, x, n)
           IN  /\ t.in_flight = s.in_flight
               /\ DOMAIN t.clients = DOMAIN s.clients
               /\ \A c \in DOMAIN s.clients :
                    t.clients[c] = [s.clients[c] EXCEPT
                        !.last_seen_utc = t.clients[c].last_seen_utc]
<1> DEFINE t == extend_lifetime(s, x, n)
           d == s.sessions[x]
           node == [s.clients[d] EXCEPT !.last_seen_utc = n]
           f == [s.clients EXCEPT ![d] = node]
<1>1. \A c \in DOMAIN s.clients : s.clients[c] \in ClientInteractionNode
  BY DEF StoreOK, IsMap
<1>2. CASE ~(x \in DOMAIN s.sessions /\ d \in DOMAIN s.clients)
  <2>1. t = s
    BY <1>2 DEF extend_lifetime
  <2> QED
    BY <1>1, <2>1 DEF ClientInteractionNode
<1>3. CASE x \in DOMAIN s.sessions /\ d \in DOMAIN s.clients
  <2>1. t = [s EXCEPT !.clients = f]
    BY <1>3 DEF extend_lifetime, StoreOK, IsMap
  <2>2. t.in_flight = s.in_flight /\ t.clients = f
    BY <2>1 DEF StoreOK
  <2>3. /\ DOMAIN f = DOMAIN s.clients /\ f[d] = node
        /\ \A c \in DOMAIN s.clients : c # d => f[c] = s.clients[c]
    BY <1>3 DEF StoreOK, IsMap
  <2>4. node = [s.clients[d] EXCEPT !.last_seen_utc = node.last_seen_utc]
    BY <1>1, <1>3 DEF ClientInteractionNode
  <2> HIDE DEF t, f, node, d
  <2>5. \A c \in DOMAIN s.clients :
          f[c] = [s.clients[c] EXCEPT !.last_seen_utc = f[c].last_seen_utc]
    BY <1>1, <2>3, <2>4 DEF ClientInteractionNode
  <2> QED
    BY <2>2, <2>3, <2>5 DEF t
<1> QED
  BY <1>2, <1>3

\* The node that a handler stores has the id it received.
LEMMA with_node_From ==
    ASSUME IInv, NEW r \in Request, is_query(r), task[r].last \in Id
    PROVE  /\ with_node(r).in_flight = store.in_flight
           /\ \E node \in ClientInteractionNode :
                with_node(r).clients = Put(store.clients, task[r].last, node)
<1> DEFINE id   == task[r].last
           prev == task[r].prev
           node == [prev_id |-> prev,
                    message_hashes |-> ask[r].hashes,
                    system_instruction_hash |-> system_hash(r),
                    upstream_ids |-> <<id>>,
                    last_seen_utc |-> now]
<1>1. prev \in Id \cup {NoId} /\ now \in Nat /\ StoreOK(store)
  BY prev_OK DEF IInv, TypeOK
<1>2. with_node(r) =
        set_last_interaction(
          insert_client(insert_upstream(store, id, prev), id, node),
          ask[r].session, id)
  BY DEF with_node
<1> HIDE DEF prev
<1>3. node \in ClientInteractionNode
  BY <1>1, AskOK, system_hash_OK DEF ClientInteractionNode
<1> HIDE DEF node, id
<1>4. with_node(r).in_flight = store.in_flight
      /\ with_node(r).clients = Put(store.clients, id, node)
  BY <1>1, <1>2
     DEF set_last_interaction, insert_client, insert_upstream, StoreOK
<1> QED
  BY <1>3, <1>4 DEF id

-----------------------------------------------------------------------------
(* Kinds of steps *)

\* No task starts to hold an interaction.
QuietTasks ==
    \A q \in Request : Holds(q)' => Holds(q) /\ task'[q].last = task[q].last

\* The document is the old one or that of the new store.
Saves == disk' = disk \/ disk' = Document(store')

LEMMA HeldId ==
    ASSUME IInv, NEW r \in Request, Holds(r)
    PROVE  task[r].last \in Id
BY DEF IInv, Progress, Holds

LEMMA CleanedIds ==
    ASSUME IInv
    PROVE  cleaned \in SUBSET Id
BY DEF IInv, TypeOK

\* What the invariant says of the documents, once it holds of the stores.
LEMMA SavedOwners ==
    ASSUME OInv, Saves, DOMAIN gemini \subseteq DOMAIN gemini',
           OwnedBy(store', DOMAIN gemini')
    PROVE  OwnedBy(disk', DOMAIN gemini')
<1>1. OwnedBy(disk, DOMAIN gemini)
  BY DEF OInv, InteractionsHaveOneOwner, OneOwner, OwnedBy
<1>2. CASE disk' = disk
  <2>1. From(disk, disk')
    BY <1>2, SameBatches
  <2> QED
    BY <1>1, <1>2, <2>1, OwnedFrom
<1>3. CASE disk' = Document(store')
  BY <1>3, DocumentFrom
<1> QED
  BY <1>2, <1>3 DEF Saves

LEMMA SavedClear ==
    ASSUME OInv, Saves, cleaned' = cleaned,
           SaveMayFail \/ Clear(store', cleaned)
    PROVE  CleanedIsGone'
<1>1. CASE SaveMayFail
  BY <1>1 DEF CleanedIsGone
<1>2. CASE ~SaveMayFail
  <2>1. Clear(disk', cleaned')
    <3>1. CASE disk' = disk
      BY <1>2, <3>1 DEF OInv, CleanedIsGone, Clear, InBatch
    <3>2. CASE disk' = Document(store')
      BY <1>2, <3>2, DocumentFrom
    <3> QED
      BY <3>1, <3>2 DEF Saves
  <2>2. Clear(store', cleaned')
    BY <1>2 DEF Clear
  <2> QED
    BY <2>1, <2>2 DEF CleanedIsGone, Clear, InBatch
<1> QED
  BY <1>1, <1>2

\* Nothing gets a new owner.
LEMMA QuietStep ==
    ASSUME OInv, IInv', From(store, store'),
           DOMAIN store'.clients \subseteq DOMAIN store.clients,
           Saves, QuietTasks,
           DOMAIN gemini \subseteq DOMAIN gemini', cleaned' = cleaned
    PROVE  OInv'
<1>1. OwnedBy(store, DOMAIN gemini)
  BY DEF OInv, InteractionsHaveOneOwner, OneOwner, OwnedBy
<1>2. OwnedBy(store', DOMAIN gemini')
  BY <1>1, OwnedFrom
<1>3. SaveMayFail \/ Clear(store', cleaned)
  BY ClearFrom, CleanedIds DEF OInv, CleanedIsGone
<1>4. OwnedBy(disk', DOMAIN gemini')
  BY <1>2, SavedOwners
<1>5. ASSUME NEW r \in Request, Holds(r)'
      PROVE  OneHolder(r)'
  <2>1. Holds(r) /\ task'[r].last = task[r].last
    BY <1>5 DEF QuietTasks
  <2>2. OneHolder(r) /\ task[r].last \in Id
    BY <2>1, HeldId DEF OInv, InteractionsHaveOneOwner
  <2>3. task'[r].last \in DOMAIN gemini' \ (DOMAIN store'.clients \cup cleaned')
    BY <2>1, <2>2 DEF OneHolder
  <2>4. ASSUME NEW b \in DOMAIN store'.in_flight,
               InBatch(store', b, task'[r].last)
        PROVE  FALSE
    <3>1. InBatch(store, b, task[r].last)
      BY <2>1, <2>2, <2>4 DEF From
    <3> QED
      BY <2>2, <3>1 DEF OneHolder, InBatch
  <2>5. ASSUME NEW q \in Request \ {r}, Holds(q)'
        PROVE  task'[q].last # task'[r].last
    <3>1. Holds(q) /\ task'[q].last = task[q].last
      BY <2>5 DEF QuietTasks
    <3> QED
      BY <2>1, <2>2, <3>1 DEF OneHolder
  <2> QED
    BY <2>3, <2>4, <2>5 DEF OneHolder, InBatch
<1>6. CleanedIsGone'
  BY <1>3, SavedClear
<1>7. InteractionsHaveOneOwner'
  BY <1>2, <1>4, <1>5 DEF InteractionsHaveOneOwner, OneOwner, OwnedBy
<1>8. cleaned' \subseteq DOMAIN gemini'
  BY DEF OInv
<1> QED
  BY <1>6, <1>7, <1>8 DEF OInv

\* The service creates interaction x for the handler of r.
LEMMA ReceiptStep ==
    ASSUME OInv, IInv', NEW r \in Request, NEW x \in Id,
           store' = store, disk' = disk, cleaned' = cleaned,
           x \notin DOMAIN gemini, DOMAIN gemini' = DOMAIN gemini \cup {x},
           task'[r].last = x,
           \A q \in Request \ {r} : task'[q] = task[q]
    PROVE  OInv'
<1>1. /\ OwnedBy(store, DOMAIN gemini) /\ OwnedBy(disk, DOMAIN gemini)
      /\ From(store, store') /\ From(disk, disk')
  BY SameBatches DEF OInv, InteractionsHaveOneOwner, OneOwner, OwnedBy
<1>2. OwnedBy(store', DOMAIN gemini') /\ OwnedBy(disk', DOMAIN gemini')
  BY <1>1, OwnedFrom
<1>3. ASSUME NEW q \in Request \ {r}, Holds(q)'
      PROVE  Holds(q) /\ task'[q].last = task[q].last /\ task[q].last # x
  BY <1>3 DEF Holds, OInv, InteractionsHaveOneOwner, OneHolder
<1>4. OneHolder(r)'
  <2>1. x \notin DOMAIN store.clients \cup cleaned
    BY <1>1 DEF OwnedBy, OInv
  <2>2. \A b \in DOMAIN store.in_flight : ~InBatch(store, b, x)
    BY <1>1 DEF OwnedBy
  <2> QED
    BY <1>3, <2>1, <2>2 DEF OneHolder, InBatch
<1>5. ASSUME NEW q \in Request \ {r}, Holds(q)'
      PROVE  OneHolder(q)'
  <2>1. Holds(q) /\ task'[q].last = task[q].last /\ task[q].last # x
    BY <1>3, <1>5
  <2>2. OneHolder(q)
    BY <2>1 DEF OInv, InteractionsHaveOneOwner
  <2>3. ASSUME NEW p \in Request \ {q}, Holds(p)'
        PROVE  task'[p].last # task'[q].last
    <3>1. CASE p = r
      BY <2>1, <3>1
    <3>2. CASE p # r
      BY <1>3, <2>1, <2>2, <2>3, <3>2 DEF OneHolder
    <3> QED
      BY <3>1, <3>2
  <2> QED
    BY <2>1, <2>2, <2>3 DEF OneHolder, InBatch
<1>6. InteractionsHaveOneOwner'
  BY <1>2, <1>4, <1>5 DEF InteractionsHaveOneOwner, OneOwner, OwnedBy
<1>7. CleanedIsGone'
  BY SavedClear DEF OInv, CleanedIsGone, Saves
<1> QED
  BY <1>6, <1>7 DEF OInv

\* Interaction x goes from its holder r to a batch.
LEMMA HandoverStep ==
    ASSUME OInv, IInv', NEW r \in Request, Holds(r),
           store'.clients = store.clients,
           NEW b, \A c \in DOMAIN store'.in_flight : \A id \in Id :
              InBatch(store', c, id) =>
                 InBatch(store, c, id) \/ (c = b /\ id = task[r].last),
           Saves, gemini' = gemini, cleaned' = cleaned,
           ~Holds(r)', \A q \in Request \ {r} : task'[q] = task[q]
    PROVE  OInv'
<1> DEFINE x == task[r].last
<1>1. x \in Id /\ OneHolder(r)
  BY HeldId DEF OInv, InteractionsHaveOneOwner
<1>2. OwnedBy(store, DOMAIN gemini)
  BY DEF OInv, InteractionsHaveOneOwner, OneOwner, OwnedBy
<1>3. /\ x \in DOMAIN gemini \ (DOMAIN store.clients \cup cleaned)
      /\ \A c : ~InBatch(store, c, x)
  BY <1>1 DEF OneHolder, InBatch
<1> HIDE DEF x
<1>4. ASSUME NEW c \in DOMAIN store'.in_flight, NEW id \in Id,
             InBatch(store', c, id)
      PROVE  \/ id # x /\ InBatch(store, c, id) /\ c \in DOMAIN store.in_flight
             \/ id = x /\ c = b
  BY <1>3, <1>4 DEF x, InBatch
<1>5. OwnedBy(store', DOMAIN gemini')
  <2>1. ASSUME NEW c \in DOMAIN store'.in_flight, NEW id \in Id,
               InBatch(store', c, id)
        PROVE  /\ id \in DOMAIN gemini' \ DOMAIN store'.clients
               /\ \A d \in DOMAIN store'.in_flight :
                    InBatch(store', d, id) => d = c
    <3>1. CASE id = x
      BY <1>3, <1>4, <2>1, <3>1
    <3>2. CASE id # x
      BY <1>2, <1>4, <2>1, <3>2 DEF OwnedBy
    <3> QED
      BY <3>1, <3>2
  <2> QED
    BY <1>2, <2>1 DEF OwnedBy
<1>6. SaveMayFail \/ Clear(store', cleaned)
  BY <1>3, <1>4, CleanedIds DEF Clear, OInv, CleanedIsGone
<1>7. OwnedBy(disk', DOMAIN gemini')
  BY <1>5, SavedOwners
<1>8. ASSUME NEW q \in Request, Holds(q)'
      PROVE  OneHolder(q)'
  <2>1. q # r /\ task'[q] = task[q] /\ Holds(q)
    BY <1>8 DEF Holds
  <2>2. OneHolder(q) /\ task[q].last \in Id /\ task[q].last # x
    BY <1>1, <2>1, HeldId DEF OInv, InteractionsHaveOneOwner, OneHolder, x
  <2>3. \A c \in DOMAIN store'.in_flight : ~InBatch(store', c, task[q].last)
    BY <1>4, <2>2 DEF OneHolder
  <2>4. ASSUME NEW p \in Request \ {q}, Holds(p)'
        PROVE  task'[p].last # task'[q].last
    <3>1. p # r /\ task'[p] = task[p] /\ Holds(p)
      BY <2>4 DEF Holds
    <3> QED
      BY <2>1, <2>2, <3>1 DEF OneHolder
  <2> QED
    BY <2>1, <2>2, <2>3, <2>4 DEF OneHolder
<1>9. CleanedIsGone'
  BY <1>6, SavedClear
<1>10. InteractionsHaveOneOwner'
  BY <1>5, <1>7, <1>8 DEF InteractionsHaveOneOwner, OneOwner, OwnedBy
<1> QED
  BY <1>9, <1>10 DEF OInv

\* Interaction x goes from its owner to a client node.
LEMMA PublishStep ==
    ASSUME OInv, IInv', NEW x \in Id, NEW node,
           store'.clients = Put(store.clients, x, node),
           From(store, store'),
           \A c \in DOMAIN store'.in_flight : ~InBatch(store', c, x),
           x \in DOMAIN gemini \ DOMAIN store.clients,
           SaveMayFail \/ x \notin cleaned,
           QuietTasks, \A q \in Request : Holds(q)' => task[q].last # x,
           Saves, gemini' = gemini, cleaned' = cleaned
    PROVE  OInv' /\ Kept(store, store')
<1>1. OwnedBy(store, DOMAIN gemini)
  BY DEF OInv, InteractionsHaveOneOwner, OneOwner, OwnedBy
<1>2. DOMAIN store'.clients = DOMAIN store.clients \cup {x}
  BY DEF Put
<1>3. ASSUME NEW c \in DOMAIN store'.in_flight, NEW id \in Id,
             InBatch(store', c, id)
      PROVE  id # x /\ InBatch(store, c, id) /\ c \in DOMAIN store.in_flight
  BY <1>3 DEF From, InBatch
<1>4. OwnedBy(store', DOMAIN gemini')
  <2>1. ASSUME NEW c \in DOMAIN store'.in_flight, NEW id \in Id,
               InBatch(store', c, id)
        PROVE  /\ id \in DOMAIN gemini' \ DOMAIN store'.clients
               /\ \A d \in DOMAIN store'.in_flight :
                    InBatch(store', d, id) => d = c
    BY <1>1, <1>2, <1>3, <2>1 DEF OwnedBy
  <2> QED
    BY <1>1, <1>2, <2>1 DEF OwnedBy
<1>5. SaveMayFail \/ Clear(store', cleaned)
  BY <1>2, <1>3, CleanedIds DEF Clear, OInv, CleanedIsGone
<1>6. OwnedBy(disk', DOMAIN gemini')
  BY <1>4, SavedOwners
<1>7. ASSUME NEW q \in Request, Holds(q)'
      PROVE  OneHolder(q)'
  <2>1. Holds(q) /\ task'[q].last = task[q].last /\ task[q].last # x
    BY <1>7 DEF QuietTasks
  <2>2. OneHolder(q) /\ task[q].last \in Id
    BY <2>1, HeldId DEF OInv, InteractionsHaveOneOwner
  <2>3. \A c \in DOMAIN store'.in_flight : ~InBatch(store', c, task[q].last)
    BY <1>3, <2>2 DEF OneHolder
  <2>4. ASSUME NEW p \in Request \ {q}, Holds(p)'
        PROVE  task'[p].last # task'[q].last
    <3>1. Holds(p) /\ task'[p].last = task[p].last
      BY <2>4 DEF QuietTasks
    <3> QED
      BY <2>1, <2>2, <3>1 DEF OneHolder
  <2> QED
    BY <1>2, <2>1, <2>2, <2>3, <2>4 DEF OneHolder
<1>8. CleanedIsGone'
  BY <1>5, SavedClear
<1>9. InteractionsHaveOneOwner'
  BY <1>4, <1>6, <1>7 DEF InteractionsHaveOneOwner, OneOwner, OwnedBy
<1> QED
  BY <1>2, <1>8, <1>9, OneMoreNode DEF OInv, IInv, TypeOK

\* A handler stores the interaction it holds.
LEMMA PublishHeld ==
    ASSUME OInv, IInv', NEW r \in Request, is_query(r), Holds(r), ~Holds(r)',
           store' = with_node(r), QuietTasks,
           Saves, gemini' = gemini, cleaned' = cleaned
    PROVE  OInv' /\ Kept(store, store')
<1> DEFINE x == task[r].last
<1>1. x \in Id /\ OneHolder(r)
  BY HeldId DEF OInv, InteractionsHaveOneOwner
<1>2. PICK node \in ClientInteractionNode :
        store'.clients = Put(store.clients, x, node)
  BY <1>1, with_node_From DEF OInv
<1>3. store'.in_flight = store.in_flight
  BY <1>1, with_node_From DEF OInv
<1>4. From(store, store')
  BY <1>3, SameBatches
<1>5. \A c \in DOMAIN store'.in_flight : ~InBatch(store', c, x)
  BY <1>1, <1>3 DEF OneHolder, InBatch
<1>6. \A q \in Request : Holds(q)' => task[q].last # x
  BY <1>1 DEF QuietTasks, OneHolder
<1>7. x \in DOMAIN gemini \ (DOMAIN store.clients \cup cleaned)
  BY <1>1 DEF OneHolder
<1> HIDE DEF x
<1> QED
  BY <1>1, <1>2, <1>4, <1>5, <1>6, <1>7, PublishStep

\* A batch is completed.
LEMMA PublishBatch ==
    ASSUME OInv, IInv', NEW b \in DOMAIN store.in_flight,
           store' = complete_batch(store, b, now), QuietTasks,
           Saves, gemini' = gemini, cleaned' = cleaned
    PROVE  OInv' /\ Kept(store, store')
<1>1. StoreOK(store) /\ now \in Nat
  BY DEF OInv, IInv, TypeOK
<1>2. /\ store'.in_flight = Without(store.in_flight, {b})
      /\ \/ store'.clients = store.clients
         \/ \E id \in Id : \E node \in ClientInteractionNode :
               /\ InBatch(store, b, id)
               /\ store'.clients = Put(store.clients, id, node)
  BY <1>1, complete_batch_From
<1>3. From(store, store')
  BY <1>2 DEF From, InBatch, Without
<1>4. CASE store'.clients = store.clients
  BY <1>1, <1>3, <1>4, QuietStep, SameNodes
<1>5. ASSUME NEW x \in Id, NEW node \in ClientInteractionNode,
             InBatch(store, b, x),
             store'.clients = Put(store.clients, x, node)
      PROVE  OInv' /\ Kept(store, store')
  <2>1. /\ x \in DOMAIN gemini \ DOMAIN store.clients
        /\ \A c \in DOMAIN store.in_flight : InBatch(store, c, x) => c = b
    BY <1>5 DEF OInv, InteractionsHaveOneOwner, OneOwner
  <2>2. SaveMayFail \/ x \notin cleaned
    BY <1>5 DEF OInv, CleanedIsGone, Clear
  <2>3. \A c \in DOMAIN store'.in_flight : ~InBatch(store', c, x)
    BY <1>2, <2>1 DEF InBatch, Without
  <2>4. \A q \in Request : Holds(q)' => task[q].last # x
    BY <1>5 DEF QuietTasks, OInv, InteractionsHaveOneOwner, OneHolder
  <2> QED
    BY <1>3, <1>5, <2>1, <2>2, <2>3, <2>4, PublishStep
<1> QED
  BY <1>2, <1>4, <1>5
-----------------------------------------------------------------------------
(* Quiet steps *)

\* The task of r goes on with no interaction in hand, the others wait.
LetsGo(r) ==
    /\ task'[r].pc \notin {"store", "streaming", "ack"}
    /\ \A q \in Request \ {r} : task'[q] = task[q]

LEMMA LetsGoQuiet ==
    ASSUME NEW r \in Request, LetsGo(r)
    PROVE  QuietTasks /\ ~Holds(r)'
BY DEF LetsGo, QuietTasks, Holds

LEMMA GotoLetsGo ==
    ASSUME IInv, NEW r \in Request, NEW pc, Goto(r, pc),
           pc \notin {"store", "streaming", "ack"}
    PROVE  LetsGo(r)
<1>1. task \in [Request -> Task]
  BY DEF IInv, TypeOK
<1>2. task[r] = [task[r] EXCEPT !.pc = task[r].pc]
  BY <1>1 DEF Task
<1>3. task'[r].pc = pc /\ \A q \in Request \ {r} : task'[q] = task[q]
  BY <1>1, <1>2 DEF Goto, Task
<1> QED
  BY <1>3 DEF LetsGo

LEMMA AnswerLetsGo ==
    ASSUME IInv, NEW r \in Request, NEW id, Answer(r, id)
    PROVE  LetsGo(r)
<1>1. CASE task' = [task EXCEPT ![r].pc = "done", ![r].node = id]
  BY <1>1 DEF LetsGo, IInv, TypeOK, Task
<1>2. CASE Goto(r, "failed")
  BY <1>2, GotoLetsGo
<1> QED
  BY <1>1, <1>2 DEF Answer

LEMMA UndoLetsGo ==
    ASSUME IInv, NEW r \in Request, task[r].pc \in {"cancel", "clean"},
           NEW id, task' = [task EXCEPT ![r].undo = @ \ {id}]
    PROVE  LetsGo(r)
BY DEF LetsGo, IInv, TypeOK, Task

LEMMA CreateGrows ==
    ASSUME NEW id, NEW prev, NEW content, Create(id, prev, content)
    PROVE  DOMAIN gemini' = DOMAIN gemini \cup {id} /\ id \notin DOMAIN gemini
BY DEF Create, Put, fresh

LEMMA CallFailsGrows ==
    ASSUME NEW prev, NEW content, CallFails(prev, content)
    PROVE  DOMAIN gemini \subseteq DOMAIN gemini'
BY CreateGrows DEF CallFails

LEMMA set_state_Same ==
    ASSUME NEW id, NEW st
    PROVE  DOMAIN set_state(id, st) = DOMAIN gemini
BY DEF set_state

LEMMA CommitSaves ==
    ASSUME NEW s, Commit(s)
    PROVE  store' = s /\ Saves
BY DEF Commit, Saves

\* The step of a handler that stores nothing.
LEMMA StillStep ==
    ASSUME OInv, IInv', NEW r \in Request, LetsGo(r),
           store' = store, disk' = disk, cleaned' = cleaned,
           DOMAIN gemini \subseteq DOMAIN gemini'
    PROVE  OInv' /\ Kept(store, store')
BY LetsGoQuiet, SameBatches, SameNodes, QuietStep DEF Saves, OInv, IInv, TypeOK

LEMMA WaitingOInv ==
    ASSUME OInv, IInv', NEW r \in Request,
           \/ Arrive(r) \/ Probe(r) \/ Poll(r) \/ PollTimeout(r) \/ Recheck(r)
           \/ JoinBatch(r) \/ DupPoll(r) \/ DupTimeout(r) \/ DupReady(r)
           \/ Replay(r)
    PROVE  OInv' /\ Kept(store, store')
<1>1. IInv /\ task \in [Request -> Task]
  BY DEF OInv, IInv, TypeOK
<1>2. UNCHANGED <<store, disk, gemini, cleaned>>
  BY DEF Arrive, Probe, Poll, PollTimeout, Recheck, JoinBatch, DupPoll,
         DupTimeout, DupReady, Replay, world
<1> SUFFICES LetsGo(r)
  BY <1>2, StillStep
<1>3. ASSUME NEW id, ReplayFrom(r, id)
      PROVE  LetsGo(r)
  BY <1>1, <1>3 DEF ReplayFrom, LetsGo, Task
<1>4. ASSUME NEW pc \in {"poll", "dup"}, NEW b,
             task' = [task EXCEPT ![r].pc = pc, ![r].batch = b]
      PROVE  LetsGo(r)
  BY <1>1, <1>4 DEF LetsGo, Task
<1>5. CASE Arrive(r)
  <2>1. CASE \E id : ReplayFrom(r, id)
    BY <1>3, <2>1
  <2>2. ASSUME NEW n, NEW p,
               task' = [task EXCEPT ![r].pc = "probe", ![r].start = n,
                                    ![r].prev = p]
        PROVE  LetsGo(r)
    BY <1>1, <2>2 DEF LetsGo, Task
  <2> QED
    BY <1>5, <2>1, <2>2 DEF Arrive
<1>6. CASE Probe(r) \/ JoinBatch(r)
  BY <1>1, <1>4, <1>6, GotoLetsGo DEF Probe, JoinBatch
<1>7. CASE Poll(r) \/ PollTimeout(r) \/ DupPoll(r) \/ DupTimeout(r)
  BY <1>1, <1>7, GotoLetsGo DEF Poll, PollTimeout, DupPoll, DupTimeout
<1>8. CASE Recheck(r) \/ DupReady(r)
  BY <1>1, <1>3, <1>8, GotoLetsGo DEF Recheck, DupReady
<1>9. CASE Replay(r)
  <2>1. ASSUME NEW ids,
               task' = [task EXCEPT ![r].pc = "fetch", ![r].fetch = ids]
        PROVE  LetsGo(r)
    BY <1>1, <2>1 DEF LetsGo, Task
  <2> QED
    BY <1>1, <1>9, <2>1, GotoLetsGo DEF Replay
<1> QED
  BY <1>5, <1>6, <1>7, <1>8, <1>9

LEMMA EndingOInv ==
    ASSUME OInv, IInv', NEW r \in Request,
           \/ FetchFails(r) \/ PostFails(r) \/ StreamEnds(r)
           \/ StreamBreaks(r) \/ NoCreatedEvent(r) \/ TranslateFails(r)
           \/ ClientGone(r)
    PROVE  OInv' /\ Kept(store, store')
<1>1. IInv /\ task \in [Request -> Task]
  BY DEF OInv, IInv, TypeOK
<1>2. UNCHANGED <<store, disk, cleaned>>
  BY DEF FetchFails, PostFails, StreamEnds, StreamBreaks, NoCreatedEvent,
         TranslateFails, ClientGone, world
<1>3. DOMAIN gemini \subseteq DOMAIN gemini'
  BY CallFailsGrows, CreateGrows
     DEF FetchFails, PostFails, StreamEnds, StreamBreaks, NoCreatedEvent,
         TranslateFails, ClientGone
<1>4. LetsGo(r)
  <2>1. CASE StreamEnds(r)
    BY <1>1, <2>1 DEF StreamEnds, LetsGo, Task
  <2>2. CASE ~StreamEnds(r)
    BY <1>1, <2>2, GotoLetsGo
       DEF FetchFails, PostFails, StreamBreaks, NoCreatedEvent,
           TranslateFails, ClientGone
  <2> QED
    BY <2>1, <2>2
<1> QED
  BY <1>2, <1>3, <1>4, StillStep

LEMMA UndoingOInv ==
    ASSUME OInv, IInv', NEW r \in Request, Cancel(r) \/ Clean(r)
    PROVE  OInv' /\ Kept(store, store')
<1>1. IInv
  BY DEF OInv
<1>2. UNCHANGED <<store, disk, cleaned>>
  BY DEF Cancel, Clean, world
<1>3. DOMAIN gemini \subseteq DOMAIN gemini'
  BY set_state_Same DEF Cancel, Clean
<1>4. LetsGo(r)
  BY <1>1, GotoLetsGo, UndoLetsGo DEF Cancel, Clean, At
<1> QED
  BY <1>2, <1>3, <1>4, StillStep

\* The step of a handler that stores no interaction.
LEMMA CommitOInv ==
    ASSUME OInv, IInv', NEW r \in Request, LetsGo(r), NEW s, Commit(s),
           From(store, s), Kept(store, s),
           DOMAIN s.clients \subseteq DOMAIN store.clients,
           cleaned' = cleaned, DOMAIN gemini \subseteq DOMAIN gemini'
    PROVE  OInv' /\ Kept(store, store')
BY LetsGoQuiet, CommitSaves, QuietStep

LEMMA SavingOInv ==
    ASSUME OInv, IInv', NEW r \in Request,
           Fetch(r) \/ CreateBatch(r) \/ Mark(r) \/ Upsert(r)
           \/ ExtendLifetime(r) \/ PieceFails(r)
    PROVE  OInv' /\ Kept(store, store')
<1>1. IInv /\ task \in [Request -> Task] /\ StoreOK(store) /\ now \in Nat
  BY DEF OInv, IInv, TypeOK
<1>2. cleaned' = cleaned
  BY DEF Fetch, CreateBatch, Mark, Upsert, ExtendLifetime, PieceFails, world
<1>3. DOMAIN gemini \subseteq DOMAIN gemini'
  BY CallFailsGrows
     DEF Fetch, CreateBatch, Mark, Upsert, ExtendLifetime, PieceFails
<1>4. CASE Fetch(r)
  <2>1. ASSUME NEW ids, NEW pc \in {"done", "fetch"},
               task' = [task EXCEPT ![r].fetch = ids, ![r].pc = pc]
        PROVE  LetsGo(r)
    BY <1>1, <2>1 DEF LetsGo, Task
  <2>2. LetsGo(r)
    <3> DEFINE ids == Tail(task[r].fetch)
               pc  == IF Tail(task[r].fetch) = <<>> THEN "done" ELSE "fetch"
    <3>1. pc \in {"done", "fetch"}
      OBVIOUS
    <3>2. task' = [task EXCEPT ![r].fetch = ids, ![r].pc = pc]
      BY <1>1, <1>4 DEF Fetch
    <3> HIDE DEF ids, pc
    <3> QED
      BY <2>1, <3>1, <3>2
  <2>3. Commit(store)
    BY <1>4 DEF Fetch
  <2> QED
    BY <1>1, <1>2, <1>3, <2>2, <2>3, SameBatches, SameNodes, CommitOInv
<1>5. CASE CreateBatch(r)
  <2> DEFINE b == <<ask[r].session, now>>
             s == create_batch(store, b, task[r].prev, ask[r].hashes,
                               system_hash(r), piece_count(r))
  <2>1. /\ task' = [task EXCEPT ![r].pc = "mark", ![r].batch = b,
                                ![r].piece = 1, ![r].last = task[r].prev]
        /\ Commit(s)
    BY <1>5 DEF CreateBatch
  <2>2. From(store, s) /\ s.clients = store.clients
    BY <1>1, create_batch_From
  <2> HIDE DEF b, s
  <2>3. LetsGo(r)
    BY <1>1, <2>1 DEF LetsGo, Task
  <2> QED
    BY <1>1, <1>2, <1>3, <2>1, <2>2, <2>3, SameNodes, CommitOInv
<1>6. CASE Mark(r)
  BY <1>1, <1>2, <1>3, <1>6, mark_response_started_From, SameNodes,
     GotoLetsGo, CommitOInv DEF Mark
<1>7. CASE Upsert(r)
  <2> DEFINE s == set_last_interaction(store, ask[r].session, task[r].last)
  <2>1. Commit(s) /\ LetsGo(r)
    BY <1>1, <1>7, AnswerLetsGo DEF Upsert
  <2>2. s.in_flight = store.in_flight /\ s.clients = store.clients
    BY <1>1 DEF set_last_interaction, StoreOK
  <2> HIDE DEF s
  <2> QED
    BY <1>1, <1>2, <1>3, <2>1, <2>2, SameBatches, SameNodes, CommitOInv
<1>8. CASE ExtendLifetime(r)
  BY <1>1, <1>2, <1>3, <1>8, extend_lifetime_From, SameBatches, GotoLetsGo,
     CommitOInv DEF ExtendLifetime, Kept
<1>9. CASE PieceFails(r)
  <2>1. ASSUME NEW u,
               task' = [task EXCEPT ![r].pc = "cancel", ![r].undo = u]
        PROVE  LetsGo(r)
    BY <1>1, <2>1 DEF LetsGo, Task
  <2>2. LetsGo(r) /\ Commit(fail_batch(store, task[r].batch))
    BY <1>9, <2>1 DEF PieceFails
  <2> QED
    BY <1>1, <1>2, <1>3, <2>2, fail_batch_From, SameNodes, CommitOInv
<1> QED
  BY <1>4, <1>5, <1>6, <1>7, <1>8, <1>9

-----------------------------------------------------------------------------
(* Steps that give an interaction a new owner *)

LEMMA ReceivingOInv ==
    ASSUME OInv, IInv', NEW r \in Request, Post(r) \/ SendPiece(r)
    PROVE  OInv' /\ Kept(store, store')
<1>1. task \in [Request -> Task]
  BY DEF OInv, IInv, TypeOK
<1>2. UNCHANGED <<store, disk, cleaned>>
  BY DEF Post, SendPiece, world
<1>3. ASSUME NEW x \in Id, NEW prev, NEW content, NEW pc,
             Create(x, prev, content),
             task' = [task EXCEPT ![r].last = x, ![r].pc = pc]
      PROVE  OInv' /\ Kept(store, store')
  <2>1. task'[r].last = x /\ \A q \in Request \ {r} : task'[q] = task[q]
    BY <1>1, <1>3 DEF Task
  <2> QED
    BY <1>2, <1>3, <2>1, CreateGrows, ReceiptStep, SameNodes
       DEF OInv, IInv, TypeOK
<1>4. CASE Post(r)
  BY <1>3, <1>4 DEF Post
<1>5. CASE SendPiece(r)
  BY <1>3, <1>5 DEF SendPiece
<1> QED
  BY <1>4, <1>5

LEMMA AckOInv ==
    ASSUME OInv, IInv', NEW r \in Request, Ack(r)
    PROVE  OInv' /\ Kept(store, store')
<1> DEFINE b == task[r].batch
           s == ack_piece(mark_sent(store, b, task[r].piece, task[r].last),
                          b, task[r].piece, task[r].last)
<1>1. /\ IInv /\ task \in [Request -> Task] /\ StoreOK(store)
      /\ Holds(r) /\ task[r].last \in Id
  BY HeldId DEF OInv, IInv, TypeOK, Ack, At, Holds
<1>2. Commit(s) /\ gemini' = gemini /\ cleaned' = cleaned
  BY DEF Ack, world
<1>3. /\ s.clients = store.clients
      /\ \A c \in DOMAIN s.in_flight : \A id \in Id :
            InBatch(s, c, id) => InBatch(store, c, id)
                                 \/ (c = b /\ id = task[r].last)
  BY <1>1, acknowledge_From
<1> HIDE DEF s, b
<1>4. store' = s /\ Saves
  BY <1>2, CommitSaves
<1>5. LetsGo(r)
  <2>1. ASSUME NEW i,
               task' = [task EXCEPT ![r].pc = "mark", ![r].piece = i]
        PROVE  LetsGo(r)
    BY <1>1, <2>1 DEF LetsGo, Task
  <2> QED
    BY <1>1, <2>1, GotoLetsGo DEF Ack
<1>6. ~Holds(r)' /\ \A q \in Request \ {r} : task'[q] = task[q]
  BY <1>5, LetsGoQuiet DEF LetsGo
<1> QED
  BY <1>1, <1>2, <1>3, <1>4, <1>6, HandoverStep, SameNodes

LEMMA StoringOInv ==
    ASSUME OInv, IInv', NEW r \in Request, StoreNode(r) \/ StreamCreated(r)
    PROVE  OInv' /\ Kept(store, store')
<1>1. IInv /\ Holds(r)
  BY DEF OInv, StoreNode, StreamCreated, At, Holds
<1>2. is_query(r)
  BY <1>1, RunningQuery DEF Holds, Ends
<1>3. LetsGo(r)
  BY <1>1, AnswerLetsGo, GotoLetsGo DEF StoreNode, StreamCreated
<1>4. store' = with_node(r) /\ Saves
  BY CommitSaves DEF StoreNode, StreamCreated
<1>5. gemini' = gemini /\ cleaned' = cleaned
  BY DEF StoreNode, StreamCreated, world
<1> QED
  BY <1>1, <1>2, <1>3, <1>4, <1>5, LetsGoQuiet, PublishHeld

LEMMA CompleteOInv ==
    ASSUME OInv, IInv', NEW r \in Request, Complete(r)
    PROVE  OInv' /\ Kept(store, store')
<1> DEFINE b == task[r].batch
<1>1. IInv
  BY DEF OInv
<1>2. gemini' = gemini /\ cleaned' = cleaned
  BY DEF Complete, world
<1>3. LetsGo(r)
  BY <1>1, AnswerLetsGo, GotoLetsGo DEF Complete
<1>4. Saves
  BY CommitSaves DEF Complete, Saves
<1>5. CASE b \in DOMAIN store.in_flight
  <2>1. store' = complete_batch(store, b, now)
    BY <1>5, CommitSaves DEF Complete
  <2> QED
    BY <1>2, <1>3, <1>4, <1>5, <2>1, LetsGoQuiet, PublishBatch
<1>6. CASE b \notin DOMAIN store.in_flight
  <2>1. store' = store
    BY <1>6 DEF Complete, batch_is_complete
  <2> QED
    BY <1>1, <1>2, <1>3, <1>4, <2>1, LetsGoQuiet, SameBatches, SameNodes,
       QuietStep DEF IInv, TypeOK
<1> QED
  BY <1>5, <1>6

LEMMA CleanAllOInv ==
    ASSUME OInv, IInv', NEW r \in Request, CleanAll(r)
    PROVE  OInv'
<1> DEFINE s == clean_all(store)
<1>1. /\ IInv /\ task \in [Request -> Task]
      /\ OwnedBy(store, DOMAIN gemini) /\ OwnedBy(disk, DOMAIN gemini)
  BY DEF OInv, IInv, TypeOK, InteractionsHaveOneOwner, OneOwner, OwnedBy
<1>2. /\ Commit(s) /\ gemini' = gemini
      /\ cleaned' = cleaned \cup DOMAIN store.clients
  BY DEF CleanAll
<1>3. LetsGo(r)
  <2>1. ASSUME NEW u,
               task' = [task EXCEPT ![r].pc = "clean", ![r].undo = u]
        PROVE  LetsGo(r)
    BY <1>1, <2>1 DEF LetsGo, Task
  <2> QED
    BY <2>1 DEF CleanAll
<1>4. s.clients = EmptyMap /\ s.in_flight = EmptyMap
  BY DEF clean_all, NewStore
<1>5. Encodable(s)
  BY <1>4 DEF Encodable, EmptyMap
<1>6. store' = s /\ (SaveMayFail \/ disk' = Document(s)) /\ Saves
  BY <1>2, <1>5, CommitSaves DEF Commit
<1> HIDE DEF s
<1>7. \A C : Clear(s, C)
  BY <1>4 DEF Clear, EmptyMap
<1>8. OwnedBy(store', DOMAIN gemini')
  BY <1>4, <1>6 DEF OwnedBy, EmptyMap
<1>9. OwnedBy(disk', DOMAIN gemini')
  BY <1>2, <1>6, <1>8, SavedOwners
<1>10. CleanedIsGone'
  <2>1. Clear(s, cleaned') /\ Clear(Document(s), cleaned')
    BY <1>7, DocumentFrom
  <2>2. Clear(store', cleaned') /\ (SaveMayFail \/ Clear(disk', cleaned'))
    BY <1>6, <2>1
  <2> QED
    BY <2>2 DEF CleanedIsGone, Clear, InBatch
<1>11. ASSUME NEW q \in Request, Holds(q)'
       PROVE  OneHolder(q)'
  <2>1. QuietTasks
    BY <1>3, LetsGoQuiet
  <2>2. OneHolder(q) /\ task'[q].last = task[q].last
    BY <1>11, <2>1 DEF QuietTasks, OInv, InteractionsHaveOneOwner
  <2>3. \A p \in Request \ {q} : Holds(p)' => task'[p].last # task'[q].last
    BY <2>1, <2>2 DEF QuietTasks, OneHolder
  <2>4. task'[q].last \in DOMAIN gemini' \ (DOMAIN store'.clients \cup cleaned')
    BY <1>2, <1>4, <1>6, <2>2 DEF OneHolder, EmptyMap
  <2>5. \A c \in DOMAIN store'.in_flight : ~InBatch(store', c, task'[q].last)
    BY <1>4, <1>6 DEF EmptyMap
  <2> QED
    BY <2>3, <2>4, <2>5 DEF OneHolder, InBatch
<1>12. InteractionsHaveOneOwner'
  BY <1>8, <1>9, <1>11 DEF InteractionsHaveOneOwner, OneOwner, OwnedBy
<1>13. cleaned' \subseteq DOMAIN gemini'
  BY <1>1, <1>2 DEF OInv, OwnedBy
<1> QED
  BY <1>10, <1>12, <1>13 DEF OInv

LEMMA CrashOInv ==
    ASSUME OInv, IInv', Crash
    PROVE  OInv'
<1>1. store'.clients = disk.clients /\ store'.in_flight = disk.in_flight
  BY load_from_disk_Keeps DEF Crash
<1>2. disk' = disk /\ gemini' = gemini /\ cleaned' = cleaned
  BY DEF Crash
<1>3. OneOwner(store)' /\ OneOwner(disk)'
  BY <1>1, <1>2 DEF OInv, InteractionsHaveOneOwner, OneOwner, InBatch
<1>4. CleanedIsGone'
  BY <1>1, <1>2 DEF OInv, CleanedIsGone, Clear, InBatch
<1>5. \A r \in Request : ~Holds(r)'
  BY DEF Crash, in_progress, Holds, Ends, NewTask
<1> QED
  BY <1>2, <1>3, <1>4, <1>5 DEF OInv, InteractionsHaveOneOwner

LEMMA StartupOInv ==
    ASSUME OInv, IInv', Startup
    PROVE  OInv' /\ Kept(store, store')
<1>1. /\ gemini' = gemini /\ cleaned' = cleaned /\ task' = task
      /\ StoreOK(store)
  BY DEF Startup, StartupComplete, StartupDiscard, world, OInv, IInv, TypeOK
<1>2. QuietTasks
  BY <1>1 DEF QuietTasks, Holds
<1>3. CASE StartupComplete
  BY <1>1, <1>2, <1>3, PublishBatch DEF StartupComplete, Saves
<1>4. CASE StartupDiscard
  <2> DEFINE s == discard_all_inflight(store)
  <2>1. s.clients = store.clients /\ s.in_flight = EmptyMap
    BY <1>1 DEF discard_all_inflight, StoreOK
  <2>2. From(store, s)
    BY <2>1 DEF From, EmptyMap
  <2>3. Saves /\ store' \in {store, s}
    BY <1>4, CommitSaves DEF StartupDiscard, Saves
  <2> HIDE DEF s
  <2>4. From(store, store') /\ store'.clients = store.clients
    BY <2>1, <2>2, <2>3, SameBatches
  <2> QED
    BY <1>1, <1>2, <2>3, <2>4, QuietStep, SameNodes
<1> QED
  BY <1>3, <1>4 DEF Startup

\* A step that changes none of what the invariant is about.
LEMMA IdleOInv ==
    ASSUME OInv, IInv', UNCHANGED <<store, disk, task, gemini, cleaned>>
    PROVE  OInv' /\ Kept(store, store')
BY SameBatches, SameNodes, QuietStep
   DEF QuietTasks, Holds, Saves, OInv, IInv, TypeOK

-----------------------------------------------------------------------------
(* The theorems *)

LEMMA InitOInv == Init => OInv
<1> SUFFICES ASSUME Init PROVE OInv
  OBVIOUS
<1>1. store.clients = EmptyMap /\ store.in_flight = EmptyMap /\ cleaned = {}
  BY DEF Init, NewStore
<1>2. disk.clients = EmptyMap /\ disk.in_flight = EmptyMap
  BY DEF Init, NewStore, Document
<1>3. \A r \in Request : ~Holds(r)
  BY DEF Init, NewTask, Holds
<1> QED
  BY <1>1, <1>2, <1>3, InitIInv
     DEF OInv, InteractionsHaveOneOwner, OneOwner, CleanedIsGone, Clear,
         EmptyMap

LEMMA HandlerOInv ==
    ASSUME OInv, IInv', NEW r \in Request, Handler(r)
    PROVE  OInv' /\ (Kept(store, store') \/ CleanAll(r))
<1>1. CASE \/ Arrive(r) \/ Probe(r) \/ Poll(r) \/ PollTimeout(r)
           \/ Recheck(r) \/ Replay(r) \/ JoinBatch(r) \/ DupPoll(r)
           \/ DupTimeout(r) \/ DupReady(r)
  BY <1>1, WaitingOInv
<1>2. CASE \/ FetchFails(r) \/ PostFails(r) \/ StreamEnds(r)
           \/ StreamBreaks(r) \/ NoCreatedEvent(r) \/ TranslateFails(r)
           \/ Cancel(r) \/ Clean(r)
  BY <1>2, EndingOInv, UndoingOInv
<1>3. CASE \/ Fetch(r) \/ CreateBatch(r) \/ Mark(r) \/ Upsert(r)
           \/ ExtendLifetime(r) \/ PieceFails(r)
  BY <1>3, SavingOInv
<1>4. CASE \/ Post(r) \/ SendPiece(r) \/ Ack(r) \/ StoreNode(r)
           \/ StreamCreated(r) \/ Complete(r) \/ CleanAll(r)
  BY <1>4, ReceivingOInv, AckOInv, StoringOInv, CompleteOInv, CleanAllOInv
<1> QED
  BY <1>1, <1>2, <1>3, <1>4 DEF Handler

LEMMA NextOInv ==
    ASSUME OInv, [Next]_vars
    PROVE  /\ OInv'
           /\ \/ Kept(store, store')
              \/ \E r \in Request : CleanAll(r)
              \/ Crash
<1>1. IInv'
  BY NextIInv DEF OInv
<1>2. CASE \E r \in Request : Handler(r) \/ ClientGone(r)
  BY <1>1, <1>2, HandlerOInv, EndingOInv
<1>3. CASE Crash
  BY <1>1, <1>3, CrashOInv
<1>4. CASE Startup
  BY <1>1, <1>4, StartupOInv
<1>5. CASE Tick \/ UNCHANGED vars
  BY <1>1, <1>5, IdleOInv DEF Tick, vars
<1> QED
  BY <1>2, <1>3, <1>4, <1>5 DEF Next

LEMMA AlwaysOInv == Spec => []OInv
<1>1. OInv /\ [Next]_vars => OInv'
  BY NextOInv
<1> QED
  BY <1>1, InitOInv, PTL DEF Spec

\* However requests, retries, clean-all, crashes and failing saves interleave,
\* an interaction the service created is held by one handler, or is a piece
\* of one batch in flight, or is the last of a client node, never two of these
\* (interactions_handler.rs, session.rs complete_batch).
THEOREM OneOwnerAlways == Spec => []InteractionsHaveOneOwner
BY AlwaysOInv, PTL DEF OInv

\* A published client node is only ever touched by extend_lifetime, and only
\* clean-all or a restart that finds an older document takes it away: there is
\* no second insert_client under the same id.
THEOREM PublishedStays == Spec => PublishedNeverChanges
<1>1. ASSUME OInv, [Next]_vars
      PROVE  [\A c \in DOMAIN store.clients :
                \/ /\ c \in DOMAIN store'.clients
                   /\ store'.clients[c] =
                        [store.clients[c] EXCEPT
                           !.last_seen_utc = store'.clients[c].last_seen_utc]
                \/ c \in cleaned'
                \/ ~up']_vars
  <2>1. CASE Kept(store, store')
    BY <2>1 DEF Kept
  <2>2. CASE \E r \in Request : CleanAll(r)
    BY <2>2 DEF CleanAll
  <2>3. CASE Crash
    BY <2>3 DEF Crash
  <2> QED
    BY <1>1, <2>1, <2>2, <2>3, NextOInv
<1> QED
  BY <1>1, AlwaysOInv, PTL DEF Spec, PublishedNeverChanges

\* When saves run to their end (none fails or is dropped with its handler), no
\* handler that was at work while clean_all ran and no restart brings back a client node that clean_all removed.
THEOREM CleanedForGood ==
    ASSUME ~SaveMayFail
    PROVE  Spec => []CleanedStaysRemoved
<1>1. OInv => CleanedStaysRemoved
  BY DEF OInv, CleanedIsGone, Clear, CleanedStaysRemoved
<1> QED
  BY <1>1, AlwaysOInv, PTL
=============================================================================
