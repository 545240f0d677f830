-------------------------- MODULE DurabilityProofs --------------------------
(***************************************************************************)
(* An answered request has its node in the document, and an interaction    *)
(* that the proxy cancels or deletes is never published.                   *)
(*                                                                         *)
(* Both need that saves run to their end (the disk does not fail, and no   *)
(* handler is dropped while it awaits its save), that the hashes fit into  *)
(* a TOML integer (the run hash_too_large shows what happens when one does *)
(* not), and that no two handlers at work share the name of a batch        *)
(* (BatchProofs).                                                          *)
(*                                                                         *)
(* With them, and with what BatchProofs proves, the handler implements     *)
(* LogicalInteractions.                                                    *)
(***************************************************************************)
EXTENDS BatchProofs

HashesFit == \A h \in Hash : h <= TomlIntegerMax

-----------------------------------------------------------------------------
(* While the process runs the document is the store *)

Mirror ==
    /\ \A r \in Request : in_progress(r) => up
    /\ (up \/ disk.in_flight = EmptyMap) => disk = Document(store)
    /\ DOMAIN disk.clients \subseteq DOMAIN store.clients

LEMMA FitEncodable ==
    ASSUME HashesFit, NEW s, StoreOK(s)
    PROVE  Encodable(s)
<1>1. ASSUME NEW x, x.message_hashes \in Seq(Hash),
             x.system_instruction_hash \in Hash \cup {NoHash}
      PROVE  /\ x.system_instruction_hash # NoHash =>
                    x.system_instruction_hash <= TomlIntegerMax
             /\ \A i \in DOMAIN x.message_hashes :
                    x.message_hashes[i] <= TomlIntegerMax
  BY <1>1 DEF HashesFit
<1>2. \A c \in DOMAIN s.clients :
        /\ s.clients[c].message_hashes \in Seq(Hash)
        /\ s.clients[c].system_instruction_hash \in Hash \cup {NoHash}
  BY DEF StoreOK, IsMap, ClientInteractionNode
<1>3. \A b \in DOMAIN s.in_flight :
        /\ s.in_flight[b].message_hashes \in Seq(Hash)
        /\ s.in_flight[b].system_instruction_hash \in Hash \cup {NoHash}
  BY DEF StoreOK, IsMap, InFlightBatch
<1> QED
  BY <1>1, <1>2, <1>3 DEF Encodable

LEMMA CommitMirrors ==
    ASSUME ~SaveMayFail, HashesFit, IInv', NEW s, Commit(s)
    PROVE  store' = s /\ disk' = Document(store')
BY FitEncodable DEF Commit, IInv, TypeOK

\* Whoever completes a batch finds it complete, or gone.
LEMMA CompleteMirrors ==
    ASSUME BInv, ~SaveMayFail, HashesFit, IInv', NEW r \in Request, Complete(r)
    PROVE  \/ /\ batch_is_complete(store, task[r].batch)
              /\ store' = complete_batch(store, task[r].batch, now)
              /\ disk' = Document(store')
           \/ /\ UNCHANGED <<store, disk>> /\ Goto(r, "failed")
<1> DEFINE b == task[r].batch
<1>1. CASE batch_is_complete(store, b)
  BY <1>1, CommitMirrors DEF Complete
<1>2. CASE ~batch_is_complete(store, b)
  <2>1. InStep(r) /\ task[r].pc = "complete"
    BY DEF BInv, Complete, At
  <2>2. b \notin DOMAIN store.in_flight
    BY <1>2, <2>1 DEF InStep, Working, batch_is_complete
  <2> QED
    BY SMTT(30), <1>2, <2>2 DEF Complete
<1> QED
  BY <1>1, <1>2

LEMMA HandlerOthers ==
    ASSUME IInv, NEW r \in Request, Handler(r) \/ ClientGone(r)
    PROVE  Others(r)
<1>1. task \in [Request -> Task]
  BY DEF IInv, TypeOK
<1>2. ASSUME NEW pc, Goto(r, pc) PROVE Others(r)
  BY <1>1, <1>2 DEF Goto, Others
<1>3. ASSUME NEW id, ReplayFrom(r, id) \/ Answer(r, id) PROVE Others(r)
  BY <1>1, <1>2, <1>3 DEF ReplayFrom, Answer, Others
<1>4. CASE Arrive(r) \/ Probe(r) \/ Recheck(r) \/ Replay(r) \/ JoinBatch(r)
           \/ DupReady(r) \/ Fetch(r)
  BY <1>1, <1>2, <1>3, <1>4
     DEF Arrive, Probe, Recheck, Replay, JoinBatch, DupReady, Fetch, Others
<1>5. CASE \/ Poll(r) \/ PollTimeout(r) \/ DupPoll(r) \/ DupTimeout(r)
           \/ FetchFails(r) \/ PostFails(r) \/ StreamCreated(r)
           \/ StreamBreaks(r) \/ NoCreatedEvent(r) \/ TranslateFails(r)
           \/ ExtendLifetime(r) \/ ClientGone(r) \/ Mark(r)
  BY <1>2, <1>5
     DEF Poll, PollTimeout, DupPoll, DupTimeout, FetchFails, PostFails,
         StreamCreated, StreamBreaks, NoCreatedEvent, TranslateFails,
         ExtendLifetime, ClientGone, Mark
<1>6. CASE StoreNode(r) \/ Upsert(r) \/ Complete(r)
  BY <1>2, <1>3, <1>6 DEF StoreNode, Upsert, Complete
<1>7. CASE Post(r) \/ SendPiece(r) \/ StreamEnds(r) \/ CleanAll(r)
  BY <1>1, <1>7 DEF Post, SendPiece, StreamEnds, CleanAll, Others
<1>8. CASE CreateBatch(r)
  BY <1>1, <1>8 DEF CreateBatch, Others
<1>9. CASE PieceFails(r)
  BY <1>1, <1>9 DEF PieceFails, Others
<1>10. CASE Ack(r)
  BY <1>1, <1>2, <1>10 DEF Ack, Others
<1>11. CASE Cancel(r) \/ Clean(r)
  BY <1>1, <1>2, <1>11 DEF Cancel, Clean, Others
<1> QED
  BY <1>4, <1>5, <1>6, <1>7, <1>8, <1>9, <1>10, <1>11 DEF Handler

\* A handler runs only while the process does; what it stores, it saves.
LEMMA HandlerMirrors ==
    ASSUME BInv, Mirror, ~SaveMayFail, HashesFit, IInv',
           NEW r \in Request, Handler(r) \/ ClientGone(r)
    PROVE  /\ up /\ up'
           /\ disk' = Document(store')
           /\ cleaned \subseteq cleaned'
<1>1. CASE \/ Arrive(r) \/ Probe(r) \/ Poll(r) \/ PollTimeout(r)
           \/ Recheck(r) \/ Replay(r) \/ JoinBatch(r) \/ DupPoll(r)
           \/ DupTimeout(r) \/ DupReady(r) \/ FetchFails(r)
  BY <1>1 DEF Arrive, Probe, Poll, PollTimeout, Recheck, Replay, JoinBatch,
              DupPoll, DupTimeout, DupReady, FetchFails, At, in_progress,
              Ends, Mirror, world
<1>2. CASE \/ Post(r) \/ PostFails(r) \/ StreamEnds(r)
           \/ StreamBreaks(r) \/ NoCreatedEvent(r) \/ TranslateFails(r)
           \/ Cancel(r) \/ Clean(r) \/ ClientGone(r) \/ SendPiece(r)
  BY <1>2 DEF Post, PostFails, StreamEnds, StreamBreaks, NoCreatedEvent,
              TranslateFails, Cancel, Clean, ClientGone, SendPiece,
              sends_whole, At, in_progress, Ends, Mirror, world
<1>3. CASE \/ Fetch(r) \/ StoreNode(r) \/ StreamCreated(r) \/ CreateBatch(r)
           \/ Mark(r) \/ PieceFails(r) \/ Ack(r) \/ Upsert(r) \/ CleanAll(r)
           \/ ExtendLifetime(r)
  <2>1. disk' = Document(store')
    BY <1>3, CommitMirrors
       DEF Fetch, StoreNode, StreamCreated, CreateBatch, Mark, PieceFails,
           Ack, Upsert, CleanAll, ExtendLifetime
  <2>2. up /\ up' = up /\ cleaned \subseteq cleaned'
    BY <1>3 DEF Fetch, StoreNode, StreamCreated, CreateBatch, Mark,
                PieceFails, Ack, Upsert, CleanAll, ExtendLifetime,
                At, in_progress, Ends, Mirror, world
  <2> QED
    BY <2>1, <2>2
<1>4. CASE Complete(r)
  <2>1. up /\ up' = up /\ cleaned' = cleaned
    BY <1>4 DEF Complete, At, in_progress, Ends, Mirror, world
  <2> QED
    BY <1>4, <2>1, CompleteMirrors DEF Mirror
<1> QED
  BY <1>1, <1>2, <1>3, <1>4 DEF Handler

LEMMA DocumentClients ==
    ASSUME NEW s
    PROVE  /\ Document(s).clients = s.clients
           /\ Document(s).in_flight = s.in_flight
BY DEF Document

LEMMA NextMirror ==
    ASSUME BInv, Mirror, ~SaveMayFail, HashesFit, OInv', [Next]_vars
    PROVE  Mirror' /\ cleaned \subseteq cleaned'
<1>1. IInv'
  BY DEF OInv
<1>2. ASSUME NEW r \in Request, Handler(r) \/ ClientGone(r)
      PROVE  Mirror' /\ cleaned \subseteq cleaned'
  <2>1. up /\ up' /\ disk' = Document(store') /\ cleaned \subseteq cleaned'
    BY <1>1, <1>2, HandlerMirrors
  <2> QED
    BY <2>1, DocumentClients DEF Mirror
<1>3. CASE Crash
  <2>1. /\ store'.clients = disk.clients /\ store'.upstreams = disk.upstreams
        /\ store'.sessions = disk.sessions
        /\ store'.in_flight = disk.in_flight
    BY <1>3, load_from_disk_Keeps DEF Crash
  <2>2. disk = Document(store')
    BY <2>1 DEF BInv, OInv, IInv, TypeOK, DocumentOK, Document
  <2>3. \A r \in Request : ~in_progress(r)'
    BY <1>3 DEF Crash, in_progress, Ends, NewTask
  <2> QED
    BY <1>3, <2>1, <2>2, <2>3 DEF Crash, Mirror
<1>4. CASE StartupComplete
  <2>1. PICK b \in DOMAIN store.in_flight :
          store' = complete_batch(store, b, now)
    BY <1>4 DEF StartupComplete
  <2>2. /\ disk' = disk /\ task' = task /\ up' = up /\ ~up
        /\ cleaned' = cleaned
    BY <1>4 DEF StartupComplete, world
  <2>3. DOMAIN store.clients \subseteq DOMAIN store'.clients
    BY <1>1, <1>4, StartupOInv DEF BInv, Startup, Kept
  <2>4. disk.in_flight # EmptyMap
    BY <2>2, DocumentClients DEF Mirror, EmptyMap
  <2> QED
    BY <2>2, <2>3, <2>4 DEF Mirror, in_progress
<1>5. CASE StartupDiscard
  <2>1. /\ task' = task /\ up' = TRUE /\ cleaned' = cleaned
        /\ disk' = Document(store')
    BY <1>1, <1>5, CommitMirrors DEF StartupDiscard, Mirror
  <2> QED
    BY <2>1, DocumentClients DEF Mirror, in_progress
<1>6. CASE Tick \/ UNCHANGED vars
  BY <1>6 DEF Tick, vars, Mirror, in_progress
<1> QED
  BY <1>2, <1>3, <1>4, <1>5, <1>6 DEF Next, Startup

-----------------------------------------------------------------------------
(* An answer is of a node that is stored *)

\* The client nodes that are, or that clean_all has removed.
Known == DOMAIN store.clients \cup cleaned
Durable == DOMAIN disk.clients \cup cleaned

Answers(r) ==
    /\ is_query(r) =>
         /\ task[r].pc \in {"replay", "fetch"} => task[r].node \in Known
         /\ task[r].pc \in {"draining", "upsert"} => task[r].last \in Known
         /\ task[r].pc = "done" => task[r].node \in Durable
    /\ task[r].pc = "clean" => ~is_query(r)

DInv == BInv /\ Mirror /\ \A r \in Request : Answers(r)

LEMMA KnownGrows ==
    ASSUME BInv, Mirror, OInv', Mirror', cleaned \subseteq cleaned',
           [Next]_vars
    PROVE  /\ Crash \/ Known \subseteq Known'
           /\ Durable \subseteq Durable'
<1>1. CASE Crash
  BY <1>1 DEF Crash, Durable
<1>2. CASE ~Crash
  <2>1. Known \subseteq Known'
    <3>1. CASE Kept(store, store')
      BY <3>1 DEF Kept, Known
    <3>2. CASE \E r \in Request : CleanAll(r)
      BY <3>2 DEF CleanAll, Known
    <3> QED
      BY <1>2, <3>1, <3>2, NextOInv DEF BInv
  <2>2. disk' = disk \/ disk' = Document(store')
    BY StepOnward DEF BInv, OInv, Saves
  <2>3. Durable \subseteq Known
    BY DEF Mirror, Durable, Known
  <2> QED
    BY <2>1, <2>2, <2>3, DocumentClients DEF Durable, Known
<1> QED
  BY <1>1, <1>2

\* A request that is known is answered from a client node of the store.
LEMMA ReplayKnown ==
    ASSUME IInv, NEW r \in Request, is_query(r)
    PROVE  /\ waiting_frontier(r).all_known =>
                waiting_frontier(r).matched_client_id \in DOMAIN store.clients
           /\ LET f == find_frontier(ask[r].hashes, NoId, NoHash, store)
              IN  f.all_known => f.matched_client_id \in DOMAIN store.clients
<1>1. StoreOK(store) /\ ask[r].hashes \in Seq(Hash) /\ ask[r].hashes # <<>>
  BY AskOK DEF IInv, TypeOK
<1> QED
  BY <1>1, find_frontier_OK DEF waiting_frontier

LEMMA GotoPc ==
    ASSUME IInv, NEW r \in Request, NEW pc, Goto(r, pc)
    PROVE  /\ task'[r].pc = pc
           /\ task'[r].node = task[r].node /\ task'[r].last = task[r].last
BY DEF Goto, IInv, TypeOK, Task

LEMMA ReplayPc ==
    ASSUME IInv, NEW r \in Request, NEW id, ReplayFrom(r, id)
    PROVE  task'[r].pc = "replay" /\ task'[r].node = id
BY DEF ReplayFrom, IInv, TypeOK, Task

LEMMA AnswerPc ==
    ASSUME IInv, NEW r \in Request, NEW id, Answer(r, id)
    PROVE  \/ task'[r].pc = "done" /\ task'[r].node = id
           \/ task'[r].pc = "failed"
<1>1. CASE task' = [task EXCEPT ![r].pc = "done", ![r].node = id]
  BY <1>1 DEF IInv, TypeOK, Task
<1> QED
  BY <1>1, GotoPc DEF Answer

\* After its step r has neither answered nor found the node of its answer.
Silent(r) ==
    task'[r].pc \notin {"replay", "fetch", "draining", "upsert", "done",
                        "clean"}

LEMMA SilentSteps ==
    ASSUME IInv, NEW r \in Request,
           \/ Probe(r) \/ Poll(r) \/ PollTimeout(r) \/ JoinBatch(r)
           \/ DupPoll(r) \/ DupTimeout(r) \/ FetchFails(r) \/ Post(r)
           \/ PostFails(r) \/ StreamBreaks(r) \/ NoCreatedEvent(r)
           \/ TranslateFails(r) \/ CreateBatch(r) \/ Mark(r) \/ SendPiece(r)
           \/ PieceFails(r) \/ Ack(r) \/ Cancel(r) \/ ClientGone(r)
    PROVE  Silent(r)
<1>1. task \in [Request -> Task]
  BY DEF IInv, TypeOK
<1>2. ASSUME NEW pc, Goto(r, pc) PROVE task'[r].pc = pc
  BY <1>2, GotoPc
<1>3. CASE \/ Poll(r) \/ PollTimeout(r) \/ DupPoll(r) \/ DupTimeout(r)
           \/ FetchFails(r) \/ PostFails(r) \/ StreamBreaks(r)
           \/ NoCreatedEvent(r) \/ TranslateFails(r) \/ Mark(r)
           \/ ClientGone(r)
  BY <1>2, <1>3
     DEF Poll, PollTimeout, DupPoll, DupTimeout, FetchFails, PostFails,
         StreamBreaks, NoCreatedEvent, TranslateFails, Mark, ClientGone, Silent
<1>4. CASE Probe(r) \/ JoinBatch(r)
  BY <1>1, <1>2, <1>4 DEF Probe, JoinBatch, Silent, Task
<1>9. CASE Post(r)
  <2>1. PICK id \in Id :
          task' = [task EXCEPT ![r].last = id,
                     ![r].pc = IF ask[r].stream
                                 THEN "streaming" ELSE "store"]
    BY <1>9 DEF Post
  <2> QED
    BY <1>1, <2>1 DEF Silent, Task
<1>10. CASE SendPiece(r)
  <2>1. PICK id \in Id :
          task' = [task EXCEPT ![r].last = id, ![r].pc = "ack"]
    BY <1>10 DEF SendPiece
  <2> QED
    BY <1>1, <2>1 DEF Silent, Task
<1>5. CASE CreateBatch(r)
  BY <1>1, <1>5 DEF CreateBatch, Silent, Task
<1>6. CASE PieceFails(r)
  BY <1>1, <1>6 DEF PieceFails, Silent, Task
<1>7. CASE Ack(r)
  BY <1>1, <1>2, <1>7 DEF Ack, Silent, Task
<1>8. CASE Cancel(r)
  BY <1>1, <1>2, <1>8 DEF Cancel, At, Silent, Task
<1> QED
  BY <1>3, <1>4, <1>5, <1>6, <1>7, <1>8, <1>9, <1>10

\* The handler of r names a node that is known.
LEMMA KnownAnswers ==
    ASSUME NEW r \in Request, is_query(r), Durable' = Known',
           \/ Silent(r)
           \/ task'[r].pc \in {"replay", "fetch", "done"}
              /\ task'[r].node \in Known'
           \/ task'[r].pc \in {"draining", "upsert"}
              /\ task'[r].last \in Known'
    PROVE  Answers(r)'
BY DEF Answers, Silent, is_query

\* complete_batch publishes the node of the last piece.
LEMMA CompleteKnown ==
    ASSUME BInv, NEW r \in Request, At(r, "complete"),
           batch_is_complete(store, task[r].batch),
           store' = complete_batch(store, task[r].batch, now)
    PROVE  LET ids == batch_ids(store.in_flight[task[r].batch])
           IN  /\ ids[Len(ids)] \in DOMAIN store'.clients
               /\ task[r].last = ids[Len(ids)]
<1> DEFINE b     == task[r].batch
           batch == store.in_flight[b]
           ids   == batch_ids(batch)
           n     == piece_count(r)
<1>1. b \in DOMAIN store.in_flight
  BY DEF batch_is_complete
<1>2. /\ DOMAIN batch.pieces = 1 .. n
      /\ task[r].last = batch.pieces[n].interaction_id
  BY <1>1 DEF BInv, InStep, Working, At
<1>3. batch.pieces \in Seq(Piece) /\ StoreOK(store) /\ now \in Nat
  BY <1>1 DEF BInv, OInv, IInv, TypeOK, StoreOK, IsMap, InFlightBatch
<1>4. n \in Nat \ {0}
  <2>1. is_query(r) /\ task[r].start < Len(ask[r].hashes)
    BY DEF BInv, OInv, IInv, Progress, At, Ends
  <2> QED
    BY <2>1, piece_count_OK DEF BInv, OInv, IInv, TypeOK
<1>5. Len(batch.pieces) = n
  BY <1>2, <1>3, <1>4
<1>6. Len(ids) = n /\ ids[n] = batch.pieces[n].interaction_id
  BY <1>4, <1>5 DEF batch_ids
<1>7. Completed(store, store', b, now)
  BY <1>1, <1>3, complete_batch_Effect
<1>8. ids[Len(ids)] \in DOMAIN store'.clients
  BY <1>7 DEF Completed, Put
<1> QED
  BY <1>2, <1>6, <1>8

LEMMA QueryAnswers ==
    ASSUME BInv, NEW r \in Request, is_query(r), Answers(r),
           Durable' = Known', Known \subseteq Known', ~SaveMayFail,
           HashesFit, IInv', Handler(r) \/ ClientGone(r)
    PROVE  Answers(r)'
<1>1. IInv /\ StoreOK(store) /\ task \in [Request -> Task]
  BY DEF BInv, OInv, IInv, TypeOK
<1>2. ASSUME NEW pc, Goto(r, pc), pc \in {"failed", "dispatch"}
      PROVE  Silent(r)
  BY <1>1, <1>2, GotoPc DEF Silent
<1>3. ASSUME NEW id \in Known, ReplayFrom(r, id)
      PROVE  Answers(r)'
  BY <1>1, <1>3, ReplayPc, KnownAnswers
<1>4. ASSUME NEW id \in Known', Answer(r, id)
      PROVE  Answers(r)'
  BY <1>1, <1>4, AnswerPc, KnownAnswers DEF Silent
<1>5. CASE Arrive(r) \/ Recheck(r) \/ DupReady(r)
  <2>1. CASE Arrive(r)
    <3> DEFINE f == find_frontier(ask[r].hashes, NoId, NoHash, store)
    <3>1. CASE f.all_known
      BY <1>1, <1>3, <2>1, <3>1, ReplayKnown DEF Arrive, Known
    <3>2. CASE ~f.all_known
      <4>1. task'[r].pc = "probe"
        BY <1>1, <2>1, <3>2 DEF Arrive, Task
      <4> QED
        BY <4>1, KnownAnswers DEF Silent
    <3> QED
      BY <3>1, <3>2
  <2>2. CASE Recheck(r) \/ DupReady(r)
    BY <1>1, <1>2, <1>3, <2>2, ReplayKnown, KnownAnswers
       DEF Recheck, DupReady, Known
  <2> QED
    BY <1>5, <2>1, <2>2
<1>6. CASE Replay(r) \/ Fetch(r)
  <2>1. task[r].node \in Known
    BY <1>6 DEF Replay, Fetch, At, Answers
  <2>2. CASE Replay(r)
    <3>1. Silent(r) \/ (task'[r].pc = "fetch" /\ task'[r].node = task[r].node)
      BY <1>1, <1>2, <2>2 DEF Replay, Task
    <3> QED
      BY <2>1, <3>1, KnownAnswers
  <2>3. CASE Fetch(r)
    <3>1. task'[r].pc \in {"fetch", "done"} /\ task'[r].node = task[r].node
      BY <1>1, <2>3 DEF Fetch, Task
    <3> QED
      BY <2>1, <3>1, KnownAnswers
  <2> QED
    BY <1>6, <2>2, <2>3
<1>7. CASE StoreNode(r) \/ StreamCreated(r)
  <2>1. store' = with_node(r)
    BY <1>7, CommitSaves DEF StoreNode, StreamCreated
  <2>2. task[r].last \in Known'
    <3>1. PICK node : with_node(r).clients =
                        Put(store.clients, task[r].last, node)
      BY <1>1, with_node_Effect
    <3> QED
      BY <2>1, <3>1 DEF Put, Known
  <2>3. CASE StoreNode(r)
    BY <1>4, <2>2, <2>3 DEF StoreNode
  <2>4. CASE StreamCreated(r)
    <3>1. task'[r].pc = "draining" /\ task'[r].last = task[r].last
      BY <1>1, <2>4, GotoPc DEF StreamCreated
    <3> QED
      BY <2>2, <3>1, KnownAnswers
  <2> QED
    BY <1>7, <2>3, <2>4
<1>8. CASE StreamEnds(r) \/ Upsert(r)
  <2>1. task[r].last \in Known'
    BY <1>8 DEF StreamEnds, Upsert, At, Answers
  <2>2. CASE StreamEnds(r)
    <3>1. task'[r].pc = "done" /\ task'[r].node = task[r].last
      BY <1>1, <2>2 DEF StreamEnds, Task
    <3> QED
      BY <2>1, <3>1, KnownAnswers
  <2>3. CASE Upsert(r)
    BY <1>4, <2>1, <2>3 DEF Upsert
  <2> QED
    BY <1>8, <2>2, <2>3
<1>9. CASE Complete(r)
  <2> DEFINE b   == task[r].batch
             ids == batch_ids(store.in_flight[b])
  <2>1. CASE batch_is_complete(store, b)
    <3>1. At(r, "complete") /\ store' = complete_batch(store, b, now)
      BY <1>9, <2>1, CommitSaves DEF Complete
    <3>2. ids[Len(ids)] \in Known' /\ task[r].last = ids[Len(ids)]
      BY <2>1, <3>1, CompleteKnown DEF Known
    <3>3. CASE splits_system(r)
      <4>1. task'[r].pc = "upsert" /\ task'[r].last = task[r].last
        BY <1>1, <1>9, <2>1, <3>3, GotoPc DEF Complete
      <4> QED
        BY <3>2, <4>1, KnownAnswers
    <3>4. CASE ~splits_system(r)
      BY <1>4, <1>9, <2>1, <3>2, <3>4 DEF Complete
    <3> QED
      BY <3>3, <3>4
  <2>2. CASE ~batch_is_complete(store, b)
    BY <1>2, <1>9, <2>2, KnownAnswers DEF Complete
  <2> QED
    BY <2>1, <2>2
<1>10. ~(CleanAll(r) \/ Clean(r) \/ ExtendLifetime(r))
  BY DEF CleanAll, Clean, ExtendLifetime, At, Answers, is_query
<1> QED
  BY <1>1, <1>5, <1>6, <1>7, <1>8, <1>9, <1>10, SilentSteps, KnownAnswers
     DEF Handler

\* The answers of the handlers that do not move stay what they are.
LEMMA StillAnswers ==
    ASSUME NEW q \in Request, Answers(q), task'[q] = task[q],
           \/ task[q].pc \in Ends \cup {"idle"}
           \/ Known \subseteq Known',
           Durable \subseteq Durable'
    PROVE  Answers(q)'
BY DEF Answers, is_query, Ends

LEMMA NextDInv ==
    ASSUME DInv, ~SaveMayFail, HashesFit, [Next]_vars,
           [\A r \in Request : NameIsFree(r)]_vars
    PROVE  DInv'
<1>1. /\ BInv /\ BInv' /\ OInv' /\ IInv /\ IInv'
      /\ Mirror /\ Mirror' /\ cleaned \subseteq cleaned'
      /\ task \in [Request -> Task]
  BY NextBInv, NextMirror DEF DInv, BInv, OInv, IInv, TypeOK
<1>2. Crash \/ Known \subseteq Known'
  BY <1>1, KnownGrows
<1>3. Durable \subseteq Durable'
  BY <1>1, KnownGrows
<1>4. ASSUME NEW r \in Request, Handler(r) \/ ClientGone(r)
      PROVE  \A q \in Request : Answers(q)'
  <2>1. up' /\ disk' = Document(store')
    BY <1>1, <1>4, HandlerMirrors
  <2>2. Known \subseteq Known'
    BY <1>2, <2>1 DEF Crash
  <2>3. Durable' = Known'
    BY <2>1, DocumentClients DEF Durable, Known
  <2>4. Answers(r)'
    <3>1. CASE is_query(r)
      BY <1>1, <1>4, <2>2, <2>3, <3>1, QueryAnswers DEF DInv
    <3>2. CASE ~is_query(r)
      BY <3>2 DEF Answers, is_query
    <3> QED
      BY <3>1, <3>2
  <2>5. ASSUME NEW q \in Request \ {r}
        PROVE  Answers(q)'
    <3>1. task'[q] = task[q]
      BY <1>1, <1>4, HandlerOthers DEF Others
    <3> QED
      BY <1>3, <2>2, <3>1, StillAnswers DEF DInv
  <2> QED
    BY <2>4, <2>5
<1>5. ASSUME UNCHANGED task, ~Crash
      PROVE  \A q \in Request : Answers(q)'
  BY <1>2, <1>3, <1>5, StillAnswers DEF DInv
<1>6. CASE Crash
  <2> SUFFICES ASSUME NEW q \in Request PROVE Answers(q)'
    BY <1>1 DEF DInv
  <2>1. CASE in_progress(q)
    <3>1. task'[q].pc = "gone"
      BY <1>6, <2>1 DEF Crash, NewTask
    <3> QED
      BY <3>1 DEF Answers
  <2>2. CASE ~in_progress(q)
    <3>1. task'[q] = task[q]
      BY <1>6, <2>2 DEF Crash
    <3>2. task[q].pc \in Ends \cup {"idle"}
      BY <2>2 DEF in_progress
    <3> QED
      BY <1>3, <3>1, <3>2, StillAnswers DEF DInv
  <2> QED
    BY <2>1, <2>2
<1>7. CASE ~Crash /\ (Startup \/ Tick \/ UNCHANGED vars)
  <2>1. UNCHANGED task
    BY <1>7 DEF Startup, StartupComplete, StartupDiscard, Tick, vars
  <2> QED
    BY <1>1, <1>5, <1>7, <2>1 DEF DInv
<1>8. CASE \E r \in Request : Handler(r) \/ ClientGone(r)
  BY <1>1, <1>4, <1>8 DEF DInv
<1> QED
  BY <1>6, <1>7, <1>8 DEF Next

LEMMA InitDInv == Init => DInv
<1> SUFFICES ASSUME Init PROVE DInv
  OBVIOUS
<1>1. \A r \in Request : task[r].pc = "idle"
  BY DEF Init, NewTask
<1>2. \A r \in Request : Answers(r)
  BY <1>1 DEF Answers
<1>3. Mirror
  BY <1>1, DocumentClients DEF Init, Mirror, in_progress
<1> QED
  BY <1>2, <1>3, InitBInv DEF DInv

LEMMA AlwaysDInv ==
    ASSUME ~SaveMayFail, HashesFit
    PROVE  Spec /\ NamesAreFree => []DInv
<1>1. DInv /\ [Next]_vars /\ [\A r \in Request : NameIsFree(r)]_vars => DInv'
  BY NextDInv
<1> QED
  BY <1>1, InitDInv, PTL DEF Spec, NamesAreFree

\* When saves run to their end and no two handlers at work share a batch name,
\* a request is answered only from a client node that the document holds, or
\* that clean_all has removed: however it came to its answer (a replay, a
\* stream, a whole response, the batch it sent or that of another), whichever
\* requests ran beside it and whenever the process restarts, a repeated
\* request finds it (routing_delta.md; save_to_disk before every answer).
THEOREM AnswersAreDurable ==
    ASSUME ~SaveMayFail, HashesFit
    PROVE  Spec /\ NamesAreFree => []AnsweredIsDurable
<1>1. DInv => AnsweredIsDurable
  BY DEF DInv, Answers, Durable, AnsweredIsDurable, At
<1> QED
  BY <1>1, AlwaysDInv, PTL

-----------------------------------------------------------------------------
(* What is cancelled or deleted is not published *)

\* The interactions the handler of r is to cancel, or to delete.
Undone(r) ==
    IF task[r].pc \in {"cancel", "clean"} THEN task[r].undo ELSE {}

\* Those that are cancelled or deleted, and those that will be.
Doomed ==
    {id \in DOMAIN gemini : gemini[id].state # "live"}
        \cup UNION {Undone(r) : r \in Request}

SparedNode(node, D) ==
    \A i \in DOMAIN node.upstream_ids : node.upstream_ids[i] \notin D

\* A batch with a Failed piece will never be complete.
SparedBatch(batch, D) ==
    \/ \E i \in DOMAIN batch.pieces : batch.pieces[i].status = "Failed"
    \/ \A i \in DOMAIN batch.pieces : batch.pieces[i].interaction_id \notin D

Spared(s, D) ==
    /\ \A c \in DOMAIN s.clients : SparedNode(s.clients[c], D)
    /\ \A b \in DOMAIN s.in_flight : SparedBatch(s.in_flight[b], D)

UInv ==
    /\ DInv
    /\ Doomed \subseteq DOMAIN gemini
    /\ Spared(store, Doomed) /\ Spared(disk, Doomed)
    /\ \A r \in Request : Holds(r) => task[r].last \notin Doomed

LEMMA SparedLess ==
    ASSUME NEW s, NEW D, NEW E, E \subseteq D, Spared(s, D)
    PROVE  Spared(s, E)
BY DEF Spared, SparedNode, SparedBatch

LEMMA SparedDocument ==
    ASSUME NEW s, NEW D
    PROVE  Spared(Document(s), D) <=> Spared(s, D)
BY DEF Spared, Document

\* The step dooms no interaction that D does not hold.
LEMMA UInvFrom ==
    ASSUME DInv', NEW D, Doomed' \subseteq D, D \subseteq DOMAIN gemini',
           Spared(store', D), Spared(disk', D),
           \A r \in Request : Holds(r)' => task'[r].last \notin D
    PROVE  UInv'
<1>1. Spared(store', Doomed') /\ Spared(disk', Doomed')
  BY SparedLess
<1> QED
  BY <1>1 DEF UInv

\* What the service may do without another interaction being doomed.
Mild ==
    /\ DOMAIN gemini \subseteq DOMAIN gemini'
    /\ \A id \in DOMAIN gemini' : gemini'[id].state # "live" => id \in Doomed

LEMMA MildSame ==
    ASSUME gemini' = gemini
    PROVE  Mild
BY DEF Mild, Doomed

LEMMA MildCreate ==
    ASSUME NEW id, NEW prev, NEW content, Create(id, prev, content)
    PROVE  Mild
<1>1. gemini' = Put(gemini, id, [prev |-> prev,
                                 context |-> context_of(prev) \o content,
                                 state |-> "live"])
  BY DEF Create
<1> QED
  BY <1>1 DEF Mild, Doomed, Put

LEMMA MildCallFails ==
    ASSUME NEW prev, NEW content, CallFails(prev, content)
    PROVE  Mild
BY MildSame, MildCreate DEF CallFails

LEMMA Mildset_state ==
    ASSUME IInv, NEW id \in Doomed, NEW st, gemini' = set_state(id, st)
    PROVE  Mild
<1>1. IsMap(gemini, Id, Interaction)
  BY DEF IInv, TypeOK
<1>2. CASE id \notin DOMAIN gemini
  BY <1>2, MildSame DEF set_state
<1>3. CASE id \in DOMAIN gemini
  <2>1. /\ DOMAIN gemini' = DOMAIN gemini
        /\ \A x \in DOMAIN gemini : x # id => gemini'[x] = gemini[x]
    BY <1>1, <1>3 DEF set_state, IsMap
  <2> QED
    BY <2>1 DEF Mild, Doomed
<1> QED
  BY <1>2, <1>3

LEMMA DoomedShrinks ==
    ASSUME Mild, NEW r \in Request, Others(r), Undone(r)' \subseteq Doomed
    PROVE  Doomed' \subseteq Doomed
<1> SUFFICES ASSUME NEW id \in Doomed' PROVE id \in Doomed
  OBVIOUS
<1>1. CASE id \in DOMAIN gemini' /\ gemini'[id].state # "live"
  BY <1>1 DEF Mild
<1>2. ASSUME NEW q \in Request, id \in Undone(q)'
      PROVE  id \in Doomed
  <2>1. q # r => Undone(q)' = Undone(q)
    BY DEF Others, Undone
  <2> QED
    BY <1>2, <2>1 DEF Doomed
<1> QED
  BY <1>1, <1>2 DEF Doomed

\* The step of a handler that dooms nothing.
LEMMA MildStep ==
    ASSUME UInv, DInv', Mild, NEW r \in Request, Others(r),
           Undone(r)' \subseteq Doomed, disk' = Document(store'),
           Spared(store', Doomed), Holds(r)' => task'[r].last \notin Doomed
    PROVE  UInv'
<1>1. Doomed' \subseteq Doomed /\ Doomed \subseteq DOMAIN gemini'
  BY DoomedShrinks DEF UInv, Mild
<1>2. Spared(disk', Doomed)
  BY SparedDocument
<1>3. \A q \in Request : Holds(q)' => task'[q].last \notin Doomed
  BY DEF UInv, Others, Holds
<1> QED
  BY <1>1, <1>2, <1>3, UInvFrom

\* After its step r holds no interaction and has nothing to undo.
Harmless(r) ==
    /\ Others(r)
    /\ task'[r].pc \notin {"store", "streaming", "ack", "cancel", "clean"}

LEMMA HarmlessStep ==
    ASSUME UInv, DInv', Mild, NEW r \in Request, Harmless(r),
           disk' = Document(store'), Spared(store', Doomed)
    PROVE  UInv'
<1>1. Undone(r)' = {} /\ ~Holds(r)'
  BY DEF Harmless, Undone, Holds
<1> QED
  BY <1>1, MildStep DEF Harmless

LEMMA HarmlessTasks ==
    ASSUME IInv, NEW r \in Request,
           Handler(r) \/ ClientGone(r),
           ~(Post(r) \/ SendPiece(r) \/ PieceFails(r) \/ CleanAll(r)),
           ~(Cancel(r) \/ Clean(r))
    PROVE  Harmless(r)
<1>1. task \in [Request -> Task] /\ Others(r)
  BY HandlerOthers DEF IInv, TypeOK
<1> SUFFICES task'[r].pc \notin {"store", "streaming", "ack", "cancel",
                                 "clean"}
  BY <1>1 DEF Harmless
<1>2. ASSUME NEW pc, Goto(r, pc) PROVE task'[r].pc = pc
  BY <1>2, GotoPc
<1>3. ASSUME NEW id, ReplayFrom(r, id) PROVE task'[r].pc = "replay"
  BY <1>3, ReplayPc
<1>4. ASSUME NEW id, Answer(r, id) PROVE task'[r].pc \in {"done", "failed"}
  BY <1>4, AnswerPc
<1>5. CASE \/ Poll(r) \/ PollTimeout(r) \/ DupPoll(r) \/ DupTimeout(r)
           \/ FetchFails(r) \/ PostFails(r) \/ StreamBreaks(r)
           \/ NoCreatedEvent(r) \/ TranslateFails(r) \/ Mark(r)
           \/ ClientGone(r) \/ StreamCreated(r) \/ ExtendLifetime(r)
  BY <1>2, <1>5
     DEF Poll, PollTimeout, DupPoll, DupTimeout, FetchFails, PostFails,
         StreamBreaks, NoCreatedEvent, TranslateFails, Mark, ClientGone,
         StreamCreated, ExtendLifetime
<1>6. CASE StoreNode(r) \/ Upsert(r) \/ Complete(r)
  BY <1>2, <1>4, <1>6 DEF StoreNode, Upsert, Complete
<1>7. CASE Recheck(r) \/ DupReady(r)
  BY <1>2, <1>3, <1>7 DEF Recheck, DupReady
<1>8. CASE Arrive(r)
  <2>1. CASE \E id : ReplayFrom(r, id)
    BY <1>3, <2>1
  <2>2. CASE ~\E id : ReplayFrom(r, id)
    BY <1>1, <1>8, <2>2 DEF Arrive, Task
  <2> QED
    BY <2>1, <2>2
<1>9. CASE Probe(r) \/ JoinBatch(r)
  BY <1>1, <1>2, <1>9 DEF Probe, JoinBatch, Task
<1>10. CASE Replay(r) \/ StreamEnds(r)
  BY <1>1, <1>2, <1>10 DEF Replay, StreamEnds, Task
<1>11. CASE Fetch(r)
  BY <1>1, <1>11 DEF Fetch, Task
<1>12. CASE CreateBatch(r)
  BY <1>1, <1>12 DEF CreateBatch, Task
<1>13. CASE Ack(r)
  BY <1>1, <1>2, <1>13 DEF Ack, Task
<1> QED
  BY <1>5, <1>6, <1>7, <1>8, <1>9, <1>10, <1>11, <1>12, <1>13 DEF Handler

LEMMA MildHandler ==
    ASSUME NEW r \in Request, Handler(r) \/ ClientGone(r),
           ~(Cancel(r) \/ Clean(r))
    PROVE  Mild
<1>1. CASE PostFails(r) \/ PieceFails(r)
  BY <1>1, MildCallFails DEF PostFails, PieceFails
<1>2. CASE Post(r) \/ SendPiece(r) \/ NoCreatedEvent(r)
  BY <1>2, MildCreate DEF Post, SendPiece, NoCreatedEvent
<1>3. CASE \/ Arrive(r) \/ Probe(r) \/ Poll(r) \/ PollTimeout(r)
           \/ Recheck(r) \/ Replay(r) \/ JoinBatch(r) \/ DupPoll(r)
           \/ DupTimeout(r) \/ DupReady(r) \/ Fetch(r) \/ FetchFails(r)
           \/ StoreNode(r) \/ StreamCreated(r) \/ StreamEnds(r)
           \/ StreamBreaks(r)
  BY <1>3, MildSame
     DEF Arrive, Probe, Poll, PollTimeout, Recheck, Replay, JoinBatch,
         DupPoll, DupTimeout, DupReady, Fetch, FetchFails, StoreNode,
         StreamCreated, StreamEnds, StreamBreaks
<1>4. CASE \/ CreateBatch(r) \/ Mark(r) \/ Ack(r) \/ Complete(r)
           \/ TranslateFails(r) \/ Upsert(r) \/ CleanAll(r)
           \/ ExtendLifetime(r) \/ ClientGone(r)
  BY <1>4, MildSame
     DEF CreateBatch, Mark, Ack, Complete, TranslateFails, Upsert, CleanAll,
         ExtendLifetime, ClientGone
<1> QED
  BY <1>1, <1>2, <1>3, <1>4 DEF Handler

-----------------------------------------------------------------------------
(* What the store's operations do to spared nodes and batches *)

\* Only the time a node was last seen is another.
LEMMA SparedKept ==
    ASSUME NEW s, StoreOK(s), NEW t, NEW D, Spared(s, D),
           t.in_flight = s.in_flight, DOMAIN t.clients = DOMAIN s.clients,
           Kept(s, t)
    PROVE  Spared(t, D)
<1>1. ASSUME NEW c \in DOMAIN s.clients
      PROVE  t.clients[c].upstream_ids = s.clients[c].upstream_ids
  BY DEF Kept, StoreOK, IsMap, ClientInteractionNode
<1>2. ASSUME NEW c \in DOMAIN t.clients
      PROVE  SparedNode(t.clients[c], D)
  BY <1>1 DEF Spared, SparedNode
<1> QED
  BY <1>2 DEF Spared

\* Only batch b is another.
LEMMA SparedOther ==
    ASSUME NEW s, NEW t, NEW D, NEW b, Spared(s, D), t.clients = s.clients,
           OtherBatches(s, t, b),
           b \in DOMAIN t.in_flight => SparedBatch(t.in_flight[b], D)
    PROVE  Spared(t, D)
<1>1. ASSUME NEW c \in DOMAIN t.in_flight
      PROVE  SparedBatch(t.in_flight[c], D)
  BY DEF Spared, OtherBatches
<1> QED
  BY <1>1 DEF Spared

\* There is one more node, and no batch more.
LEMMA SparedNew ==
    ASSUME NEW s, NEW t, NEW D, NEW c, NEW node, Spared(s, D),
           t.clients = Put(s.clients, c, node), SparedNode(node, D),
           \A b \in DOMAIN t.in_flight :
               b \in DOMAIN s.in_flight /\ t.in_flight[b] = s.in_flight[b]
    PROVE  Spared(t, D)
<1>1. ASSUME NEW d \in DOMAIN t.clients
      PROVE  SparedNode(t.clients[d], D)
  <2>1. \/ d = c /\ t.clients[d] = node
        \/ d \in DOMAIN s.clients /\ t.clients[d] = s.clients[d]
    BY DEF Put
  <2> QED
    BY <2>1 DEF Spared
<1>2. ASSUME NEW b \in DOMAIN t.in_flight
      PROVE  SparedBatch(t.in_flight[b], D)
  BY DEF Spared
<1> QED
  BY <1>1, <1>2 DEF Spared

\* No piece stops being Failed, and none gets a doomed interaction.
SparedChange(p, q, D) ==
    /\ DOMAIN q = DOMAIN p
    /\ \A j \in DOMAIN q :
          \/ q[j] = p[j]
          \/ p[j].status # "Failed" /\ q[j].interaction_id \notin D

LEMMA SparedPieces ==
    ASSUME NEW s, NEW t, NEW D, NEW b \in DOMAIN s.in_flight, NEW pieces,
           Spared(s, D), NewPieces(s, t, b, pieces),
           SparedChange(s.in_flight[b].pieces, pieces, D)
    PROVE  Spared(t, D)
<1>1. t.clients = s.clients /\ OtherBatches(s, t, b)
      /\ t.in_flight[b].pieces = pieces
  BY DEF NewPieces
<1>2. SparedBatch(s.in_flight[b], D)
  BY DEF Spared
<1>3. SparedBatch(t.in_flight[b], D)
  BY <1>1, <1>2 DEF SparedBatch, SparedChange
<1> QED
  BY <1>1, <1>3, SparedOther

\* One piece that has not Failed is replaced.
LEMMA SparedPiece ==
    ASSUME NEW s, StoreOK(s), NEW t, NEW D, NEW b \in DOMAIN s.in_flight,
           Spared(s, D), NEW i, NEW y,
           s.in_flight[b].pieces[i].status # "Failed",
           y.interaction_id \notin D,
           NewPieces(s, t, b, [s.in_flight[b].pieces EXCEPT ![i] = y])
    PROVE  Spared(t, D)
<1> DEFINE p == s.in_flight[b].pieces
           q == [p EXCEPT ![i] = y]
<1>1. p \in Seq(Piece)
  BY DEF StoreOK, IsMap, InFlightBatch
<1>2. DOMAIN q = DOMAIN p /\ \A j \in DOMAIN q : q[j] = IF j = i THEN y ELSE p[j]
  BY <1>1
<1>3. SparedChange(p, q, D)
  BY <1>2 DEF SparedChange
<1> HIDE DEF p, q
<1>4. NewPieces(s, t, b, q)
  BY DEF p, q
<1> QED
  BY <1>3, <1>4, SparedPieces DEF p

\* A complete batch has no Failed piece, so its node is spared as it was.
LEMMA SparedComplete ==
    ASSUME NEW s, StoreOK(s), NEW b \in DOMAIN s.in_flight, NEW n \in Nat,
           NEW D, Spared(s, D)
    PROVE  Spared(complete_batch(s, b, n), D)
<1> DEFINE t     == complete_batch(s, b, n)
           batch == s.in_flight[b]
           ids   == batch_ids(batch)
           node  == NodeOf(batch, n)
<1>1. Completed(s, t, b, n)
  BY complete_batch_Effect
<1> HIDE DEF t
<1>2. \A c \in DOMAIN t.in_flight :
         c \in DOMAIN s.in_flight /\ t.in_flight[c] = s.in_flight[c]
  BY <1>1 DEF Completed, Without
<1>3. CASE ~batch_is_complete(s, b)
  BY <1>1, <1>2, <1>3 DEF Completed, Spared, t
<1>4. CASE batch_is_complete(s, b)
  <2>1. batch.pieces \in Seq(Piece)
    BY DEF StoreOK, IsMap, InFlightBatch
  <2>2. \A i \in DOMAIN batch.pieces : batch.pieces[i].interaction_id \notin D
    BY <1>4 DEF Spared, SparedBatch, batch_is_complete, IsAcked
  <2>3. \A i \in DOMAIN ids : ids[i] \notin D
    BY <2>1, <2>2 DEF batch_ids
  <2>4. node.upstream_ids = ids
    BY DEF NodeOf
  <2> HIDE DEF node, ids
  <2>5. SparedNode(node, D)
    BY <2>3, <2>4 DEF SparedNode
  <2>6. t.clients = Put(s.clients, ids[Len(ids)], node)
    BY <1>1, <1>4 DEF Completed, node, ids
  <2> QED
    BY <1>2, <2>5, <2>6, SparedNew DEF t
<1> QED
  BY <1>3, <1>4

LEMMA SparedEmpty ==
    ASSUME NEW s, NEW D, s.clients = EmptyMap, s.in_flight = EmptyMap
    PROVE  Spared(s, D)
BY DEF Spared, EmptyMap

-----------------------------------------------------------------------------
(* Steps of the handlers *)

LEMMA StoreSpared ==
    ASSUME UInv, NEW r \in Request,
           \/ Fetch(r) \/ Upsert(r) \/ ExtendLifetime(r) \/ StoreNode(r)
           \/ StreamCreated(r) \/ CreateBatch(r) \/ Mark(r) \/ Ack(r)
           \/ Complete(r)
    PROVE  Spared(store', Doomed)
<1>1. /\ IInv /\ BInv /\ StoreOK(store) /\ now \in Nat /\ InStep(r)
      /\ Spared(store, Doomed) /\ NoId \notin Doomed
  <2>1. Doomed \subseteq Id
    BY DEF UInv, DInv, BInv, OInv, IInv, TypeOK, IsMap
  <2> QED
    BY <2>1, IdAssumption DEF UInv, DInv, BInv, OInv, IInv, TypeOK
<1>2. CASE Fetch(r)
  BY <1>1, <1>2, CommitSaves DEF Fetch
<1>3. CASE Upsert(r)
  <2> DEFINE s == set_last_interaction(store, ask[r].session, task[r].last)
  <2>1. store' = s
    BY <1>3, CommitSaves DEF Upsert
  <2>2. s.clients = store.clients /\ s.in_flight = store.in_flight
    BY <1>1 DEF set_last_interaction, StoreOK
  <2> HIDE DEF s
  <2> QED
    BY <1>1, <2>1, <2>2 DEF Spared
<1>4. CASE ExtendLifetime(r)
  <2>1. store' = extend_lifetime(store, ask[r].session, now)
    BY <1>4, CommitSaves DEF ExtendLifetime
  <2>2. /\ store'.in_flight = store.in_flight
        /\ DOMAIN store'.clients = DOMAIN store.clients
        /\ Kept(store, store')
    BY <1>1, <2>1, extend_lifetime_From DEF Kept
  <2> QED
    BY <1>1, <2>2, SparedKept
<1>5. CASE StoreNode(r) \/ StreamCreated(r)
  <2> DEFINE x == task[r].last
  <2>1. store' = with_node(r) /\ Holds(r)
    BY <1>5, CommitSaves DEF StoreNode, StreamCreated, At, Holds
  <2>2. store'.in_flight = store.in_flight
    BY <1>1, <2>1, with_node_Effect
  <2>3. PICK node : /\ store'.clients = Put(store.clients, x, node)
                    /\ node.upstream_ids = <<x>>
    BY <1>1, <2>1, with_node_Effect
  <2>4. x \notin Doomed
    BY <2>1 DEF UInv
  <2>5. SparedNode(node, Doomed)
    BY <2>3, <2>4 DEF SparedNode
  <2> QED
    BY <1>1, <2>2, <2>3, <2>5, SparedNew
<1>6. CASE CreateBatch(r)
  <2> DEFINE b == <<ask[r].session, now>>
             n == piece_count(r)
             s == create_batch(store, b, task[r].prev, ask[r].hashes,
                               system_hash(r), n)
  <2>1. store' = s
    BY <1>6, CommitSaves DEF CreateBatch
  <2>2. n \in Nat
    BY <1>1, <1>6, RunningQuery, piece_count_OK DEF CreateBatch, At, Ends
  <2>3. /\ s.clients = store.clients /\ OtherBatches(store, s, b)
        /\ s.in_flight[b].pieces =
             [i \in 1 .. n |-> [status |-> "Pending", interaction_id |-> NoId]]
    BY <1>1, <2>2, create_batch_Effect DEF Created
  <2> HIDE DEF s, b, n
  <2>4. SparedBatch(s.in_flight[b], Doomed)
    BY <1>1, <2>3 DEF SparedBatch
  <2> QED
    BY <1>1, <2>1, <2>3, <2>4, SparedOther
<1> DEFINE b == task[r].batch
           i == task[r].piece
           p == store.in_flight[b].pieces
<1>7. (Mark(r) \/ Ack(r)) /\ b \in DOMAIN store.in_flight =>
        /\ has_piece(store, b, i)
        /\ p[i].status = IF Mark(r) THEN "Pending" ELSE "ResponseStarted"
  BY <1>1 DEF Mark, Ack, At, InStep, Working, has_piece, IInv, Progress
<1>8. CASE Mark(r)
  <2> DEFINE y == [status |-> "ResponseStarted", interaction_id |-> NoId]
  <2>1. store' = mark_response_started(store, b, i)
    BY <1>8, CommitSaves DEF Mark
  <2>2. CASE b \in DOMAIN store.in_flight
    <3>1. y \in Piece /\ y.interaction_id = NoId
      BY DEF Piece, PieceStatus
    <3>2. has_piece(store, b, i) /\ p[i].status = "Pending"
      BY <1>7, <1>8, <2>2
    <3>3. NewPieces(store, store', b, [p EXCEPT ![i] = y])
      BY <1>1, <2>1, <3>1, <3>2, move_piece_Effect
         DEF mark_response_started
    <3> HIDE DEF y
    <3> QED
      BY <1>1, <2>2, <3>1, <3>2, <3>3, SparedPiece
  <2>3. CASE b \notin DOMAIN store.in_flight
    BY <1>1, <2>1, <2>3 DEF mark_response_started, move_piece, has_piece
  <2> QED
    BY <2>2, <2>3
<1>9. CASE Ack(r)
  <2> DEFINE x == task[r].last
             y == [status |-> "Acked", interaction_id |-> x]
  <2>1. /\ store' = ack_piece(mark_sent(store, b, i, x), b, i, x)
        /\ x \in Id /\ Holds(r) /\ ~Mark(r)
    BY <1>1, <1>9, CommitSaves DEF Ack, Mark, At, IInv, Progress, Holds
  <2>2. CASE b \in DOMAIN store.in_flight
    <3>1. y.interaction_id = x /\ x \notin Doomed
      BY <2>1 DEF UInv
    <3>2. has_piece(store, b, i) /\ p[i].status = "ResponseStarted"
      BY <1>7, <1>9, <2>1, <2>2
    <3>3. NewPieces(store, store', b, [p EXCEPT ![i] = y])
      BY <1>1, <2>1, <3>2, acknowledge_Effect
    <3> HIDE DEF y
    <3> QED
      BY <1>1, <2>2, <3>1, <3>2, <3>3, SparedPiece
  <2>3. CASE b \notin DOMAIN store.in_flight
    BY <1>1, <2>1, <2>3, acknowledge_Absent
  <2> QED
    BY <2>2, <2>3
<1>10. CASE Complete(r)
  <2> DEFINE s == complete_batch(store, b, now)
  <2>1. store' = store \/ (b \in DOMAIN store.in_flight /\ store' = s)
    <3> HIDE DEF s
    <3>1. CASE batch_is_complete(store, b)
      <4>1. Commit(s)
        BY <1>10, <3>1 DEF Complete, s
      <4> QED
        BY <3>1, <4>1, CommitSaves DEF batch_is_complete
    <3>2. CASE ~batch_is_complete(store, b)
      BY <1>10, <3>2 DEF Complete, s
    <3> QED
      BY <3>1, <3>2
  <2> QED
    BY <1>1, <2>1, SparedComplete
<1> QED
  BY <1>2, <1>3, <1>4, <1>5, <1>6, <1>8, <1>9, <1>10

\* No node and no other batch has an interaction of batch b.
LEMMA OwnIds ==
    ASSUME BInv, NEW b \in DOMAIN store.in_flight,
           NEW id \in acked_ids(store.in_flight[b])
    PROVE  /\ InBatch(store, b, id) /\ id \in Id /\ id \in DOMAIN gemini
           /\ id \notin DOMAIN store.upstreams
           /\ \A c \in DOMAIN store.in_flight :
                 InBatch(store, c, id) => c = b
           /\ \A r \in Request : Holds(r) => task[r].last # id
<1>1. id \in Id
  BY acked_ids_OK DEF BInv, OInv, IInv, TypeOK, StoreOK, IsMap
<1>2. InBatch(store, b, id)
  BY DEF acked_ids, InBatch
<1>3. id \notin DOMAIN store.upstreams
  BY <1>1, <1>2 DEF BInv, Sound, ApartBatch, InBatch
<1>4. \A r \in Request : Holds(r) => task[r].last # id
  BY <1>2 DEF BInv, OInv, InteractionsHaveOneOwner, OneHolder
<1> QED
  BY <1>1, <1>2, <1>3, <1>4
     DEF BInv, OInv, InteractionsHaveOneOwner, OneOwner

\* fail_batch_and_cancel dooms the Acked pieces of a batch that has failed.
LEMMA PieceFailsUInv ==
    ASSUME UInv, DInv', NEW r \in Request, PieceFails(r),
           disk' = Document(store')
    PROVE  UInv'
<1> DEFINE b == task[r].batch
           i == task[r].piece
           u == IF b \in DOMAIN store.in_flight
                  THEN acked_ids(store.in_flight[b]) ELSE {}
           D == Doomed \cup u
<1>1. /\ IInv /\ BInv /\ StoreOK(store) /\ InStep(r) /\ Sound(store, gemini)
      /\ task \in [Request -> Task] /\ Spared(store, Doomed)
  BY DEF UInv, DInv, BInv, OInv, IInv, TypeOK
<1>2. Mild /\ Others(r)
  BY <1>1, MildHandler, HandlerOthers
     DEF Handler, PieceFails, Cancel, Clean, At
<1>3. task'[r].pc = "cancel" /\ task'[r].undo = u
  BY <1>1 DEF PieceFails, Task
<1>4. store' = fail_batch(store, b)
  BY CommitSaves DEF PieceFails
<1>5. \A id \in u : /\ b \in DOMAIN store.in_flight
                    /\ id \in DOMAIN gemini /\ id \notin DOMAIN store.upstreams
                    /\ \A c \in DOMAIN store.in_flight :
                          InBatch(store, c, id) => c = b
                    /\ \A q \in Request : Holds(q) => task[q].last # id
  BY <1>1, OwnIds
<1> HIDE DEF u
<1>6. Doomed' \subseteq D
  <2> SUFFICES ASSUME NEW id \in Doomed' PROVE id \in D
    OBVIOUS
  <2>1. CASE id \in DOMAIN gemini' /\ gemini'[id].state # "live"
    BY <1>2, <2>1 DEF Mild
  <2>2. ASSUME NEW q \in Request, id \in Undone(q)'
        PROVE  id \in D
    BY <1>2, <1>3, <2>2 DEF Others, Undone, Doomed
  <2> QED
    BY <2>1, <2>2 DEF Doomed
<1>7. D \subseteq DOMAIN gemini'
  BY <1>2, <1>5 DEF UInv, Mild
<1>8. Spared(store', D)
  <2>1. \A c \in DOMAIN store.clients : SparedNode(store.clients[c], D)
    BY <1>1, <1>5 DEF Spared, SparedNode, Sound, WholeNode
  <2>2. \A c \in DOMAIN store.in_flight :
           c # b => SparedBatch(store.in_flight[c], D)
    BY <1>1, <1>5 DEF Spared, SparedBatch, InBatch
  <2>3. CASE b \notin DOMAIN store.in_flight
    BY <1>4, <2>1, <2>2, <2>3 DEF fail_batch, Spared
  <2>4. CASE b \in DOMAIN store.in_flight
    <3> DEFINE p == store.in_flight[b].pieces
               q == [j \in DOMAIN p |->
                       IF IsAcked(p[j]) THEN p[j]
                       ELSE [status |-> "Failed", interaction_id |-> NoId]]
    <3>1. NewPieces(store, store', b, q)
      BY <1>1, <1>4, <2>4, fail_batch_Effect DEF Sound
    <3>2. i \in DOMAIN p /\ ~IsAcked(p[i])
      BY <1>1, <2>4
         DEF PieceFails, At, InStep, Working, IsAcked, IInv, Progress
    <3>3. i \in DOMAIN q /\ q[i].status = "Failed"
      BY <3>2
    <3> HIDE DEF p, q
    <3>4. SparedBatch(store'.in_flight[b], D)
      BY <3>1, <3>3 DEF NewPieces, SparedBatch
    <3> QED
      BY <2>1, <2>2, <3>1, <3>4 DEF NewPieces, OtherBatches, Spared
  <2> QED
    BY <2>3, <2>4
<1>9. \A q \in Request : Holds(q)' => task'[q].last \notin D
  BY <1>2, <1>3, <1>5 DEF UInv, Others, Holds
<1>10. Spared(disk', D)
  BY <1>8, SparedDocument
<1> HIDE DEF D
<1> QED
  BY <1>6, <1>7, <1>8, <1>9, <1>10, UInvFrom

\* clean_all dooms all it removes, and it leaves no node and no batch.
LEMMA CleanAllUInv ==
    ASSUME UInv, DInv', NEW r \in Request, CleanAll(r),
           disk' = Document(store')
    PROVE  UInv'
<1> DEFINE u == all_upstream_ids(store)
           D == Doomed \cup u
<1>1. /\ IInv /\ BInv /\ Sound(store, gemini)
      /\ task \in [Request -> Task]
  BY DEF UInv, DInv, BInv, OInv, IInv, TypeOK
<1>2. Mild /\ Others(r)
  BY <1>1, MildHandler, HandlerOthers
     DEF Handler, CleanAll, Cancel, Clean, At
<1>3. task'[r].pc = "clean" /\ task'[r].undo = u
  BY <1>1 DEF CleanAll, Task
<1>4. store' = clean_all(store)
  BY CommitSaves DEF CleanAll
<1>5. \A id \in u : /\ id \in DOMAIN gemini
                    /\ \A q \in Request : Holds(q) => task[q].last # id
  <2>1. ASSUME NEW id \in DOMAIN store.upstreams
        PROVE  /\ id \in DOMAIN gemini
               /\ \A q \in Request : Holds(q) => task[q].last # id
    BY <1>1 DEF Sound, BInv, Received
  <2> QED
    BY <1>1, <2>1, OwnIds DEF all_upstream_ids
<1> HIDE DEF u
<1>6. Doomed' \subseteq D
  <2> SUFFICES ASSUME NEW id \in Doomed' PROVE id \in D
    OBVIOUS
  <2>1. CASE id \in DOMAIN gemini' /\ gemini'[id].state # "live"
    BY <1>2, <2>1 DEF Mild
  <2>2. ASSUME NEW q \in Request, id \in Undone(q)'
        PROVE  id \in D
    BY <1>2, <1>3, <2>2 DEF Others, Undone, Doomed
  <2> QED
    BY <2>1, <2>2 DEF Doomed
<1>7. D \subseteq DOMAIN gemini'
  BY <1>2, <1>5 DEF UInv, Mild
<1>8. Spared(store', D)
  BY <1>4, SparedEmpty DEF clean_all, NewStore
<1>9. \A q \in Request : Holds(q)' => task'[q].last \notin D
  BY <1>2, <1>3, <1>5 DEF UInv, Others, Holds
<1>10. Spared(disk', D)
  BY <1>8, SparedDocument
<1> HIDE DEF D
<1> QED
  BY <1>6, <1>7, <1>8, <1>9, <1>10, UInvFrom

\* The service gives a handler an interaction that nobody could doom.
LEMMA ReceiveUInv ==
    ASSUME UInv, DInv', NEW r \in Request, Post(r) \/ SendPiece(r),
           disk' = Document(store')
    PROVE  UInv'
<1>1. IInv /\ task \in [Request -> Task]
  BY DEF UInv, DInv, BInv, OInv, IInv, TypeOK
<1>2. Mild /\ Others(r)
  BY <1>1, MildHandler, HandlerOthers
     DEF Handler, Post, sends_whole, SendPiece, Cancel, Clean, At
<1>3. store' = store
  BY DEF Post, SendPiece
<1>4. /\ task'[r].last \notin DOMAIN gemini
      /\ task'[r].pc \in {"streaming", "store", "ack"}
  <2>1. ASSUME NEW id \in Id, NEW prev, NEW content,
               Create(id, prev, content), NEW pc,
               task' = [task EXCEPT ![r].last = id, ![r].pc = pc]
        PROVE  task'[r].last \notin DOMAIN gemini /\ task'[r].pc = pc
    <3>1. id \notin DOMAIN gemini
      BY <2>1, CreateGrows
    <3>2. task'[r].last = id /\ task'[r].pc = pc
      BY <1>1, <2>1 DEF Task
    <3> QED
      BY <3>1, <3>2
  <2>2. CASE Post(r)
    BY <2>1, <2>2 DEF Post
  <2>3. CASE SendPiece(r)
    BY <2>1, <2>3 DEF SendPiece
  <2> QED
    BY <2>2, <2>3
<1>5. Undone(r)' = {} /\ task'[r].last \notin Doomed
  BY <1>4 DEF Undone, UInv
<1> QED
  BY <1>2, <1>3, <1>5, MildStep DEF UInv

\* cancel_interaction and delete_interaction are only called for the doomed.
LEMMA UndoUInv ==
    ASSUME UInv, DInv', NEW r \in Request, Cancel(r) \/ Clean(r),
           disk' = Document(store')
    PROVE  UInv'
<1>1. IInv /\ task \in [Request -> Task] /\ Others(r)
  BY HandlerOthers DEF UInv, DInv, BInv, OInv, IInv, TypeOK, Handler
<1>2. store' = store /\ Undone(r) = task[r].undo /\ Undone(r) \subseteq Doomed
  BY DEF Cancel, Clean, At, Undone, Doomed
<1>3. Mild
  BY <1>1, <1>2, MildSame, Mildset_state DEF Cancel, Clean
<1>4. /\ Undone(r)' \subseteq Undone(r)
      /\ task'[r].pc \in {"cancel", "clean", "failed", "done"}
  <2>1. ASSUME NEW pc \in {"failed", "done"}, Goto(r, pc)
        PROVE  task'[r].pc = pc /\ Undone(r)' = {}
    BY <1>1, <2>1, GotoPc DEF Undone
  <2>2. ASSUME NEW id, task' = [task EXCEPT ![r].undo = @ \ {id}]
        PROVE  task'[r].pc = task[r].pc /\ Undone(r)' \subseteq Undone(r)
    BY <1>1, <2>2 DEF Undone, Task
  <2> QED
    BY <2>1, <2>2 DEF Cancel, Clean, At
<1>5. ~Holds(r)'
  BY <1>4 DEF Holds
<1> QED
  BY <1>1, <1>2, <1>3, <1>4, <1>5, MildStep DEF UInv

LEMMA HandlerUInv ==
    ASSUME UInv, DInv', NEW r \in Request, Handler(r) \/ ClientGone(r),
           disk' = Document(store')
    PROVE  UInv'
<1>1. IInv /\ Spared(store, Doomed)
  BY DEF UInv, DInv, BInv, OInv
<1>2. CASE Cancel(r) \/ Clean(r)
  BY <1>2, UndoUInv
<1>3. CASE Post(r) \/ SendPiece(r)
  BY <1>3, ReceiveUInv
<1>4. CASE PieceFails(r) \/ CleanAll(r)
  BY <1>4, PieceFailsUInv, CleanAllUInv
<1>5. CASE ~(\/ Post(r) \/ SendPiece(r) \/ PieceFails(r) \/ CleanAll(r)
             \/ Cancel(r) \/ Clean(r))
  <2>1. Mild /\ Harmless(r)
    BY <1>1, <1>5, MildHandler, HarmlessTasks
  <2>2. CASE \/ Fetch(r) \/ Upsert(r) \/ ExtendLifetime(r) \/ StoreNode(r)
             \/ StreamCreated(r) \/ CreateBatch(r) \/ Mark(r) \/ Ack(r)
             \/ Complete(r)
    BY <2>1, <2>2, StoreSpared, HarmlessStep
  <2>3. CASE \/ Arrive(r) \/ Probe(r) \/ Poll(r) \/ PollTimeout(r)
             \/ Recheck(r) \/ Replay(r) \/ JoinBatch(r) \/ DupPoll(r)
             \/ DupTimeout(r) \/ DupReady(r) \/ FetchFails(r)
             \/ PostFails(r) \/ StreamEnds(r) \/ StreamBreaks(r)
             \/ NoCreatedEvent(r) \/ TranslateFails(r) \/ ClientGone(r)
    <3>1. store' = store
      BY <2>3 DEF Arrive, Probe, Poll, PollTimeout, Recheck, Replay,
                  JoinBatch, DupPoll, DupTimeout, DupReady, FetchFails,
                  PostFails, StreamEnds, StreamBreaks, NoCreatedEvent,
                  TranslateFails, ClientGone
    <3> QED
      BY <1>1, <2>1, <3>1, HarmlessStep
  <2> QED
    BY <1>5, <2>2, <2>3 DEF Handler
<1> QED
  BY <1>2, <1>3, <1>4, <1>5

\* Only the start of the process changes the store, and no handler moves but
\* those that a crash ends.
LEMMA WorldUInv ==
    ASSUME UInv, DInv', gemini' = gemini, Spared(store', Doomed),
           \/ disk' = disk \/ disk' = Document(store'),
           \A r \in Request : task'[r] = task[r] \/ task'[r].pc = "gone"
    PROVE  UInv'
<1>1. \A r \in Request : Undone(r)' \subseteq Undone(r)
  BY DEF Undone
<1>2. Doomed' \subseteq Doomed
  BY <1>1 DEF Doomed
<1>3. \A r \in Request : Holds(r)' => task'[r].last \notin Doomed
  BY DEF UInv, Holds
<1>4. Spared(disk', Doomed) /\ Doomed \subseteq DOMAIN gemini'
  BY SparedDocument DEF UInv
<1> QED
  BY <1>2, <1>3, <1>4, UInvFrom

LEMMA NextUInv ==
    ASSUME UInv, ~SaveMayFail, HashesFit, [Next]_vars,
           [\A r \in Request : NameIsFree(r)]_vars
    PROVE  UInv'
<1>1. /\ DInv /\ DInv' /\ BInv /\ Mirror /\ IInv' /\ StoreOK(store)
      /\ now \in Nat /\ Spared(store, Doomed) /\ Spared(disk, Doomed)
  BY NextDInv DEF UInv, DInv, BInv, OInv, IInv, TypeOK
<1>2. CASE \E r \in Request : Handler(r) \/ ClientGone(r)
  BY <1>1, <1>2, HandlerMirrors, HandlerUInv
<1>3. CASE Crash
  <2>1. /\ store'.clients = disk.clients
        /\ store'.in_flight = disk.in_flight
    BY <1>3, load_from_disk_Keeps DEF Crash
  <2>2. Spared(store', Doomed)
    BY <1>1, <2>1 DEF Spared
  <2>3. \A r \in Request : task'[r] = task[r] \/ task'[r].pc = "gone"
    BY <1>3 DEF Crash, NewTask
  <2> QED
    BY <1>1, <1>3, <2>2, <2>3, WorldUInv DEF Crash
<1>4. CASE StartupComplete
  <2>1. Spared(store', Doomed)
    BY <1>1, <1>4, SparedComplete DEF StartupComplete
  <2> QED
    BY <1>1, <1>4, <2>1, WorldUInv DEF StartupComplete
<1>5. CASE StartupDiscard
  <2>1. discard_all_inflight(store).clients = store.clients
        /\ discard_all_inflight(store).in_flight = EmptyMap
    BY <1>1 DEF discard_all_inflight, StoreOK
  <2>2. Spared(discard_all_inflight(store), Doomed)
    BY <1>1, <2>1 DEF Spared, EmptyMap
  <2>3. \/ UNCHANGED <<store, disk>>
        \/ /\ store' = discard_all_inflight(store)
           /\ disk' = disk \/ disk' = Document(store')
    BY <1>5 DEF StartupDiscard, Commit
  <2> QED
    BY <1>1, <1>5, <2>2, <2>3, WorldUInv DEF StartupDiscard
<1>6. CASE Tick \/ UNCHANGED vars
  BY <1>1, <1>6, WorldUInv DEF Tick, vars
<1> QED
  BY <1>2, <1>3, <1>4, <1>5, <1>6 DEF Next, Startup

LEMMA InitUInv == Init => UInv
<1> SUFFICES ASSUME Init PROVE UInv
  OBVIOUS
<1>1. \A r \in Request : Undone(r) = {} /\ ~Holds(r)
  BY DEF Init, NewTask, Undone, Holds
<1>2. Doomed = {}
  BY <1>1 DEF Init, EmptyMap, Doomed
<1>3. Spared(store, Doomed) /\ Spared(disk, Doomed)
  BY SparedEmpty DEF Init, NewStore, Document
<1> QED
  BY <1>1, <1>2, <1>3, InitDInv DEF UInv

LEMMA AlwaysUInv ==
    ASSUME ~SaveMayFail, HashesFit
    PROVE  Spec /\ NamesAreFree => []UInv
<1>1. UInv /\ [Next]_vars /\ [\A r \in Request : NameIsFree(r)]_vars => UInv'
  BY NextUInv
<1> QED
  BY <1>1, InitUInv, PTL DEF Spec, NamesAreFree

\* When saves run to their end and no two handlers at work share a batch name,
\* no client node is over an interaction that the proxy has cancelled or
\* deleted: neither a request that joins a batch whose piece then fails, nor
\* clean-all beside a request at work, nor the start-up after a crash between
\* the two publishes one (fail_batch_and_cancel, handle_control_action).
THEOREM UndoneStaysUnpublished ==
    ASSUME ~SaveMayFail, HashesFit
    PROVE  Spec /\ NamesAreFree => []UndoneIsNotPublished
<1>1. UInv => UndoneIsNotPublished
  <2> SUFFICES ASSUME UInv, NEW c \in DOMAIN store.clients,
                      NEW i \in DOMAIN store.clients[c].upstream_ids
               PROVE  gemini[store.clients[c].upstream_ids[i]].state = "live"
    BY DEF UndoneIsNotPublished
  <2> DEFINE id == store.clients[c].upstream_ids[i]
  <2>1. id \in DOMAIN gemini
    BY DEF UInv, DInv, BInv, Sound, WholeNode
  <2>2. id \notin Doomed
    BY DEF UInv, Spared, SparedNode
  <2> QED
    BY <2>1, <2>2 DEF Doomed
<1> QED
  BY <1>1, AlwaysUInv, PTL

-----------------------------------------------------------------------------
(* InteractionsHandler implements LogicalInteractions: every step of a     *)
(* handler, of clean-all, of a crash and of the start-up is one step of    *)
(* the promise or a stutter.  What is proved of the single invariants meets *)
(* here.  A step publishes one node at most; that it is new, whole and     *)
(* over nothing undone is what OInv, BInv and UInv say of the state after  *)
(* it, that it is on disk is Mirror, and that a client is answered from it *)
(* is DInv.                                                                *)

-----------------------------------------------------------------------------
(* The refinement mapping *)

LEMMA publishedNode ==
    ASSUME NEW f
    PROVE  /\ DOMAIN published(f) = DOMAIN f
           /\ \A c \in DOMAIN f :
                 published(f)[c].upstream_ids = f[c].upstream_ids
BY DEF published

LEMMA publishedKept ==
    ASSUME StoreOK(store), Kept(store, store')
    PROVE  \A c \in DOMAIN store.clients :
              /\ c \in DOMAIN store'.clients
              /\ published(store'.clients)[c] = published(store.clients)[c]
<1> SUFFICES ASSUME NEW c \in DOMAIN store.clients
             PROVE  /\ c \in DOMAIN store'.clients
                    /\ published(store'.clients)[c]
                         = published(store.clients)[c]
  OBVIOUS
<1> DEFINE x == store.clients[c]
           y == store'.clients[c]
<1>1. /\ c \in DOMAIN store'.clients /\ x \in ClientInteractionNode
      /\ y = [x EXCEPT !.last_seen_utc = y.last_seen_utc]
  BY DEF Kept, StoreOK, IsMap
<1>2. /\ y.prev_id = x.prev_id /\ y.message_hashes = x.message_hashes
      /\ y.system_instruction_hash = x.system_instruction_hash
      /\ y.upstream_ids = x.upstream_ids
  BY <1>1 DEF ClientInteractionNode
<1> QED
  BY <1>1, <1>2 DEF published

LEMMA publishedSame ==
    ASSUME StoreOK(store), Kept(store, store'),
           DOMAIN store'.clients \subseteq DOMAIN store.clients
    PROVE  published(store'.clients) = published(store.clients)
<1>1. DOMAIN store'.clients = DOMAIN store.clients
  BY publishedKept
<1>2. \A c \in DOMAIN store.clients :
         published(store'.clients)[c] = published(store.clients)[c]
  BY publishedKept
<1>3. \A f : published(f) = [c \in DOMAIN f |-> published(f)[c]]
  BY DEF published
<1> HIDE DEF published
<1> QED
  BY <1>1, <1>2, <1>3

-----------------------------------------------------------------------------
(* Steps of the promise *)

Promised == [Promise!Next]_(Promise!vars)

\* Nothing is published, and nobody or one request is answered.
LEMMA TellStep ==
    ASSUME published(store'.clients) = published(store.clients),
           published(disk'.clients) = published(disk.clients),
           cleaned' = cleaned, undone_ids' = undone_ids,
           \/ answered' = answered
           \/ \E r \in Request, c \in Id :
                 c \in Durable /\ Promise!Answer(r, c)
    PROVE  Promised
<1>1. CASE answered' = answered
  BY <1>1 DEF Promised, Promise!vars
<1>2. CASE \E r \in Request, c \in Id : c \in Durable /\ Promise!Answer(r, c)
  <2>1. PICK r \in Request, c \in Id : c \in Durable /\ Promise!Answer(r, c)
    BY <1>2
  <2>2. Promise!Tell(r, c)
    BY <2>1, publishedNode DEF Promise!Tell, Durable
  <2> QED
    BY <2>2 DEF Promised, Promise!Next
<1> QED
  BY <1>1, <1>2

\* One node is published, and nobody, or who has published it, is answered.
LEMMA PublishingStep ==
    ASSUME UInv, UInv', ~SaveMayFail, Kept(store, store'), NEW c \in Id,
           DOMAIN store'.clients = DOMAIN store.clients \cup {c},
           c \notin DOMAIN store.clients,
           cleaned' = cleaned, undone_ids' = undone_ids,
           \/ /\ disk'.clients \in {disk.clients, store'.clients}
              /\ answered' = answered
           \/ /\ disk'.clients = store'.clients
              /\ \E r \in Request : Promise!Answer(r, c)
    PROVE  Promised
<1> DEFINE ids == store'.clients[c].upstream_ids
<1>1. /\ StoreOK(store) /\ StoreOK(store') /\ CleanedIsGone'
      /\ Sound(store, gemini)' /\ Spared(store', Doomed')
  BY DEF UInv, DInv, BInv, OInv, IInv, TypeOK
<1>2. c \in DOMAIN store'.clients
  OBVIOUS
<1>3. c \notin cleaned
  BY <1>1, <1>2 DEF CleanedIsGone, Clear
<1>4. \A d \in DOMAIN store.clients :
         published(store'.clients)[d] = published(store.clients)[d]
  BY <1>1, publishedKept
<1>5. /\ published(store'.clients)[c].upstream_ids = ids
      /\ DOMAIN published(store'.clients) = DOMAIN store'.clients
      /\ DOMAIN published(store.clients) = DOMAIN store.clients
  BY <1>2, publishedNode
<1>6. c \in Promise!Parts(published(store'.clients)[c])
  <2>1. ids \in Seq(Id)
    BY <1>1, <1>2 DEF StoreOK, IsMap, ClientInteractionNode
  <2>2. ids # <<>> /\ ids[Len(ids)] = c
    BY <1>1, <1>2 DEF Sound, WholeNode
  <2>3. Len(ids) \in DOMAIN ids
    BY <2>1, <2>2
  <2> QED
    BY <1>5, <2>2, <2>3 DEF Promise!Parts
<1>7. Promise!Parts(published(store'.clients)[c]) \cap undone_ids = {}
  <2>1. undone_ids \subseteq Doomed'
    BY DEF undone_ids, Doomed
  <2>2. \A i \in DOMAIN ids : ids[i] \notin Doomed'
    BY <1>1, <1>2 DEF Spared, SparedNode
  <2> QED
    BY <1>5, <2>1, <2>2 DEF Promise!Parts
<1>8. Promise!Appears(c)
  BY <1>3, <1>4, <1>5, <1>6, <1>7 DEF Promise!Appears
<1>9. Promise!Publish(c)
  BY <1>8 DEF Promise!Publish
<1> QED
  BY <1>9 DEF Promised, Promise!Next

-----------------------------------------------------------------------------
(* What the step of a handler is *)

LEMMA HandlerRuns ==
    ASSUME NEW r \in Request, Handler(r) \/ ClientGone(r)
    PROVE  task[r].pc \notin Ends
<1>1. CASE \/ Arrive(r) \/ Probe(r) \/ Poll(r) \/ PollTimeout(r)
           \/ Recheck(r) \/ Replay(r) \/ Fetch(r) \/ FetchFails(r)
           \/ Post(r) \/ PostFails(r) \/ StoreNode(r) \/ StreamCreated(r)
           \/ StreamEnds(r) \/ StreamBreaks(r)
  BY <1>1 DEF Arrive, Probe, Poll, PollTimeout, Recheck, Replay, Fetch,
              FetchFails, Post, PostFails, sends_whole, StoreNode,
              StreamCreated, StreamEnds, StreamBreaks, At, Ends
<1>2. CASE \/ CreateBatch(r) \/ JoinBatch(r) \/ DupPoll(r) \/ DupTimeout(r)
           \/ DupReady(r) \/ Mark(r) \/ SendPiece(r) \/ PieceFails(r)
           \/ NoCreatedEvent(r) \/ Ack(r) \/ Complete(r)
           \/ TranslateFails(r) \/ Upsert(r) \/ Cancel(r) \/ CleanAll(r)
           \/ Clean(r) \/ ExtendLifetime(r) \/ ClientGone(r)
  BY <1>2 DEF CreateBatch, JoinBatch, DupPoll, DupTimeout, DupReady, Mark,
              SendPiece, PieceFails, NoCreatedEvent, Ack, Complete,
              TranslateFails, Upsert, Cancel, CleanAll, Clean,
              ExtendLifetime, ClientGone, in_progress, At, Ends
<1> QED
  BY <1>1, <1>2 DEF Handler

\* It answers r at most, which is not answered yet, and from what is durable.
LEMMA AnswersOnce ==
    ASSUME DInv, DInv', NEW r \in Request, Handler(r) \/ ClientGone(r)
    PROVE  \/ answered' = answered
           \/ /\ is_query(r) /\ task'[r].pc = "done"
              /\ task'[r].node \in Durable' \cap Id
              /\ Promise!Answer(r, task'[r].node)
<1>1. task[r].pc \notin Ends /\ Others(r)
  BY HandlerRuns, HandlerOthers DEF DInv, BInv, OInv
<1>2. \A q \in Request \ {r} : answered'[q] = answered[q]
  BY <1>1 DEF Others, answered, At
<1>3. answered[r] = NoId
  BY <1>1 DEF answered, At, Ends
<1>4. /\ DOMAIN answered = Request /\ DOMAIN answered' = Request
      /\ answered = [q \in Request |-> answered[q]]
      /\ answered' = [q \in Request |-> answered'[q]]
  BY DEF answered
<1>5. CASE is_query(r) /\ task'[r].pc = "done"
  <2>1. answered'[r] = task'[r].node
    BY <1>5 DEF answered, At
  <2>2. task'[r].node \in Durable'
    BY <1>5 DEF DInv, Answers
  <2>3. Durable' \subseteq Id
    BY DEF Durable, DInv, BInv, OInv, IInv, TypeOK, DocumentOK, IsMap
  <2> DEFINE n == task'[r].node
  <2> HIDE DEF n, answered
  <2>4. answered' = [answered EXCEPT ![r] = n]
    BY <1>2, <1>4, <2>1 DEF n
  <2> QED
    BY <1>3, <1>5, <2>2, <2>3, <2>4 DEF Promise!Answer, n
<1>6. CASE ~(is_query(r) /\ task'[r].pc = "done")
  <2>1. answered'[r] = NoId
    BY <1>6 DEF answered, At
  <2> HIDE DEF answered
  <2> QED
    BY <1>2, <1>3, <1>4, <2>1
<1> QED
  BY <1>5, <1>6

LEMMA UndoneLive ==
    ASSUME NEW id, NEW prev, NEW content, Create(id, prev, content)
    PROVE  undone_ids' = undone_ids
<1>1. id \notin DOMAIN gemini
  BY CreateGrows
<1>2. gemini' = Put(gemini, id, [prev |-> prev,
                                 context |-> context_of(prev) \o content,
                                 state |-> "live"])
  BY DEF Create
<1> QED
  BY <1>1, <1>2 DEF Put, undone_ids

\* Only cancel_interaction and delete_interaction undo anything.
LEMMA UndoneSame ==
    ASSUME NEW r \in Request, Handler(r) \/ ClientGone(r),
           ~(Cancel(r) \/ Clean(r))
    PROVE  undone_ids' = undone_ids
<1>1. ASSUME gemini' = gemini PROVE undone_ids' = undone_ids
  BY <1>1 DEF undone_ids
<1>2. ASSUME NEW prev, NEW content, CallFails(prev, content)
      PROVE  undone_ids' = undone_ids
  BY <1>1, <1>2, UndoneLive DEF CallFails
<1>3. CASE PostFails(r) \/ PieceFails(r)
  BY <1>2, <1>3 DEF PostFails, PieceFails
<1>4. CASE Post(r) \/ SendPiece(r) \/ NoCreatedEvent(r)
  BY <1>4, UndoneLive DEF Post, SendPiece, NoCreatedEvent
<1>5. CASE \/ Arrive(r) \/ Probe(r) \/ Poll(r) \/ PollTimeout(r)
           \/ Recheck(r) \/ Replay(r) \/ JoinBatch(r) \/ DupPoll(r)
           \/ DupTimeout(r) \/ DupReady(r) \/ Fetch(r) \/ FetchFails(r)
           \/ StoreNode(r) \/ StreamCreated(r) \/ StreamEnds(r)
           \/ StreamBreaks(r)
  BY <1>1, <1>5
     DEF Arrive, Probe, Poll, PollTimeout, Recheck, Replay, JoinBatch,
         DupPoll, DupTimeout, DupReady, Fetch, FetchFails, StoreNode,
         StreamCreated, StreamEnds, StreamBreaks
<1>6. CASE \/ CreateBatch(r) \/ Mark(r) \/ Ack(r) \/ Complete(r)
           \/ TranslateFails(r) \/ Upsert(r) \/ CleanAll(r)
           \/ ExtendLifetime(r) \/ ClientGone(r)
  BY <1>1, <1>6
     DEF CreateBatch, Mark, Ack, Complete, TranslateFails, Upsert, CleanAll,
         ExtendLifetime, ClientGone
<1> QED
  BY <1>3, <1>4, <1>5, <1>6 DEF Handler

LEMMA HandlerKeeps ==
    ASSUME OInv, IInv', NEW r \in Request, Handler(r) \/ ClientGone(r),
           ~CleanAll(r)
    PROVE  Kept(store, store') /\ cleaned' = cleaned
<1>1. Kept(store, store')
  BY HandlerOInv, EndingOInv
<1>2. CASE \/ Arrive(r) \/ Probe(r) \/ Poll(r) \/ PollTimeout(r)
           \/ Recheck(r) \/ Replay(r) \/ Fetch(r) \/ FetchFails(r)
           \/ Post(r) \/ PostFails(r) \/ StoreNode(r) \/ StreamCreated(r)
           \/ StreamEnds(r) \/ StreamBreaks(r)
  BY <1>1, <1>2
     DEF Arrive, Probe, Poll, PollTimeout, Recheck, Replay, Fetch,
         FetchFails, Post, PostFails, StoreNode, StreamCreated, StreamEnds,
         StreamBreaks, world
<1>3. CASE \/ CreateBatch(r) \/ JoinBatch(r) \/ DupPoll(r) \/ DupTimeout(r)
           \/ DupReady(r) \/ Mark(r) \/ SendPiece(r) \/ PieceFails(r)
           \/ NoCreatedEvent(r) \/ Ack(r) \/ Complete(r)
           \/ TranslateFails(r) \/ Upsert(r) \/ Cancel(r) \/ Clean(r)
           \/ ExtendLifetime(r) \/ ClientGone(r)
  BY <1>1, <1>3
     DEF CreateBatch, JoinBatch, DupPoll, DupTimeout, DupReady, Mark,
         SendPiece, PieceFails, NoCreatedEvent, Ack, Complete,
         TranslateFails, Upsert, Cancel, Clean, ExtendLifetime, ClientGone,
         world
<1> QED
  BY <1>2, <1>3 DEF Handler

-----------------------------------------------------------------------------
(* Every step of a handler is a step of the promise *)

\* These leave the client nodes alone, but for when they were last seen.
LEMMA HandlerNodes ==
    ASSUME IInv, NEW r \in Request, Handler(r) \/ ClientGone(r),
           ~(StoreNode(r) \/ StreamCreated(r) \/ Complete(r) \/ CleanAll(r))
    PROVE  DOMAIN store'.clients = DOMAIN store.clients
<1>1. StoreOK(store) /\ now \in Nat
  BY DEF IInv, TypeOK
<1>2. CASE \/ Arrive(r) \/ Probe(r) \/ Poll(r) \/ PollTimeout(r)
           \/ Recheck(r) \/ Replay(r) \/ FetchFails(r)
           \/ Post(r) \/ PostFails(r) \/ StreamEnds(r) \/ StreamBreaks(r)
  BY <1>2 DEF Arrive, Probe, Poll, PollTimeout, Recheck, Replay, FetchFails,
              Post, PostFails, StreamEnds, StreamBreaks
<1>3. CASE \/ JoinBatch(r) \/ DupPoll(r) \/ DupTimeout(r) \/ DupReady(r)
           \/ SendPiece(r) \/ NoCreatedEvent(r) \/ TranslateFails(r)
           \/ Cancel(r) \/ Clean(r) \/ ClientGone(r)
  BY <1>3 DEF JoinBatch, DupPoll, DupTimeout, DupReady, SendPiece,
              NoCreatedEvent, TranslateFails, Cancel, Clean, ClientGone
<1>4. CASE Fetch(r)
  BY <1>4, CommitSaves DEF Fetch
<1>5. CASE CreateBatch(r)
  BY <1>1, <1>5, CommitSaves, create_batch_From DEF CreateBatch
<1>6. CASE Mark(r)
  BY <1>1, <1>6, CommitSaves, move_piece_From
     DEF Mark, mark_response_started
<1>7. CASE PieceFails(r)
  BY <1>1, <1>7, CommitSaves, fail_batch_From DEF PieceFails
<1>8. CASE Ack(r)
  <2>1. task[r].last \in Id
    BY <1>8 DEF Ack, At, IInv, Progress
  <2> QED
    BY <1>1, <1>8, <2>1, CommitSaves, acknowledge_From DEF Ack
<1>9. CASE Upsert(r)
  <2> DEFINE s == set_last_interaction(store, ask[r].session, task[r].last)
  <2>1. s.clients = store.clients
    BY <1>1 DEF set_last_interaction, StoreOK
  <2> HIDE DEF s
  <2>2. store' = s
    BY <1>9, CommitSaves DEF Upsert, s
  <2> QED
    BY <2>1, <2>2
<1>10. CASE ExtendLifetime(r)
  BY <1>1, <1>10, CommitSaves, extend_lifetime_From DEF ExtendLifetime
<1> QED
  BY <1>2, <1>3, <1>4, <1>5, <1>6, <1>7, <1>8, <1>9, <1>10 DEF Handler

LEMMA QuietPromised ==
    ASSUME DInv, DInv', ~SaveMayFail, HashesFit,
           NEW r \in Request, Handler(r) \/ ClientGone(r), ~CleanAll(r),
           DOMAIN store'.clients = DOMAIN store.clients,
           undone_ids' = undone_ids
    PROVE  Promised
<1>1. BInv /\ OInv /\ IInv' /\ Mirror /\ StoreOK(store)
  BY DEF DInv, BInv, OInv, IInv, TypeOK
<1>2. Kept(store, store') /\ cleaned' = cleaned
  BY <1>1, HandlerKeeps
<1>3. published(store'.clients) = published(store.clients)
  BY <1>1, <1>2, publishedSame
<1>4. disk.clients = store.clients /\ disk'.clients = store'.clients
  BY <1>1, HandlerMirrors, DocumentClients DEF Mirror
<1>5. Durable' = Durable
  BY <1>2, <1>4 DEF Durable
<1>6. published(disk'.clients) = published(disk.clients)
  BY <1>3, <1>4
<1>7. answered' = answered \/ \E c \in Durable \cap Id : Promise!Answer(r, c)
  BY <1>5, AnswersOnce
<1> QED
  BY <1>2, <1>3, <1>6, <1>7, TellStep

LEMMA NewPromised ==
    ASSUME UInv, UInv', ~SaveMayFail, HashesFit,
           NEW r \in Request, Handler(r), ~CleanAll(r), ~Cancel(r), ~Clean(r),
           NEW c \in Id \ DOMAIN store.clients,
           DOMAIN store'.clients = DOMAIN store.clients \cup {c},
           task'[r].pc = "done" => task'[r].node = c
    PROVE  Promised
<1>1. /\ DInv /\ DInv' /\ BInv /\ OInv /\ IInv' /\ Mirror
  BY DEF UInv, DInv, BInv, OInv
<1>2. Kept(store, store') /\ cleaned' = cleaned
  BY <1>1, HandlerKeeps
<1>3. undone_ids' = undone_ids
  BY UndoneSame
<1>4. disk'.clients = store'.clients
  BY <1>1, HandlerMirrors, DocumentClients
<1>5. answered' = answered \/ Promise!Answer(r, c)
  BY <1>1, AnswersOnce
<1> QED
  BY <1>2, <1>3, <1>4, <1>5, PublishingStep

LEMMA StorePromised ==
    ASSUME UInv, UInv', ~SaveMayFail, HashesFit,
           NEW r \in Request, StoreNode(r) \/ StreamCreated(r)
    PROVE  Promised
<1> DEFINE c == task[r].last
<1>1. /\ BInv /\ IInv /\ Holds(r) /\ Handler(r)
      /\ ~CleanAll(r) /\ ~Cancel(r) /\ ~Clean(r)
  BY DEF UInv, DInv, BInv, OInv, Holds, Handler, StoreNode, StreamCreated,
         CleanAll, Cancel, Clean, At
<1>2. c \in Id \ DOMAIN store.clients
  BY <1>1 DEF IInv, Progress, Holds, StoreNode, StreamCreated, At, BInv, OInv,
              InteractionsHaveOneOwner, OneHolder
<1>3. store' = with_node(r)
  BY CommitSaves DEF StoreNode, StreamCreated
<1>4. DOMAIN store'.clients = DOMAIN store.clients \cup {c}
  <2>1. PICK node : with_node(r).clients = Put(store.clients, c, node)
    BY <1>1, with_node_Effect
  <2> QED
    BY <1>3, <2>1 DEF Put
<1>5. task'[r].pc = "done" => task'[r].node = c
  BY <1>1, GotoPc, AnswerPc DEF StoreNode, StreamCreated
<1> QED
  BY <1>1, <1>2, <1>4, <1>5, NewPromised

\* The node of the batch that r has sent, if the batch is still there.
LEMMA CompletePromised ==
    ASSUME UInv, UInv', ~SaveMayFail, HashesFit,
           NEW r \in Request, Complete(r)
    PROVE  Promised
<1> DEFINE b     == task[r].batch
           c     == task[r].last
           batch == store.in_flight[b]
           n     == piece_count(r)
<1>1. /\ DInv /\ DInv' /\ BInv /\ IInv /\ IInv' /\ Handler(r)
      /\ StoreOK(store) /\ now \in Nat
  BY DEF UInv, DInv, BInv, OInv, IInv, TypeOK, Handler
<1>2. ~CleanAll(r) /\ ~Cancel(r) /\ ~Clean(r)
  BY DEF Complete, CleanAll, Cancel, Clean, At
<1>3. At(r, "complete") /\ c \in Id /\ n \in Nat \ {0}
  <2>1. At(r, "complete")
    BY DEF Complete
  <2>2. c \in Id /\ is_query(r)
    BY <1>1, <2>1 DEF IInv, Progress, At, Ends
  <2>3. n \in Nat \ {0}
    BY <1>1, <2>2, piece_count_OK DEF IInv, TypeOK, Progress
  <2> QED
    BY <2>1, <2>2, <2>3
<1>4. CASE batch_is_complete(store, b)
  <2>1. store' = complete_batch(store, b, now)
    BY <1>4, CommitSaves DEF Complete
  <2>2. b \in DOMAIN store.in_flight
    BY <1>4 DEF batch_is_complete
  <2> DEFINE ids == batch_ids(batch)
  <2>3. c = ids[Len(ids)]
    BY <1>1, <1>4, <1>3, <2>1, CompleteKnown, SMTT(30)
  <2>4. DOMAIN store'.clients = DOMAIN store.clients \cup {c}
    <3>1. Completed(store, store', b, now)
      BY <1>1, <2>1, <2>2, complete_batch_Effect
    <3> QED
      BY <1>4, <2>3, <3>1 DEF Completed, Put
  <2>5. InBatch(store, b, c)
    <3>1. /\ DOMAIN batch.pieces = 1 .. n
          /\ c = batch.pieces[n].interaction_id
      BY <1>1, <1>3, <2>2 DEF BInv, InStep, Working, At
    <3>2. n \in DOMAIN batch.pieces
      BY <1>3, <3>1
    <3> HIDE DEF c, n
    <3> QED
      BY <2>2, <3>1, <3>2 DEF InBatch
  <2>6. c \notin DOMAIN store.clients
    BY <1>1, <1>3, <2>2, <2>5
       DEF BInv, OInv, InteractionsHaveOneOwner, OneOwner
  <2>7. task'[r].pc = "done" => task'[r].node = c
    <3>1. Goto(r, "upsert") \/ Answer(r, ids[Len(ids)])
      BY <1>4 DEF Complete
    <3> HIDE DEF ids
    <3> QED
      BY <1>1, <2>3, <3>1, GotoPc, AnswerPc
  <2> QED
    BY <1>1, <1>2, <1>3, <2>4, <2>6, <2>7, NewPromised
<1>5. CASE ~batch_is_complete(store, b)
  <2>1. store' = store
    BY <1>1, <1>5, CompleteMirrors
  <2> QED
    BY <1>1, <1>2, <2>1, UndoneSame, QuietPromised
<1> QED
  BY <1>4, <1>5

LEMMA CleanAllPromised ==
    ASSUME UInv, UInv', ~SaveMayFail, HashesFit,
           NEW r \in Request, CleanAll(r)
    PROVE  Promised
<1>1. /\ DInv /\ DInv' /\ BInv /\ IInv' /\ Mirror /\ Handler(r)
      /\ ~Cancel(r) /\ ~Clean(r) /\ ~is_query(r)
  BY DEF UInv, DInv, BInv, OInv, Handler, CleanAll, Cancel, Clean, At,
         is_query
<1>2. store'.clients = EmptyMap
  BY CommitSaves DEF CleanAll, clean_all, NewStore
<1>3. disk'.clients = EmptyMap
  BY <1>1, <1>2, HandlerMirrors, DocumentClients
<1>4. published(EmptyMap) = Promise!Nothing
  BY DEF published, EmptyMap, Promise!Nothing
<1>5. cleaned' = cleaned \cup DOMAIN published(store.clients)
  BY publishedNode DEF CleanAll
<1>6. undone_ids' = undone_ids
  BY <1>1, UndoneSame
<1>7. answered' = answered
  BY <1>1, AnswersOnce
<1>8. Promise!Remove
  BY <1>2, <1>3, <1>4, <1>5, <1>6, <1>7 DEF Promise!Remove
<1> QED
  BY <1>8 DEF Promised, Promise!Next

\* The nodes are spared by what is doomed, and only that is undone.
LEMMA UndoPromised ==
    ASSUME UInv, UInv', ~SaveMayFail, HashesFit,
           NEW r \in Request, Cancel(r) \/ Clean(r)
    PROVE  Promised
<1>1. /\ DInv /\ DInv' /\ BInv /\ IInv /\ IInv' /\ Mirror /\ Handler(r)
      /\ ~CleanAll(r) /\ task \in [Request -> Task]
  BY DEF UInv, DInv, BInv, OInv, IInv, TypeOK, Handler, CleanAll, Cancel,
         Clean, At
<1>2. store' = store /\ disk' = disk /\ cleaned' = cleaned
  BY DEF Cancel, Clean, world
<1>3. CASE gemini' = gemini
  BY <1>1, <1>2, <1>3, QuietPromised DEF undone_ids
<1>4. ASSUME NEW id \in task[r].undo, NEW state \in {"cancelled", "deleted"},
             task' = [task EXCEPT ![r].undo = @ \ {id}],
             gemini' = set_state(id, state)
      PROVE  Promised
  <2>1. id \in Doomed /\ id \in DOMAIN gemini /\ id \in Id
    BY DEF Cancel, Clean, At, Undone, Doomed, UInv, DInv, BInv, OInv, IInv,
           TypeOK, IsMap
  <2>2. undone_ids' = undone_ids \cup {id}
    <3>1. IsMap(gemini, Id, Interaction)
      BY <1>1 DEF IInv, TypeOK
    <3>2. /\ DOMAIN gemini' = DOMAIN gemini
          /\ \A x \in DOMAIN gemini : x # id => gemini'[x] = gemini[x]
          /\ gemini'[id].state # "live"
      BY <1>4, <2>1, <3>1 DEF set_state, IsMap, Interaction
    <3> QED
      BY <2>1, <3>2 DEF undone_ids
  <2>3. answered' = answered
    <3>1. task'[r].pc = task[r].pc
      BY <1>1, <1>4 DEF Task
    <3>2. task'[r].pc # "done"
      BY <3>1 DEF Cancel, Clean, At
    <3> QED
      BY <1>1, <3>2, AnswersOnce
  <2>4. \A c \in DOMAIN published(store.clients) :
           id \notin Promise!Parts(published(store.clients)[c])
    BY <2>1, publishedNode DEF UInv, Spared, SparedNode, Promise!Parts
  <2>5. Promise!Undo(id)
    BY <1>2, <2>2, <2>3, <2>4 DEF Promise!Undo
  <2> QED
    BY <2>1, <2>5 DEF Promised, Promise!Next
<1>5. \/ gemini' = gemini
      \/ \E id \in task[r].undo, state \in {"cancelled", "deleted"} :
            /\ task' = [task EXCEPT ![r].undo = @ \ {id}]
            /\ gemini' = set_state(id, state)
  BY DEF Cancel, Clean
<1> QED
  BY <1>3, <1>4, <1>5

LEMMA HandlerPromised ==
    ASSUME UInv, UInv', ~SaveMayFail, HashesFit,
           NEW r \in Request, Handler(r) \/ ClientGone(r)
    PROVE  Promised
<1>1. CASE StoreNode(r) \/ StreamCreated(r)
  BY <1>1, StorePromised
<1>2. CASE Complete(r)
  BY <1>2, CompletePromised
<1>3. CASE CleanAll(r)
  BY <1>3, CleanAllPromised
<1>4. CASE Cancel(r) \/ Clean(r)
  BY <1>4, UndoPromised
<1>5. CASE ~(\/ StoreNode(r) \/ StreamCreated(r) \/ Complete(r)
             \/ CleanAll(r) \/ Cancel(r) \/ Clean(r))
  <2>1. DInv /\ DInv' /\ IInv
    BY DEF UInv, DInv, BInv, OInv
  <2>2. DOMAIN store'.clients = DOMAIN store.clients
    BY <1>5, <2>1, HandlerNodes
  <2>3. undone_ids' = undone_ids
    BY <1>5, UndoneSame
  <2> QED
    BY <1>5, <2>1, <2>2, <2>3, QuietPromised
<1> QED
  BY <1>1, <1>2, <1>3, <1>4, <1>5

-----------------------------------------------------------------------------
(* A restart, and the specification *)

LEMMA CrashPromised ==
    ASSUME UInv, Crash
    PROVE  Promised
<1>1. store'.clients = disk.clients
  BY load_from_disk_Keeps DEF Crash
<1>2. disk' = disk /\ cleaned' = cleaned /\ gemini' = gemini
  BY DEF Crash
<1>3. \A r \in Request : answered'[r] = answered[r]
  <2> SUFFICES ASSUME NEW r \in Request
               PROVE  answered'[r] = answered[r]
    OBVIOUS
  <2>1. CASE in_progress(r)
    <3>1. task[r].pc # "done" /\ task'[r].pc = "gone"
      BY <2>1 DEF Crash, in_progress, Ends, NewTask
    <3> QED
      BY <3>1 DEF answered, At
  <2>2. CASE ~in_progress(r)
    <3>1. task'[r] = task[r]
      BY <2>2 DEF Crash
    <3> QED
      BY <3>1 DEF answered, At
  <2> QED
    BY <2>1, <2>2
<1>4. answered' = answered
  BY <1>3 DEF answered
<1>5. undone_ids' = undone_ids
  BY <1>2 DEF undone_ids
<1>6. Promise!Restart
  BY <1>1, <1>2, <1>4, <1>5 DEF Promise!Restart
<1> QED
  BY <1>6 DEF Promised, Promise!Next

\* The start-up publishes a batch that is complete, and saves at its end.
LEMMA StartupPromised ==
    ASSUME UInv, UInv', ~SaveMayFail, Startup
    PROVE  Promised
<1>1. /\ BInv /\ OInv /\ IInv' /\ StoreOK(store) /\ now \in Nat
      /\ Sound(store, gemini)
  BY DEF UInv, DInv, BInv, OInv, IInv, TypeOK
<1>2. Kept(store, store')
  BY <1>1, StartupOInv
<1>3. /\ task' = task /\ cleaned' = cleaned /\ gemini' = gemini
      /\ answered' = answered /\ undone_ids' = undone_ids
  BY DEF Startup, StartupComplete, StartupDiscard, world, answered, At,
         undone_ids
<1>4. CASE StartupComplete
  <2>1. PICK b \in DOMAIN store.in_flight :
          store' = complete_batch(store, b, now)
    BY <1>4 DEF StartupComplete
  <2>2. disk' = disk
    BY <1>4 DEF StartupComplete
  <2>3. CASE store'.clients = store.clients
    BY <1>3, <2>2, <2>3, TellStep
  <2>4. ASSUME NEW c \in Id, NEW node, InBatch(store, b, c),
               store'.clients = Put(store.clients, c, node)
        PROVE  Promised
    <3>1. c \notin DOMAIN store.clients
      BY <1>1, <2>4 DEF OInv, InteractionsHaveOneOwner, OneOwner
    <3>2. DOMAIN store'.clients = DOMAIN store.clients \cup {c}
      BY <2>4 DEF Put
    <3> QED
      BY <1>2, <1>3, <2>2, <3>1, <3>2, PublishingStep
  <2> QED
    BY <1>1, <2>1, <2>3, <2>4, complete_batch_From
<1>5. CASE StartupDiscard
  <2>1. discard_all_inflight(store).clients = store.clients
    BY <1>1 DEF discard_all_inflight, StoreOK
  <2>2. store'.clients = store.clients
    BY <1>5, <2>1, CommitSaves DEF StartupDiscard
  <2>3. disk' = disk \/ disk' = Document(store')
    BY <1>5, CommitSaves DEF StartupDiscard, Saves
  <2>4. CASE disk' = disk
    BY <1>3, <2>2, <2>4, TellStep
  <2>5. CASE disk' = Document(store')
    <3>1. Promise!Save
      BY <1>3, <2>2, <2>5, DocumentClients DEF Promise!Save
    <3> QED
      BY <3>1 DEF Promised, Promise!Next
  <2> QED
    BY <2>3, <2>4, <2>5
<1> QED
  BY <1>4, <1>5 DEF Startup

LEMMA NextPromised ==
    ASSUME UInv, UInv', ~SaveMayFail, HashesFit, [Next]_vars
    PROVE  Promised
<1>1. CASE \E r \in Request : Handler(r) \/ ClientGone(r)
  BY <1>1, HandlerPromised
<1>2. CASE Crash
  BY <1>2, CrashPromised
<1>3. CASE Startup
  BY <1>3, StartupPromised
<1>4. CASE Tick \/ UNCHANGED vars
  <2>1. /\ store' = store /\ disk' = disk /\ task' = task
        /\ gemini' = gemini /\ cleaned' = cleaned
    BY <1>4 DEF Tick, vars
  <2>2. answered' = answered /\ undone_ids' = undone_ids
    BY <2>1 DEF answered, At, undone_ids
  <2> QED
    BY <2>1, <2>2, TellStep
<1> QED
  BY <1>1, <1>2, <1>3, <1>4 DEF Next

LEMMA InitPromised == Init => Promise!Init
<1> SUFFICES ASSUME Init PROVE Promise!Init
  OBVIOUS
<1>1. store.clients = EmptyMap /\ disk.clients = EmptyMap
  BY DocumentClients DEF Init, NewStore
<1>2. published(EmptyMap) = Promise!Nothing
  BY DEF published, EmptyMap, Promise!Nothing
<1>3. answered = [r \in Request |-> NoId]
  BY DEF Init, NewTask, At, answered
<1>4. undone_ids = {} /\ cleaned = {}
  BY DEF Init, EmptyMap, undone_ids
<1> QED
  BY <1>1, <1>2, <1>3, <1>4 DEF Promise!Init

\* When saves run to their end and no two handlers at work share a batch name,
\* the handlers, clean-all, crashes and the start-up implement
\* LogicalInteractions: whatever runs beside it and however often it is sent
\* again, a logical interaction appears whole and once, stays as it is until
\* everything is removed, is on disk before anybody is answered from it, and
\* is never over an interaction that the proxy undoes.
THEOREM PromiseKept ==
    ASSUME ~SaveMayFail, HashesFit
    PROVE  Spec /\ NamesAreFree => PromiseIsKept
<1>1. UInv /\ UInv' /\ [Next]_vars => [Promise!Next]_(Promise!vars)
  BY NextPromised DEF Promised
<1> QED
  BY <1>1, InitPromised, AlwaysUInv, PTL DEF Spec, PromiseIsKept, Promise!Spec
=============================================================================
