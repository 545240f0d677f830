------------------------ MODULE InteractionsHandler ------------------------
(***************************************************************************)
(* Concurrent requests to one InteractionsHandler                          *)
(* (src/src/interactions_handler.rs), the shared store behind its RwLock,  *)
(* the store's file, and the Gemini Interactions service.                  *)
(*                                                                         *)
(* A step is what a handler does between two awaits that let another task  *)
(* in: a read of the store, a critical section under the write lock        *)
(* together with the save at its end, or one exchange with the service.    *)
(* Every request is one task; a retry is another task that asks the same.  *)
(* gemini is external: what the service does with the POST, GET, cancel    *)
(* and DELETE calls the handler makes.                                     *)
(***************************************************************************)
EXTENDS StoreV2

CONSTANTS
    Request,        \* the requests that may arrive
    ask,            \* what each of them asks: see Ask
    MaxFaults,      \* bound: how many faults of each kind
    SaveMayFail,    \* whether save_to_disk may return an error, or be dropped
                    \* with the handler that awaits it
    MaxNow,         \* bound: seconds of clock
    NoBatch

\* kind: how the request is sent, once it is known not to be a replay;
\* parts: into how many parts split_text_for_limit cuts the system prompt.
Ask ==
    [session : Session,
     kind    : {"send", "split", "split_system",
                "clean_all", "extend_lifetime"},
     hashes  : Seq(Hash),
     sys     : Hash \cup {NoHash},
     stream  : BOOLEAN,
     parts   : Nat \ {0}]

is_query(r) == ask[r].kind \in {"send", "split", "split_system"}

\* client: a connection dropped; crash: of the process; upstream: a call to
\* the service fails, or its answer cannot be used.
FaultKind == {"client", "crash", "upstream"}

ASSUME AskAssumption ==
    /\ ask \in [Request -> Ask]
    /\ \A r \in Request : is_query(r) => ask[r].hashes # <<>>
ASSUME BoundsAssumption ==
    /\ MaxFaults \in [FaultKind -> Nat]
    /\ SaveMayFail \in BOOLEAN
    /\ MaxNow \in Nat
ASSUME NoBatchAssumption == NoBatch \notin BatchId

VARIABLES
    store,      \* v2_store
    disk,       \* the document at v2_path
    up,         \* FALSE while build_app cleans up what it has loaded
    task,       \* the progress of each request
    gemini,     \* the service: id -> [prev, context, state]
    now,        \* unix_now()
    faults,     \* how many faults there have been
    cleaned     \* history: the client nodes clean_all has removed

vars == <<store, disk, up, task, gemini, now, faults, cleaned>>
world == <<up, now, cleaned>>

\* "done", "failed" and "gone" are ends: answered, answered with an error,
\* connection dropped.
Ends == {"done", "failed", "gone"}
PC == Ends \cup
    {"idle", "probe", "poll", "recheck", "dispatch", "store", "streaming",
     "draining", "dup", "dupready", "mark", "send", "ack", "complete",
     "upsert", "cancel", "replay", "fetch", "clean"}

Task ==
    [pc    : PC,
     start : Nat,                    \* frontier.index
     prev  : Id \cup {NoId},         \* frontier.previous_interaction_id
     batch : BatchId \cup {NoBatch}, \* the batch sent or waited for
     piece : Nat,                    \* the piece being sent
     last  : Id \cup {NoId},         \* current_prev: the id received last
     node  : Id \cup {NoId},         \* the client node the answer is of
     fetch : Seq(Id),                \* upstream ids still to GET
     undo  : SUBSET Id]              \* ids still to cancel (and delete)

NewTask ==
    [pc |-> "idle", start |-> 0, prev |-> NoId, batch |-> NoBatch,
     piece |-> 0, last |-> NoId, node |-> NoId, fetch |-> <<>>, undo |-> {}]

Interaction ==
    [prev    : Id \cup {NoId},
     context : Seq(Hash),
     state   : {"live", "cancelled", "deleted"}]

TypeOK ==
    /\ StoreOK(store)
    /\ DocumentOK(disk)
    /\ up \in BOOLEAN
    /\ task \in [Request -> Task]
    /\ IsMap(gemini, Id, Interaction)
    /\ now \in Nat
    /\ faults \in [FaultKind -> Nat]
    /\ cleaned \in SUBSET Id

-----------------------------------------------------------------------------
(* Faults, saves and the service *)

Fault(k) ==
    /\ faults[k] < MaxFaults[k]
    /\ faults' = [faults EXCEPT ![k] = @ + 1]

\* The critical section leaves s in memory and saves it; an error of the save
\* is only logged.  A handler whose client goes while it awaits the save is
\* dropped with s in memory and the old document on disk: that is a save that
\* failed and then ClientGone, so it is in the behaviours of SaveMayFail only.
Commit(s) ==
    /\ store' = s
    /\ \/ Encodable(s) /\ disk' = Document(s)
       \/ (SaveMayFail \/ ~Encodable(s)) /\ UNCHANGED disk

\* The service continues from any interaction that has not been deleted.
can_continue(prev) ==
    prev = NoId \/ (prev \in DOMAIN gemini /\ gemini[prev].state # "deleted")

context_of(id) == IF id = NoId THEN <<>> ELSE gemini[id].context

\* Ids are given out in order.
fresh(id) ==
    /\ id \in Id \ DOMAIN gemini
    /\ \A i \in Id \ DOMAIN gemini : id <= i

\* The service creates interaction id after prev.
Create(id, prev, content) ==
    /\ can_continue(prev)
    /\ fresh(id)
    /\ gemini' = Put(gemini, id,
                     [prev |-> prev, context |-> context_of(prev) \o content,
                      state |-> "live"])

\* A call that fails: refused (for an id that is gone, or by a fault), or
\* carried out and the answer lost.
CallFails(prev, content) ==
    \/ ~can_continue(prev) /\ UNCHANGED <<gemini, faults>>
    \/ Fault("upstream") /\ UNCHANGED gemini
    \/ Fault("upstream") /\ \E id \in Id : Create(id, prev, content)

\* A cancel keeps the content, a delete does not let anything continue.
set_state(id, state) ==
    IF id \in DOMAIN gemini
      THEN [gemini EXCEPT ![id].state =
              IF @ = "deleted" THEN "deleted" ELSE state]
      ELSE gemini

-----------------------------------------------------------------------------
(* What a request sends *)

\* Mutant: one message too few.
new_messages_off_by_one(r) ==
    SubSeq(ask[r].hashes, task[r].start + 2, Len(ask[r].hashes))

new_messages(r) ==
    SubSeq(ask[r].hashes, task[r].start + 1, Len(ask[r].hashes))

\* system_instruction_hash is only kept at the start of a chain.
system_hash(r) == IF task[r].prev = NoId THEN ask[r].sys ELSE NoHash

\* Only the first interaction of a chain carries the system prompt.
splits_system(r) == ask[r].kind = "split_system" /\ task[r].prev = NoId

\* One message to a chunk.  A split system prompt comes first, and its last
\* part carries the first chunk.
system_parts(r) == IF splits_system(r) THEN ask[r].parts - 1 ELSE 0
piece_count(r) == system_parts(r) + Len(new_messages(r))

\* Mutant: the first chunk is left out of the last part of the prompt.
piece_content_no_message(r) ==
    IF task[r].piece <= system_parts(r) + 1 THEN <<>>
    ELSE <<new_messages(r)[task[r].piece - system_parts(r)]>>

piece_content(r) ==
    IF task[r].piece <= system_parts(r) THEN <<>>
    ELSE <<new_messages(r)[task[r].piece - system_parts(r)]>>

matching_batches(r) ==
    find_matching_batch(store, ask[r].session, task[r].prev,
                        ask[r].hashes, system_hash(r))

waiting_frontier(r) ==
    find_frontier(ask[r].hashes, task[r].prev, system_hash(r), store)

batch_or_node_ready(r) ==
    \/ batch_is_complete(store, task[r].batch)
    \/ waiting_frontier(r).all_known

At(r, pc) == task[r].pc = pc
Goto(r, pc) == task' = [task EXCEPT ![r].pc = pc]
ReplayFrom(r, id) ==
    task' = [task EXCEPT ![r].pc = "replay", ![r].node = id]

\* Building the answer may fail on what the service has sent.
Answer(r, id) ==
    \/ task' = [task EXCEPT ![r].pc = "done", ![r].node = id]
       /\ UNCHANGED faults
    \/ Goto(r, "failed") /\ Fault("upstream")

-----------------------------------------------------------------------------
(* handle_from_anthropic, handle_from_openai *)

Init ==
    /\ store = NewStore
    /\ disk = Document(NewStore)
    /\ up = TRUE
    /\ task = [r \in Request |-> NewTask]
    /\ gemini = EmptyMap
    /\ now = 0
    /\ faults = [k \in FaultKind |-> 0]
    /\ cleaned = {}

\* Read the frontier, under the read lock.
Arrive(r) ==
    LET f == find_frontier(ask[r].hashes, NoId, NoHash, store)
    IN  /\ up /\ At(r, "idle") /\ is_query(r)
        /\ IF f.all_known
             THEN ReplayFrom(r, f.matched_client_id)
             ELSE task' = [task EXCEPT
                             ![r].pc = "probe", ![r].start = f.index,
                             ![r].prev = f.previous_interaction_id]
        /\ UNCHANGED <<store, disk, gemini, faults, world>>

\* wait_for_inflight_batch: is somebody already sending this?
Probe(r) ==
    /\ At(r, "probe")
    /\ \/ matching_batches(r) = {} /\ Goto(r, "dispatch")
       \/ \E b \in matching_batches(r) :
            task' = [task EXCEPT ![r].pc = "poll", ![r].batch = b]
    /\ UNCHANGED <<store, disk, gemini, faults, world>>

Poll(r) ==
    /\ At(r, "poll")
    /\ batch_or_node_ready(r)
    /\ Goto(r, "recheck")
    /\ UNCHANGED <<store, disk, gemini, faults, world>>

\* Mutant: no deadline.
PollForever(r) ==
    /\ At(r, "poll") /\ FALSE
    /\ UNCHANGED vars

\* 30 seconds without the batch being complete.
PollTimeout(r) ==
    /\ At(r, "poll")
    /\ ~batch_or_node_ready(r)
    /\ Goto(r, "dispatch")
    /\ UNCHANGED <<store, disk, gemini, faults, world>>

Recheck(r) ==
    /\ At(r, "recheck")
    /\ IF waiting_frontier(r).all_known
         THEN ReplayFrom(r, waiting_frontier(r).matched_client_id)
         ELSE Goto(r, "dispatch")
    /\ UNCHANGED <<store, disk, gemini, faults, world>>

-----------------------------------------------------------------------------
(* replay_from_client_node *)

Replay(r) ==
    /\ At(r, "replay")
    /\ IF task[r].node \in DOMAIN store.clients
         THEN task' = [task EXCEPT ![r].pc = "fetch",
                        ![r].fetch = store.clients[task[r].node].upstream_ids]
         ELSE Goto(r, "failed")
    /\ UNCHANGED <<store, disk, gemini, faults, world>>

\* GET the next upstream interaction, touch it, save.
Fetch(r) ==
    LET id == Head(task[r].fetch)
    IN  /\ At(r, "fetch") /\ task[r].fetch # <<>>
        /\ id \in DOMAIN gemini /\ gemini[id].state # "deleted"
        /\ Commit(store)
        /\ task' = [task EXCEPT ![r].fetch = Tail(@),
                     ![r].pc = IF Tail(task[r].fetch) = <<>>
                                 THEN "done" ELSE "fetch"]
        /\ UNCHANGED <<gemini, faults, world>>

FetchFails(r) ==
    LET id == Head(task[r].fetch)
    IN  /\ At(r, "fetch") /\ task[r].fetch # <<>>
        /\ \/ ~(id \in DOMAIN gemini /\ gemini[id].state # "deleted")
              /\ UNCHANGED faults
           \/ Fault("upstream")
        /\ Goto(r, "failed")
        /\ UNCHANGED <<store, disk, gemini, world>>

-----------------------------------------------------------------------------
(* send_and_translate, handle_stream_response *)

sends_whole(r) == At(r, "dispatch") /\ ask[r].kind = "send"

Post(r) ==
    /\ sends_whole(r)
    /\ \E id \in Id :
         /\ Create(id, task[r].prev, new_messages(r))
         /\ task' = [task EXCEPT ![r].last = id,
                      ![r].pc = IF ask[r].stream
                                  THEN "streaming" ELSE "store"]
    /\ UNCHANGED <<store, disk, faults, world>>

PostFails(r) ==
    /\ sends_whole(r)
    /\ CallFails(task[r].prev, new_messages(r))
    /\ Goto(r, "failed")
    /\ UNCHANGED <<store, disk, world>>

\* The nodes of the interaction just received, and the session.
with_node(r) ==
    LET id   == task[r].last
        node == [prev_id |-> task[r].prev,
                 message_hashes |-> ask[r].hashes,
                 system_instruction_hash |-> system_hash(r),
                 upstream_ids |-> <<id>>,
                 last_seen_utc |-> now]
    IN  set_last_interaction(
          insert_client(insert_upstream(store, id, task[r].prev), id, node),
          ask[r].session, id)

StoreNode(r) ==
    /\ At(r, "store")
    /\ Commit(with_node(r))
    /\ Answer(r, task[r].last)
    /\ UNCHANGED <<gemini, world>>

\* Mutant: the node is only stored when the stream has ended.
StreamCreatedUnstored(r) ==
    /\ At(r, "streaming")
    /\ Goto(r, "draining")
    /\ UNCHANGED <<store, disk, gemini, faults, world>>

\* interaction.created has reached the client: the node is stored before the
\* rest of the stream is read.
StreamCreated(r) ==
    /\ At(r, "streaming")
    /\ Commit(with_node(r))
    /\ Goto(r, "draining")
    /\ UNCHANGED <<gemini, faults, world>>

StreamEnds(r) ==
    /\ At(r, "draining")
    /\ task' = [task EXCEPT ![r].pc = "done", ![r].node = task[r].last]
    /\ UNCHANGED <<store, disk, gemini, faults, world>>

\* A read error, bytes that are not UTF-8, a line that is too long, or an end
\* without interaction.created.
StreamBreaks(r) ==
    /\ At(r, "streaming") \/ At(r, "draining")
    /\ Fault("upstream")
    /\ Goto(r, "failed")
    /\ UNCHANGED <<store, disk, gemini, world>>

-----------------------------------------------------------------------------
(* handle_split_send, send_split_system_instruction *)

\* Mutant: no check for the batch of an identical request.
CreateBatchUnchecked(r) ==
    LET b == <<ask[r].session, now>>
    IN  /\ At(r, "dispatch") /\ ask[r].kind # "send"
        /\ Commit(create_batch(store, b, task[r].prev, ask[r].hashes,
                               system_hash(r), piece_count(r)))
        /\ task' = [task EXCEPT ![r].pc = "mark", ![r].batch = b,
                                ![r].piece = 1, ![r].last = task[r].prev]
        /\ UNCHANGED <<gemini, faults, world>>

\* Under the write lock: join the batch of an identical request, or create
\* one.  The split of a system prompt never looks for another batch.  (The
\* second in the id is read just before the lock is asked for; a wait for the
\* lock that passes a second is not modelled.)
CreateBatch(r) ==
    LET b == <<ask[r].session, now>>
    IN  /\ At(r, "dispatch") /\ ask[r].kind # "send"
        /\ splits_system(r) \/ matching_batches(r) = {}
        /\ Commit(create_batch(store, b, task[r].prev, ask[r].hashes,
                               system_hash(r), piece_count(r)))
        /\ task' = [task EXCEPT ![r].pc = "mark", ![r].batch = b,
                                ![r].piece = 1, ![r].last = task[r].prev]
        /\ UNCHANGED <<gemini, faults, world>>

JoinBatch(r) ==
    /\ At(r, "dispatch") /\ ask[r].kind # "send"
    /\ ~splits_system(r)
    /\ \E b \in matching_batches(r) :
         task' = [task EXCEPT ![r].pc = "dup", ![r].batch = b]
    /\ UNCHANGED <<store, disk, gemini, faults, world>>

DupPoll(r) ==
    /\ At(r, "dup")
    /\ batch_or_node_ready(r)
    /\ Goto(r, "dupready")
    /\ UNCHANGED <<store, disk, gemini, faults, world>>

\* Mutant: who has waited in vain cancels the batch.
DupTimeoutCancels(r) ==
    LET b == task[r].batch
    IN  /\ At(r, "dup")
        /\ ~batch_or_node_ready(r)
        /\ task' = [task EXCEPT ![r].pc = "cancel",
                     ![r].undo = IF b \in DOMAIN store.in_flight
                                   THEN acked_ids(store.in_flight[b])
                                   ELSE {}]
        /\ UNCHANGED <<store, disk, gemini, faults, world>>

\* "timeout waiting for duplicate batch"
DupTimeout(r) ==
    /\ At(r, "dup")
    /\ ~batch_or_node_ready(r)
    /\ Goto(r, "failed")
    /\ UNCHANGED <<store, disk, gemini, faults, world>>

\* "duplicate batch completed without ClientInteractionNode"
DupReady(r) ==
    /\ At(r, "dupready")
    /\ IF waiting_frontier(r).all_known
         THEN ReplayFrom(r, waiting_frontier(r).matched_client_id)
         ELSE Goto(r, "failed")
    /\ UNCHANGED <<store, disk, gemini, faults, world>>

\* mark_started_and_persist
Mark(r) ==
    /\ At(r, "mark")
    /\ Commit(mark_response_started(store, task[r].batch, task[r].piece))
    /\ Goto(r, "send")
    /\ UNCHANGED <<gemini, faults, world>>

\* Mutant: every piece continues what the request continues.
SendPieceUnchained(r) ==
    /\ At(r, "send")
    /\ \E id \in Id :
         /\ Create(id, task[r].prev, piece_content(r))
         /\ task' = [task EXCEPT ![r].last = id, ![r].pc = "ack"]
    /\ UNCHANGED <<store, disk, faults, world>>

\* send_chunk, and the reading of its whole response.
SendPiece(r) ==
    /\ At(r, "send")
    /\ \E id \in Id :
         /\ Create(id, task[r].last, piece_content(r))
         /\ task' = [task EXCEPT ![r].last = id, ![r].pc = "ack"]
    /\ UNCHANGED <<store, disk, faults, world>>

\* fail_batch_and_cancel: the batch fails, what was Acked is to be cancelled.
PieceFails(r) ==
    LET b == task[r].batch
    IN  /\ At(r, "send")
        /\ CallFails(task[r].last, piece_content(r))
        /\ Commit(fail_batch(store, b))
        /\ task' = [task EXCEPT ![r].pc = "cancel",
                     ![r].undo = IF b \in DOMAIN store.in_flight
                                   THEN acked_ids(store.in_flight[b])
                                   ELSE {}]
        /\ UNCHANGED world

\* A streamed piece without interaction.created: handle_split_send returns
\* and leaves the batch as it is.
NoCreatedEvent(r) ==
    /\ At(r, "send")
    /\ ask[r].stream /\ ~splits_system(r)
    /\ Fault("upstream")
    /\ \E id \in Id : Create(id, task[r].last, piece_content(r))
    /\ Goto(r, "failed")
    /\ UNCHANGED <<store, disk, world>>

\* ack_and_persist, then the next piece.
Ack(r) ==
    LET b == task[r].batch
        i == task[r].piece
    IN  /\ At(r, "ack")
        /\ Commit(ack_piece(mark_sent(store, b, i, task[r].last),
                            b, i, task[r].last))
        /\ \/ /\ i < piece_count(r)
              /\ task' = [task EXCEPT ![r].pc = "mark", ![r].piece = i + 1]
              /\ UNCHANGED faults
           \/ /\ i = piece_count(r)
              /\ Goto(r, "complete")
              /\ UNCHANGED faults
           \* "exceeds proxy_limit with real previous_interaction_id"
           \/ /\ i = 1 /\ piece_count(r) > 1 /\ ~splits_system(r)
              /\ Goto(r, "failed")
              /\ Fault("upstream")
        /\ UNCHANGED <<gemini, world>>

\* complete_batch_and_persist: a batch that is not there, or not all Acked,
\* is an error, and nothing is saved then.
Complete(r) ==
    LET b == task[r].batch
        s == complete_batch(store, b, now)
    IN  /\ At(r, "complete")
        /\ \/ /\ batch_is_complete(store, b)
              /\ Commit(s)
              /\ IF splits_system(r)
                   THEN Goto(r, "upsert") /\ UNCHANGED faults
                   ELSE LET ids == batch_ids(store.in_flight[b])
                        IN  Answer(r, ids[Len(ids)])
           \/ /\ ~batch_is_complete(store, b)
              /\ store' = IF b \in DOMAIN store.in_flight THEN s ELSE store
              /\ Goto(r, "failed")
              /\ UNCHANGED <<disk, faults>>
        /\ UNCHANGED <<gemini, world>>

\* The stream of a split system prompt is translated before the batch is
\* completed.
TranslateFails(r) ==
    /\ At(r, "complete")
    /\ splits_system(r) /\ ask[r].stream
    /\ Fault("upstream")
    /\ Goto(r, "failed")
    /\ UNCHANGED <<store, disk, gemini, world>>

Upsert(r) ==
    /\ At(r, "upsert")
    /\ Commit(set_last_interaction(store, ask[r].session, task[r].last))
    /\ Answer(r, task[r].last)
    /\ UNCHANGED <<gemini, world>>

\* cancel_interaction for each id; its outcome is ignored.
Cancel(r) ==
    /\ At(r, "cancel")
    /\ \/ /\ task[r].undo = {}
          /\ Goto(r, "failed")
          /\ UNCHANGED <<gemini, faults>>
       \/ \E id \in task[r].undo :
            /\ task' = [task EXCEPT ![r].undo = @ \ {id}]
            /\ \/ gemini' = set_state(id, "cancelled") /\ UNCHANGED faults
               \/ Fault("upstream") /\ UNCHANGED gemini
    /\ UNCHANGED <<store, disk, world>>

-----------------------------------------------------------------------------
(* handle_control_action *)

\* Mutant: nothing is saved.
CleanAllUnsaved(r) ==
    /\ up /\ At(r, "idle") /\ ask[r].kind = "clean_all"
    /\ store' = clean_all(store)
    /\ cleaned' = cleaned \cup DOMAIN store.clients
    /\ task' = [task EXCEPT ![r].pc = "clean",
                            ![r].undo = all_upstream_ids(store)]
    /\ UNCHANGED <<disk, up, gemini, now, faults>>

CleanAll(r) ==
    /\ up /\ At(r, "idle") /\ ask[r].kind = "clean_all"
    /\ Commit(clean_all(store))
    /\ cleaned' = cleaned \cup DOMAIN store.clients
    /\ task' = [task EXCEPT ![r].pc = "clean",
                            ![r].undo = all_upstream_ids(store)]
    /\ UNCHANGED <<up, gemini, now, faults>>

\* Cancel and delete each id, whatever the outcome.
Clean(r) ==
    /\ At(r, "clean")
    /\ \/ /\ task[r].undo = {}
          /\ Goto(r, "done")
          /\ UNCHANGED <<gemini, faults>>
       \/ \E id \in task[r].undo :
            /\ task' = [task EXCEPT ![r].undo = @ \ {id}]
            /\ \/ gemini' = set_state(id, "deleted") /\ UNCHANGED faults
               \/ /\ Fault("upstream")
                  /\ \/ UNCHANGED gemini
                     \/ gemini' = set_state(id, "cancelled")
    /\ UNCHANGED <<store, disk, world>>

ExtendLifetime(r) ==
    /\ up /\ At(r, "idle") /\ ask[r].kind = "extend_lifetime"
    /\ Commit(extend_lifetime(store, ask[r].session, now))
    /\ Goto(r, "done")
    /\ UNCHANGED <<gemini, faults, world>>

-----------------------------------------------------------------------------
(* The environment, and build_app *)

in_progress(r) == task[r].pc \notin Ends \cup {"idle"}

\* The server drops the handler of a client that has disconnected, at an
\* await; the task of a stream notices before it stores the node, or after.
ClientGone(r) ==
    /\ in_progress(r)
    /\ Fault("client")
    /\ Goto(r, "gone")
    /\ UNCHANGED <<store, disk, gemini, world>>

\* The process ends and starts again: load_from_disk.
Crash ==
    /\ Fault("crash")
    /\ store' \in load_from_disk(disk)
    /\ up' = FALSE
    /\ task' = [r \in Request |->
                  IF in_progress(r)
                    THEN [NewTask EXCEPT !.pc = "gone"] ELSE task[r]]
    /\ UNCHANGED <<disk, gemini, now, cleaned>>

\* Startup, pass 1: complete a batch whose pieces are all Acked.
StartupComplete ==
    /\ ~up
    /\ \E b \in DOMAIN store.in_flight :
         /\ batch_is_complete(store, b)
         /\ store' = complete_batch(store, b, now)
    /\ UNCHANGED <<disk, task, gemini, faults, world>>

\* Startup, pass 2: discard the other batches; save if there was any batch.
StartupDiscard ==
    /\ ~up
    /\ \A b \in DOMAIN store.in_flight : ~batch_is_complete(store, b)
    /\ IF disk.in_flight = EmptyMap THEN UNCHANGED <<store, disk>>
       ELSE Commit(discard_all_inflight(store))
    /\ up' = TRUE
    /\ UNCHANGED <<task, gemini, now, faults, cleaned>>

Tick ==
    /\ now < MaxNow
    /\ now' = now + 1
    /\ UNCHANGED <<store, disk, up, task, gemini, faults, cleaned>>

\* What the handler of r does by itself.
Handler(r) ==
    \/ Arrive(r) \/ Probe(r) \/ Poll(r) \/ PollTimeout(r) \/ Recheck(r)
    \/ Replay(r) \/ Fetch(r) \/ FetchFails(r)
    \/ Post(r) \/ PostFails(r) \/ StoreNode(r)
    \/ StreamCreated(r) \/ StreamEnds(r) \/ StreamBreaks(r)
    \/ CreateBatch(r) \/ JoinBatch(r)
    \/ DupPoll(r) \/ DupTimeout(r) \/ DupReady(r)
    \/ Mark(r) \/ SendPiece(r) \/ PieceFails(r) \/ NoCreatedEvent(r)
    \/ Ack(r) \/ Complete(r) \/ TranslateFails(r) \/ Upsert(r) \/ Cancel(r)
    \/ CleanAll(r) \/ Clean(r) \/ ExtendLifetime(r)

Startup == StartupComplete \/ StartupDiscard

Next ==
    \/ \E r \in Request : Handler(r) \/ ClientGone(r)
    \/ Crash
    \/ Startup
    \/ Tick

Spec == Init /\ [][Next]_vars

\* Every call to the service ends, with an answer or with upstream_timeout,
\* and the runtime polls every task that can go on.
FairSpec ==
    /\ Spec
    /\ \A r \in Request : WF_vars(Handler(r))
    /\ WF_vars(Startup)

-----------------------------------------------------------------------------
(* Properties *)

\* ids is a chain of interactions that starts after prev, as the nodes in
\* upstreams have it and as the service has it.
IsChain(ids, prev, upstreams) ==
    \A i \in DOMAIN ids :
        LET before == IF i = 1 THEN prev ELSE ids[i - 1]
        IN  /\ ids[i] \in DOMAIN upstreams /\ upstreams[ids[i]] = before
            /\ ids[i] \in DOMAIN gemini /\ gemini[ids[i]].prev = before

NodeIsWhole(c, s) ==
    LET node == s.clients[c]
    IN  /\ node.upstream_ids # <<>>
        /\ node.upstream_ids[Len(node.upstream_ids)] = c
        /\ IsChain(node.upstream_ids, node.prev_id, s.upstreams)

(* session_delta.md: a ClientInteractionNode exists only once all of its
   upstream_ids are stored; they end with its own id and form the chain the
   service really built from its prev_id.  It must survive failing pieces,
   identical requests, restarts in the middle of a batch and clean-all. *)
NodesAreWhole ==
    /\ \A c \in DOMAIN store.clients : NodeIsWhole(c, store)
    /\ \A c \in DOMAIN disk.clients : NodeIsWhole(c, disk)

(* The Acked pieces of a batch in flight come before all the others, and each
   continues the interaction of the piece before it: this is what makes a
   completed batch a node that is whole. *)
AckedPiecesAreChained ==
    \A b \in DOMAIN store.in_flight :
        LET batch == store.in_flight[b]
            ids   == batch_ids(batch)
        IN  \A i \in DOMAIN batch.pieces : IsAcked(batch.pieces[i]) =>
              /\ ids[i] \in DOMAIN gemini
              /\ i = 1 => gemini[ids[i]].prev = batch.prev_interaction_id
              /\ i > 1 => /\ IsAcked(batch.pieces[i - 1])
                          /\ gemini[ids[i]].prev = ids[i - 1]

(* A client that gets an answer gets it from an interaction whose context
   holds every message of the request in order: no failed, lost, duplicated
   or abandoned piece of a split is ever missing from what is replayed. *)
AnswerCarriesRequest ==
    \A r \in Request : At(r, "done") /\ is_query(r) =>
        IsSubsequence(ask[r].hashes, gemini[task[r].node].context)

(* session.rs, ClientInteractionNode: message_hashes are the "hashes of harness
   messages delivered in this logical interaction".  Whoever published the
   node, be it its request or the start of the process, the context of its
   interaction holds all of them in order. *)
PublishedIsDelivered ==
    \A c \in DOMAIN store.clients :
        IsSubsequence(store.clients[c].message_hashes, gemini[c].context)

\* Interaction id is that of a piece of batch b.
InBatch(s, b, id) ==
    /\ b \in DOMAIN s.in_flight
    /\ \E i \in DOMAIN s.in_flight[b].pieces :
           s.in_flight[b].pieces[i].interaction_id = id

\* The handler of r has received an interaction that it has not stored yet.
Holds(r) == task[r].pc \in {"store", "streaming", "ack"}

OneOwner(s) ==
    /\ DOMAIN s.clients \subseteq DOMAIN gemini
    /\ \A b \in DOMAIN s.in_flight : \A id \in Id : InBatch(s, b, id) =>
          /\ id \in DOMAIN gemini \ DOMAIN s.clients
          /\ \A c \in DOMAIN s.in_flight : InBatch(s, c, id) => c = b

OneHolder(r) ==
    LET id == task[r].last
    IN  /\ id \in DOMAIN gemini \ (DOMAIN store.clients \cup cleaned)
        /\ \A b \in DOMAIN store.in_flight : ~InBatch(store, b, id)
        /\ \A q \in Request \ {r} : Holds(q) => task[q].last # id

(* An interaction is held by one handler, or is a piece of one batch, or is
   the last of a client node, never two of these: a batch is gone when its
   node is published (complete_batch), and no answer of the service is stored
   twice, in memory or in the document a restart would find. *)
InteractionsHaveOneOwner ==
    /\ OneOwner(store) /\ OneOwner(disk)
    /\ \A r \in Request : Holds(r) => OneHolder(r)

(* fail_batch_and_cancel and clean-all only undo what no client node uses: an
   interaction the proxy has cancelled or deleted is never published. *)
UndoneIsNotPublished ==
    \A c \in DOMAIN store.clients :
        LET ids == store.clients[c].upstream_ids
        IN  \A i \in DOMAIN ids : gemini[ids[i]].state = "live"

\* The batch of a request that begins a chain with its system prompt cut.
CutsPrompt(y) ==
    /\ y.prev_interaction_id = NoId
    /\ \E r \in Request :
         /\ ask[r].kind = "split_system"
         /\ y.session_id = ask[r].session
         /\ y.message_hashes = ask[r].hashes

(* session_delta.md: "Concurrent identical split requests MUST converge on
   one InFlightBatch".  Claimed of the requests whose content alone is split,
   and of those that follow another; where a system prompt is cut the code
   looks for no batch of the same request and breaks that sentence, so
   nothing is claimed. *)
OneBatchPerRequest ==
    \A b, c \in DOMAIN store.in_flight :
        LET y == store.in_flight[c]
        IN  /\ ~CutsPrompt(y)
            /\ batch_matches(store.in_flight[b], y.session_id,
                   y.prev_interaction_id, y.message_hashes,
                   y.system_instruction_hash)
            => b = c

(* routing_delta.md: "if client received the response, the node is
   persisted", unless clean-all has removed it since. *)
AnsweredIsDurable ==
    \A r \in Request : At(r, "done") /\ is_query(r) =>
        task[r].node \in DOMAIN disk.clients \cup cleaned

(* What clean-all has removed stays removed, in memory and across restarts,
   whatever was in progress when it ran. *)
CleanedStaysRemoved ==
    cleaned \cap (DOMAIN store.clients \cup DOMAIN disk.clients) = {}

(* A published client node never changes, and only clean-all or a crash can
   take it away: nobody who replays it sees another answer later. *)
PublishedNeverChanges ==
    [][\A c \in DOMAIN store.clients :
          \/ /\ c \in DOMAIN store'.clients
             /\ store'.clients[c] =
                  [store.clients[c] EXCEPT
                     !.last_seen_utc = store'.clients[c].last_seen_utc]
          \/ c \in cleaned'
          \/ ~up']_vars

PieceOrder ==
    [Pending |-> 0, ResponseStarted |-> 1, Sent |-> 2, Acked |-> 3,
     Failed |-> 3]

(* While the process runs, a piece never goes back to an earlier status, and
   the interaction of an Acked piece never changes: two requests that work on
   the same batch cannot redo or replace each other's pieces. *)
PiecesOnlyAdvance ==
    [][up /\ up' =>
        \A b \in DOMAIN store.in_flight \cap DOMAIN store'.in_flight :
          \A i \in DOMAIN store.in_flight[b].pieces :
            LET p == store.in_flight[b].pieces[i]
                q == store'.in_flight[b].pieces[i]
            IN  \/ q = p
                \/ PieceOrder[p.status] < PieceOrder[q.status]]_vars

(* Every request ends: neither a batch that failed, nor one that was
   abandoned or wiped, nor a crash keeps a waiting request waiting. *)
EveryRequestEnds == \A r \in Request : <>(task[r].pc \in Ends)

-----------------------------------------------------------------------------
(* What clients see of it *)

\* When a node was last seen is no part of what is promised.
published(clients) ==
    [c \in DOMAIN clients |->
        [prev_id                 |-> clients[c].prev_id,
         message_hashes          |-> clients[c].message_hashes,
         system_instruction_hash |-> clients[c].system_instruction_hash,
         upstream_ids            |-> clients[c].upstream_ids]]

undone_ids == {id \in DOMAIN gemini : gemini[id].state # "live"}

answered ==
    [r \in Request |->
        IF At(r, "done") /\ is_query(r) THEN task[r].node ELSE NoId]

Promise ==
    INSTANCE LogicalInteractions
    WITH nodes <- published(store.clients), saved <- published(disk.clients),
         removed <- cleaned, undone <- undone_ids, told <- answered

(* Split sends, streams, joined batches, clean-all, crashes and start-up all
   implement the simple promise: a logical interaction appears whole and at
   once, stays as it is until everything is removed, is on disk before
   anybody is answered from it, and is over no interaction that the proxy
   undoes (session_delta.md, routing_delta.md). *)
PromiseIsKept == Promise!Spec
=============================================================================
