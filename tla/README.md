# Verification of inf-splitter

inf-splitter is an HTTP proxy between coding clients ("harnesses", which speak
the Anthropic or the OpenAI protocol) and model services.  Its own logic is the
translation of stateless clients, which send their whole history each time,
into the *stateful* Gemini Interactions API, where a request continues an
earlier interaction by id and sends only what is new, and the cutting of a
request that is too large for the service into a chain of smaller
interactions.  What it must never do is lose a message, show an answer that
belongs to something else, or forget what a client has been told.

Source paths below are relative to `src/`.

## 1. Inventory

### Components

| Component | Source | State | Operations | Talks to |
|---|---|---|---|---|
| Session store | `src/session.rs` | client nodes, upstream nodes, indexes, sessions, batches in flight; a TOML document on disk | insert, frontier search, batch life cycle, clean-all, extend-lifetime, load, save | called by the handler under one `RwLock`, and by `build_app` |
| Interactions handler | `src/interactions_handler.rs` | none of its own but the progress of each request (a future) | both ingress handlers, replay, send, stream, split send, split of the system prompt, waiting for a batch, control actions | store, Gemini service, diagnostics |
| Start-up | `src/lib.rs` (`build_app`) | - | loads the store, completes or discards the batches left in flight | store |
| Packing | `src/interactions.rs` | - | measures a body, packs content into chunks, cuts a system prompt, plans the pieces | called by the handler |
| Conversion | `src/interactions.rs`, `src/interactions_types.rs` | index of the active step | builds bodies, translates events and answers, hashes messages | called by the handler |
| SSE | `src/sse.rs` | a bounded buffer per split stream, a line buffer | push, substitute id, drain; line parsing | called by the handler |
| Control messages | `src/control.rs` | - | recognises and strips `clean-all`, `extend-lifetime` | called by the handler |
| Diagnostics: outputs | `src/diagnostics.rs` | a bounded channel, a writer task and rotating files per output | record, flush, rotate, compress, clean up | the file system |
| Diagnostics: guard | `src/diagnostics.rs` | what one request wants to dump | defer, finish, abort, drop | called by every handler |
| Configuration | `src/config.rs` | read-only after the start | validates the file, resolves secrets, routes, limits and dropped fields | called by all |
| Authentication | `src/auth.rs` | - | forwards headers, puts the key of the section in | called by the handlers |
| Router | `src/router.rs` | - | dispatch by model and by protocol, list of models | handlers |
| Health check | `src/router.rs` | cached result and its age | probes the endpoints at once, answers from the cache | providers |
| Other handlers, relay | `src/openai.rs`, `src/anthropic.rs`, `src/relay.rs` | buffers of one request | pass on or translate a request and its answer, whole or streamed | providers, diagnostics |
| Server, errors | `src/lib.rs`, `src/main.rs`, `src/error.rs` | - | limits the size of a body, starts, stops | - |

Neither the Gemini service, nor the providers, nor the translation library
`anyllm_translate` is in the repository.  They are modelled from how the code
uses them, and marked external.

### What is hard

* **A long conversation.**  The store is a forest of nodes; which of them a
  request continues is found by walking forward along a derived index with one
  slot per parent.  Appends, rewrites, branches, restarts (which rebuild the
  index in hash-map order) and equal time stamps all meet there.
* **Concurrency.**  Every request is a task; the store is locked only for a
  read or for one short critical section.  Between "nobody is sending this"
  and "I am sending this", between "the batch is complete" and "its node is
  published", and between "these are my interactions" and "cancel them",
  other tasks run.
* **Partial failure.**  A split send is a chain of POSTs.  Any of them may be
  refused, may be carried out with its answer lost, or may be abandoned when
  the client disconnects; what was sent is cancelled, or stays.
* **Crashes.**  The store is saved after each step, not atomically with the
  service, and saves may fail with only a warning.
* **Waiting.**  A request waits up to 30 seconds for the batch of an identical
  request whose owner may be gone.
* **Names.**  A batch is named after its session and the second.
* **Bytes that are cut anywhere.**  An answer comes as a stream; a chunk of the
  transport may end inside a line or inside a character, and a split request
  turns several streams into one message with one id.
* **Endings.**  A call ends in many ways (refused, failed upstream, broken
  stream, client gone, error met twice), and each must leave one line of
  statistics and true dumps.
* **Files.**  A writer rotates, compresses and cleans up beside itself while
  its channel fills, the day changes, the disk fails or the process dies.
* **Order of rewriting.**  Limits add fields, dropped fields remove them; which
  comes first shows in what is sent.

### What makes each component correct

* *Store and frontier*: an answer is given in a context that holds every
  message of the request, in order; an append-only client has each delivered
  once; the stored chain is the service's chain.
* *Handler*: a client node exists only whole; nodes never change; answered
  requests are durable; identical split requests converge; nothing published
  is ever cancelled or deleted; what clean-all removes stays removed; every
  request ends.
* *Start-up*: a batch is completed only if all its pieces were acknowledged.
* *Packing*: the pieces carry the request, in order and complete, and none is
  larger than the limit.
* *SSE and conversion*: however the bytes were cut, the client reads every
  text once and in order, as one message with the last id.
* *Diagnostics, outputs*: what can be read back is an ordered log; no file
  grows too large; a channel drains.
* *Diagnostics, guard*: one line per call whatever path it ends on, and dumps
  that say what happened.
* *Configuration, authentication, handlers*: what is sent goes to the section
  that owns the model, with its key, within its limits, without the fields it
  drops.
* *Health check*: the answer is about the recent past, although probes overlap.

The hazards, each at the line where it bites and with the properties that
watch it, are in `PROJECT.json`.

## 2. Modules

| Module | Models | Extends |
|---|---|---|
| `StoreV2` | `session.rs`: every operation of the store, the frontier search, the document on disk | - |
| `Conversation` | requests answered one at a time over the real store, against the context the service accumulates | `StoreV2` |
| `LogicalInteractions` | abstract: what clients are promised about a logical interaction | - |
| `InteractionsHandler` | concurrent requests, split sends, control actions, faults, crash and start-up; implements `LogicalInteractions` | `StoreV2`, instance of `LogicalInteractions` |
| `Packing` | sizes of bodies, chunks of content, parts of a system prompt, plans | - |
| `EventStream` | server-sent events as bytes | - |
| `SplitStream` | one request to the Interactions API as data: what is sent, and the answer on its way to the client | `Packing`, `EventStream` |
| `OrderedLog` | abstract: what an output of the diagnostics promises | - |
| `DiagnosticsWriter` | the outputs of the diagnostics; implements `OrderedLog` | instance of `OrderedLog` |
| `Configuration` | the file, its validation and what is asked of it | - |
| `RequestGuard` | the guard of a request in the diagnostics | `Configuration` |
| `Proxy` | one call from the configuration file to the last byte, for every pair of the OpenAI and Anthropic protocols | `RequestGuard`, `EventStream` |
| `Health` | GET /health under time | `Configuration` |
| `Server` | the calls of `Proxy` and of `Health` under one configuration | both |
| `MCConversation`, `MCInteractionsHandler`, `MCSplitStream`, `MCDiagnosticsWriter`, `MCServer` | instances for TLC | the above |
| `StoreV2Proofs`, `ConversationProofs`, `InteractionsHandlerProofs` | theorems about each | the above |
| `BatchProofs` | batches and the nodes made of them | `InteractionsHandlerProofs` |
| `DeliveryProofs` | what a request says reaches the service | `BatchProofs` |
| `DurabilityProofs` | what is on disk, what is undone, and the refinement of `LogicalInteractions` | `BatchProofs` |
| `WriterProofs` | the files of the diagnostics | `DiagnosticsWriter` |
| `ServerProofs` | calls and the health: what is sent, reported, dumped and told | `Server` |

### StoreV2

A store is a record of five functions: `clients`, `upstreams`,
`prev_to_client`, `sessions`, `in_flight`.  Every method of
`InteractionStore` and `StoreV2` is an operator from a store to a store; a
method that returns `Err` is an operator that returns what the code leaves
behind, which is not always what it found (`complete_batch` removes the batch
before it looks at the pieces).  The choices of the code that depend on
hash-map order are sets: `find_matching_batch` gives all the batches the code
may return, `load_from_disk` all the stores that may be built.

Fields that no decision reads are left out (expiry times,
`upstream_to_clients`, bodies of pieces).  `hash_index` is always the inverse
of `clients` and is derived where it is read.  Hashes are numbers, and
`TomlIntegerMax` is the border above which the code's u64 no longer fits a
TOML integer; `Encodable` says whether a save can succeed.  Positions count
from 1.

The frontier search is written with recursive *functions* (over the number of
messages and the number of nodes), so that theorems can be stated about it.

### Conversation

`Deliver(r)` is `handle_from_*` followed by `send_and_translate` for a request
with something new; `gemini` keeps, for each interaction, the whole context
the service answers in.  A request that is all known is a replay and changes
nothing; what it would answer is `answer_context`.  `Reload` is a restart.

### InteractionsHandler

`task[r].pc` is where the future of request `r` is suspended.  A step is what
happens between two awaits that let another task in: a read of the store under
the read lock, a critical section under the write lock with the save at its
end, or an exchange with the service.

| Steps | Code |
|---|---|
| `Arrive` | frontier under the read lock, both ingress handlers |
| `Probe`, `Poll`, `PollTimeout`, `Recheck` | `wait_for_inflight_batch` |
| `Replay`, `Fetch`, `FetchFails` | `replay_from_client_node`, `fetch_upstream_interaction` |
| `Post`, `PostFails`, `StoreNode` | `send_and_translate` |
| `StreamCreated`, `StreamEnds`, `StreamBreaks` | `handle_stream_response` |
| `CreateBatch`, `JoinBatch`, `DupPoll`, `DupTimeout`, `DupReady` | `handle_split_send` up to the loop, `send_split_system_instruction` |
| `Mark`, `SendPiece`, `Ack`, `Complete`, `Upsert` | the loop over the pieces and its end |
| `PieceFails`, `Cancel`, `NoCreatedEvent`, `TranslateFails` | `fail_batch_and_cancel` and the error returns that do not call it |
| `CleanAll`, `Clean`, `ExtendLifetime` | `handle_control_action` |
| `ClientGone`, `Crash`, `StartupComplete`, `StartupDiscard`, `Tick` | the server, the process, `build_app`, the clock |

`Commit(s)` is the end of a critical section: memory becomes `s`, and the
document becomes `s` if the save succeeds.  `CallFails` covers a refusal and a
call that was carried out but whose answer was lost.  What a request *asks* is
the constant `ask`: whether it is split is part of it, because sizes in bytes
are abstracted; one message makes one chunk.

Abstracted here and modelled in `SplitStream`: bodies, sizes, streams and their
translation.  Abstracted: headers and generation settings.
`system_parts` is how many parts the system prompt is cut into.  A second that
passes while a task waits for the write lock, after it has read the second for
the batch name, is not modelled.

### LogicalInteractions

What a client may rely on, without batches, pieces, streams or a lock.  The
state is what can be replayed (`nodes`), what a restart would find (`saved`),
what was removed, what the proxy undid at the service, and the node each
request was answered from.  A logical interaction is published in one step,
whole, under a new id and over nothing that was undone (`Publish`), is saved
(`Save`), answers (`Tell`), goes with all others (`Remove`) and comes back as
it was saved (`Restart`).  The service's interactions are undone only while no
node is made of them (`Undo`).

`InteractionsHandler!Promise` maps to it: `nodes` and `saved` are the client
nodes of memory and of the document without the time they were last seen,
`removed` is what clean-all removed, `undone` what the service no longer has
alive, `told` the node of each finished query.  A split send maps to one
`Publish`, in the step that completes its batch; every other step of it is a
stutter, a `Tell` at its end, or an `Undo` where it fails.  Start-up may complete a batch, which
maps to a `Publish` too.  A `CleanAll` cancels interactions and removes the
nodes in different steps of the code, and maps to `Remove` and then `Undo`.

### Packing, EventStream, SplitStream

A content item is its size, a system prompt a sequence of words with the rank
of the delimiter after each; `body_size` adds up what the serialised body
takes, with the commas and the longer `false`.  `split_plan` is
`handle_split_send` up to its loop, in the order of the code: the content is
packed with the whole prompt in the first envelope, and only then is the prompt
cut.  `drop_fields` is applied where the code applies it: to decide whether a
request is too large, and to each body that is sent, but not while packing.

`EventStream` says what bytes are.  An event is two halves; the transport
delivers any number of halves at once; a *wide* event has a character where its
halves meet, so that a chunk may not be valid UTF-8.

| `SplitStream` | Code |
|---|---|
| `Begin` | the decision to split, `can_split_under_limit`, the plan |
| `Send`, `SendFails` | `send_and_translate`, `send_chunk` |
| `StreamChunk`, `StreamEnds`, `StreamBreaks` | `handle_stream_response` |
| `PieceChunk`, `PieceEnds`, `ReadBody` | the loop over the pieces: `parse_sse_for_interaction_id`, `MemSseBuffer::push`, the check of the next chunks with the real id |
| `Finish` | `capture_and_translate_sse`, `merge_interaction_responses` |
| `ClientGone` | the future is dropped |

The store is not here; `InteractionsHandler` has it.  The two share the order of
the steps of a piece: sent, recognised, acknowledged, next.

### DiagnosticsWriter and OrderedLog

An output is a channel (`chan`), a task (`mode` is where its `writer_loop` is),
a buffer (`buf`, the `BufWriter`) and files in a directory shared by all
outputs.  A file is what its name says: stem, day, number, compressed or not.
`linked[w]` is FALSE once the file that `w` has open lost its name.  A step of
the writer is one line received and written (`WriteLine`), with the rotation
before it if need be (`WriteAfterRotation`), or the ways in which this fails
(`RotationFails`, the failing branch of `Settle`), after which the writer goes
on with stderr.  Compression is a task of its own with two steps, so that a
crash may come between.

`OrderedLog` has two steps: newer lines become readable, in order, and the
oldest go away.  The refinement maps its `log` to what a reader finds in the
directory: the rotated files in the order of their names (one of the two, if
the compressed file is complete and its source still there), then the live
file.

### Configuration, RequestGuard, Proxy, Health, Server

A configuration file is a record with the fields of the file; `is_valid` is
`from_file_config` as far as it refuses, the operator `from_file_config` what
it builds.  A body is a function from its fields to numbers; the messages are
not looked at.  A header is a name and a value.

`RequestGuard` gives the operators of `RequestDiagnostics` over records: what a
guard keeps, and what the diagnostics have been told.  `Drop` is explicit:
every action of `Proxy` that ends a handler also drops the guard.

| `Proxy` | Code |
|---|---|
| `Load` | `Config::load` |
| `TooLarge` | `RequestBodyLimitLayer`, and the limit of axum's `Bytes` |
| `Reject`, `Dispatch` | `dispatch_messages` |
| `Refuse` | a typed or untranslatable body in the converting handlers |
| `Send`, `SendFails`, `UpstreamAnswers` | the four handlers up to the answer; limits, dropped fields, headers |
| `ReadErrorBody`, `ReadFails`, `RelayBody`, `ConvertBody` | the rest of the handlers and `relay.rs` for whole answers |
| `RelayChunk`, `RelayEnds`, `RelayDropped` | `DiagnosticStream` |
| `TranslateChunk`, `TranslateEnds`, `TranslateBreaks` | `handle_stream_manual`, `handle_from_openai_stream` |
| `ClientGone` | the future or the stream is dropped |

`Health` has time in ticks: what takes no time in the code is done before the
next tick.  `since_ok` and `since_bad` are history, how long ago an endpoint
was, and was not, up.  Several probes run side by side since the code holds no
lock while it probes.

Calls share only the configuration and the diagnostics' counter and channels,
so a behaviour of `Server` has one call, or clients of the health check.

## 3. What is checked

| Run | Question | Result |
|---|---|---|
| `conversation` | is every message of a request in the context it is answered in, and in its place? | holds |
| `split` | two identical split requests and one that continues them, under a crash, an upstream fault and failing saves | holds |
| `clean` | a split system prompt, a stream that continues it, clean-all and extend-lifetime, under a disconnect, a crash and an upstream fault; do they implement `LogicalInteractions`? | holds |
| `progress` | does every request end? | holds |
| `writer` | is what can be read back of an output an ordered log, and does its channel drain? | holds |
| `stream` | do the pieces fit, arrive in order, and come back as one whole message? | holds |
| `ingress` | what is sent, read, reported and dumped for one call of any kind; is the health that is told recent? | holds |
| `replay` | is what is replayed the answer to this request? | **violated** |
| `other_branch` | is a request whose known part ends with a node continued at this node? | **violated** |
| `hash_too_large` | is an answered request on disk, whatever the hash? | **violated** |
| `batch_name` | are a published node's messages delivered, if two splits share a second? | **violated** |
| `system_split` | is a request that can be split sent? | **violated** |

`stream` and `ingress` check that there is no deadlock: a call that has ended
stutters, so a state without a successor would be one that waits for ever.  The
other runs set `CHECK_DEADLOCK FALSE`: there requests end, ids run out, lines
are used up and the clock stops at its bound.

### Findings

1. `replay`: a request that is a proper prefix of a stored history is answered
   with the answer to the longer one (`session.rs:342`), where
   `session_delta.md` wants a fork.  So is one that says a thing again: nodes
   hold whole histories but are walked as if each held what it added, so that
   after `[1]` and `[1, 1]` the request `[1, 1, 1]` is known.
2. `other_branch`: a walk that has finished a node moves on to its child before
   it looks at the next message, and forgets that it stood at a boundary
   (`session.rs:314`, `:334`).  A request whose known part ends there continues
   the child, whose messages it does not have: after `[1]`, `[1, 2, 3]` and
   `[2, 4]` the request `[1, 3]` is answered in the context `[1, 2, 4, 3]`.
   The node that is stored then claims a history that was delivered in another
   order or with others between, and what continues it may be answered out of
   order: `HistoryIsUpstream`, a premise of `NothingLost`, is what such a node
   violates.
3. `hash_too_large`: one u64 hash above `i64::MAX` (half of all hashes) and
   `toml::to_string` fails for the whole store (`session.rs:613`): nothing is
   persisted from then on, with only a warning.
4. `batch_name`: two different split requests of one session in one second
   share a batch (`interactions_handler.rs:1479`); the node published holds the
   messages of one and the interactions of the other.
5. `system_split`: the content is packed with the whole system prompt before
   the prompt is cut (`interactions_handler.rs:1404`), so a request that
   `can_split_under_limit` accepts because its prompt can be cut is refused as
   soon as it has any content.

A property that one of these breaks, and that also has content elsewhere, is
checked in a passing run on instances that do not meet the finding, so that the rest of its content is still
watched; the bounds below say how each instance avoids it.

### Divergences and limits of the code that no run states

Met while modelling; each is in the models as the code has it.  In these the
code does not do what a document of the repository says, and the property that
comes near excepts the case: that it holds says nothing of it.

* A request whose system prompt is cut makes a batch without looking for one of
  an identical request (`interactions_handler.rs:2082`), where
  `session_delta.md:127` has concurrent identical split requests converge on
  one batch.  `OneBatchPerRequest` excepts the batches such a request makes at
  the beginning of a chain (`CutsPrompt`).
* The answer to a cut system prompt that is not streamed is that of the last
  piece alone (`interactions_handler.rs:2350`), where
  `protocol-conversion_delta.md:122-146` merges all of them.  `AnswerIsWhole`
  claims nothing of these answers.
* A request that the library does not translate leaves no line at all
  (`openai.rs:230`, `anthropic.rs:219`), where `diagnostics.md:638` wants a
  stats event and an ingress dump of every request, early errors included; so
  does a body that is too large.  `ReportedOnce` claims of neither that there is
  a line or that there is none (`unclaimed`).
* The ingress dump of a converted request shows it after the limits of the
  section were applied and, from an Anthropic client, after adaptive `thinking`
  was taken away (`openai.rs:264`, `anthropic.rs:252`), where `diagnostics.md:255`
  wants the body as it was received.  `DumpsTellTheTruth` claims what this dump
  says only of calls that are passed on or end before they are sent.
* `stream_options` reaches an OpenAI provider when a request is passed on,
  where `protocol-conversion.md:113-120` always drops it.
  `EgressIsTransformed` claims nothing of that field there.
* The handlers pass no system hash to the search
  (`interactions_handler.rs:160`), so a changed prompt is ignored on a known
  history, where `session_delta.md:109` wants a fork.  `ChainIsUpstreamChain`
  says under which prompt a chain is answered.
* The first chunk of a chain that goes on is measured without the id it
  continues, and an id that is longer than the first one is not measured again,
  against `protocol-conversion.md:1061-1069` (`PiecesFitTheLimit` excepts both).

And these are limits that no document denies:

* Nodes hold whole histories, so a fork at a parent sends again what the
  parent's context already holds (`interactions_handler.rs:991`).
* Nothing completes or fails the batch of a dropped future
  (`interactions_handler.rs:1606`); a stream without `interaction.created`
  leaves its batch behind (`:1749`).  What the runs show is that later requests
  end all the same and that no node appears with a part of the pieces.
* A client that goes while its handler awaits a save drops the save: what is in
  memory is not in the document until the next save
  (`interactions_handler.rs:2687-2691` for clean-all).
* A control message that stays in the client's history acts again on every
  request, because the set of processed hashes is new in each call
  (`control.rs:30`).
* In a split stream an intermediate piece may leave a block open, block
  indices may repeat, and a wide character that is cut hides the event it is
  in, or ends a stream that is not split.  To an OpenAI client a stream that is
  not split sends only the first of the chunks an event becomes
  (`interactions_handler.rs:1199`); the model has one item for all of them.
* The clean-up of one output deletes, by prefix of the name, files of another:
  starting the section `ollama` may delete the live file of `ollama-fast`
  (`diagnostics.rs:1260`).  Rotation numbers are written with three digits and
  sorted as text, so the thousandth of a day is deleted before the 101st
  (`NameBefore` has that order; no instance rotates so often).  Without an
  extension every rotated file is numbered 1 and replaces the last.
* `FlushPeriod`: the buffer is flushed only when the next line comes.
* A line of a stream that is too long ends it, and is reported as a success.
  A passed-on stream is reported when its status is known, whatever comes
  after.  A stream's last line without a line break is lost.
* `max_request_body` above 2 MiB has no effect, since axum's own limit for
  `Bytes` remains.
* The health map is keyed by the name of the section: of two endpoints of one
  section only one is shown.

### Bounds, and why they are enough

* `MCConversation`: seven histories over four messages, with appends,
  deletions, branches and a restart from a later message, under two system
  prompts; four interactions, one session, two seconds.  Four nodes are enough
  for a chain, a branch, a rewrite and a sibling; two seconds for the "newest"
  tie-break, equal seconds for the tie-break by id.  No two histories hold the
  same two messages in opposite orders: a client that *reorders* its history
  makes `NothingLost` fail, and no document promises otherwise.  None holds a
  message twice, because of the second half of `replay`.  `NothingMissing` and
  `ChainIsUpstreamChain` need neither, and are proved for any histories.
* `SplitAsk`: two identical requests of two pieces (one streamed), and one
  that continues them; six ids allow each piece to be sent again after a lost
  answer.  Different split requests of one session are left to `batch_name`.
  Hashes are all `Encodable` except in `hash_too_large`.
* `CleanAsk`: a system prompt in two parts, a stream that may continue it, and
  both control actions; saves run to their end, since one that fails, or is
  dropped when the client of clean-all goes, leaves on disk what clean-all
  removed, which the code accepts.  In `split` saves may fail or be dropped.
* `MaxFaults` bounds the faults of each kind; one of each kind, at any step,
  is enough to put a fault between any two steps of any request.
* `MaxNow` bounds the clock.  `Id` bounds the number of interactions: a run
  out of ids stops, which only ends behaviours early.  In `progress` five ids
  are enough for two requests of two pieces with one lost answer, so that
  `EveryRequestEnds` is not cut short.
* `MCWriter.cfg`: one output, five lines of one or two units, a channel of two,
  files and rotated files of two units, two days, one crash and one failure of
  the disk.  One line is larger than what is left of a file, two fill the
  channel, and five allow several rotations on a day, so that files are
  rotated, compressed, deleted and numbered anew on the second day.  One line
  is not an error, so that the filter of mode `Error` is used.  Several outputs
  in one directory are in the model, not in the run: their files would delete
  one another as described above.
* `MCSplitStream`: thirteen requests, five shapes of a stream (complete,
  without the end of a step, cut short, with an error, without a created
  event), two halves or one or five delivered at once.  Sizes are in tens of
  bytes; the requests were chosen so that content is cut in two and three, goes
  on an existing chain, the prompt goes with the first piece, is cut, or cannot
  be cut, and the section drops the tools or not.  `SseLimit` is
  reached by three pieces, `LineLimit` by events delivered together.
* `MCServer`: six kinds of configuration that are valid (with and without
  lists of models, defaults, keys, limits and dropped fields) and fourteen that are
  not; calls of both protocols with each kind of text, size, stream and
  headers; four pairs of modes; whole answers that succeed, are no JSON or no
  text, are neither a success nor an error (304), and fail with and without a
  matching rule; streams that are complete,
  cut, or without a beginning; dumps of three halves, lines of five.
  For the health: two probes over two endpoints (three sections, one endpoint
  of which is shared), kept for two ticks, a time-out of one; ages stop at
  four, which is beyond any age that is compared.

### Fairness

`InteractionsHandler!FairSpec` has weak fairness for the steps of each handler
as a whole and for start-up, and none for faults, disconnects, crashes or the
clock.  The code justifies it: the runtime polls every task that can go on;
every client has a total `.timeout(upstream_timeout)` (`lib.rs:45`), so each
call to the service ends with an answer or an error; and both polling loops end
after 30 seconds.  Fairness is on the disjunction of a handler's steps, so it
does not force one outcome of a call.

`DiagnosticsWriter!Spec` has weak fairness for each writer: it is a task of its
own that waits for nothing but its channel.  Compression, crashes, the calendar
and the arrival of lines have none.

The other specifications have no fairness and no liveness properties; that
nothing waits for ever in them is the absence of deadlock.

## 4. What is proved

Theorems hold for every value of the constants that satisfies the `ASSUME`s of
the modules: any set of requests and whatever they ask, any number of hashes,
ids, sessions and faults.

* `StoreV2Proofs`: every operation takes a store of the right type to one of
  the right type (one lemma per operation), also through a save and a load;
  and `find_frontier_OK`: a frontier names only interactions the store names,
  and a request that is not replayed has something left to send.
* `ConversationProofs`, in four parts, each over the one before:
  * `ConversationTypes`, and `ChainIsUpstream`: the prev_id of each stored node
    is the interaction the service continued from, and the prompt that begins a
    chain is the one its answers are given under.  `IInv` adds `StoreIsKnown`,
    that the store names no interaction the service does not have: without it
    the frontier could name one, and what the service continues from would be
    undefined.
  * `NothingIsMissing`, for any requests.  `CInv` adds `Linked`, that the index
    of children names a child of each parent, and `Delivered`, that a node's
    context is what it continued, followed by the end of its history, and has
    all of its messages.  What a walk has matched is then in the context of the
    node it stands on (`MatchedIsKnown`), since contexts only grow along a
    chain.
  * `NothingIsLost`: what a walk has matched is one piece of that context
    (`StillFollows`, `MatchedInOrder`).  It has the premise that there is an
    order in time that all requests keep, and `NothingLost` itself has the
    premise `HistoryIsUpstream`; the first cannot be left out (bounds, above),
    the second not either (`other_branch`).
  * `AppendingIsExact`, when no request says a thing twice.  `LInv` says of
    each request `t` of which all stored histories that have a message in
    common with it are initial parts (`Appended(t)`) that each of these nodes
    was delivered exactly, over a parent that is a shorter one of them
    (`Exact(t)`).  A walk is then within a node, at its end, or just past it
    (`AppendedStep`), the longest is never just past it, since another one
    went through the child (`AppendedFrom`), and so the frontier is the end of
    a node (`AppendedFrontier`).  `OtherChains` says that requests without a
    message of `t` stay on other chains, which is why what other clients do
    does not matter.

  The walks are a recursive function over the request.  The induction they need
  is done once, in `StoreV2Proofs` (`Walks`, `WalkFrom`), for any store: from
  the least element of a set of numbers (`LeastNumber`), and from `WalksExist`,
  that the function's definition has a solution at all.  `DeliveryProofs` uses
  the same lemmas for the store of the handler.
* `InteractionsHandlerProofs`, in two parts.  `HandlerTypes`: the inductive
  invariant adds
  `Progress(r)`: a request in progress is a query with a message left to send;
  where it stores or acknowledges, it has received an id; where it sends a
  piece, the piece is one of its batch.  One lemma per step, and lemmas for
  what steps share (`TaskStep`, `CommitStep`, `CreateStep`, `Combine`).
  Then `OneOwnerAlways`, `PublishedStays`, `CleanedForGood`.
  An interaction is first held by the handler that received it, then is a piece
  of a batch or the last of a client node.  A step is quiet (no interaction
  gets a new owner), a receipt (a new id from the service), an acknowledgement
  (handler to batch), a publication (handler or batch to node), a clean-up or a
  crash, and there is one lemma for each kind (`QuietStep`, `ReceiptStep`,
  `HandoverStep`, `PublishStep`, `CleanAllOInv`, `CrashOInv`), to which the
  lemmas for the actions are reduced.  The inductive invariant `OInv` joins
  `IInv`, `InteractionsHaveOneOwner` itself, and that what clean-all removed is
  an old interaction and in neither document nor memory.  It must speak of
  batches and handlers too: a client node would come back if a batch or a
  handler still had its interaction.  `PublishedStays` follows because what is
  published next is never yet a node.  `CleanedForGood` has the premise that
  `SaveMayFail` is FALSE: a `save_to_disk` that fails in clean-all, or is
  dropped with its handler, has no consequence, and a restart would then load
  what was removed.  Hashes that do
  not fit the document are no exception, since the store that clean-all leaves
  has none.

* `BatchProofs`: `ChainedBatches`, `WholeNodes`, `PiecesAdvance` and
  `OneBatchEach`.  The inductive invariant `BInv` adds to `OInv` that both the
  store and the document are `Sound`: the Acked pieces of a batch come first
  and are the chain the service has built, over interactions without an
  upstream node, and each client node is over a whole chain.  To keep this,
  it must know how far each batch at work has come: `InStep` ties the status of
  its pieces to where its handler is suspended, `Received` says that the
  interaction a handler holds is in no node, and no two handlers work on one
  batch.  What a method of the store does to batches and nodes is said once
  (`NewPieces`, `Created`, `Completed`, `UnackedChange`), with a lemma that it
  keeps a store `Sound` and one that a method of the code does just that; the
  lemmas for the steps rest on these.
* `DeliveryProofs`: `NothingLeftOut`, `AnswersCarryRequests` and
  `PublishedDelivered`: what a request says reaches the service.  One inductive
  invariant, `RInv(R, A)`, serves all three.  `R` relates a history to the
  context it has become and `A` a request to the context it is answered from;
  all that is asked of them is that `R` holds of nothing and is kept when the
  same messages are appended to both sides (`Keeps`).  `RInv` joins to `BInv`
  that `R` holds
  * of each client node and of each batch whose last piece is Acked, in the
    store and in the document (`StoreCarries`), since a restart may publish the
    latter;
  * of what a handler has sent so far, counted in messages although it is sent
    in pieces, some of which are parts of a system prompt and no messages
    (`SentSoFar`, `PieceReaches`);
  * and `A` of what a handler answers from (`TaskCarries`); it adds that the
    batch a handler works on is about its own request (`SameHistory`), and that
    the index of children names no interaction that is yet to be published
    (`IndexIsPast`), which is what keeps the walks of `find_frontier` on
    finished nodes while others are being made.

  `NextDelivers` shows that every step keeps `RInv(R, A)` if `find_frontier`
  leads each request to a context of which `R` holds already (`Routed`), and
  `Routed` is proved of `RInv` in turn, from what `StoreV2Proofs` knows of the
  walks:
  * for `R` and `A` "all messages of the one are in the other", of any store
    and any requests: this is `NothingLeftOut`;
  * for `R` equality and `A` "is how the other begins", where clients only
    append (`LinearAsks`).  The histories in the store which the request shares
    a message with are then initial parts of one another
    (`HistoriesChain`), the walk that matches most ends in the longest of them
    (`LongestHistory`, `HistoriesGrow`), and its context is that history and
    nothing else (`IsContextRoutes`).
* `DurabilityProofs`: `AnswersAreDurable` and `UndoneStaysUnpublished`.
  `DInv` adds `Mirror`, that the document is the store while the process runs,
  and `Answers`, that the node a handler will answer from is stored or was
  removed.  `UInv` adds that nothing *doomed* is used: an interaction is doomed
  from the moment a handler decides to undo it, and neither a client node, nor
  what a handler holds, nor a batch without a Failed piece has one
  (`Spared`).  That a batch which lost a piece keeps it is what stops a request
  that joined it, and the start-up, from publishing what is being cancelled.
* `DurabilityProofs` ends with `PromiseKept`, the refinement of
  `LogicalInteractions`: `UInv` and its successor are known of each step; one
  lemma for each kind of step shows the step it maps to (`QuietPromised`,
  `NewPromised`, `StorePromised`, `CompletePromised`, `CleanAllPromised`,
  `UndoPromised`, `CrashPromised`, `StartupPromised`), over lemmas that say
  what a handler can do to nodes and answers at all (`HandlerNodes`,
  `AnswersOnce`, `HandlerKeeps`).
* `ServerProofs`, in three parts.
  * `HealthIsRecentAlways`, for every configuration, number of probes, time to
    live and time-out.  The cache does not say when its probe began, only when
    it ended, so the inductive invariant `HInv` ties each status a probe has
    collected to the age of the probe (`ProbesAreRecent`), and the kept result
    to its age and one `CheckTimeout` (`CacheIsRecent`), which is what makes it
    harmless that a slow probe replaces a newer result.  `NowIsNow` links the
    history to the present.  It assumes that a result is kept for at least a
    tick and nothing of `MaxAge`.
  * `EgressIsTransformedAlways`.  The property speaks of the file as it is
    written, a handler of the route it was given, so the inductive invariant
    `Known` says by phase what links the two: from the load on, the
    configuration is that of a valid file; a handler has the route of the
    model (`Routed`); and what was sent is one of the bodies the handlers can
    build from it, with the forwarded headers (`HasSent`).  The rest is about
    the operators: which section a model has (`RoutedIs`), and what limits,
    dropped fields and translations do to a body, in the order of the code
    (`PassedOnIs`, `ForOpenaiIs`, `ForAnthropicIs`).
  * `ReportedOnceAlways`, `DumpsTellTheTruthAlways` and, with `HInv`,
    `TypeOKAlways`.  Both properties look at the lines when a call is over, and
    what a stream will leave then depends on bytes that have not arrived.
    `PInv` therefore joins to `Known`
    * what a guard holds in each phase (`Guarded`): nothing before a request is
      sent, both requests while an answer is awaited, nothing again once it has
      reported;
    * how much of a stream has arrived (`Streaming`): there is a number of
      bytes such that the transport has the others, and what is captured is the
      first of them, up to the limit (`Arrived`, `Kept`);
    * the sizes of the buffers (`Sizes`);
    * the form of what was reported (`Told`): up to three dumps, the line of
      statistics, and possibly the dump of a relayed stream after it, since a
      relayed stream reports when it begins and dumps when it ends or is
      dropped.  `ToldIs` shows that lines of this form are what the two
      properties ask for.

    There is a lemma for each action, over one for each way to end: refused,
    finished, finished with an error, aborted, dropped.

* `WriterProofs`: `FilesStayWithinLimit` and `OutputTypesAlways`, for any
  number of outputs in one directory, any limits, and any number of crashes and
  failures.  A writer counts lines that are still in its buffer, and the file
  only gets them later, so what a file holds says nothing of the count.  The
  inductive invariant `WInv` has instead that, while a writer has its file, the
  count is the size of the file's lines followed by the buffer's, and that all of
  these fit (`WriterOK`); the limit of the file follows, since it holds the
  first of them.  A clean-up of one output may take the file of another away;
  then nothing is claimed of its count, and nothing it counts reaches a name.
  The size of a file is a fold, which the library defines by recursion over sets:
  that it grows by each line and is a number (`BytesAppend`, `BytesPrefix`) is
  proved from there, by induction in the form of a least counterexample
  (`LeastNumber`, `UpTo`), because the library's induction theorems cannot be
  used here.  It assumes `OutputsAssumption`, that each output has a file of its
  own.

### Assumptions on the constants of `Server`

`ProxyAssumption` says that the calls and files are of the types the code reads
them into (a limit is a number or not set, a mode is one of the three), and
that an answer has a final status and a sequence of events.  Chunks, limits and
files are otherwise any, also files that are refused.  `HealthAssumption` says
that times are numbers and that a result is kept for at least a tick.

### Premises of the theorems about the handler

* `NamesAreFree`, that no batch is created under the name of one that somebody
  works on, and `NamesAreUnused`, that none is under the name of one that is
  in flight.  They exclude that two batches share a name, which is the finding
  `batch_name`: without them `ChainedBatches`, `WholeNodes` and `PiecesAdvance`
  are false, and the proofs in `DurabilityProofs` rest on the first two.  The
  premises are formulas about behaviours; `OneSplitEach` shows where `NamesAreFree` holds by itself: when no session has two requests
  that are split.  `OneBatchEach` needs neither.
* `~SaveMayFail`: saves run to their end: `save_to_disk` returns no error, and no
  client goes while its handler awaits one.  The change of memory and the save
  are one step, and a save that is dropped is a save that fails followed by
  `ClientGone`, so the premise excludes both.  When a save fails the code goes
  on, so that a crash may lose what a client was told, or bring back what
  clean-all has deleted at the service; when it is dropped nobody was told, but
  clean-all's removal is lost in the same way.
* `HashesFit`: hashes are at most `TomlIntegerMax`, else `hash_too_large`
  makes all saves fail.  In the code it is true of half of all hashes.

`OneBatchEach` has no premise: what it excepts, the batches made where a system
prompt is cut, is in the property (divergences, above), and it holds of the
other requests whatever these do.

Instances meet them: every behaviour of the instances of `split` and `clean`
satisfies `NamesAreFree` and `NamesAreUnused`, the requests of both satisfy
`LinearAsks`, and in `clean` saves run to their end and hashes fit.

### What is only model-checked

* Liveness: `EveryRequestEnds`, `ChannelsDrain`.
* `Packing` and `SplitStream` use recursive operators and have no theorems.
* `StreamIsTranslated` of `Proxy`: which events a client of a translated stream
  sees is a filter over the events of the stream, and that `DiagnosticsWriter`
  implements `OrderedLog`: its log is sorted and flattened.  The library
  defines these by recursion, and what they compute for every sequence needs an
  induction over data.

## 5. What is not modelled

* The text of messages: roles, tools, reasoning, images, generation settings
  and the JSON each becomes.  The functions that convert them keep no state;
  they take one value and return one.  The order, number and ids of what a
  client reads are modelled.
* The translation of a stored interaction for a replay, for the same reason;
  that it is fetched, and may fail, is modelled.
* The scan for control messages (`control.rs`), a pure function of the messages
  of one request; its two actions are modelled.
* The temporary file of a save: a save is one step with the change of memory,
  and succeeds or fails; one that is dropped halfway counts as failed.  That a
  dropped save may go on in the background beside the next one is not modelled.
* The list of models, the headers of an answer, the formatting of dumps and the
  masking of secrets in them.
* Listening, TLS, proxies and graceful shutdown: I/O of the framework.
* The build script, which runs at compile time only.

## 6. Plan

1. *(done)* `StoreV2`, `Conversation`, `InteractionsHandler`, their runs, type
   theorems, and `ChainIsUpstream`.
2. *(done)* Proofs about the handler: an interaction has one owner; from it
   `PublishedNeverChanges`, and `CleanedStaysRemoved` when saves run to their end.
3. *(done)* `Packing`, `EventStream`, `SplitStream`.
4. *(done)* `DiagnosticsWriter` and its refinement of `OrderedLog`.
5. *(done)* `Configuration`, `RequestGuard`, `Proxy`, `Health`, `Server`, and
   the proof about the health.
6. *(done)* `UndoneIsNotPublished`, `AnsweredIsDurable`, and the properties of
   batches and whole nodes, as theorems.
7. *(done)* `LogicalInteractions`: what the store promises its clients, and
   that `InteractionsHandler` implements it, by TLC and by proof.
8. *(done)* All that `conversation` checks, as theorems.
9. *(done)* `AnswerCarriesRequest` and `PublishedIsDelivered` as theorems.
10. *(done)* The types of `DiagnosticsWriter` and `FilesWithinLimit` as theorems.
11. *(done)* What `Proxy` promises, as theorems: `EgressIsTransformed`,
   `ReportedOnce`, `DumpsTellTheTruth` and the types.
12. `Persistence`: the temporary file and rename of two overlapping saves.
