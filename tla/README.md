# A verification project for the Knowledge Store

TLA+ models, TLC runs and TLAPS proofs of the core of the Knowledge Store: a
service that keeps every document in three databases at once and has to keep
them in agreement without a distributed transaction.

## 1. The system

| Component | Source | State it keeps | What it does |
|---|---|---|---|
| Saga coordinator and steps | `services/saga/*.py` | none beyond one call (a list of executed steps) | runs create, delete and update sagas over the three stores, compensates on failure |
| Stores | `repositories/*`, `infrastructure/database/*` | rows (PostgreSQL), vectors (Milvus), nodes and edges (Neo4j) | one call, one statement or transaction each |
| Document service | `services/document_service.py`, `api/routers/documents.py` | none | checks access, cuts a text into chunks, runs a saga, grants the owner, sends an event |
| Access control | `services/acl_service.py` | rows of `acl_entries` | permission levels, grant, revoke, the documents a user may see |
| Search service | `services/search_service.py`, `api/routers/search.py` | none | dense, sparse, graph and fused search under an access filter |
| Event consumer | `infrastructure/messaging/consumer.py`, `kafka.py` | flags, the current Kafka consumer, its positions | routes messages to handlers, commits by hand |
| Sync service | `services/sync_service.py` | one flag | event handlers that rewrite Milvus and Neo4j from PostgreSQL |
| Audit service | `services/audit_service.py` | a bounded buffer, a periodic task | collects log entries and writes them in batches |
| Start and shutdown | `main.py`, `api/dependencies.py` | the clients and services | connects everything, closes everything |
| Set-up scripts | `scripts/init_*.py` | the schemas of the three stores | creates, resets and verifies them |
| Schemas, middleware, embedding, configuration, docker | `api/`, `infrastructure/embedding/`, `config.py`, `docker/` | none | input and output around the above |

**How they interact.** A request reaches DocumentService, which calls the
coordinator; every step of a saga awaits one or more repository calls. After
the saga the service grants the owner access and sends a Kafka event; failures
of both are swallowed. The event consumer, in whatever process runs it, gives
such events to the handlers of SyncService, which read PostgreSQL again and
rewrite the other two stores while further sagas run. Searches read the access
table and then the stores. The audit service's buffer is drained into
PostgreSQL by a periodic task and by one task for every full batch. The
application is one asyncio process: code interleaves at its awaits and nowhere
else, which is what the actions of the models are cut along. Before it can
start, the set-up scripts must have left a collection in Milvus that loads.

**What is hard.** Nothing orders two requests on one document. A call may raise
after it took effect. A saga is not persisted, so a crash leaves it where it
stands. Compensations may fail themselves. An event may come twice, late, or
never. What a request has read, a permission or a row, may be gone when it is
used. Flushes of the audit buffer overlap. `stop()` and `start()` race the
loops they control, and the commit of the consumer is not tied to the message
that was handled. Scripts are interrupted half-way and run again. `hazards` in
`PROJECT.json` lists each at its line.

**What makes each part correct.**

- Sagas: search data belongs to the row, success is complete, a failure stays in
  the store that failed, a delete is final.
- Sync: a handler can be repeated and reordered beside any saga without losing
  vectors, and a store it reports as synced has what its calls are to bring about.
- Requests: nobody is shown a document they were never granted, owners keep what
  they were granted, an update undoes another only in a way that is known, a
  deletion event is final, every request is answered.
- Chunks: every character is in one, none is too long, the loop ends.
- Search: hits were visible, who may see nothing gets nothing (which does not
  hold, section 3), the fusion respects the lists, an answer comes.
- Consumer: at-least-once, in order, forward commits, no message forgotten.
- Audit: no log is lost while there is room, none is written twice, order is kept.
- Deployment: success of a script means a usable store; a start and a closing end.

## 2. Modules

| Module | Models | Uses |
|---|---|---|
| `TriStore` | one document in the three stores; one operator per repository call | |
| `SagaCoordinator` | the three sagas, call by call, failures, compensation, crash | `TriStore` |
| `SagaProperties` | what sagas promise | `SagaCoordinator` |
| `DocumentContract` | abstract: one atomic outcome per request | |
| `SagaRefinement` | the mapping from sagas to the contract | both |
| `SyncHandlers` | the two event handlers beside the sagas | `SagaProperties` |
| `AccessControl` | the access table and the queries on it | |
| `DocumentRequests` | requests of the document API, await by await | `AccessControl` |
| `ChunkText` | the loop that cuts a text | |
| `HybridSearch` | a search request, its branches, rank fusion | `AccessControl` |
| `AuditBuffer` | buffer, overlapping flushes, failing writes, `stop()` | |
| `EventConsumer` | `start`, `stop`, `consume`, handlers, commit, rebalance | |
| `SetUp` | `init_postgres`, `init_milvus`, `init_neo4j`, `init_all` | |
| `Lifespan` | start, serving and shutdown of the application | |
| `Deployment` | scripts and application by turns | `SetUp`, `Lifespan` |
| `SagaCoordinator_proofs` | theorems: the sagas, overlapping and one after the other, and the refinement | `SagaProperties`, `SagaRefinement` |
| `SyncHandlers_proofs` | theorems: the handlers beside the sagas | `SyncHandlers`, `SagaCoordinator_proofs` |
| `DocumentRequests_proofs` | theorems: requests of the document API | `DocumentRequests` |
| `ChunkText_proofs` | theorems: the chunks of any text | `ChunkText` |
| `HybridSearch_proofs` | theorems: a search request | `HybridSearch` |
| `AuditBuffer_proofs` | theorems: the audit buffer | `AuditBuffer` |
| `EventConsumer_proofs` | theorems: the consumer | `EventConsumer` |
| `Deployment_proofs` | theorems: set-up scripts and application | `Deployment` |
| `MC*` | definitions of constants and reductions for the TLC instances | |

Definitions named "Wrong: ..." in a comment are mutated forms of the definition
that follows them, a dropped guard or a swapped order a programmer could have
written. They take no part in the specifications; putting one in the place of
its original must make the property named in `PROJECT.json` fail, which shows
that the property depends on that line of the code.

### 2.1 TriStore and SagaCoordinator

The state is that of one `doc_uuid`; all calls of a saga name it and touch no
other document. A request's content is identified with the saga that writes it:
chunk uuids are fresh in every request, so each store holds a *set of sagas*
(`pgChunks`, `vectors`, `chunkNodes`, `contains`) and `pgDoc` says whose content
the row has. `SearchNeverStale` and its kind then are plain set inclusions.

Control is kept exactly: `Plan` and `Calls` are the step lists and the calls of
each `execute()`; `Execute`, `Refuse`, `Raise`, `NoEmbeddings` and
`EncodeRaises` are the ways a call or a step can end; `StepFails` starts the
reverse walk, `Compensate` and `CompensationRaises` are its two outcomes per
step; `Crash` stops all sagas at once. The update saga's three phases give
`UndoTo`: a failure in the last phase compensates that phase only.

- A call that raises has either not happened or happened completely. Both are
  outcomes of `Raise`. Milvus insert and delete call `flush` after the operation,
  so "happened and raised" occurs even on a perfect network.
- `Refused` is PostgreSQL's foreign key: chunks of a row that is gone.
- `ConcretePg`. The steps are written against `PostgresRepositoryProtocol`. The
  class `PostgresRepository` does something else with the objects passed to it
  (it lets the database draw the uuid and reads attributes they lack), so that
  on it every create fails. Both are modelled; the runs use the protocol, the
  theorems cover both.
- A request has at least one chunk: DocumentService raises on "No chunks
  created". The steps' reads before a delete fill a backup no running
  compensation uses; they are not modelled, except that a read that raises
  behaves like a first call that raises before its effect.

### 2.2 DocumentContract

The promise to callers whose requests come one after the other: success leaves
exactly the new content (or nothing, for a delete) in the rows, the vectors, and
the graph that is reached from the document node; a failure leaves every store
*that did not itself raise* in one of two whole states, given by `LeftBy`.
`SagaRefinement` maps the coordinator to it with a view of the stores that is
recorded when a request ends. `ImplementsContract` is the contract's specification
as a property of the coordinator.

The view of Neo4j is the node and the chunks its CONTAINS edges lead to. Chunk nodes
without an edge are outside it, as the code can leave them: `delete_document_graph`
finds chunks by their edges only. `SuccessIsComplete` therefore has a part of its
own about them, `NoOrphans`: after a success every Chunk node hangs on the document
unless some request raised in Neo4j or was interrupted. That they stay when one
did, also after a delete that succeeds, is among the remarks of section 3.

Whether requests have overlapped is history: `overlapped` turns true when a request
starts while another is under way, and stays so. The properties of requests that
come one after the other, and the contract, are about the time before that.

### 2.3 AuditBuffer

A log is its number, so `buffer`, `taken[f]` (what flush `f` took) and `stored`
are sequences of numbers and order can be compared. The sections under the lock
await nothing and are single actions; a flush is `Take`, then `WriteReturns` or
`WriteRaises`. The flushers are the periodic task, the tasks that a full batch
starts (`Background`), and `stop()`.

### 2.4 EventConsumer

SyncService and EventConsumer together, over a Kafka consumer with positions.
Every call of `SyncService.start()` has a loop of its own, because an earlier
loop may outlive `stop()`. `status` is `KafkaConsumer._consumer`, including an
object whose connect failed (`broken`) and one being closed. Whether the caller
waits for one `start()` to return before the next is the constant `Overlap`.
aiokafka itself is outside the repository: its part (iteration ends on a closed
consumer, a rebalance returns to the committed offsets) is marked external.

### 2.5 SyncHandlers

`SagaCoordinator` and one handler, side by side: `Beside(A)` is a step of the
service that runs the sagas, the other actions are the handler's. `topic` is the
set of sagas whose event could be sent; `Deliver` takes any of them, any number
of times, which covers repetition and reordering. `HandlerCalls` lists the calls
of a handler, `ReadChunks` is the read whose result (`read`) the calls use
later, `HandlerRaises` goes on with the other store, and `Report` says which of
the two result events is sent, if any. `Synced` says what the calls of a handler are to
bring about in a store: after an update the vectors of every chunk row, the document
node, a Chunk node for every chunk row and no edge to any other; after a delete no
document node and no edge. It promises neither the edges after an update, of which
the handler makes none, nor anything of Milvus after a delete, although a docstring
does: that is the property of the run `sync_delete`. `SyncCrash` stops the handler
between any two calls. `mixed` and `syncRaised` are history.

The events are taken to carry the `type` that the consumer routes by. The ones
DocumentService sends do not (section 3).

### 2.6 AccessControl and DocumentRequests

`AccessControl` is the table as a set of entries, and one operator per query on
it. `Sufficient` is the SQL of `check_access`, `Includes` the hierarchy of the
service, and they differ ("delete" stands alone in the SQL); the property
`AnswersOnlyToGranted` is stated with the hierarchy and checked of the SQL.

`DocumentRequests` has one action per await of create, list, get, update and
delete, the router's status codes, and grants and revocations at any time. A
saga is three actions (`SagaWrites`, `SagaSucceeds`, `SagaFails`): what the
coordinator leaves in PostgreSQL. That is sound because the service reads no
other store. A field of a row holds the request that wrote it. `lastSet` and
`everHad` are history.

### 2.7 ChunkText

`_chunk_text`, one step per turn of its loop, over texts that are sequences of
characters. `Kept` and `Normalised` say what splitting at white space and
joining again keeps, `EndsAt` where a chunk ends (separators are tried in order,
the last occurrence counts, and only if it is further than an overlap away),
`NextStart` where the next begins.

### 2.8 HybridSearch

`branch[t]` is the progress of each search, `filter[t]` the documents it asks
its store for, `hits[t]` the list it came back with. The searches read the
access table at moments of their own. Stores answer with any lists over the
documents asked for. The fusion is exact: `Scale` makes every `1 / (k + rank)` a
whole number, `Merges` is the set of answers the code may give, with the order of
equal scores that a stable sort leaves, and either order where a sum of three
floats could go either way. `could` and `blind` are history: the documents the user
could see since the request came, and whether there were none at some moment.
`HitsWereVisible` is about users with `~blind`; `HitsNeedAccess` says the same of
every user and does not hold.

### 2.9 SetUp, Lifespan and Deployment

A script is the list of its calls (`Plan`); each may raise, and the script may be
interrupted before each. `init_all` queues scripts and goes on after one that
failed. `Lifespan` connects the four clients in order, makes the services, and
closes the clients in reverse, also when a client or a service could not be made;
`classes` says which client classes can be awaited and closed as
`dependencies.py` does it. Of the classes in `src/infrastructure` Milvus has no
awaitable `connect`, Milvus and PostgreSQL no `close`; the run has those and
classes that have both, without which no start would get past Milvus. What an
orderly end leaves open is in `open`, and no property is about it: with the classes
as written only PostgreSQL and Milvus are ever open, and neither is ever closed.
`Deployment` puts the scripts and the application in one specification; they meet in
`Loads`, the condition for Milvus to load the collection.

## 3. Runs

Every passing run finishes. Deadlock is not checked because every model may stop
for good: the requests, logs and starts are bounded, and a system without
requests rests.

| Run | Bounds | Shows |
|---|---|---|
| `sagas` | 3 sagas, one after the other or overlapping, every store faulty, crashes | type correctness; as long as none overlap `SearchNeverStale`, `PostgresWhole`, `SuccessIsComplete`, `CreateFailureConfined`, `FailedDeleteCanBeRetried`, and the refinement `ImplementsContract`; however they overlap `UpdatesKeepDocumentSearchable`, `DeletedStaysDeleted`, `NothingLeftUndone` |
| `sync` | 3 sagas one after the other, syncs between their calls, Milvus and Neo4j faulty, crashes of the sync service, fair | `SyncKeepsVectors`, `ReportIsTrue`, `SyncEnds`, `SagasEnd` |
| `requests` | 2 requests of any kind, 2 documents (one from before), 2 users, 1 group, pages of 1 at offsets 0 and 1, any call raises, fair | type correctness, `AnswersOnlyToGranted`, `OwnerKeepsDocument`, `LostUpdateOnlyOfTitle`, `DeletedEventIsFinal`, `RequestsAnswered` |
| `chunker` | every text of up to 6 characters over 4 symbols, chunks of 2 and 4, overlaps 0, 1, 2, 4, 5, fair | `AllCovered`, `Sized`, `OnlyTheTailRepeats`, `Terminates` |
| `search` | 1 request of any kind, 3 chunks of 2 documents, the best 2, k = 60, 2 entries that come and go, any call raises, fair | `HitsWereVisible`, `FusionRespectsLists`, `SearchAnswered` |
| `audit_overlap` | 5 logs, room for 3, 3 flushers and `stop()`, 2 failing writes, fair | type correctness (the capacity), `InOnePlace`, `StoredInOrder`, `LostOnlyWhenFull`, `NothingStuck` |
| `consumer_serial` | 2 partitions of 2 messages, 2 handlers, 2 starts, 1 rebalance, fair | type correctness, `AtLeastOnce`, `FirstInOrder`, `CommitsForward`, `EventuallyTried` |
| `deployment` | 5 indexes, 3 statements, the classes as written and whole ones, fair | `SuccessMeansUsable`, `LifespanEnds` |

Why these bounds are enough to be interesting.

- Three sagas are a create and two more of any kind, so every pair of kinds
  overlaps on a document that exists, and a third request meets what two failed
  ones left behind. The syncs beside them are not bounded: any event that was
  sent comes again at any time.
- Two requests meet every pair of operations on one document, with the document
  that was there before and with one that the first request creates. A page of
  one row is the least that leaves rows out. One group and one entry that comes
  and goes put a grant or a revocation between any two calls.
- Six characters hold three chunks of the smaller size, or two and a tail of the
  larger, a separator of two characters at every place, and runs of white space;
  the overlaps lie below, at and above both sizes.
- With three chunks and the best two of them the cut can separate chunks of equal
  score, and every branch may prefer another chunk. The `min_score` of the run
  lies between the score of one list and that of two.
- Three flushers are the least with which a flush fails while another has taken
  newer logs and a third finds the buffer refilled; five logs in a buffer of
  three make it overflow both when a log is added and when logs are put back.
- Two messages per partition are the least with which a commit can pass one
  message by handling another, two partitions the least with which it can pass a
  message of another partition, and two handlers the least with which a message
  can be half handled.
- Five indexes are those of the script, two of vectors and three of fields, and
  leave room for an interruption in each part.

**Reductions.** `SagaSymmetry` declares sagas interchangeable where no liveness
is checked. `OrderedSpec` of `MCSync` and `MCDocuments` gets the same reduction for
runs with liveness by letting interchangeable requests come in one order only; that
of `MCSync` also has them come one after the other.
`ReducedSpec` of `MCSearch` has two interchangeable chunks in one order in the dense
list, lets a store answer at once (nothing another step reads depends on it), and
leaves out changes of access that no search can see (they could only make `could`
larger or `blind` true).

History variables (`raised`, `mixed`, `syncRaised`, `lastSet`, `everHad`, `could`,
`blind`, `done`, the `overlapped` of the sagas and of `AuditBuffer`, and its `doubtful`)
record what happened so that properties can say exactly when they hold; no action's
guard reads them.

### Disagreements between code and text

Each is a run whose single property states what a comment, docstring, test or
document says, and which TLC refutes. `findings` has the quotations and the lines.

| Run | Bounds | What the code does |
|---|---|---|
| `sync_delete` | 3 sagas one after the other, nothing raises | `SyncCompletesDelete`: the handler of an update overlaps the delete and puts vectors back; the handler of the delete, which runs alone, reports that it is complete and they remain |
| `search_no_access` | 1 request, a user who never has access to anything, nothing raises | `HitsNeedAccess`: the answer has hits |
| `audit_stop` | 2 logs, no failing write | `StopFlushesRemaining`: `stop()` loses the logs of the flush it cancels |
| `consumer_restart` | 1 partition, 3 messages, 3 starts, any may overlap | a commit covers a message another loop still handles |

Seen on the way, without a run of their own:

- Sagas: `delete_document_graph` is to "delete document and all related
  nodes/relationships" and finds Chunk nodes by their edges alone, so that those of
  an update whose `create_contains_edges` raised stay after a delete that succeeds,
  and no later call reaches them; overlapping updates all succeed and leave vectors
  of a content the row does not have; a delete during the create leaves vectors and graph; an update
  that fails in its last phase reports only that phase as compensated;
  compensations of the delete steps restore nothing and count as done
  (`steps.py:432`); on the class `PostgresRepository` a create fails in
  `create_chunks` and leaves a row under a uuid nobody knows, and `insert_chunks`
  supplies neither `version_id`, `chunk_no` nor `owner_org` of the schema.
- Sync: the handler of an update deletes the graph the saga has just completed and
  makes its nodes again, but no CONTAINS edge (`sync_service.py:266`), so that no
  chunk is reached from the document after a report of `sync.completed`;
  `SyncService` is made nowhere in the application; event payloads lack the
  `type` its consumer routes by (`document_service.py:801`); `max_retries` is read
  nowhere.
- Requests: `metadata` of an update is accepted and stored nowhere; `total` of a
  list is the length of the page, and filters after `limit` make a page short
  while more could be shown; an update always cuts with 500 and 50, whatever the
  create was asked for; `get_next_version_no` always gives 1, as nothing stores
  versions; a create whose owner's grant fails leaves a document nobody can
  administer; `AclService` calls methods `PostgresRepository` does not have;
  `expires_at` of an entry is never looked at.
- Search: weights change no order, although `search_service.py:977` says they
  adjust ranks; `min_score`, from 0 to 1, is compared with fused scores below
  0.05; `Neo4jRepository` has neither `search_by_keyword` nor `search_by_entity`, so
  that graph searches raise.
- Audit: a full buffer may drop newer logs and keep older ones when two flushes
  fail one after the other (`audit_service.py:195-199`); the repository it is given
  has no `create_audit_logs_batch`; nothing in the application adds an entry.
- Consumer: "Commit after successful processing" (`consumer.py:200`) also commits a
  message whose handler raised; `stop()` returns while a handler runs; a `stop()`
  during the connect is lost; a connect that fails once leaves a consumer object
  that every later `start()` takes for a connected one (`kafka.py:243-255`).
- Start: with the client classes of the repository the start-up always ends at
  Milvus, whose `connect` is awaited and is no coroutine; the Milvus alias stays when
  loading the collection raises; `close_clients`, which "properly closes all
  connections", calls `close()` on clients of PostgreSQL and Milvus that have only
  `disconnect()`, logs the error and leaves them open. Nothing checks the tables or
  the constraints of the graph at start.
- Scripts: `init_milvus` makes all indexes or, when there is one, none, so that the
  indexes of fields an interruption left out are never made; its functional
  test leaves its row when the search finds nothing, the one of `init_neo4j` its
  node when it returns early; a `--reset` given up in its three seconds exits
  with 0.

### Fairness

- `SagaCoordinator`: weak fairness of each saga. The event loop resumes every
  coroutine whose call has answered, and the drivers' timeouts make every call
  answer or raise.
- `SyncHandlers`: the same for sagas and for the handler once it has an event.
  Nothing makes an event be sent or come.
- `DocumentRequests` and `HybridSearch`: weak fairness of each request, or of each
  branch and of the answer, for the same reason. Nothing makes requests come,
  grants change, or a call succeed.
- `ChunkText`: the loop awaits nothing, so it runs.
- `AuditBuffer`: weak fairness of each flusher's own steps. A sleep ends, a write
  answers. Nothing makes a write succeed except the bound on failures, and
  `NothingStuck` is about leaving memory, by being stored or given up.
- `EventConsumer`: weak fairness of each loop, of a connect, of a close, and of
  `start()`. The last is an assumption about whoever runs the service, as the
  repository wires SyncService to nothing; without it a stopped service may stay
  stopped. Stops and crashes happen only while a further start is left.
- `Deployment`: weak fairness of the application's own steps. Operators need do
  nothing.

## 4. Proofs

Every safety property and every action property that a passing run checks is also
a theorem, for every value of the constants that satisfies the assumptions below;
so is the refinement. What a run shows on a small instance the theorem says of any
number of sagas, requests, flushes, messages or indexes.

| Theorem | Statement | Module |
|---|---|---|
| `TypeCorrect` | `Spec => []TypeOK` | `SagaCoordinator_proofs` |
| `NothingIsLeftUndone` | `Spec => []NothingLeftUndone` | same |
| `DeletedForGood` | `Spec => DeletedStaysDeleted` | same |
| `SearchableAfterUpdates` | `Spec => []UpdatesKeepDocumentSearchable` | same |
| `SearchStaysFresh` | `Spec => []SearchNeverStale` | same |
| `PostgresStaysWhole` | `Spec => []PostgresWhole` | same |
| `SuccessLeavesAll` | `Spec => SuccessIsComplete` | same |
| `CreateFailsConfined` | `Spec => CreateFailureConfined` | same |
| `FailedDeleteKeepsRow` | `Spec => FailedDeleteCanBeRetried` | same |
| `SagasAreAtomic` | `HSpec => ImplementsContract` | same |
| `ReportsAreTrue` | `SyncSpec => ReportIsTrue` | `SyncHandlers_proofs` |
| `SyncLosesNothing` | `SyncSpec => []SyncKeepsVectors` | same |
| `TypeCorrect` | `Spec => []TypeOK` | `DocumentRequests_proofs` |
| `DeletedIsGone` | `Spec => []DeletedEventIsFinal` | same |
| `ShownToGranted` | `Spec => []AnswersOnlyToGranted` | same |
| `OnlyTitlesAreLost` | `Spec => []LostUpdateOnlyOfTitle` | same |
| `OwnersKeep` | `Spec /\ [][NoOwnerRevoked]_vars => []OwnerKeepsDocument` | same |
| `TypeCorrect` | `Spec => []TypeOK` | `ChunkText_proofs` |
| `NothingIsLeftOut` | `Spec => []AllCovered` | same |
| `ChunksAreSized` | `Spec => []Sized` | same |
| `ChunksAdvance` | `Spec => []OnlyTheTailRepeats` | same |
| `HitsVisible` | `Spec => []HitsWereVisible` | `HybridSearch_proofs` |
| `FusionRespects` | `Spec => []FusionRespectsLists` | same |
| `TypeCorrect` | `Spec => []TypeOK` | `AuditBuffer_proofs` |
| `EachInOnePlace` | `Spec => []InOnePlace` | same |
| `LostForRoomOnly` | `Spec => LostOnlyWhenFull` | same |
| `OrderIsKept` | `Spec => []StoredInOrder` | same |
| `TypeCorrect` | `Spec => []TypeOK` | `EventConsumer_proofs` |
| `CommitsGoForward` | `Spec => CommitsForward` | same |
| `DeliveredAtLeastOnce` | `~Overlap /\ Spec => []AtLeastOnce` | same |
| `FirstDeliveriesInOrder` | `~Overlap /\ Spec => FirstInOrder` | same |
| `SuccessIsUsable` | `Spec => []SuccessMeansUsable` | `Deployment_proofs` |

A theorem that says nothing of a state says so in the property it names, where the
run reads it too: `SearchNeverStale` and what follows it in the table up to
`SagasAreAtomic` speak of requests that have not overlapped (`~overlapped`),
`StoredInOrder` of flushes that have not, and so on. Hypotheses outside a property are
written in the statement:
`~Overlap` (the run `consumer_restart` refutes the property without it) and
`NoOwnerRevoked`: nobody revokes the entry of an owner, as the
run `requests` has it, which shares with a group only.

### Assumptions

All are named `ASSUME`s of the modules; TLC evaluates each in the runs that extend
the module.

| Assumption | What it says |
|---|---|
| `TriStoreAssumption`, `SagaAssumption` | no saga is `NoDoc`; the parameters have their types |
| `SyncAssumption` | an event of metadata, and none, are no sagas |
| `AccessAssumption`, `RequestsAssumption` | each user has a set of groups; the table of drawn documents is finite and each has an owner; offsets and limits are numbers |
| `ChunkAssumption` | sizes are positive, no separator is empty |
| `SearchAssumption`, `KindsAssumption` | the collection is finite, `TopK` positive; `Scale` is a common multiple of the denominators in a fused score, which exists for every `RrfK` and `TopK`; `NoFilter` is no set of documents; requests are of the forms the service offers |
| `AuditAssumption` | positive batch and buffer, three kinds of flushers that differ |
| `ConsumerAssumption` | finitely many calls of `start()`, at least one handler |
| `SetUpAssumption`, `LifespanAssumption` | at least two indexes and a statement; `NoScript` is no script; classes say what can be awaited and closed |

### Sagas that overlap

`TypeOK` alone does not survive a step: that `at` and `call` stay within the plan
needs to know which places a saga of each kind can be at. `PlaceOf` says so
(a saga being executed is at a step and call of its plan, a compensating one has
an `undo` between `UndoTo` and the failed step), and `Places` with `TypeOK` is the
inductive invariant. `ExecuteMoves` then spells out, once, each call with the place
it leaves and the one it leads to; the later proofs split on it.

- `NothingIsLeftUndone`. While a saga compensates, the steps between `undo` and the
  failed one have been tried (`UndoneInv`); the property is what is left of that
  when the walk is over.
- `DeletedForGood`. There is one create at most (`OneCreate`: the uuid is fresh),
  only its first call makes a row, and that call is behind it once a row was
  there; chunk rows need a row (`NoRowNoChunks`, the foreign key).
- `SearchableAfterUpdates`. As long as nothing failed and nobody deletes (`Calm`),
  what a store lacks of the document some saga in flight is about to write
  (`Coming`, with `RowComing`, `ChunksComing` and writers for vectors and node). A
  call that empties a store belongs to a saga that is then itself such a writer,
  because the plan of an update writes what it deleted.

### Requests one after the other

`SearchNeverStale` is not inductive: `insert_chunks` keeps the vectors fresh only
because the row already is this saga's, `delete_document` only because graph and
vectors went before. `FreshInv` adds what each place relies on:

1. `OneAtATime`: while requests have not overlapped only one saga runs, so what a
   saga has established stays while it runs.
2. `StoresFresh`: the property, without the implication, plus two facts of the
   stores (a row was made by a create, edges hang on a document node).
3. `OnTrack(s)`, for each kind and place of a saga: which stores are already
   empty, and whose content the row is.

The proof is one lemma about repository calls (`EffectFresh`: a call that is
`Safe` keeps `StoresFresh`), one that a saga on track makes only safe calls, and
one per action that it stays on track.

What success and failure leave needs more: `SerialInv` says of every place what
the saga has built so far (`SoFar`), what it owes a store when it is undone
(`Owes`, `CreateUndoes`), that row and chunk rows fit but for the middle of a step
(`WholeInv`), and that before a create nothing was requested and nothing is stored
(`FirstCreates`). `TiedInv` says that unless a request raised in Neo4j or was
interrupted every Chunk node has its edge, or will get it from the next call of the
saga that made it (`Waits`): that is the part of `SuccessLeavesAll` about nodes no
delete finds. `raised` only grows, so that an exception once excused in a store stays
excused. `OneByOne` puts the two invariants under `~overlapped`: a step that leaves
requests apart starts from a state in which they were (`StaysOverlapped`). The four
theorems on endings then read off the place a saga ends at (`OwnEnd`).

**Refinement.** `SagasAreAtomic` is step simulation for `HSpec`, the coordinator
with the history variable `before`, which keeps the three stores as they were when
the last request ended. `HistoryInv` says that `before` is the present view while
nothing is in flight, and else, for the saga in flight (`SameInv`), which stores
still hold what they held before and which have `Settled` in a state `LeftBy`
allows: a step of the reverse walk settles one store or leaves one as it was.
`InitContract` maps the initial states; `NextContract` maps every step: a start
to `Begin`, a call that raises in a saga that goes on to `Fault`, the step that ends
a saga to `Succeed` or `Fail`, a crash to `Stop`, and every other step (calls,
refusals, compensations) to a stutter. Once requests overlap the contract allows
everything.

### Sync

`SyncInv` adds the place of the handler to the invariant of the sagas.

- `ReportsAreTrue`. Until a saga moves during the handling, `Unmixed` holds: what
  was read is what PostgreSQL has, and a store whose calls are behind the handler
  and did not raise is `Synced` (`Alone`). No edge outlives the document node, in a
  saga or a handler (`EdgesHang`). A handler that was mixed promises
  nothing, in the property as in the invariant.
- `SyncLosesNothing`. As long as nothing raised and nobody deletes (`Smooth`), a
  chunk row without vectors has someone about to write them (`VectorsOf`): its own
  saga, the handler that has just deleted them and read that row, or an update
  about to replace the chunk rows. `Kept` with the same for the node survives every
  order of the handler's five calls and those of the sagas.

### Requests

`TypeInv` has, beside types, where each kind of request can be and what it has
read by then (`Shape`), so that each step is a case of one request's kind.

- `DeletedIsGone`. A document is drawn before anything is about it (`DrawnInv`); a
  create that has not written yet is alone with its document (`PendingInv`); once
  the deletion is written nothing that creates is about that document
  (`DeletedInv`), and entries without a row cannot be (`EntriesHaveRows`, the
  foreign key).
- `ShownToGranted`. A request past its check, and each document kept to be
  returned, has an entry that was in the table at some time (`GrantedInv`); those
  entries are in `everHad`, which only grows.
- `OnlyTitlesAreLost`. A title in the row that is not the last one set was read
  by an update of the content alone (`ReadTitle`).
- `OwnersKeep`. The entry of the owner stays from the grant on, whatever is done to
  others (`OwnerInv`).

### Chunks

The theorems hold for every text, every positive chunk size, every overlap, also
one larger than a chunk, and any separators that are not empty; this is `ChunkAssumption`.

`OnlyTheTailRepeats` compares neighbouring chunks, but a step adds one chunk and
knows only `start`. The inductive invariant `Inv` therefore says where the last
chunk lies seen from `start` (`LastBehind`: it starts before it and ends at most
an overlap behind it, which a chunk only does when chunks are larger than
overlaps), and `Advancing` adds that the loop is over once the tail was repeated,
so that it is repeated once. `ChunkEnds` states what `EndsAt` allows: an end at
most a chunk away and, unless it is the full size or the end of the text, more
than an overlap away. `NextStarts` says that the next start is behind this one
and not behind this end. With those two, `CutInv` shows that a turn of the loop
keeps each part of `Inv`.

### Search

`SearchInv` has the places of the searches (`Running`), that each list is as long
as was asked for at most and names no chunk twice (`ListsInv`), and that what is
asked for and found belongs to documents seen since the start unless there were none
at some moment (`VisibleInv`), though the access table changes between any two
steps. While there is one at every moment no search asks without a filter.
`HitsVisible` follows, as every hit of an answer is in a list of the searches used.

`FusionRespects` is arithmetic. `SharesFall`: of two ranks in a list the earlier has
the larger share, since `Share(n) * (RrfK + n)` is `Scale` for both. So a chunk ahead
of a hit in each list that hit is in has more points (`EarlierScoresMore`); among the
best `TopK` it cannot be cut off while the other stays (`BestFirst`), nor by
`min_score`, and neither cut changes an order (`FusedInOrder`). What breaks ties
plays no part. TLC runs `ReducedSpec`, the theorems are about `Spec`.

### Audit

A log is in one place because it moves: `PlaceInv` says that buffer, what each flush
has taken, and the table have no log in common, but for logs whose write raised
after its commit (`doubtful`), and that no flush begins twice. What goes
back in front of the buffer is the end of what was taken, as long as there is room,
and lemmas on sequences say that it keeps order and uniqueness.
For `OrderIsKept`, `OrderInv` says that as long as flushes have not overlapped the
logs stand in one line: the table, what the one flush has taken, the buffer.

### Consumer

`TypeInv` adds that a loop's message was published (`LoopOK`) and that only calls of
`start()` make Kafka consumers (`MadeByStarts`). `CommitsGoForward` then needs only
that an offset never passes the position, and holds for loops that overlap, too.
For the other two, under `~Overlap`, `DeliveryInv` says that one loop is active
(`OneLoop`), that every message before a position was handled or is in its hands
(`TriedOrInHand`), and how far it is with that one (`InOrder`). Positions count
only while someone reads; after a stop, crash or rebalance they are taken from
the offsets, for which `AtLeastOnce` itself is the invariant.

### Deployment

`SetUpInv` says what a script has before it (`Running`): calls of its own store
only, verification at the end (`EndsChecked`), and for each Cypher statement that is
dropped or not yet there a later call that executes it (`MadeAgain`); and of
`init_all`, that a store it was asked for is to come, is being set up, or usable
(`Ready`). That the plans of the scripts are of this form, for any number of indexes
and statements, is shown by putting them together from calls before the checks
(`Steady`) and the checks (`Closing`). A last check that passes makes the store
usable, and no script touches the store of another.

### Only model-checked

Liveness (`SagasEnd`, `SyncEnds`, `RequestsAnswered`, `Terminates`,
`SearchAnswered`, `NothingStuck`, `EventuallyTried`, `LifespanEnds`) is outside
the prover, which knows neither fairness nor ENABLED. That the loop of the chunker
ends follows from `ChunksAdvance`'s lemma `NextStarts`, but the step to `<>Done` is an
induction over `start` under fairness and stays with TLC. So do the four
disagreements between code and text, which are counterexamples.

## 5. Plan

Done: every module of section 2, with its runs, and the theorems above. What would
add most next:

1. Theorems: that `SyncHandlers`, as far as sagas go, implements `SagaCoordinator`
   with stores that a handler may write; that with handlers whose calls are
   idempotent two handlings of one event leave what one leaves.
2. `AuditBuffer`: `start()` after `stop()`, composed with `Lifespan` so that the end
   of the event loop cancels the flushes nobody waits for.
3. `EventConsumer`: `consume_one` and `consume_batch` beside the loop.
4. `SyncHandlers` over `EventConsumer` in place of the free order of events, which
   would bound what can come again.

## 6. Not modelled

- The embedding service: a call of a model. What it can do to others (raise,
  return nothing) is in their models.
- Schemas, middleware, exception handlers, metrics, configuration and domain
  classes: input and output without a state of their own. The health router asks
  each client for a ping and keeps nothing.
- Docker files and `check_infrastructure.py`: no behaviour beside printing.
- Of the database clients: sessions, pings, pools and query wrappers.
- Of the repositories: entities and relations in Neo4j, versions, the audit table's
  queries. No operation of the modelled services reads or writes them.
- Of the modelled parts: `consume_one`, `consume_batch`, `unregister_handler`, the
  deserialisation of a message and the seeks of the consumer; the entry types and
  queries of the audit service and its restart; the numbers of search weights, the
  scores of the stores; rows of documents in `SetUp`.
