# Verification of the conversational sales agent

TLA+ models of this repository's program, TLC configurations that check them on
small instances, and proofs that TLAPS checks for every instance.  All paths
below are under `src/`.

| module | role |
|---|---|
| `WorkQueue` | a durable RabbitMQ queue as `messaging_config.py` uses it; both queues of the program are instances of it |
| `MCWorkQueue` | its instance for TLC |
| `WorkQueueProofs` | its theorems |
| `SalesPipeline` | webhook, mediator, tables, queue, worker and dashboard, composed |
| `PipelineInvariant` | the inductive invariant of `SalesPipeline` |
| `Dialogue` | what customers are promised: abstract specification of `SalesPipeline` |
| `MCPipeline` | instances for TLC |
| `PipelineProofs` | the invariant proved; four safety theorems |
| `PipelineAnswersProofs` | what the customer gets: order of sending and persisting, bound on answers, what doubles rows, progress, what a takeover holds, the refinement of `Dialogue` |
| `KnowledgeIndexing` | upload, indexing and deletion of documents, with their queue |
| `Catalogue` | what the knowledge base promises of its documents: abstract specification of `KnowledgeIndexing` |
| `MCKnowledge` | its instance for TLC |
| `KnowledgeProofs` | its invariant, five safety theorems, the refinement of `Catalogue` |
| `Connections` | WebSocket endpoints, the connection manager and its Redis listener |
| `MCConnections` | its instance for TLC |
| `ConnectionsProofs` | its invariant and five safety theorems |
| `Replies` | memory, score and stage of one conversation under overlapping deliveries and humans |
| `MCReplies` | its instance for TLC |
| `RepliesProofs` | the stage function, its invariant and four safety theorems |
| `Accounts` | registration, login, refresh and logout over users, replica and Redis |
| `Registry` | registration and sessions, each one step: abstract specification of `Accounts` |
| `MCAccounts` | its instance for TLC |
| `AccountsProofs` | its invariant, four safety theorems and the refinement of `Registry` |
| `Startup` | loading, binding, wiring, the stages of the lifespan, the consumers' tasks |
| `Sessions` | sessions and connection pools of master and replica |
| `Service` | `Startup` and `Sessions` composed with the way of a request through the middlewares |
| `MCService` | its instance for TLC |
| `ServiceClaims` | what a log message says of the replica and the code does not do |
| `ServiceProofs` | the invariant of `Service` and eight safety theorems |

`PROJECT.json` lists runs, mutants, the map from definitions to lines, findings,
hazards and theorems.  To repeat a run: `tlc -config PipelineAsCoded.cfg MCPipeline`;
a proof: `tlapm PipelineProofs.tla`.

## 1. Inventory

**Webhook intake** (`app/edge/http/controller/webhook_controller.py`).  Stateless.
Checks the signature, parses Meta's payload, extracts each message and adds one
background task per message to the response.  An exception during extraction is
answered 500 and no task runs.  *Correct when* every well-formed payload is
accepted and its messages handled in order.

**Message mediator** (`app/mediator/message_mediator.py`).  `handle_inbound`: get
or create the conversation, store the message, get or create the lead, publish a
job.  Its state is in local variables: rows it read or created in earlier
transactions.  *Correct when* the rows it combines belong together and to the
customer, whatever ran in between.

**Repositories** (`app/repositories`, `app/models`).  Tables conversations,
messages, leads, users, knowledge documents and chunks, in PostgreSQL.  Each
call opens a session of its own, so check-then-create is never atomic, and no
unique index covers conversations or leads.  *Correct when* there is one active
conversation per customer and one lead per conversation; the code does not
achieve it (findings).

**RabbitMQ client** (`app/configs/messaging_config.py`).  Connection, channel,
prefetch of 10.  `publish` catches everything and returns `False`, which no
caller looks at; `consume` declares and binds a durable queue and runs a
callback per delivery inside `message.process()`.  *Correct when* every job
taken is settled, once, and redelivered only after a fault.

**AI message worker** (`app/workers/ai_message_consumer.py`, `app/services/ai`,
`app/services/channels`).  Per job: escalate when asked for a human; otherwise
history, retrieval, LLM, guardrails, memory, confidence; then lead score, look-up of the
conversation, send, persist.  *Correct when* a job is answered once or handed to
a human, the answer goes to its customer and is persisted after it was sent.

**Dashboard** (`app/services/conversation_service.py`, `lead_service.py`).
Takeover, release, lead stages.  *Correct when* the AI is silent while a human
has the conversation.

**Database sessions** (`app/configs/database_config.py`).  Writes to the master,
reads to the replica when one is configured; a pool of 10 + 20 connections each.
*Correct when* a stale read never corrupts what is written from it, every
connection comes back, and workers that keep one never wait for each other.

**Knowledge ingestion** (`app/mediator/knowledge_mediator.py`,
`app/workers/knowledge_consumer.py`).  Upload, row `pending`, job, `processing`,
chunks, `indexed` or `failed`; delete; reindex.  *Correct when* the status tells
the truth about the chunks and every document leaves `pending` and `processing`.

**Authentication** (`app/services/auth_service.py`).  Users, access and refresh
tokens, rotation in Redis, registration.  *Correct when* a revoked token is
refused and names are unique.

**WebSocket connections** (`app/edge/socket/connection_manager.py`).  Maps of
clients, users, rooms; fan-out through Redis.  *Correct when* the maps agree and
survive reconnects in any order.

**Lead scoring, guardrails, memory** (`app/services/ai`).  Score in 0..100 and its
stage, in PostgreSQL; sliding window of the last 20 entries in Redis; both
read-modify-write.  *Correct when* the stage is that of the score, no update is lost
unless two overlap, and the memory is in order.

**Start-up and shutdown** (`app/main.py`, `app/di`).  Modules are loaded by
directory into a container that binds constructor parameters by name; the lifespan
opens and closes database, socket manager and broker.  *Correct when* the bindings
do not depend on the order of a listing, nothing is missing at a request, and the
database is open while anybody works.

**Middlewares and exception handlers** (`app/middlewares`).  Each adds its header to
what comes back through it.  *Correct when* every answer has the headers; answers to
exceptions that no handler knows have none (section 9).

**Cache**, **rate limiting**, **monitoring, logging, routes, schemas**: see
`PROJECT.json` and section 11.

Interaction: Meta → webhook → (background task) mediator → tables and RabbitMQ →
worker → tables, Redis, LLM, WhatsApp; human agents → dashboard → tables.  All of
it runs in one event loop per process; between two awaits anything else may run.

The hard behaviour is listed in `PROJECT.json` under `hazards`, each at its line:
check-then-create races, decisions on stale snapshots, jobs lost between table and
broker, redelivery after lost connections and crashes, callbacks that outlive
their channel, tasks that take later ones with them, a lagging replica, and a
worker several of whose calls do not fit their callees.

## 2. Plan

1. *done* `WorkQueue`, then `SalesPipeline` over it, their invariants, liveness,
   and their proofs.
2. *done* `KnowledgeIndexing`: documents, chunks, upload, deletion and the
   indexing worker, over an instance of `WorkQueue`; its safety properties proved.
3. *done* `Replies`: score and stage against the documented bands, the
   read-modify-write races of worker and dashboard; proved.
4. *done* `Accounts`: login, refresh with rotation, logout, with the cache connected
   and as coded; registration against the unique indexes; proved.
5. *done* `Connections`: the connection manager, with disconnects in any order and
   fan-out interrupted at each await; its safety properties proved.
6. *done* `Startup`, `Sessions` and `Service`: the process from loading to shutdown,
   pools, replica test and middlewares; proved.
7. *done* Abstract specifications of what three components promise, `Dialogue`,
   `Registry` and `Catalogue`, with the refinements checked and proved; an exact account
   of the races that double rows; progress of tasks and callbacks.
8. Open: an abstract specification of `Connections`, for the listener and the rooms;
   progress of `Replies`' deliveries and of `Service`'s shutdown as in `EachStepAdvances`;
   agent assignment on the dashboard, once the code has it; the operations
   section 11 lists, once something calls them.

No module that is proved about uses `RECURSIVE`; constants have named
assumptions; invariants are conjunctions of named parts.

## 3. `WorkQueue`

| state | code |
|---|---|
| `bound` | the queue is declared and bound (`consume`); both durable, so kept over restarts |
| `job[j]` | the broker's view: unpublished, ready, delivered, acked, dropped |
| `tries[j]` | deliveries so far; with `j`, the delivery tag |
| `running` | callbacks `_on_message` in progress, as `<<j, n>>` |
| `faults` | lost connections and crashes; bounded by `MaxFaults` |

`DeclareQueue`, `Publish`, `Deliver`, `Ack`, `Reject`, `ConnectionLost`, `Crash` are
the operations.  An exchange without a bound queue discards what is published.
`message.process()` acknowledges when the callback returns and rejects without
requeueing when it raises.  A lost connection puts outstanding jobs back while
the callbacks go on; what those acknowledge later the broker does not hear
(`Heard`).  A crash also ends the callbacks.  A graceful shutdown closes the
channel first: it is `ConnectionLost` followed by `Crash`.  The broker itself
is outside the repository and is modelled from its documented contract with
aio_pika; it is assumed not to lose what it has accepted.

Run `queue`: three jobs, prefetch two, two faults, fairness of the broker and the
callbacks.  Two faults give three deliveries of one job, so two callbacks of
dead channels at a time, and three jobs at a prefetch of two make one wait.  The types
are proved and need no run of their own.

## 4. `SalesPipeline`

| action | code |
|---|---|
| `Accept`, `Refuse` | `handle_whatsapp`: extraction succeeds or raises |
| `FindConversation`, `CreateConversation` | `ConversationRepository.get_or_create`: one read, one write transaction |
| `AddMessage` | storing the message, and the escalated check on the row held |
| `FindLead`, `CreateLead` | `LeadRepository.get_or_create` |
| `PublishJob` | `rabbitmq.publish`, its result ignored; end of the task |
| `Abort` | any of these raises: this task and the rest of the request; also after a row was committed, when its refresh raises |
| `HandleMessage` | a delivery; the guardrails look for an escalation keyword |
| `Escalate` | `_escalate` |
| `Respond` | building the agent, `process_message`, the confidence check |
| `UpdateLeadScore`, `LookUpConversation`, `SendAnswer`, `PersistAnswer` | the rest of `_process` |
| `AckJob`, `RejectJob` | the callback returns or raises |
| `Takeover`, `Release` | the dashboard |
| `Replicate` | the replica catches up |
| `StartConsumer`, `ConnectionLost`, `Crash` | start-up, broker, process death |

A *handling* `<<request, position>>` names the message a task works on and also
every row and job that task creates, in place of a fresh UUID.  Rows are never
deleted by this part of the program, so a row's number stays its own.

Data is abstracted to what the properties tell apart: a message has a sender, a
type and perhaps an escalation keyword; a lead is its conversation; an answer is
the delivery that sent it.  Scores and the Redis memory are in `Replies`
(section 7), texts are left out.  Whether an answer reaches the confidence threshold is a choice.

`MayFail` names the services that may fail; each failure happens at the call.
A send whose acceptance is lost is `SendAnswer` followed by `RejectJob`.
`BrokenCalls` names call sites of the worker that raise whatever the data is:
`MemoryService(window=…)`, the Ellipsis passed as Redis client, `tenant_config=`,
and `get_by_id`, which no repository defines.  `BrokenCalls = CallSite` is the
program as it stands; there the worker can only escalate or fail.  The runs
`repaired` and `answered` take them out, to check the code behind them.  They say what holds of the rest of the pipeline once those calls fit,
and not that the program answers anyone today: with them, `Respond` has no outcome but a
handover or a failure.

The webhook raises for payloads with `contacts` and for audio and image messages
(models have no `.get`); a document or text payload without contacts is accepted.

### Passing runs

| run | instance | shows |
|---|---|---|
| `as_coded` | 2 requests of up to 2 messages of 2 customers, one voice message, an agent, failing database and broker, no faults | types; order within a request; rows are doubled by three races only |
| `repaired` | 2 one-message requests of 2 customers, one asking for a human, a lagging replica, all services failing, prefetch 1, 1 fault | consistency of jobs in spite of stale reads, customers kept apart, bound on answers, refinement of `Dialogue` |
| `liveness` | as coded, 2 requests of one customer, an agent, all failing, 1 fault | requests end, jobs settle, the AI's work on a conversation only shrinks from a takeover to the release |
| `answered` | nothing fails but 1 fault | each job answered or handed over |

Bounds.  Every race named in the hazards is between two tasks, a task and an
agent, or a delivery and its predecessor, so two requests, one agent and one
fault reach each; the claims show that they do happen at these sizes.  With a prefetch of one
in `repaired` two callbacks still overlap, one of them on a dead channel.  Requests
of two messages are needed for the order within a request only.  The proofs
remove the bounds for all safety properties.  Requests are symmetric; the runs
with liveness do not use symmetry.  `CHECK_DEADLOCK FALSE`: requests are bounded
and the system stops when all of them are handled.

Fairness (`FairSpec`): weak fairness of each request's task, of each job's
delivery and of each delivery's callback.  The event loop resumes every
task, each awaited call returns or raises (client timeouts), and the broker
delivers while there is prefetch.  None is assumed for Meta, agents, the replica,
faults or the consumer's start; what is published before the start is discarded
and counts as `missed`.

### The promise and the races

`Dialogue` has neither tasks nor replica, broker or worker: messages come with their
request, are stored in order in a conversation of their customer, are queued or missed
once, and get answers, which are sent to the customer and recorded afterwards, at most one
more than there were faults.  The mapping (`Promise`) takes `from` from the requests'
batches, `thread` from the messages table, `queued` from the jobs that were published, and the
other variables as they are.  The leads, the replica, local variables and the broker's
view are hidden.  `Dialogue` lets a customer have two active conversations, because the
code does.

`DoubledOnlyByRaces` says when.  `RowsUnique` is the uniqueness the mediator relies on:
one active conversation per customer, one lead per conversation, and whoever is about to create a
row is alone with it.  `Race` names three steps: a look-up of a conversation, or of a lead, that
finds nothing although the row exists (a stale replica) or another task is about to create
it; and the release of a conversation whose customer has another active one, or is about
to.  From unique rows each of them leads to rows that are not, and no other step of
anybody does.  The equivalence makes it both a bound on what can go wrong and a list of
what has to be closed.

### Takeover

`handle_inbound` means to skip the AI for an escalated conversation (`message_mediator.py:47`).
The status it tests is that of the look-up, which returns active rows only, so the branch is
never taken (`EscalatedNeverSeen`, a part of the invariant), and a takeover between the
look-up and the publication is missed: the job is queued and worked on although a human has
the conversation.  `TakeoverHolds` says how far that goes.  `OpenWork(c)` is what may still
have the AI answer in `c`: tasks that hold it, jobs that are not settled, callbacks,
those of dead channels included.  From the takeover on, or from when the replica shows it, it
only shrinks until the release: no new message, redelivery, crash or late
acknowledgement adds to it.  The property does not say that what is in flight stops, since
it does not.  It is checked in `liveness`, with an agent and a fault, and proved
(`TakeoverIsKept`); its mutant answers the look-up from a cache that takeovers do not reach.

### Refuted claims

Each `claim_*` run checks one sentence of the repository and TLC finds the
behaviour that refutes it; `PROJECT.json` quotes the sentences.  `OneActiveConversation` is
a conjunct of `RowsUnique`; its run is an instance of `MCPipeline`.

| run | what the code does |
|---|---|
| `claim_one_conversation` | two active conversations of one customer, after which his messages raise |
| `claim_replica` | reads go on to a replica that was given up (section 9) |

Three more disagreements follow from the model's actions without a search for a
behaviour, and have no run: `ai_message_consumer.py:57` and `:183` say that a failed job
is re-queued, while `message.process()` rejects without requeueing (`RejectJob`);
after a takeover the customer's next message goes to the AI in a new conversation
(`FindConversation` looks for active ones only); and no ordinary message is answered
as the code stands (`BrokenCalls`).

## 5. `KnowledgeIndexing`

| state | code |
|---|---|
| `upload[d]` | how far `ingest_document` is for this upload |
| `status`, `count` | the row in knowledge_docs, `absent` when there is none |
| `chunks` | knowledge_chunks, by the delivery that stored them |
| `phase[x]`, `found[x]` | where the delivery `x = <<d, n>>` is in `_index`, and how many chunks it has embedded |
| `removal[u]`, `purged`, `removed` | a user's deletion between its two transactions; documents whose chunks a deletion has taken; deletions answered |
| `bound` … `faults` | `ai.knowledge.queue`, an instance of `WorkQueue` |

| action | code |
|---|---|
| `CreateDocument`, `RefuseUpload`, `AbortUpload` | `upload`, `ingest_document` up to the new row, its failure, and its failure after the row was committed |
| `PublishJob` | the publication, whose result is ignored |
| `HandleIndexRequest` | a delivery reaches `handle_index_request` |
| `MarkProcessing`, `Fetch`, `InsertChunks`, `MarkIndexed` | the steps of `_index` |
| `Fail`, `MarkFailed` | a call raises; the update to `failed`, which may raise too |
| `AckJob`, `RejectJob` | the callback returns or raises |
| `DeleteChunks`, `DeleteDocument`, `AbortDelete` | `delete_document`: two transactions, or its failure |
| `StartConsumer`, `ConnectionLost`, `Crash` | start-up, broker, process death |

A document is an upload with its fresh id, so ids are never reused.  The chunks
of one delivery are committed in one transaction and stand for their number,
`found`.  Two facts of the schema carry the safety of deletions: `doc_id` is a
NOT NULL foreign key, so chunks of a missing row are refused, and deleting a row
that still has chunks raises (the relationship has no cascade, so SQLAlchemy
would set their `doc_id` to NULL).  Updating a missing row changes nothing and
does not raise.  `Fetch` covers download, extraction, splitting and embedding:
the HTTP status of the download is not looked at, so every delivery may see a
text of its own, an empty one included.  Reindexing has no action: `get_document`
calls `get_by_id`, which no repository defines, and raises before any change.

Run `indexing`: one document, two users, texts of no or two chunks, all services
failing, two faults, no fairness.  Documents share nothing but the prefetch window,
which run `queue` covers; two faults give three deliveries, two of them left over
from dead channels, next to two deletions at once.  Its mutants drop the foreign key,
delete in spite of chunks, mark before storing, requeue on failure.  It shows that a deletion is final, that `chunk_count` is always the
size of a set that is stored while duplicates of it may be, that the duplicates are
bounded by the faults, and that the module implements `Catalogue`.

`Catalogue` knows the list of documents and the copies of their chunks, and none of
uploads, deliveries and users.  A document is `known` from the end of its upload;
a copy is what one delivery has stored, with its size (`copies`).  It promises that
chunks are stored for listed documents only and as a whole, that the number shown is that of a
copy which is stored unless a deletion has begun, that a document is removed only when none of its
chunks is left, and that it is never listed again; no chunk without its document
(`ChunksHaveDocument`, proved) follows.

That every document whose job the broker took is settled in the end is not true, even
if no service fails: the connection is lost, the redelivery indexes the document and
acknowledges, the callback of the old channel sets `processing` again (`MarkProcessing`),
and the process dies.  `chunk_count` and chunks are then there, the status is not.

## 6. `Connections`

| state | code |
|---|---|
| `phase`, `client`, `user` | a `websocket_endpoint`: where it is, the id in its URL, the user of its token |
| `active` | `active_connections`, the socket of a client |
| `entries` | `user_connections`: how often a user's list holds a client; the order is never observed, since nothing calls `send_to_user` |
| `rooms` | `rooms`, lists of clients |
| `gauge` | the Prometheus gauge |
| `published`, `queue` | what goes through Redis and the listener has not read |
| `current`, `at`, `start` | the listener: its message, its position in the room's list, the sockets registered when a broadcast began |
| `heard`, `passed`, `shrunk` | history: who was sent the message, who was not registered when passed, whether somebody left the room |

| action | code |
|---|---|
| `Open`, `TurnAway`, `Connect`, `Disconnect` | the endpoint up to `accept`; a bad token or a failed `accept`; `connect` after it; `disconnect` |
| `Ping`, `Subscribe`, `Unsubscribe`, `Publish`, `Raise` | `handle_message`, by what the event does or its failure |
| `Reply`, `ReportError` | the answer to the socket registered for the client; the error after an exception |
| `PublishElsewhere`, `Lose` | another instance publishes; Redis drops what a dead subscription missed |
| `Take`, `SendToRoom`, `FailRoom`, `FinishRoom`, `SendToAll`, `FinishBroadcast` | `_listen_to_redis`, with an await at each send |

An action is what runs between two awaits.  A client chooses its id, so a socket
may register under the id of one that has not left, and leaving takes whatever is
registered for the id.  The listener iterates the live room list: if someone before
its position leaves, it skips one.  A broadcast iterates the live dictionary: when its
size has changed the iteration raises and the remaining sockets miss the message;
what else a change of the dictionary does to the iteration is left open.
`RedisConnected = FALSE` is the program as it is started, since nothing calls
`RedisCache.connect`: publishing raises and the listener has nothing to read.  The
run takes `TRUE`; every event may raise there too, so it includes the other case.
The cancellation of the listener at shutdown is not modelled.

Run `connections`: two sockets over two client ids, one user, one room, two messages.
Two sockets of one id are the reuse, two of different ids share the room, in either
order.  The second message is the one after a fan-out that raised, to a room or to
a dictionary that has changed its size, which `PublishedFinish` is about; its mutant is a
listener that such an exception ends.  Three sockets, a bystander next to a
reuse, with two messages are beyond what TLC finishes here; all properties but that one are proved
for any number of either.  Users only partition the lists, so one is enough here and
the proof takes any number.  There is no symmetry because the run checks liveness.  Fairness is that of the listener: the event loop resumes its
task and the sends it awaits return or raise.  None is assumed of sockets or Redis.

It shows that a socket, a seat in a room or an entry never outlives its endpoints;
that lists and gauge count the endpoints even when ids are reused; that a running
endpoint is unreachable only by reuse of its id; that a room message skips
nobody unless somebody leaves the room meanwhile; and that the listener ends with every
message, the one after an exception included.

## 7. `Replies`

| state | code |
|---|---|
| `at`, `held` | where a run of `_process`, or a call of `update_lead_stage`, is, and its local variables |
| `memory` | the history in Redis, each entry named by the delivery it is of |
| `lead`, `replica` | score and stage of the lead's row, on the master and on the replica |
| `written`, `expired`, `torn` | history: entries in the order they were written, how many of them before the last expiry, whether an entry was written over what its delivery had not read |
| `ledger`, `raced` | history: the lead had the updates run one after the other, whether two of them overlapped |

| action | code |
|---|---|
| `Answer` | `process_message` up to the guardrails: a confidence from the number of uncertain phrases |
| `Recall`, `Remember`, `RememberFails`, `Expire` | `append`: `get_history`, `setex`; `setex` raises before or after its effect; the time to live |
| `HandOver` | a confidence below the threshold |
| `ReadLead`, `LoadLead`, `UpdateLead` | `update_from_message`: the lookup in a read session, the row loaded in the write session, its commit |
| `LoadForStage`, `UpdateStage` | `update_lead_stage`: the same for the stage alone |
| `Replicate`, `Fail` | the replica catches up; any other call raises, or the process dies |

The module is the part of `SalesPipeline`'s `Respond` and `UpdateLeadScore` that section 4
leaves out, for one conversation; conversations share neither memory nor lead.  It takes
the calls to fit their callees, as run `repaired` does.  A delivery that is
repeated after a fault is one more element of `Delivery`.  SQLAlchemy writes the
columns whose value differs from the loaded one, so two overlapping updates
may leave the score of one and the stage of the other (`Committed`).  Confidences are in
percent.  A message's signals enter as what they add up to.

Run `replies`: three deliveries and a human's call, window of two.  Two deliveries are
a race, a third makes the window slide while two race; the changes of score
reach both clamps and the boundary between cold and warm.  The memory is named by its
entries, so nothing is symmetric.  Fairness is that of the event loop: a coroutine whose
await is over is resumed, and clients of model, Redis and database have time limits.
None is assumed of the replica and the expiry.  It shows that the lead is exactly what the
updates give one after the other as long as no two overlap, the documented bands of
`docs/implementation_plan.md:672-677` included; that the memory is the last entries
written unless two appends overlapped; that it is never out of order, whatever
overlaps; and that deliveries end.

## 8. `Accounts`

| state | code |
|---|---|
| `now` | the clock; `Life` and `Kept` are the 7 days of a token's signature and the 30 days of its entry in Redis |
| `users`, `replica` | the rows of users; those the replica has |
| `connected`, `store` | `RedisCache._connected` and the refresh tokens Redis has |
| `step`, `asked`, `token` | what a client's call does next, the account or e-mail it is for, the token the client holds |
| `shared`, `disturbed` | history: tokens issued more than once; whether Redis failed or an answer was lost |

| action | code |
|---|---|
| `Register`, `CheckUsername`, `CheckEmail`, `CreateUser` | `register`, one action per repository call |
| `Login`, `FindUser`, `WrongPassword` | `login`, with the e-mail looked up twice |
| `Refresh`, `RefuseRefresh`, `Rotate` | `refresh_token`: the entry or the signature; the user; the rotation |
| `Logout` | `logout` |
| `Fail` | a database call raises |
| `Replicate`, `Tick` | the replica catches up; time passes and Redis drops what is too old |

A token carries the e-mail and times in whole seconds, and no id: two logins
in one second give one token.  Nothing calls `RedisCache.connect`, so as coded
`connected` is false, login hands out tokens that are stored nowhere, a refresh hands out
no new one and a logout revokes nothing until the signature expires.  The run takes both
values.  A lost answer is a rotation whose client keeps the old token.  A rotated or
revoked token that somebody kept is accepted by the fallback (`Refresh`); the
code does not promise otherwise.

`is_active` is never cleared, and the token for a password reset is handed to nobody,
so that both stay out.

Run `accounts`: two clients; two accounts with one e-mail, and an e-mail nobody registers;
a signature that lasts one tick, an entry in Redis that lasts three.  Two clients reach every
race of checks, creation, rotation and logout: those for the e-mail with different names, those
for the name with the same account.  Four instants reach the token that is over for Redis, by its
signature, for both and for neither.  Clients and names are symmetric.  Accounts that share a name
only, and those that share nothing, are left to the proofs, which take any.  It shows that the module implements `Registry`; that a refresh never fails for want of its
user, though it is looked up on the replica; and that Redis, while it works, holds the
tokens in clients' hands and no others.

In `Registry` a registration is one step, `Enroll` or `Refuse`: registration is linearizable,
although the code makes two look-ups, on a replica that may lag, and then one insertion.
`Enroll` happens at the commit, and a refusal at the moment the row in its way was found;
so no name and no e-mail gets two rows (`OneRowPerName`, proved), whoever is told that he
is registered is, and nobody is refused for a row that never was.  `answer` is
what a client's registration ended with, `session` his token; the store, the replica and the
steps between are hidden.

## 9. `Startup`, `Sessions`, `Service`

| state | code |
|---|---|
| `stage` | how far `lifespan` is |
| `layer`, `unread`, `loaded`, `bound`, `broken`, `classless` | `load_all_dependencies`: the directory being listed, its files left, names in the container, parameters each class was bound to, modules that fail to import, modules without a class of the expected name |
| `starting`, `consuming` | the consumers' tasks created; the consumers that receive |
| `connected`, `readFrom`, `listed` | `_connected`, the engine of the read factory, whether `replica_engine` is set |
| `out`, `garbage`, `kept` | connections taken from each pool; those of sessions nothing refers to; workers whose retrieval session has one |
| `step`, `todo`, `result` | what a request's handler or a delivery does, the visits to the database it has left, how they ended |
| `depth`, `way`, `answer` | where a request is among the middlewares, and what it carries out |
| `detached` | deliveries at work whose channel is dead |

| action | code |
|---|---|
| `LoadInfrastructure`, `LoadFile`, `NextDirectory`, `Wire` | `load_all_dependencies`, one file of a listing at a time |
| `OpenDatabase`, `StartManager`, `CreateTables`, `OpenBroker`, `AbortStartup` | `lifespan` up to `yield`, and an exception in it |
| `StartConsumer` | `start_ai_message_consumer`, `start_knowledge_consumer`, which may fail unnoticed |
| `AskToStop`, `StopServing`, `CloseBroker`, `CloseDatabase` | uvicorn's shutdown, and `lifespan` after `yield` |
| `GetSession`, `Checkout`, `FailCheckout`, `Execute`, `FailStatement`, `Finish` | a visit: `get_session`, the pool, the statement |
| `Raise` | the handler or the worker raises an exception of its own between two visits |
| `Collect` | the garbage collector ends connections of lost sessions |
| `Accept`, `Enter`, `Handle`, `Refuse`, `Answer`, `Leave`, `GlobalHandler`, `Send` | a request in, its handler, and out |
| `Receive`, `ConnectionLost`, `Cancel` | a delivery, within the prefetch; its channel dies and it goes on; it is cancelled with its channel |

A repository operation is the list of its visits (`FindById` ... `ExecuteQuery`); the code
opens a session for each and returns the connection with the commit, so `create`
and `update`, which refresh the row afterwards, take one twice.  The worker's
retrieval session is opened outside of any `with` and never closed: it keeps its
connection while the worker visits the pools again.  The prefetch (10) bounds what a
consumer has outstanding and not how many of its callbacks run, since those of a lost
connection go on next to the redeliveries (`detached`).  So a circle of workers that
keep a connection and wait for another is possible, and the instance reaches it:
it takes callbacks of dead channels that keep all of a pool (30) but the prefetch.
`WaitsNotCircular` says that nothing less does, for every capacity and prefetch;
no relation of the two is assumed.  The pool's timeout ends the circle, which is why
`ShutdownEnds` holds all the same.

An exception no handler of `setup_exception_handlers` takes passes all
middlewares and is answered by `global_exception_handler` outside of them, without
request id, response time and security headers.  A database that cannot be reached
(`OSError`) and one that is closed (`RuntimeError`) are such, and so is whatever a handler
raises itself while the database works (`Raise`): `get_by_id`, which no repository defines
(`lead_service.py:49`, `knowledge_service.py:101`), or a failed cloud upload
(`knowledge_mediator.py:27`).  A refusal, a failing statement and an exhausted pool are
answered with all headers.  So the header "on every response" of
`logging_middleware.py:7` and the headers on "all responses" of
`security_middleware.py:3` are not on these answers, which `AnswersStamped` states as an
equivalence.  The rate limiter raises at every request and lets it pass.

Wiring imports the packages of repositories, services, mediators and controllers again;
so a module that cannot be imported, which loading has logged and skipped, ends the start-up there.
A module that imports and has no class of the expected name (`loader.py:92-93`) is logged and
not registered, and wiring does not notice: it is missed by what takes it, at a request.
No module of the repository is like that today; `NothingMissing` excepts exactly those.  The loader
also looks for directories `validators` and `strategies`, which do not exist.

Run `service`: seven modules in five directories, with the parameters they have in the
code, listed in every order, none, one or two of them broken and one without its class; two
deliveries of the AI worker and one request, over pools of two connections with a
prefetch of one.  These sizes let two workers keep a whole pool, one of them on a dead channel,
which is the circle; the consumers start independently of each other, so one is enough.
Fairness (`Advance`) is that of the shutdown and the requests: uvicorn goes on, every await
ends, at the latest by `pool_timeout`; none is assumed of deliveries, collector or
start-up.  It shows that bindings do not depend on the listings; that a process that came up
misses no importable class of the wired packages; that no connection is lost, and a circle of
workers needs dead channels; that the database is open for whoever works until the
shutdown has closed it; that an answer has every header exactly when its work ended in a way
the exception handlers know; and that the shutdown ends while deliveries hold the pools.

`claim_replica`: the read factory is bound to the replica's engine before the
replica is tested.  When the test fails the code logs a fallback to the master and clears
`replica_engine`, which nothing reads any more: reads still go to the replica.

## 10. What is proved

TLAPS checks everything below for all sets of requests, messages, customers,
agents and payloads, every `MaxBatch`, `Prefetch` and `MaxFaults`, every `MayFail`
and `BrokenCalls`, with and without a replica, all sets of documents, users and
chunk counts, all finite sets of sockets and any clients, users, rooms and messages,
any deliveries, humans, signals and window, any clients, accounts and times to live, any
modules with layered parameters, finite tasks with any lists of visits, any capacity
and prefetch, from the named `ASSUME`s of `WorkQueue`, `SalesPipeline`,
`KnowledgeIndexing`, `Connections`, `Replies`, `Accounts`, `Startup`, `Sessions` and `Service`
only.

`WorkQueueProofs`.  `TypeOK`, `RedeliveredOnlyAfterFault`, `OutstandingHasCallback`
and `SettledForGood`.  The bound on deliveries is not inductive alone: a ready job
is about to be delivered once more, so `TriesBounded` says that a ready job was
delivered at most `faults` times and an unpublished one never.

`PipelineProofs`.  `JobsMatchTables` and the others are not inductive: a job is
published from local variables filled several transactions earlier.  `IInv`
(module `PipelineInvariant`) says what stays true of them: the conversation a task
holds exists and is of its customer (`ConversationHeld`), the message is stored
(`MessageStored`), the lead is the conversation's (`LeadHeld`); it needs that only
reached handlings have rows (`RowsReached`), which keeps phone numbers of rows
fixed while requests come in; that a task's own lead row is new when it is created
(`FreshRows`), which keeps the leads others hold unchanged; and that the replica
only lags (`CopiesLag`).  One lemma per action shows that it preserves `IInv`;
actions of worker, broker and dashboard share the frame lemma `WorkerStep`.
From it: `TypeOK`, `JobsMatchTables`, `CustomersKeptApart` and
`RequestsProcessedInOrder`.

`PipelineAnswersProofs`.  `PersistedAfterSend` from `PersistersSent`.
`AnswersBoundedByFaults`: answers to a message are told apart by their deliveries
(their phone number is the message's, by `CustomersKeptApart`), a delivery that
answered was counted by the queue, and the queue inside the pipeline keeps
`WorkQueueProofs`' invariant because each of its steps is a step of the queue or leaves
it alone (`QueueStep`); the injection from
answers into `1 .. faults + 1` gives the bound.

`OnlyRacesDouble` (`DoubledOnlyByRaces`) goes through the actions in both directions: those
that touch no status, no lead and no creator keep `RowsUnique`, creators keep it because they were
alone, and a step of `Race` puts a second creator or a second row beside the first.  From it
`UniqueUnlessRaced`: without races rows are unique for ever, and
`NoAmbiguityUnlessRaced`: then no look-up, on the replica either, matches several rows, for which the
replica's copies have to be unique as well (`OneActiveCopy`); so a task raises only
if the database fails.

`Advances` (`EachStepAdvances`) is the part of `RequestsFinish` and `JobsSettle` that needs no
fairness: calls left to a task and steps left to a callback decrease with each step of their
own and increase with no step of anybody, so a request of *n* messages ends within 6 *n*
calls and a callback within 7.

`TakeoverIsKept` (`TakeoverHolds`) splits the work on a conversation in two.  A task gets hold of
an existing conversation by a look-up only, which returns active rows (`HoldersShrink`); one it
creates is new, which is `FreshInv`.  A job is queued by a task that holds its conversation,
and is not open again once it is settled and its callbacks are over (`JobsShrink`).

`ImplementsDialogue` maps each action to a step of `Dialogue` or a stutter.  Beyond `IInv` it needs
that the rows a task is about to write are not there (`FreshInv`), so that a message is
stored and an answer sent once per delivery, and that deliveries are bounded by the faults,
which is the queue's invariant again.

`KnowledgeProofs`.  The invariant adds to the properties what they need between
two transactions: only documents whose upload has created them have a row or a deletion, and
those removed have no row (`CreatedFirst`), so that a new row brings none back;
chunks belong to deliveries past the insertion (`StoredAfterInsert`), so that
`found` of stored chunks is not changed; a delivery about to write `chunk_count`
has its chunks stored unless a deletion took them (`FinishersStored`), which makes
`CountIsBacked` inductive; and only deliveries the queue has counted have started
(`DeliveriesCounted`).  `CopiesBoundedByFaults` then follows as the bound on
answers does.  `ImplementsCatalogue` needs two facts more: a deletion between its
two transactions has taken its document's chunks (`RemovalsPurged`), and what a delivery has
found is a number of chunks that a text may give, or nothing yet (`FoundSome`).

`ConnectionsProofs`.  `TypeOK`, `NothingLeftBehind`, `BooksBalance`,
`LostOnlyByReuse` and `RoomHearsInFull`.  They become inductive together with three
facts: an endpoint knows its client and user once it accepts, and a new one has none
(`Identified`); nobody is twice in a room (`RoomsDistinct`), so that `list.remove`,
which takes out the first occurrence, takes the client out (`WithoutFacts`); and only
opened sockets were sent anything (`HeardOpened`), so that their client is fixed.
`BooksBalance` counts: each step that starts or ends an endpoint adds it to or takes it
from two finite sets.

`RepliesProofs`.  `StageIsBand`: the first entry of `STAGE_MAP` whose threshold is reached is the
documented band, for every score.  Then `TypeOK`, `LeadIsLedger`, `MemoryIsRecent` and
`MemoryInOrder`.  The order of the memory needs more than itself, because an append writes
back what was read long before: `EntriesInv` says that the memory, and every history a
delivery has read, is drawn in order from the entries written, each delivery's at most
once.  The lead needs that a delivery between its two sessions holds a target computed from the
row it read (`Computed`), since the score alone crosses the sessions.

`AccountsProofs`.  `TypeOK`, `OneRowPerName`, `SessionsHaveUser` and `StoreMatchesSessions`.
Added are that a call has asked for an account or an e-mail in the steps that use it and
that a login holds no token and a rotation has one (`CallsFit`); and that two clients hold one
token only if it was issued twice (`SharedTokens`), so that deleting an entry takes it
from nobody else.  `ImplementsRegistry` rests on the same invariant and on
the copies of the replica being rows of the master, which makes a refusal on a stale look-up a
true one.

`ServiceProofs`.  `LoadInv`: what a directory's modules take is loaded before it, so bindings
are final when made, and what is neither loaded nor unread is broken or lacks its class.
`KeepersInv`: a worker retrieves once, and what it keeps goes when it is done, which keeps the
count of a pool (`ConnectionsAccounted`) exact.  `ConsumersInv`, `QuietInv`, `OpenedInv` and
`PlaceInv`: who works was admitted while the database was open.  `StampInv`: a response has the
headers of the middlewares it has left, and only work that ended in an unknown way has none.
`PrefetchHolds`: a consumer never has more deliveries outstanding than its prefetch.
`NoCircularWait` follows by counting: what an exhausted pool without a running statement and
without garbage has out is kept by workers, of whom those not detached are at most the prefetch.

Only model-checked: the liveness properties `JobsSettle`, `RequestsFinish`,
`AnsweredOrHandedOver`, `PublishedFinish`, `RepliesEnd` and `ShutdownEnds`, which rest on
fairness and `ENABLED` and are out of the prover's reach.  Every safety property of a
passing run is also proved, and so are the three refinements (`Dialogue`, `Catalogue`,
`Registry`) and `TypeOK` of every module, which `as_coded` checks too.

## 11. Not modelled

Left out because nothing reaches it: the Kafka client (constructed, never
connected); `auth_middleware.py`, whose only user `example_auth_routes.py` is commented
out; `reset_password`, whose token nobody is handed; the Redis operations other than
`get`, `set`, `delete`, `setex`, `publish` and `subscribe`; the rows of `bulkCreate`,
`updateWhere`, `deleteWhere` and `executeQuery` (their sessions are in `Sessions`);
`send_to_user`; `MemoryService.clear`; `resolve_all`, `remove` and `health_check` of the
container; the decorator for rate limits; reindexing, which raises before any change.

Left out because it has no state of its own: what retrieval finds and the text of
prompts and answers; monitoring and logging, on which nothing depends; routes, schemas and
settings; operations that only read.

Left out because it is not in the code: several processes sharing one queue, and loss
of data inside RabbitMQ or PostgreSQL.
