------------------------- MODULE KnowledgeIndexing -------------------------
(***************************************************************************)
(* The knowledge base: an upload stores a document row and queues a job    *)
(* (knowledge_mediator.py), a worker downloads the file, splits and embeds *)
(* it and stores its chunks (knowledge_consumer.py), and a deletion removes*)
(* the chunks and then the row (knowledge_service.py).  Each repository    *)
(* call is a transaction of its own and everything interleaves between     *)
(* them, deliveries of one job that a lost connection left running too.    *)
(*                                                                         *)
(* knowledge_chunks.doc_id is a NOT NULL foreign key: chunks cannot be     *)
(* stored for a row that is gone, and a row cannot go while it has chunks. *)
(* Reindexing has no action: it starts with get_by_id, which no repository *)
(* defines, so the request raises before it changes anything.              *)
(***************************************************************************)
EXTENDS Naturals, FiniteSets

CONSTANTS Doc,         \* the uploads, each a document of a fresh id
          User,        \* those who delete documents
          ChunkCount,  \* how many chunks the text of a download may give
          MayFail,     \* the outside services that may fail
          Prefetch, MaxFaults,
          None

Service == {"database", "broker", "storage", "embedding"}

ASSUME ChunkCountAssumption == ChunkCount \subseteq Nat
ASSUME ServiceAssumption == MayFail \subseteq Service
ASSUME QueueAssumption == Prefetch \in Nat \ {0} /\ MaxFaults \in Nat
ASSUME NoneAssumption == None \notin Doc

Attempt == 1 .. MaxFaults + 1
Delivery == Doc \X Attempt

VARIABLES
  upload,   \* what has become of each upload request
  status, count,  \* knowledge_docs: status ("absent": no row), chunk_count
  chunks,   \* knowledge_chunks: the deliveries whose chunks are stored
  phase,    \* what the worker does next for each delivery
  found,    \* how many chunks each delivery has embedded
  removal,  \* the document each user's deletion is about to remove
  purged,   \* documents whose chunks a deletion has removed
  removed,  \* documents a deletion was answered for
  bound, job, tries, running, faults   \* the queue ai.knowledge.queue

docVars == <<upload, status, count, chunks>>
workVars == <<phase, found>>
userVars == <<removal, purged, removed>>
queueVars == <<bound, job, tries, running, faults>>
vars == <<docVars, workVars, userVars, queueVars>>

Queue == INSTANCE WorkQueue WITH Job <- Doc

UploadState == {"new", "publish", "answered", "refused", "lost"}
Status == {"absent", "pending", "processing", "indexed", "failed"}
Phase == {"idle", "mark", "fetch", "insert", "finish", "ack", "fail", "reject", "over"}

TypeOK ==
  /\ upload \in [Doc -> UploadState]
  /\ status \in [Doc -> Status]
  /\ count \in [Doc -> Nat]
  /\ chunks \subseteq Delivery
  /\ phase \in [Delivery -> Phase]
  /\ found \in [Delivery -> Nat]
  /\ removal \in [User -> Doc \union {None}]
  /\ purged \subseteq Doc
  /\ removed \subseteq Doc
  /\ Queue!TypeOK

Init ==
  /\ upload = [d \in Doc |-> "new"]
  /\ status = [d \in Doc |-> "absent"]
  /\ count = [d \in Doc |-> 0]
  /\ chunks = {}
  /\ phase = [x \in Delivery |-> "idle"]
  /\ found = [x \in Delivery |-> 0]
  /\ removal = [u \in User |-> None]
  /\ purged = {}
  /\ removed = {}
  /\ Queue!Init

-----------------------------------------------------------------------------
(* KnowledgeMediator.ingest_document: the file goes to the cloud, the row is*)
(* created, the job is published and the client answered.                   *)
CreateDocument(d) ==
  /\ upload[d] = "new"
  /\ upload' = [upload EXCEPT ![d] = "publish"]
  /\ status' = [status EXCEPT ![d] = "pending"]
  /\ UNCHANGED <<count, chunks, workVars, userVars, queueVars>>

(* The file type is not allowed, or the cloud or the database fails.        *)
RefuseUpload(d) ==
  /\ upload[d] = "new"
  /\ upload' = [upload EXCEPT ![d] = "refused"]
  /\ UNCHANGED <<status, count, chunks, workVars, userVars, queueVars>>

(* create has committed the row and raises when it refreshes it: the client *)
(* is answered 500 and no job is published, but the document is listed.     *)
AbortUpload(d) ==
  /\ upload[d] = "publish" /\ "database" \in MayFail
  /\ upload' = [upload EXCEPT ![d] = "lost"]
  /\ UNCHANGED <<status, count, chunks, workVars, userVars, queueVars>>

(* The result of publish is ignored, so a job the broker did not take leaves*)
(* a document that stays pending.                                           *)
PublishJob(d) ==
  /\ upload[d] = "publish"
  /\ \/ Queue!Publish(d)
     \/ "broker" \in MayFail /\ UNCHANGED queueVars
  /\ upload' = [upload EXCEPT ![d] = "answered"]
  /\ UNCHANGED <<status, count, chunks, workVars, userVars>>

-----------------------------------------------------------------------------
(* The worker: handle_index_request and _index for the delivery x = <<d, n>>*)
SetPhase(x, p) == phase' = [phase EXCEPT ![x] = p]

(* update_status of a row that is gone changes nothing and does not raise.  *)
SetStatus(d, s) ==
  status' = IF status[d] = "absent" THEN status ELSE [status EXCEPT ![d] = s]

HandleIndexRequest(d) ==
  /\ Queue!Deliver(d)
  /\ SetPhase(<<d, tries[d] + 1>>, "mark")
  /\ UNCHANGED <<docVars, found, userVars>>

MarkProcessing(x) ==
  /\ phase[x] = "mark"
  /\ SetStatus(x[1], "processing")
  /\ SetPhase(x, "fetch")
  /\ UNCHANGED <<upload, count, chunks, found, userVars, queueVars>>

(* Download, extraction, splitting and embedding.  The download's HTTP      *)
(* status is not looked at, so two deliveries of one job may see different  *)
(* texts: the file, or the storage's error page.                            *)
Fetch(x) ==
  /\ phase[x] = "fetch"
  /\ \E n \in ChunkCount : found' = [found EXCEPT ![x] = n]
  /\ SetPhase(x, "insert")
  /\ UNCHANGED <<docVars, userVars, queueVars>>

(* Mutant: the foreign key is not there.                                    *)
InsertUnchecked(x) ==
  /\ phase[x] = "insert"
  /\ chunks' = IF found[x] = 0 THEN chunks ELSE chunks \union {x}
  /\ SetPhase(x, "finish")
  /\ UNCHANGED <<upload, status, count, found, userVars, queueVars>>

(* All chunks in one transaction.                                           *)
InsertChunks(x) ==
  /\ phase[x] = "insert"
  /\ found[x] = 0 \/ status[x[1]] # "absent"
  /\ chunks' = IF found[x] = 0 THEN chunks ELSE chunks \union {x}
  /\ SetPhase(x, "finish")
  /\ UNCHANGED <<upload, status, count, found, userVars, queueVars>>

(* Mutant: the row says indexed before the chunks are committed.            *)
IndexedEarly(x) ==
  /\ phase[x] \in {"insert", "finish"}
  /\ SetStatus(x[1], "indexed")
  /\ count' = IF found[x] > 0 /\ status[x[1]] # "absent"
              THEN [count EXCEPT ![x[1]] = found[x]] ELSE count
  /\ SetPhase(x, IF phase[x] = "insert" THEN "insert" ELSE "ack")
  /\ UNCHANGED <<upload, chunks, found, userVars, queueVars>>

(* update_status writes chunk_count only when it is above zero.             *)
MarkIndexed(x) ==
  /\ phase[x] = "finish"
  /\ SetStatus(x[1], "indexed")
  /\ count' = IF found[x] > 0 /\ status[x[1]] # "absent"
              THEN [count EXCEPT ![x[1]] = found[x]] ELSE count
  /\ SetPhase(x, "ack")
  /\ UNCHANGED <<upload, chunks, found, userVars, queueVars>>

AckJob(x) ==
  /\ phase[x] = "ack"
  /\ Queue!Ack(x[1], x[2])
  /\ SetPhase(x, "over")
  /\ UNCHANGED <<docVars, found, userVars>>

(* A call of _index raises: a service fails, a file cannot be read, or the  *)
(* chunks' document is gone.  An update may raise after it has committed,   *)
(* when it refreshes the row.                                               *)
Raises(x) ==
  \/ phase[x] \in {"mark", "insert", "finish", "ack"} /\ "database" \in MayFail
  \/ phase[x] = "fetch" /\ {"storage", "embedding"} \intersect MayFail # {}
  \/ phase[x] = "insert" /\ found[x] > 0 /\ status[x[1]] = "absent"

Fail(x) ==
  /\ Raises(x)
  /\ SetPhase(x, "fail")
  /\ UNCHANGED <<docVars, found, userVars, queueVars>>

(* The exception handler's update may itself raise; the job is rejected     *)
(* either way.                                                              *)
MarkFailed(x) ==
  /\ phase[x] = "fail"
  /\ \/ SetStatus(x[1], "failed")
     \/ "database" \in MayFail /\ UNCHANGED status
  /\ SetPhase(x, "reject")
  /\ UNCHANGED <<upload, count, chunks, found, userVars, queueVars>>

RejectJob(x) ==
  /\ phase[x] = "reject"
  /\ Queue!Reject(x[1], x[2])
  /\ SetPhase(x, "over")
  /\ UNCHANGED <<docVars, found, userVars>>

Work(x) ==
  \/ MarkProcessing(x) \/ Fetch(x) \/ InsertChunks(x) \/ MarkIndexed(x) \/ AckJob(x)
  \/ Fail(x) \/ MarkFailed(x) \/ RejectJob(x)

-----------------------------------------------------------------------------
(* KnowledgeService.delete_document: the chunks, then the row.              *)
ChunksOf(d) == {x \in chunks : x[1] = d}

DeleteChunks(u, d) ==
  /\ removal[u] = None
  /\ upload[d] \notin {"new", "refused"}
  /\ chunks' = chunks \ ChunksOf(d)
  /\ removal' = [removal EXCEPT ![u] = d]
  /\ purged' = purged \union {d}
  /\ UNCHANGED <<upload, status, count, workVars, removed, queueVars>>

(* Mutant: the row goes whatever chunks refer to it.                        *)
DeleteCascading(u) ==
  /\ removal[u] # None
  /\ status' = [status EXCEPT ![removal[u]] = "absent"]
  /\ removed' = removed \union {removal[u]}
  /\ removal' = [removal EXCEPT ![u] = None]
  /\ UNCHANGED <<upload, count, chunks, workVars, purged, queueVars>>

(* A row that is gone already is answered like one that was removed.        *)
DeleteDocument(u) ==
  /\ removal[u] # None
  /\ ChunksOf(removal[u]) = {}
  /\ status' = [status EXCEPT ![removal[u]] = "absent"]
  /\ removed' = removed \union {removal[u]}
  /\ removal' = [removal EXCEPT ![u] = None]
  /\ UNCHANGED <<upload, count, chunks, workVars, purged, queueVars>>

(* The worker has stored chunks in between, or the database fails: the      *)
(* request raises, its chunks gone and its row still there.                 *)
AbortDelete(u) ==
  /\ removal[u] # None
  /\ ChunksOf(removal[u]) # {} \/ "database" \in MayFail
  /\ removal' = [removal EXCEPT ![u] = None]
  /\ UNCHANGED <<docVars, workVars, purged, removed, queueVars>>

-----------------------------------------------------------------------------
StartConsumer ==
  /\ Queue!DeclareQueue
  /\ UNCHANGED <<docVars, workVars, userVars>>

ConnectionLost ==
  /\ Queue!ConnectionLost
  /\ UNCHANGED <<docVars, workVars, userVars>>

Crash ==
  /\ Queue!Crash
  /\ upload' = [d \in Doc |-> IF upload[d] = "publish" THEN "lost" ELSE upload[d]]
  /\ phase' = [x \in Delivery |-> IF phase[x] = "idle" THEN "idle" ELSE "over"]
  /\ removal' = [u \in User |-> None]
  /\ UNCHANGED <<status, count, chunks, found, purged, removed>>

Next ==
  \/ \E d \in Doc : \/ CreateDocument(d) \/ RefuseUpload(d) \/ AbortUpload(d) \/ PublishJob(d)
                    \/ HandleIndexRequest(d)
                    \/ \E u \in User : DeleteChunks(u, d)
  \/ \E x \in Delivery : Work(x)
  \/ \E u \in User : DeleteDocument(u) \/ AbortDelete(u)
  \/ StartConsumer \/ ConnectionLost \/ Crash

Spec == Init /\ [][Next]_vars

-----------------------------------------------------------------------------
(* A deletion that was answered holds for good: neither its row nor chunks  *)
(* come back, though jobs of the document may still wait or run.            *)
RemovedForGood ==
  \A d \in removed : status[d] = "absent" /\ ChunksOf(d) = {}

(* Retrieval never finds chunks of a document that the list of documents    *)
(* does not show.                                                           *)
ChunksHaveDocument == \A x \in chunks : status[x[1]] # "absent"

(* Unless a deletion has started, a document's chunk_count is the number of *)
(* chunks that one of its indexings has stored.                             *)
CountIsBacked ==
  \A d \in Doc \ purged : count[d] > 0 =>
    \E x \in ChunksOf(d) : found[x] = count[d]

(* A document is stored once, and once more at most for each lost connection*)
(* or crash: nothing removes the chunks of an earlier delivery.             *)
CopiesBoundedByFaults ==
  \A d \in Doc : Cardinality(ChunksOf(d)) <= faults + 1

(* Documents are listed, filled and removed as Catalogue describes, however  *)
(* uploads, deletions and the deliveries of their jobs interleave: chunks    *)
(* come to listed documents only, and a document goes without any.           *)
Promise == INSTANCE Catalogue WITH
  Size <- ChunkCount \ {0},
  known <- {d \in Doc : upload[d] \notin {"new", "refused"}},
  copies <- [x \in chunks |-> found[x]]

CatalogueSpec == Promise!Spec
=============================================================================
