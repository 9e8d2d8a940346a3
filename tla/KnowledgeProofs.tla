-------------------------- MODULE KnowledgeProofs --------------------------
(***************************************************************************)
(* What holds of the knowledge base for every number of documents, users   *)
(* and faults, whatever services fail: deletions hold, no chunk outlives   *)
(* its document, chunk_count is backed by stored chunks, and a document is *)
(* stored at most once more for each fault.                                *)
(***************************************************************************)
EXTENDS KnowledgeIndexing, FiniteSetTheorems, TLAPS

QueueProofs == INSTANCE WorkQueueProofs WITH Job <- Doc

(* Rows, deletions and their answers are of documents that were created, so *)
(* the creation of a document never brings a removed one back.              *)
Created(d) == upload[d] \notin {"new", "refused"}

CreatedFirst ==
  /\ \A d \in Doc : status[d] # "absent" => Created(d)
  /\ \A u \in User : removal[u] # None => Created(removal[u])
  /\ \A d \in removed : Created(d) /\ status[d] = "absent"

(* Chunks are stored by deliveries that have passed their insert, which do  *)
(* not change what they found any more.                                     *)
StoredAfterInsert ==
  \A x \in chunks : phase[x] \in {"finish", "ack", "fail", "reject", "over"}

(* Whoever is about to write chunk_count has its chunks in the table.       *)
FinishersStored ==
  \A x \in Delivery :
    phase[x] = "finish" /\ found[x] > 0 /\ x[1] \notin purged => x \in chunks

(* A callback that has started belongs to a delivery the queue has counted. *)
DeliveriesCounted ==
  \A x \in Delivery : phase[x] # "idle" => x[2] <= tries[x[1]]

IInv ==
  /\ TypeOK
  /\ CreatedFirst
  /\ ChunksHaveDocument
  /\ StoredAfterInsert
  /\ FinishersStored
  /\ CountIsBacked
  /\ DeliveriesCounted

-----------------------------------------------------------------------------
(* What an attempt number and a delivery are.                               *)
LEMMA DeliveryShape ==
  ASSUME NEW x \in Delivery
  PROVE  x[1] \in Doc /\ x[2] \in 1 .. MaxFaults + 1 /\ x = <<x[1], x[2]>>
BY DEF Delivery, Attempt

(* The queue actions of the model are those of WorkQueue.                   *)
LEMMA QueueStep == [Next]_vars => [Queue!Next]_(Queue!qvars)
<1> SUFFICES ASSUME [Next]_vars PROVE [Queue!Next]_(Queue!qvars)
  OBVIOUS
<1> USE DEF Queue!qvars, queueVars
<1>1. ASSUME NEW d \in Doc, CreateDocument(d) \/ RefuseUpload(d) \/ AbortUpload(d)
      PROVE  UNCHANGED queueVars
  BY <1>1 DEF CreateDocument, RefuseUpload, AbortUpload
<1>2. ASSUME NEW d \in Doc, PublishJob(d) PROVE [Queue!Next]_(Queue!qvars)
  BY <1>2 DEF PublishJob, Queue!Next
<1>3. ASSUME NEW d \in Doc, HandleIndexRequest(d) PROVE [Queue!Next]_(Queue!qvars)
  BY <1>3 DEF HandleIndexRequest, Queue!Next
<1>4. ASSUME NEW x \in Delivery, Work(x) PROVE [Queue!Next]_(Queue!qvars)
  <2>1. CASE AckJob(x) \/ RejectJob(x)
    BY <2>1, DeliveryShape DEF AckJob, RejectJob, Queue!Next
  <2>2. CASE ~(AckJob(x) \/ RejectJob(x))
    BY <1>4, <2>2 DEF Work, MarkProcessing, Fetch, InsertChunks, MarkIndexed, Fail,
                      MarkFailed
  <2> QED
    BY <2>1, <2>2
<1>5. ASSUME NEW u \in User,
             (\E d \in Doc : DeleteChunks(u, d)) \/ DeleteDocument(u) \/ AbortDelete(u)
      PROVE  UNCHANGED queueVars
  BY <1>5 DEF DeleteChunks, DeleteDocument, AbortDelete
<1>6. CASE StartConsumer \/ ConnectionLost \/ Crash
  BY <1>6 DEF StartConsumer, ConnectionLost, Crash, Queue!Next
<1>7. CASE UNCHANGED vars
  BY <1>7 DEF vars
<1> QED
  BY <1>1, <1>2, <1>3, <1>4, <1>5, <1>6, <1>7 DEF Next

(* Types of the queue are kept by each of its steps.                        *)
LEMMA QueueTypeNext == Queue!TypeOK /\ [Queue!Next]_(Queue!qvars) => Queue!TypeOK'
<1> SUFFICES ASSUME Queue!TypeOK, [Queue!Next]_(Queue!qvars) PROVE Queue!TypeOK'
  OBVIOUS
<1> USE QueueAssumption DEF Queue!TypeOK, Queue!JobState
<1>1. CASE Queue!DeclareQueue
  BY <1>1 DEF Queue!DeclareQueue
<1>2. CASE Queue!ConnectionLost \/ Queue!Crash
  BY <1>2 DEF Queue!ConnectionLost, Queue!Crash, Queue!Requeued
<1>3. ASSUME NEW d \in Doc, Queue!Publish(d) \/ Queue!Deliver(d)
      PROVE  Queue!TypeOK'
  BY <1>3 DEF Queue!Publish, Queue!Deliver
<1>4. ASSUME NEW d \in Doc, NEW n \in 1 .. MaxFaults + 1,
             Queue!Ack(d, n) \/ Queue!Reject(d, n)
      PROVE  Queue!TypeOK'
  BY <1>4 DEF Queue!Ack, Queue!Reject, Queue!Settle
<1>5. CASE UNCHANGED Queue!qvars
  BY <1>5 DEF Queue!qvars
<1> QED
  BY <1>1, <1>2, <1>3, <1>4, <1>5 DEF Queue!Next

(* The first state satisfies the invariant.                                 *)
LEMMA IInvInit == Init => IInv
<1> SUFFICES ASSUME Init PROVE IInv
  OBVIOUS
<1> USE DEF Init
<1>1. Queue!TypeOK
  <2>1. bound \in BOOLEAN
    BY DEF Queue!Init
  <2>2. /\ job \in [Doc -> Queue!JobState] /\ tries \in [Doc -> Nat]
        /\ running \subseteq Doc \X Nat /\ faults \in 0 .. MaxFaults
    BY QueueAssumption DEF Queue!Init, Queue!JobState
  <2> QED
    BY <2>1, <2>2 DEF Queue!TypeOK
<1>2. TypeOK
  BY <1>1 DEF TypeOK, UploadState, Status, Phase
<1>3. CreatedFirst /\ ChunksHaveDocument /\ StoredAfterInsert
  BY DEF CreatedFirst, ChunksHaveDocument, StoredAfterInsert
<1>4. FinishersStored /\ CountIsBacked /\ DeliveriesCounted
  BY DEF FinishersStored, CountIsBacked, DeliveriesCounted
<1> QED
  BY <1>2, <1>3, <1>4 DEF IInv

(* A step that moves no worker and leaves the tables alone, but for uploads *)
(* that go on, preserves the invariant.                                     *)
LEMMA UploadStep ==
  ASSUME IInv, Queue!TypeOK',
         UNCHANGED <<status, count, chunks, workVars, userVars>>, UNCHANGED tries,
         upload' \in [Doc -> UploadState],
         \A d \in Doc : Created(d) => Created(d)'
  PROVE  IInv'
<1> USE DEF workVars, userVars
<1>1. TypeOK'
  BY DEF IInv, TypeOK
<1>2. CreatedFirst'
  BY NoneAssumption DEF IInv, TypeOK, CreatedFirst
<1>3. ChunksHaveDocument' /\ StoredAfterInsert' /\ FinishersStored' /\ DeliveriesCounted'
  BY DEF IInv, ChunksHaveDocument, StoredAfterInsert, FinishersStored, DeliveriesCounted
<1>4. CountIsBacked'
  BY DEF IInv, CountIsBacked, ChunksOf
<1> QED
  BY <1>1, <1>2, <1>3, <1>4 DEF IInv

(* Uploads: a new row, whose document no deletion has seen; a refusal; the  *)
(* publication.                                                             *)
LEMMA UploadInv ==
  ASSUME IInv, Queue!TypeOK', NEW d \in Doc,
         CreateDocument(d) \/ RefuseUpload(d) \/ AbortUpload(d) \/ PublishJob(d)
  PROVE  IInv'
<1>1. CASE CreateDocument(d)
  <2>1. /\ upload[d] = "new" /\ upload' = [upload EXCEPT ![d] = "publish"]
        /\ status' = [status EXCEPT ![d] = "pending"]
        /\ UNCHANGED <<count, chunks, phase, found, removal, purged, removed, bound, job,
                       tries, running, faults>>
    BY <1>1 DEF CreateDocument, workVars, userVars, queueVars
  <2>2. TypeOK'
    BY <2>1 DEF IInv, TypeOK, UploadState, Status
  <2>3. CreatedFirst'
    <3>1. status[d] = "absent" /\ d \notin removed
      BY <2>1 DEF IInv, CreatedFirst, Created
    <3>2. \A e \in Doc : Created(e) => Created(e)'
      BY <2>1 DEF IInv, TypeOK, Created
    <3>3. \A e \in Doc : e # d => status'[e] = status[e]
      BY <2>1 DEF IInv, TypeOK
    <3>4. Created(d)'
      BY <2>1 DEF IInv, TypeOK, Created
    <3> QED
      BY <2>1, <3>1, <3>2, <3>3, <3>4, NoneAssumption DEF IInv, TypeOK, CreatedFirst
  <2>4. ChunksHaveDocument'
    BY <2>1, DeliveryShape DEF IInv, TypeOK, ChunksHaveDocument
  <2>5. StoredAfterInsert' /\ FinishersStored' /\ DeliveriesCounted'
    BY <2>1 DEF IInv, StoredAfterInsert, FinishersStored, DeliveriesCounted
  <2>6. CountIsBacked'
    BY <2>1 DEF IInv, CountIsBacked, ChunksOf
  <2> QED
    BY <2>2, <2>3, <2>4, <2>5, <2>6 DEF IInv
<1>2. CASE RefuseUpload(d) \/ AbortUpload(d) \/ PublishJob(d)
  <2>1. /\ UNCHANGED <<status, count, chunks, workVars, userVars>> /\ UNCHANGED tries
        /\ upload' \in [Doc -> UploadState]
        /\ \A e \in Doc : Created(e) => Created(e)'
    <3>1. CASE RefuseUpload(d) \/ AbortUpload(d)
      BY <3>1 DEF RefuseUpload, AbortUpload, IInv, TypeOK, UploadState, Created, queueVars
    <3>2. CASE PublishJob(d)
      BY <3>2 DEF PublishJob, IInv, TypeOK, UploadState, Created, Queue!Publish, queueVars
    <3> QED
      BY <1>2, <3>1, <3>2
  <2> QED
    BY <2>1, UploadStep
<1> QED
  BY <1>1, <1>2

Stored == {"finish", "ack", "fail", "reject", "over"}

(* A status that is written is written to rows that are there.              *)
LEMMA StatusKept ==
  ASSUME IInv, NEW d \in Doc, NEW s \in Status \ {"absent"}, SetStatus(d, s)
  PROVE  /\ status' \in [Doc -> Status]
         /\ \A e \in Doc : status'[e] = "absent" <=> status[e] = "absent"
BY DEF SetStatus, IInv, TypeOK

(* A worker's step that leaves chunks, chunk_count and what was found alone *)
(* and does not reach the last update preserves the invariant.              *)
LEMMA WorkFrame ==
  ASSUME IInv, Queue!TypeOK', NEW x \in Delivery, NEW p \in Phase \ {"idle", "finish"},
         phase[x] # "idle", phase[x] \in Stored => p \in Stored, SetPhase(x, p),
         UNCHANGED <<upload, count, chunks, found, removal, purged, removed, tries>>,
         status' \in [Doc -> Status],
         \A d \in Doc : status'[d] = "absent" <=> status[d] = "absent"
  PROVE  IInv'
<1>1. /\ phase' \in [Delivery -> Phase] /\ phase'[x] = p
      /\ \A y \in Delivery : y # x => phase'[y] = phase[y]
  BY DEF SetPhase, IInv, TypeOK
<1>2. TypeOK'
  BY <1>1 DEF IInv, TypeOK
<1>3. CreatedFirst'
  BY DEF IInv, TypeOK, CreatedFirst, Created
<1>4. ChunksHaveDocument'
  BY DeliveryShape DEF IInv, TypeOK, ChunksHaveDocument
<1>5. StoredAfterInsert'
  BY <1>1 DEF IInv, TypeOK, StoredAfterInsert, Stored
<1>6. FinishersStored'
  BY <1>1 DEF IInv, FinishersStored
<1>7. CountIsBacked'
  BY DEF IInv, CountIsBacked, ChunksOf
<1>8. DeliveriesCounted'
  BY <1>1 DEF IInv, DeliveriesCounted
<1> QED
  BY <1>2, <1>3, <1>4, <1>5, <1>6, <1>7, <1>8 DEF IInv

(* What was found is not changed once chunks are stored.                    *)
LEMMA FetchInv ==
  ASSUME IInv, Queue!TypeOK', NEW x \in Delivery, Fetch(x)
  PROVE  IInv'
<1>1. /\ phase[x] = "fetch" /\ phase' = [phase EXCEPT ![x] = "insert"]
      /\ UNCHANGED <<upload, status, count, chunks, removal, purged, removed, tries>>
      /\ \E n \in Nat : found' = [found EXCEPT ![x] = n]
  BY ChunkCountAssumption DEF Fetch, SetPhase, docVars, userVars, queueVars
<1>2. /\ phase' \in [Delivery -> Phase] /\ phase'[x] = "insert"
      /\ found' \in [Delivery -> Nat]
      /\ \A y \in Delivery : y # x => phase'[y] = phase[y] /\ found'[y] = found[y]
  BY <1>1 DEF IInv, TypeOK, Phase
<1>3. x \notin chunks
  BY <1>1 DEF IInv, StoredAfterInsert
<1>4. TypeOK'
  BY <1>1, <1>2 DEF IInv, TypeOK
<1>5. CreatedFirst' /\ ChunksHaveDocument'
  BY <1>1 DEF IInv, CreatedFirst, Created, ChunksHaveDocument
<1>6. StoredAfterInsert' /\ FinishersStored' /\ DeliveriesCounted'
  BY <1>1, <1>2, <1>3 DEF IInv, TypeOK, StoredAfterInsert, FinishersStored, DeliveriesCounted
<1>7. CountIsBacked'
  <2> SUFFICES ASSUME NEW d \in Doc \ purged, count[d] > 0
               PROVE  \E y \in ChunksOf(d) : found'[y] = count[d]
    BY <1>1 DEF CountIsBacked, ChunksOf
  <2>1. PICK y \in ChunksOf(d) : found[y] = count[d]
    BY DEF IInv, CountIsBacked
  <2>2. y \in Delivery /\ y # x
    BY <1>3 DEF ChunksOf, IInv, TypeOK
  <2> QED
    BY <1>2, <2>1, <2>2
<1> QED
  BY <1>4, <1>5, <1>6, <1>7 DEF IInv

(* Chunks are only stored for a document that has its row.                  *)
LEMMA InsertChunksInv ==
  ASSUME IInv, Queue!TypeOK', NEW x \in Delivery, InsertChunks(x)
  PROVE  IInv'
<1>1. /\ phase[x] = "insert" /\ phase' = [phase EXCEPT ![x] = "finish"]
      /\ found[x] = 0 \/ status[x[1]] # "absent"
      /\ chunks' = IF found[x] = 0 THEN chunks ELSE chunks \union {x}
      /\ UNCHANGED <<upload, status, count, found, removal, purged, removed, tries>>
  BY DEF InsertChunks, SetPhase, userVars, queueVars
<1>2. /\ phase' \in [Delivery -> Phase] /\ phase'[x] = "finish"
      /\ \A y \in Delivery : y # x => phase'[y] = phase[y]
  BY <1>1 DEF IInv, TypeOK, Phase
<1>3. TypeOK'
  BY <1>1, <1>2 DEF IInv, TypeOK
<1>4. CreatedFirst'
  BY <1>1 DEF IInv, CreatedFirst, Created
<1>5. ChunksHaveDocument'
  BY <1>1 DEF IInv, ChunksHaveDocument
<1>6. StoredAfterInsert'
  BY <1>1, <1>2 DEF IInv, TypeOK, StoredAfterInsert
<1>7. FinishersStored'
  BY <1>1, <1>2 DEF IInv, TypeOK, FinishersStored
<1>8. CountIsBacked'
  <2>1. \A d \in Doc : ChunksOf(d) \subseteq ChunksOf(d)'
    BY <1>1 DEF ChunksOf
  <2> QED
    BY <1>1, <2>1 DEF IInv, CountIsBacked
<1>9. DeliveriesCounted'
  BY <1>1, <1>2 DEF IInv, DeliveriesCounted
<1> QED
  BY <1>3, <1>4, <1>5, <1>6, <1>7, <1>8, <1>9 DEF IInv

(* chunk_count becomes the number of chunks the same delivery has stored.   *)
LEMMA MarkIndexedInv ==
  ASSUME IInv, Queue!TypeOK', NEW x \in Delivery, MarkIndexed(x)
  PROVE  IInv'
<1>1. /\ phase[x] = "finish" /\ phase' = [phase EXCEPT ![x] = "ack"]
      /\ SetStatus(x[1], "indexed")
      /\ count' = IF found[x] > 0 /\ status[x[1]] # "absent"
                  THEN [count EXCEPT ![x[1]] = found[x]] ELSE count
      /\ UNCHANGED <<upload, chunks, found, removal, purged, removed, tries>>
  BY DEF MarkIndexed, SetPhase, userVars, queueVars
<1>2. /\ phase' \in [Delivery -> Phase] /\ phase'[x] = "ack"
      /\ \A y \in Delivery : y # x => phase'[y] = phase[y]
  BY <1>1 DEF IInv, TypeOK, Phase
<1>3. /\ status' \in [Doc -> Status]
      /\ \A e \in Doc : status'[e] = "absent" <=> status[e] = "absent"
  BY <1>1, StatusKept, DeliveryShape DEF Status
<1>4. /\ x[1] \in Doc /\ found[x] \in Nat /\ count \in [Doc -> Nat]
      /\ chunks \subseteq Delivery
  BY DeliveryShape DEF IInv, TypeOK
<1>5. TypeOK'
  <2>1. count' \in [Doc -> Nat]
    BY <1>1, <1>4
  <2> QED
    BY <1>1, <1>2, <1>3, <2>1 DEF IInv, TypeOK
<1>6. CreatedFirst'
  BY <1>1, <1>3 DEF IInv, TypeOK, CreatedFirst, Created
<1>7. ChunksHaveDocument'
  BY <1>1, <1>3, DeliveryShape DEF IInv, TypeOK, ChunksHaveDocument
<1>8. StoredAfterInsert' /\ FinishersStored' /\ DeliveriesCounted'
  BY <1>1, <1>2, <1>4 DEF IInv, StoredAfterInsert, FinishersStored, DeliveriesCounted
<1>9. CountIsBacked'
  <2> SUFFICES ASSUME NEW d \in Doc \ purged, count'[d] > 0
               PROVE  \E y \in ChunksOf(d) : found[y] = count'[d]
    BY <1>1 DEF CountIsBacked, ChunksOf
  <2>1. CASE d = x[1] /\ found[x] > 0 /\ status[x[1]] # "absent"
    <3>1. count'[d] = found[x]
      BY <1>1, <1>4, <2>1
    <3>2. x \in ChunksOf(d)
      BY <1>1, <2>1 DEF IInv, FinishersStored, ChunksOf
    <3> QED
      BY <3>1, <3>2
  <2>2. CASE ~(d = x[1] /\ found[x] > 0 /\ status[x[1]] # "absent")
    <3>1. count'[d] = count[d]
      BY <1>1, <1>4, <2>2
    <3> QED
      BY <3>1 DEF IInv, CountIsBacked
  <2> QED
    BY <2>1, <2>2
<1> QED
  BY <1>5, <1>6, <1>7, <1>8, <1>9 DEF IInv

(* Every step of a delivery preserves the invariant.                        *)
LEMMA WorkInv ==
  ASSUME IInv, Queue!TypeOK', NEW x \in Delivery, Work(x)
  PROVE  IInv'
<1> USE DEF userVars, queueVars, docVars
<1>1. status \in [Doc -> Status] /\ x[1] \in Doc
  BY DeliveryShape DEF IInv, TypeOK
<1>2. CASE MarkProcessing(x)
  BY <1>1, <1>2, WorkFrame, StatusKept DEF MarkProcessing, Phase, Stored, Status
<1>3. CASE MarkFailed(x)
  <2>1. CASE SetStatus(x[1], "failed")
    BY <1>1, <1>3, <2>1, WorkFrame, StatusKept DEF MarkFailed, Phase, Stored, Status
  <2>2. CASE UNCHANGED status
    BY <1>1, <1>3, <2>2, WorkFrame DEF MarkFailed, Phase, Stored
  <2> QED
    BY <1>3, <2>1, <2>2 DEF MarkFailed
<1>4. CASE Fail(x)
  BY <1>1, <1>4, WorkFrame DEF Fail, Raises, Phase, Stored
<1>5. CASE AckJob(x) \/ RejectJob(x)
  <2>1. /\ phase[x] \in {"ack", "reject"} /\ SetPhase(x, "over")
        /\ UNCHANGED <<docVars, found, userVars, tries>>
    BY <1>5 DEF AckJob, RejectJob, Queue!Ack, Queue!Reject, Queue!Settle
  <2> QED
    BY <1>1, <2>1, WorkFrame DEF Phase, Stored
<1> QED
  BY <1>2, <1>3, <1>4, <1>5, FetchInv, InsertChunksInv, MarkIndexedInv DEF Work

(* A delivery starts.                                                       *)
LEMMA HandleInv ==
  ASSUME IInv, Queue!TypeOK', NEW d \in Doc, HandleIndexRequest(d)
  PROVE  IInv'
<1> DEFINE e == <<d, tries[d] + 1>>
<1>1. /\ tries' = [tries EXCEPT ![d] = @ + 1] /\ phase' = [phase EXCEPT ![e] = "mark"]
      /\ UNCHANGED <<upload, status, count, chunks, found, removal, purged, removed>>
  BY DEF HandleIndexRequest, Queue!Deliver, SetPhase, docVars, userVars
<1>2. /\ phase \in [Delivery -> Phase] /\ phase' \in [Delivery -> Phase]
      /\ tries \in [Doc -> Nat]
  BY <1>1 DEF IInv, TypeOK, Queue!TypeOK, Phase
<1>3. e \notin chunks
  <2> SUFFICES ASSUME e \in chunks PROVE FALSE
    OBVIOUS
  <2>1. e \in Delivery /\ phase[e] # "idle"
    BY DEF IInv, TypeOK, StoredAfterInsert
  <2>2. e[2] <= tries[e[1]]
    BY <2>1 DEF IInv, DeliveriesCounted
  <2> QED
    BY <1>2, <2>2
<1>4. TypeOK'
  BY <1>1, <1>2 DEF IInv, TypeOK
<1>5. CreatedFirst' /\ ChunksHaveDocument'
  BY <1>1 DEF IInv, CreatedFirst, Created, ChunksHaveDocument
<1>6. StoredAfterInsert' /\ FinishersStored'
  BY <1>1, <1>2, <1>3 DEF IInv, TypeOK, StoredAfterInsert, FinishersStored
<1>7. CountIsBacked'
  BY <1>1 DEF IInv, CountIsBacked, ChunksOf
<1>8. DeliveriesCounted'
  <2> SUFFICES ASSUME NEW x \in Delivery, phase'[x] # "idle"
               PROVE  x[2] <= tries'[x[1]]
    BY DEF DeliveriesCounted
  <2>1. x[1] \in Doc /\ x[2] \in Nat /\ x = <<x[1], x[2]>>
    BY DeliveryShape, QueueAssumption
  <2>2. CASE x = e
    BY <1>1, <1>2, <2>2
  <2>3. CASE x # e
    BY <1>1, <1>2, <2>1, <2>3 DEF IInv, DeliveriesCounted
  <2> QED
    BY <2>2, <2>3
<1> QED
  BY <1>4, <1>5, <1>6, <1>7, <1>8 DEF IInv

(* Deletions: the chunks go first, and the row only when none is left.      *)
LEMMA DeleteInv ==
  ASSUME IInv, Queue!TypeOK', NEW u \in User,
         (\E d \in Doc : DeleteChunks(u, d)) \/ DeleteDocument(u) \/ AbortDelete(u)
  PROVE  IInv'
<1> USE DEF workVars, queueVars
<1>1. CASE \E d \in Doc : DeleteChunks(u, d)
  <2>1. PICK d \in Doc : DeleteChunks(u, d)
    BY <1>1
  <2>2. /\ Created(d) /\ chunks' = chunks \ ChunksOf(d) /\ purged' = purged \union {d}
        /\ removal' = [removal EXCEPT ![u] = d]
        /\ UNCHANGED <<upload, status, count, phase, found, removed, tries>>
    BY <2>1 DEF DeleteChunks, Created
  <2>3. TypeOK'
    BY <2>2 DEF IInv, TypeOK
  <2>4. CreatedFirst'
    BY <2>2 DEF IInv, TypeOK, CreatedFirst, Created
  <2>5. ChunksHaveDocument' /\ StoredAfterInsert' /\ DeliveriesCounted'
    BY <2>2 DEF IInv, ChunksHaveDocument, StoredAfterInsert, DeliveriesCounted
  <2>6. FinishersStored'
    BY <2>2 DEF IInv, FinishersStored, ChunksOf
  <2>7. CountIsBacked'
    <3>1. \A c \in Doc : c # d => ChunksOf(c)' = ChunksOf(c)
      BY <2>2 DEF ChunksOf
    <3> QED
      BY <2>2, <3>1 DEF IInv, CountIsBacked
  <2> QED
    BY <2>3, <2>4, <2>5, <2>6, <2>7 DEF IInv
<1>2. CASE DeleteDocument(u)
  <2> DEFINE d == removal[u]
  <2>1. /\ d # None /\ ChunksOf(d) = {}
        /\ status' = [status EXCEPT ![d] = "absent"] /\ removed' = removed \union {d}
        /\ removal' = [removal EXCEPT ![u] = None]
        /\ UNCHANGED <<upload, count, chunks, phase, found, purged, tries>>
    BY <1>2 DEF DeleteDocument
  <2>2. d \in Doc /\ Created(d)
    BY <2>1 DEF IInv, TypeOK, CreatedFirst
  <2>3. /\ status' \in [Doc -> Status] /\ status'[d] = "absent"
        /\ \A e \in Doc : e # d => status'[e] = status[e]
    BY <2>1, <2>2 DEF IInv, TypeOK, Status
  <2>4. TypeOK'
    BY <2>1, <2>2, <2>3 DEF IInv, TypeOK
  <2>5. CreatedFirst'
    BY <2>1, <2>2, <2>3 DEF IInv, TypeOK, CreatedFirst, Created
  <2>6. ChunksHaveDocument'
    BY <2>1, <2>3, DeliveryShape DEF IInv, TypeOK, ChunksHaveDocument, ChunksOf
  <2>7. StoredAfterInsert' /\ FinishersStored' /\ DeliveriesCounted'
    BY <2>1 DEF IInv, StoredAfterInsert, FinishersStored, DeliveriesCounted
  <2>8. CountIsBacked'
    BY <2>1 DEF IInv, CountIsBacked, ChunksOf
  <2> QED
    BY <2>4, <2>5, <2>6, <2>7, <2>8 DEF IInv
<1>3. CASE AbortDelete(u)
  <2>1. /\ removal' = [removal EXCEPT ![u] = None]
        /\ UNCHANGED <<upload, status, count, chunks, phase, found, purged, removed, tries>>
    BY <1>3 DEF AbortDelete, docVars
  <2>2. TypeOK' /\ CreatedFirst'
    BY <2>1 DEF IInv, TypeOK, CreatedFirst, Created
  <2>3. /\ ChunksHaveDocument' /\ StoredAfterInsert' /\ FinishersStored'
        /\ DeliveriesCounted'
    BY <2>1 DEF IInv, ChunksHaveDocument, StoredAfterInsert, FinishersStored,
                DeliveriesCounted
  <2>4. CountIsBacked'
    BY <2>1 DEF IInv, CountIsBacked, ChunksOf
  <2> QED
    BY <2>2, <2>3, <2>4 DEF IInv
<1> QED
  BY <1>1, <1>2, <1>3

(* The broker's own steps, and nothing.                                     *)
LEMMA BrokerInv ==
  ASSUME IInv, Queue!TypeOK', StartConsumer \/ ConnectionLost \/ UNCHANGED vars
  PROVE  IInv'
<1>1. UNCHANGED <<docVars, workVars, userVars>> /\ UNCHANGED tries
  BY DEF StartConsumer, ConnectionLost, Queue!DeclareQueue, Queue!ConnectionLost, vars,
         queueVars
<1>2. UNCHANGED <<upload, status, count, chunks, workVars, userVars>>
  BY <1>1 DEF docVars
<1>3. \A d \in Doc : Created(d) => Created(d)'
  BY <1>2 DEF Created
<1>4. upload' \in [Doc -> UploadState]
  BY <1>2 DEF IInv, TypeOK
<1> QED
  BY <1>1, <1>2, <1>3, <1>4, UploadStep

(* A crash ends uploads, callbacks and deletions and leaves the tables.     *)
LEMMA CrashInv ==
  ASSUME IInv, Queue!TypeOK', Crash
  PROVE  IInv'
<1>1. /\ UNCHANGED <<status, count, chunks, found, purged, removed, tries>>
      /\ upload' = [d \in Doc |-> IF upload[d] = "publish" THEN "lost" ELSE upload[d]]
      /\ phase' = [x \in Delivery |-> IF phase[x] = "idle" THEN "idle" ELSE "over"]
      /\ removal' = [u \in User |-> None]
  BY DEF Crash, Queue!Crash
<1>2. /\ upload' \in [Doc -> UploadState] /\ phase' \in [Delivery -> Phase]
      /\ \A d \in Doc : Created(d) => Created(d)'
  BY <1>1 DEF IInv, TypeOK, UploadState, Phase, Created
<1>3. TypeOK'
  BY <1>1, <1>2 DEF IInv, TypeOK
<1>4. CreatedFirst'
  BY <1>1, <1>2 DEF IInv, TypeOK, CreatedFirst
<1>5. ChunksHaveDocument'
  BY <1>1 DEF IInv, ChunksHaveDocument
<1>6. StoredAfterInsert' /\ FinishersStored' /\ DeliveriesCounted'
  BY <1>1 DEF IInv, TypeOK, StoredAfterInsert, FinishersStored, DeliveriesCounted
<1>7. CountIsBacked'
  BY <1>1 DEF IInv, CountIsBacked, ChunksOf
<1> QED
  BY <1>3, <1>4, <1>5, <1>6, <1>7 DEF IInv

(* Every step preserves the invariant.                                      *)
LEMMA IInvNext == IInv /\ [Next]_vars => IInv'
<1> SUFFICES ASSUME IInv, [Next]_vars PROVE IInv'
  OBVIOUS
<1>1. Queue!TypeOK'
  BY QueueStep, QueueTypeNext DEF IInv, TypeOK
<1> QED
  BY <1>1, UploadInv, HandleInv, WorkInv, DeleteInv, BrokerInv, CrashInv DEF Next

(* The invariant holds in every reachable state.                            *)
THEOREM Invariance == Spec => []IInv
  BY IInvInit, IInvNext, PTL DEF Spec

(* Type correctness of the knowledge base.                                  *)
THEOREM TypeCorrect == Spec => []TypeOK
  BY Invariance, PTL DEF IInv

(* A deletion that was answered holds for good, jobs still waiting or not.  *)
THEOREM DeletionIsFinal == Spec => []RemovedForGood
<1>1. IInv => RemovedForGood
  BY DeliveryShape
  DEF IInv, TypeOK, CreatedFirst, ChunksHaveDocument, RemovedForGood, ChunksOf
<1> QED
  BY <1>1, Invariance, PTL

(* No chunk outlives its document.                                          *)
THEOREM NoOrphanChunks == Spec => []ChunksHaveDocument
  BY Invariance, PTL DEF IInv

(* chunk_count is backed by chunks that are stored.                         *)
THEOREM CountsAreBacked == Spec => []CountIsBacked
  BY Invariance, PTL DEF IInv

(* The queue inside this module keeps the invariant proved of WorkQueue.    *)
LEMMA QueueInvariance == Spec => []QueueProofs!Inv
<1> USE QueueAssumption
    DEF QueueProofs!PrefetchAssumption, QueueProofs!MaxFaultsAssumption
<1>1. Init => QueueProofs!Inv
  <2>1. Init => QueueProofs!Init
    BY DEF Init, Queue!Init, QueueProofs!Init
  <2> QED
    BY <2>1, QueueProofs!InvInit
<1>2. [Queue!Next]_(Queue!qvars) => [QueueProofs!Next]_(QueueProofs!qvars)
  <2>1. Queue!DeclareQueue => QueueProofs!DeclareQueue
    BY DEF Queue!DeclareQueue, QueueProofs!DeclareQueue
  <2>2. /\ Queue!ConnectionLost => QueueProofs!ConnectionLost
        /\ Queue!Crash => QueueProofs!Crash
    BY DEF Queue!ConnectionLost, Queue!Crash, Queue!Requeued, QueueProofs!ConnectionLost,
           QueueProofs!Crash, QueueProofs!Requeued
  <2>3. ASSUME NEW d \in Doc
        PROVE  /\ Queue!Publish(d) => QueueProofs!Publish(d)
               /\ Queue!Deliver(d) => QueueProofs!Deliver(d)
    <3>1. Queue!Publish(d) => QueueProofs!Publish(d)
      BY DEF Queue!Publish, QueueProofs!Publish
    <3>2. Queue!Cardinality(Queue!Outstanding)
          = QueueProofs!Cardinality(QueueProofs!Outstanding)
      BY DEF Queue!Outstanding, QueueProofs!Outstanding, Queue!Cardinality,
             QueueProofs!Cardinality
    <3>3. Queue!Deliver(d) => QueueProofs!Deliver(d)
      BY <3>2 DEF Queue!Deliver, QueueProofs!Deliver
    <3> QED
      BY <3>1, <3>3
  <2>4. ASSUME NEW d \in Doc, NEW n \in 1 .. MaxFaults + 1
        PROVE  /\ Queue!Ack(d, n) => QueueProofs!Ack(d, n)
               /\ Queue!Reject(d, n) => QueueProofs!Reject(d, n)
    BY DEF Queue!Ack, Queue!Reject, Queue!Settle, Queue!Heard, QueueProofs!Ack,
           QueueProofs!Reject, QueueProofs!Settle, QueueProofs!Heard
  <2> QED
    BY <2>1, <2>2, <2>3, <2>4
    DEF Queue!Next, Queue!qvars, QueueProofs!Next, QueueProofs!qvars
<1>3. QueueProofs!Inv /\ [Next]_vars => QueueProofs!Inv'
  BY <1>2, QueueStep, QueueProofs!InvNext
<1> QED
  BY <1>1, <1>3, PTL DEF Spec

(* The copies of a document are told apart by their deliveries, numbered    *)
(* from 1 to at most faults + 1.                                            *)
LEMMA CopiesNumbered ==
  ASSUME IInv, QueueProofs!Inv
  PROVE  CopiesBoundedByFaults
<1> SUFFICES ASSUME NEW d \in Doc
             PROVE  Cardinality(ChunksOf(d)) <= faults + 1
  BY DEF CopiesBoundedByFaults
<1> DEFINE number == [x \in ChunksOf(d) |-> x[2]]
<1>1. faults \in Nat /\ tries[d] \in Nat /\ tries[d] <= faults + 1
  BY QueueAssumption
  DEF QueueProofs!Inv, QueueProofs!TypeOK, QueueProofs!TriesBounded
<1>2. \A x \in ChunksOf(d) : x = <<d, x[2]>> /\ x[2] \in 1 .. faults + 1
  <2> SUFFICES ASSUME NEW x \in ChunksOf(d)
               PROVE  x = <<d, x[2]>> /\ x[2] \in 1 .. faults + 1
    OBVIOUS
  <2>1. x \in chunks /\ x[1] = d /\ x \in Delivery
    BY DEF ChunksOf, IInv, TypeOK
  <2>2. x = <<d, x[2]>> /\ x[2] \in 1 .. MaxFaults + 1
    BY <2>1, DeliveryShape
  <2>3. x[2] <= tries[d]
    BY <2>1 DEF IInv, StoredAfterInsert, DeliveriesCounted
  <2> QED
    BY <1>1, <2>2, <2>3, QueueAssumption
<1>3. number \in Injection(ChunksOf(d), 1 .. faults + 1)
  <2>1. number \in [ChunksOf(d) -> 1 .. faults + 1]
    BY <1>2
  <2>2. \A a, b \in ChunksOf(d) : number[a] = number[b] => a = b
    BY <1>2
  <2> QED
    BY <2>1, <2>2 DEF Injection, IsInjective
<1>4. IsFiniteSet(1 .. faults + 1) /\ Cardinality(1 .. faults + 1) = faults + 1
  BY <1>1, FS_Interval
<1>5. Cardinality(ChunksOf(d)) <= Cardinality(1 .. faults + 1)
  BY <1>3, <1>4, FS_Injection
<1> QED
  BY <1>4, <1>5

(* A document's chunks are stored once, and once more at most for each fault*)
THEOREM CopiesBounded == Spec => []CopiesBoundedByFaults
  BY CopiesNumbered, Invariance, QueueInvariance, PTL

-----------------------------------------------------------------------------
(* The refinement of Catalogue.                                             *)

(* A deletion comes to the row of a document whose chunks it has taken.     *)
RemovalsPurged == \A u \in User : removal[u] # None => removal[u] \in purged

(* It stays so in every step: only DeleteChunks begins a removal.           *)
LEMMA PurgedInvariance == Spec => []RemovalsPurged
<1>1. Init => RemovalsPurged
  BY DEF Init, RemovalsPurged
<1>2. ASSUME IInv, RemovalsPurged, [Next]_vars PROVE RemovalsPurged'
  <2>1. ASSUME NEW u \in User, NEW d \in Doc, DeleteChunks(u, d) PROVE RemovalsPurged'
    BY <1>2, <2>1 DEF DeleteChunks, RemovalsPurged, IInv, TypeOK
  <2>2. ASSUME NEW u \in User, DeleteDocument(u) \/ AbortDelete(u) PROVE RemovalsPurged'
    BY <1>2, <2>2 DEF DeleteDocument, AbortDelete, RemovalsPurged, IInv, TypeOK
  <2>3. CASE Crash
    BY <2>3 DEF Crash, RemovalsPurged
  <2>4. CASE UNCHANGED userVars
    BY <1>2, <2>4 DEF userVars, RemovalsPurged
  <2>5. ASSUME NEW d \in Doc,
               \/ CreateDocument(d) \/ RefuseUpload(d) \/ AbortUpload(d) \/ PublishJob(d)
               \/ HandleIndexRequest(d)
        PROVE  UNCHANGED userVars
    BY <2>5 DEF CreateDocument, RefuseUpload, AbortUpload, PublishJob, HandleIndexRequest
  <2>6. ASSUME NEW x \in Delivery, Work(x) PROVE UNCHANGED userVars
    BY <2>6 DEF Work, MarkProcessing, Fetch, InsertChunks, MarkIndexed, AckJob, Fail, MarkFailed,
                RejectJob
  <2>7. CASE StartConsumer \/ ConnectionLost \/ UNCHANGED vars
    BY <2>4, <2>7 DEF StartConsumer, ConnectionLost, vars, userVars
  <2> QED
    BY <1>2, <2>1, <2>2, <2>3, <2>4, <2>5, <2>6, <2>7 DEF Next
<1> QED
  BY <1>1, <1>2, Invariance, PTL DEF Spec

(* What Catalogue knows and stores.                                         *)
Known == {d \in Doc : upload[d] \notin {"new", "refused"}}
Copies == [x \in chunks |-> found[x]]

(* A step that stores nothing and changes no text that is stored.           *)
LEMMA CopiesFrame ==
  ASSUME chunks' = chunks, \A x \in chunks : found'[x] = found[x]
  PROVE  Copies' = Copies
BY DEF Copies

(* An upload lists its document, or shows nothing of it.                    *)
LEMMA UploadKeepsPromise ==
  ASSUME IInv, NEW d \in Doc,
         CreateDocument(d) \/ RefuseUpload(d) \/ AbortUpload(d) \/ PublishJob(d)
  PROVE  Promise!Add(d) \/ UNCHANGED Promise!vars
<1>1. /\ UNCHANGED <<count, chunks, found, purged, removed>> /\ faults' = faults
      /\ Copies' = Copies /\ upload \in [Doc -> UploadState]
  BY CopiesFrame DEF CreateDocument, RefuseUpload, AbortUpload, PublishJob, Queue!Publish,
                     workVars, userVars, queueVars, IInv, TypeOK
<1>2. CASE CreateDocument(d)
  <2>1. /\ d \notin Known /\ Known' = Known \union {d}
        /\ status' = [status EXCEPT ![d] = "pending"]
    BY <1>1, <1>2 DEF CreateDocument, Known
  <2> QED
    BY <1>1, <2>1 DEF Known, Copies, Promise!Add
<1>3. CASE RefuseUpload(d) \/ AbortUpload(d) \/ PublishJob(d)
  <2>1. Known' = Known /\ status' = status
    BY <1>1, <1>3 DEF RefuseUpload, AbortUpload, PublishJob, Known
  <2> QED
    BY <1>1, <2>1 DEF Known, Copies, Promise!vars
<1> QED
  BY <1>2, <1>3

(* A new status of a row that is there, chunk_count as it was.              *)
LEMMA StatusKeepsPromise ==
  ASSUME NEW d \in Doc, NEW s \in {"processing", "indexed", "failed"}, SetStatus(d, s),
         UNCHANGED <<upload, count, chunks, found, purged, removed, faults>>
  PROVE  Promise!Report(d) \/ UNCHANGED Promise!vars
BY DEF SetStatus, Promise!Report, Promise!vars

(* chunk_count is the number of chunks of a copy, or the document is purged.*)
LEMMA MarkIndexedKeepsPromise ==
  ASSUME IInv, NEW x \in Delivery, found[x] \in ChunkCount \union {0}, MarkIndexed(x)
  PROVE  Promise!Report(x[1]) \/ UNCHANGED Promise!vars
<1>1. /\ UNCHANGED <<upload, chunks, found, purged, removed, faults>> /\ phase[x] = "finish"
      /\ SetStatus(x[1], "indexed") /\ x[1] \in Doc
  BY DeliveryShape DEF MarkIndexed, userVars, queueVars
<1>2. CASE found[x] > 0 /\ status[x[1]] # "absent"
  <2>1. /\ count' = [count EXCEPT ![x[1]] = found[x]]
        /\ status' = [status EXCEPT ![x[1]] = "indexed"]
    BY <1>1, <1>2 DEF MarkIndexed, SetStatus
  <2>2. x \in chunks \/ x[1] \in purged
    BY <1>1, <1>2 DEF IInv, FinishersStored
  <2>3. CASE x \in chunks
    <3>1. x \in Promise!CopiesOf(x[1]) /\ found[x] = Copies[x]
      BY <2>3 DEF Promise!CopiesOf, Copies
    <3> QED
      BY <1>1, <1>2, <2>1, <3>1 DEF Copies, Promise!Report
  <2>4. CASE x[1] \in purged
    <3>1. found[x] \in ChunkCount \ {0}
      BY <1>2
    <3> QED
      BY <1>1, <1>2, <2>1, <2>4, <3>1 DEF Promise!Report
  <2> QED
    BY <2>2, <2>3, <2>4
<1>3. CASE ~(found[x] > 0 /\ status[x[1]] # "absent")
  <2>1. count' = count
    BY <1>3 DEF MarkIndexed
  <2> QED
    BY <1>1, <2>1, StatusKeepsPromise
<1> QED
  BY <1>2, <1>3

(* Chunks come to a document that is listed, and each delivery brings them  *)
(* once.                                                                    *)
LEMMA InsertKeepsPromise ==
  ASSUME IInv, NEW x \in Delivery, found[x] \in ChunkCount \union {0},
         tries[x[1]] \in Nat, faults \in Nat, tries[x[1]] <= faults + 1, InsertChunks(x)
  PROVE  Promise!Store(x[1]) \/ UNCHANGED Promise!vars
<1>1. /\ UNCHANGED <<upload, status, count, found, purged, removed, faults>>
      /\ phase[x] = "insert" /\ x[1] \in Doc /\ x = <<x[1], x[2]>>
  BY DeliveryShape DEF InsertChunks, userVars, queueVars
<1>2. CASE found[x] = 0
  <2>1. chunks' = chunks
    BY <1>2 DEF InsertChunks
  <2> QED
    BY <1>1, <2>1 DEF Promise!vars
<1>3. CASE found[x] # 0
  <2>1. chunks' = chunks \union {x} /\ status[x[1]] # "absent"
    BY <1>3 DEF InsertChunks
  <2>2. x \notin chunks
    BY <1>1 DEF IInv, StoredAfterInsert
  <2>3. x[2] \in 1 .. faults + 1
    BY <1>1, DeliveryShape, QueueAssumption DEF IInv, DeliveriesCounted
  <2>4. found[x] \in ChunkCount \ {0}
    BY <1>3
  <2>5. Copies' = [y \in DOMAIN Copies \union {x} |-> IF y = x THEN found[x] ELSE Copies[y]]
    BY <1>1, <2>1 DEF Copies
  <2> QED
    BY <1>1, <2>1, <2>2, <2>3, <2>4, <2>5 DEF Copies, Promise!Store
<1> QED
  BY <1>2, <1>3

(* The steps of a delivery.                                                 *)
LEMMA WorkKeepsPromise ==
  ASSUME IInv, NEW x \in Delivery, found[x] \in ChunkCount \union {0},
         tries[x[1]] \in Nat, faults \in Nat, tries[x[1]] <= faults + 1, Work(x)
  PROVE  [Promise!Next]_(Promise!vars)
<1>1. x[1] \in Doc
  BY DeliveryShape
<1>2. CASE MarkProcessing(x) \/ MarkFailed(x)
  <2>1. /\ UNCHANGED <<upload, count, chunks, found, purged, removed, faults>>
        /\ SetStatus(x[1], "processing") \/ SetStatus(x[1], "failed") \/ UNCHANGED status
    BY <1>2 DEF MarkProcessing, MarkFailed, userVars, queueVars
  <2>2. CASE UNCHANGED status
    BY <2>1, <2>2 DEF Promise!vars
  <2> QED
    BY <1>1, <2>1, <2>2, StatusKeepsPromise DEF Promise!Next
<1>3. CASE Fetch(x)
  <2>1. x \notin chunks
    BY <1>3 DEF Fetch, IInv, StoredAfterInsert
  <2>2. /\ UNCHANGED <<upload, status, count, chunks, purged, removed, faults>>
        /\ \A y \in chunks : found'[y] = found[y]
    BY <1>3, <2>1 DEF Fetch, docVars, userVars, queueVars, IInv, TypeOK
  <2>3. Copies' = Copies
    BY <2>2, CopiesFrame
  <2> QED
    BY <2>2, <2>3 DEF Copies, Promise!vars
<1>4. CASE AckJob(x) \/ RejectJob(x) \/ Fail(x)
  <2>1. UNCHANGED <<upload, status, count, chunks, found, purged, removed, faults>>
    BY <1>4 DEF AckJob, RejectJob, Fail, Queue!Ack, Queue!Reject, Queue!Settle, docVars, userVars,
                queueVars
  <2> QED
    BY <2>1 DEF Promise!vars
<1> QED
  BY <1>1, <1>2, <1>3, <1>4, InsertKeepsPromise, MarkIndexedKeepsPromise DEF Work, Promise!Next

(* A deletion takes the chunks, then the document.                          *)
LEMMA DeleteKeepsPromise ==
  ASSUME IInv, RemovalsPurged, NEW u \in User,
         (\E d \in Doc : DeleteChunks(u, d)) \/ DeleteDocument(u) \/ AbortDelete(u)
  PROVE  [Promise!Next]_(Promise!vars)
<1>1. ASSUME NEW d \in Doc, DeleteChunks(u, d) PROVE Promise!Empty(d)
  <2>1. /\ UNCHANGED <<upload, status, count, found, removed, faults>> /\ d \in Known
        /\ chunks' = chunks \ ChunksOf(d) /\ purged' = purged \union {d}
    BY <1>1 DEF DeleteChunks, workVars, queueVars, Known
  <2>2. Promise!CopiesOf(d) = ChunksOf(d)
    BY DEF Promise!CopiesOf, ChunksOf
  <2>3. Copies' = [x \in DOMAIN Copies \ ChunksOf(d) |-> Copies[x]]
    BY <2>1 DEF Copies
  <2> QED
    BY <2>1, <2>2, <2>3 DEF Known, Copies, Promise!Empty
<1>2. CASE DeleteDocument(u)
  <2>1. PICK d \in Doc : d = removal[u]
    BY <1>2 DEF DeleteDocument, IInv, TypeOK
  <2>2. /\ UNCHANGED <<upload, count, chunks, found, purged, faults>>
        /\ ChunksOf(d) = {} /\ d \in purged
        /\ status' = [status EXCEPT ![d] = "absent"] /\ removed' = removed \union {d}
    BY <1>2, <2>1 DEF DeleteDocument, workVars, queueVars, RemovalsPurged
  <2>3. Promise!CopiesOf(d) = {}
    BY <2>2 DEF Promise!CopiesOf, ChunksOf
  <2>4. Promise!Remove(d)
    BY <2>2, <2>3 DEF Promise!Remove
  <2> QED
    BY <2>4 DEF Promise!Next
<1>3. CASE AbortDelete(u)
  <2>1. UNCHANGED <<upload, status, count, chunks, found, purged, removed, faults>>
    BY <1>3 DEF AbortDelete, docVars, workVars, queueVars
  <2> QED
    BY <2>1 DEF Promise!vars
<1> QED
  BY <1>1, <1>2, <1>3 DEF Promise!Next

(* What a delivery found is a number of chunks that a text may give.        *)
FoundSome == \A x \in Delivery : found[x] \in ChunkCount \union {0}

(* Only Fetch writes it.                                                    *)
LEMMA FoundInvariance == Spec => []FoundSome
<1>1. Init => FoundSome
  BY DEF Init, FoundSome
<1>2. ASSUME IInv, FoundSome, [Next]_vars PROVE FoundSome'
  <2>1. ASSUME NEW x \in Delivery, Work(x) PROVE FoundSome'
    <3>1. CASE Fetch(x)
      BY <1>2, <3>1 DEF Fetch, FoundSome, IInv, TypeOK
    <3>2. CASE ~ Fetch(x)
      BY <1>2, <2>1, <3>2 DEF Work, MarkProcessing, InsertChunks, MarkIndexed, AckJob, Fail,
                              MarkFailed, RejectJob, FoundSome
    <3> QED
      BY <3>1, <3>2
  <2>2. CASE ~ \E x \in Delivery : Work(x)
    BY <1>2, <2>2 DEF Next, CreateDocument, RefuseUpload, AbortUpload, PublishJob,
       HandleIndexRequest,
       DeleteChunks, DeleteDocument, AbortDelete, StartConsumer, ConnectionLost, Crash, vars,
       workVars, FoundSome
  <2> QED
    BY <2>1, <2>2
<1> QED
  BY <1>1, <1>2, Invariance, PTL DEF Spec

(* Every step of the knowledge base is one of Catalogue or leaves it alone. *)
LEMMA PromiseStep ==
  ASSUME IInv, RemovalsPurged, FoundSome, QueueProofs!Inv, [Next]_vars
  PROVE  [Promise!Next]_(Promise!vars)
<1>1. ASSUME NEW d \in Doc, CreateDocument(d) \/ RefuseUpload(d) \/ AbortUpload(d) \/ PublishJob(d)
      PROVE  [Promise!Next]_(Promise!vars)
  BY <1>1, UploadKeepsPromise DEF Promise!Next
<1>2. ASSUME NEW x \in Delivery, Work(x) PROVE [Promise!Next]_(Promise!vars)
  <2>1. /\ tries[x[1]] \in Nat /\ faults \in Nat /\ tries[x[1]] <= faults + 1
        /\ found[x] \in ChunkCount \union {0}
    BY DeliveryShape, QueueAssumption
    DEF FoundSome, QueueProofs!Inv, QueueProofs!TypeOK, QueueProofs!TriesBounded
  <2> QED
    BY <1>2, <2>1, WorkKeepsPromise
<1>3. ASSUME NEW u \in User,
             (\E d \in Doc : DeleteChunks(u, d)) \/ DeleteDocument(u) \/ AbortDelete(u)
      PROVE  [Promise!Next]_(Promise!vars)
  BY <1>3, DeleteKeepsPromise
<1>4. CASE (\E d \in Doc : HandleIndexRequest(d)) \/ StartConsumer \/ UNCHANGED vars
  <2>1. UNCHANGED <<upload, status, count, chunks, found, purged, removed, faults>>
    BY <1>4 DEF HandleIndexRequest, StartConsumer, Queue!Deliver, Queue!DeclareQueue, docVars,
                workVars, userVars, queueVars, vars
  <2> QED
    BY <2>1 DEF Promise!vars
<1>5. CASE ConnectionLost \/ Crash
  <2>1. /\ UNCHANGED <<status, count, chunks, found, purged, removed>> /\ faults' = faults + 1
    BY <1>5 DEF ConnectionLost, Crash, Queue!ConnectionLost, Queue!Crash, docVars, workVars,
                userVars
  <2>2. Known' = Known
    BY <1>5 DEF ConnectionLost, Crash, docVars, Known, IInv, TypeOK
  <2>3. Promise!Fault
    BY <2>1, <2>2 DEF Known, Promise!Fault
  <2> QED
    BY <2>3 DEF Promise!Next
<1> QED
  BY <1>1, <1>2, <1>3, <1>4, <1>5 DEF Next

(* Uploads, deletions and deliveries show as single steps of a catalogue.   *)
THEOREM ImplementsCatalogue == Spec => CatalogueSpec
<1>1. Init => Promise!Init
  <2> SUFFICES ASSUME Init PROVE Promise!Init
    OBVIOUS
  <2>1. [x \in chunks |-> found[x]] = [x \in {} |-> 0] /\ Known = {}
    BY DEF Init, Known
  <2> QED
    BY <2>1 DEF Init, Queue!Init, Known, Promise!Init
<1>2. IInv /\ RemovalsPurged /\ FoundSome /\ QueueProofs!Inv /\ [Next]_vars =>
        [Promise!Next]_(Promise!vars)
  BY PromiseStep
<1> QED
  BY <1>1, <1>2, Invariance, PurgedInvariance, FoundInvariance, QueueInvariance, PTL
  DEF Spec, CatalogueSpec, Promise!Spec
=============================================================================
