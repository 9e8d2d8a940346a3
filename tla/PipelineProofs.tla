--------------------------- MODULE PipelineProofs ---------------------------
(***************************************************************************)
(* Safety of SalesPipeline for every set of requests, messages, payloads,  *)
(* failures and broken calls, with and without a replica.                  *)
(***************************************************************************)
EXTENDS PipelineInvariant, TLAPS

USE DEF Queue!JobState, Queue!TypeOK

(* The first state satisfies the inductive invariant.                       *)
LEMMA IInvInit == Init => IInv
<1> SUFFICES ASSUME Init PROVE IInv
  OBVIOUS
<1> USE NoneAssumption, QueueAssumption, MaxBatchAssumption
<1>1. TypeOK
  <2>1. Queue!TypeOK
    <3>1. bound \in BOOLEAN
      BY DEF Init, Queue!Init
    <3>2. /\ job \in [Handling -> Queue!JobState] /\ tries \in [Handling -> Nat]
          /\ running \subseteq Handling \X Nat /\ faults \in 0 .. MaxFaults
      BY DEF Init, Queue!Init
    <3> QED
      BY <3>1, <3>2
  <2>2. /\ request \in [Request -> RequestState] /\ batch \in [Request -> Seq(Message)]
        /\ at \in [Request -> Nat] /\ step \in [Request -> Step]
        /\ conversation \in [Request -> Conversation]
        /\ lead \in [Request -> Handling \union {None}]
    BY DEF Init, RequestState, Step, Conversation, NoConversation, Status
  <2>3. /\ status \in [Handling -> Status] /\ agent \in [Handling -> Agent \union {None}]
        /\ leadConv \in [Handling -> Handling \union {None}]
        /\ inbox \in [Handling -> Handling \union {None}] /\ replies \subseteq Delivery
        /\ statusCopy \in [Handling -> Status]
        /\ leadCopy \in [Handling -> Handling \union {None}]
    BY DEF Init, Status
  <2>4. /\ payload \in [Handling -> JobBody \union {None}] /\ missed \subseteq Handling
        /\ phase \in [Delivery -> Phase] /\ sent \subseteq Delivery \X Customer
    BY DEF Init, Phase
  <2> QED
    BY <2>1, <2>2, <2>3, <2>4 DEF TypeOK
<1>2. RequestShape /\ FreshRows /\ ConversationHeld /\ MessageStored /\ LeadHeld
  BY DEF Init, RequestShape, FreshRows, ConversationHeld, MessageStored, LeadHeld
<1>3. /\ RowsReached /\ CopiesLag /\ JobsKnown /\ PhasesKnown /\ AnswersKnown
      /\ InboxLinked /\ JobsMatchTables /\ CustomersKeptApart
  BY DEF Init, Queue!Init, RowsReached, CopiesLag, JobsKnown, PhasesKnown, AnswersKnown,
         InboxLinked, JobsMatchTables, CustomersKeptApart, Handling, Position, Delivery
<1>4. EscalatedNeverSeen /\ RequestsProcessedInOrder
  BY DEF Init, Queue!Init, EscalatedNeverSeen, NoConversation, RequestsProcessedInOrder,
         Reached, Handling, Position
<1> QED
  BY <1>1, <1>2, <1>3, <1>4 DEF IInv

(* A message that was reached comes from a customer.                        *)
LEMMA PhoneKnown ==
  ASSUME TypeOK, RequestShape, NEW h \in Handling, h[2] <= at[h[1]]
  PROVE  MessageOf(h) \in Message /\ Phone(h) \in Customer
<1>1. h[1] \in Request /\ h[2] \in Nat \ {0}
  BY MaxBatchAssumption DEF Handling, Position
<1>2. h[2] \in 1 .. Len(batch[h[1]])
  <2>1. at[h[1]] \in 1 .. Len(batch[h[1]])
    BY <1>1 DEF TypeOK, RequestShape
  <2> QED
    BY <1>1, <2>1
<1>3. MessageOf(h) \in Message
  BY <1>1, <1>2 DEF TypeOK, MessageOf
<1> QED
  BY <1>3, SenderAssumption DEF Phone

(* The message a task works on is a handling of its request.                *)
LEMMA CurrentKnown ==
  ASSUME TypeOK, RequestShape, NEW r \in Request, step[r] # "idle"
  PROVE  /\ Current(r) \in Handling /\ Current(r)[1] = r /\ Current(r)[2] = at[r]
         /\ request[r] = "running" /\ at[r] \in 1 .. Len(batch[r])
<1>1. request[r] = "running" /\ at[r] \in 1 .. Len(batch[r])
  BY DEF RequestShape
<1>2. Len(batch[r]) \in Nat /\ Len(batch[r]) <= MaxBatch
  BY DEF TypeOK, RequestShape
<1>3. at[r] \in Position
  BY <1>1, <1>2, MaxBatchAssumption DEF Position
<1> QED
  BY <1>1, <1>3 DEF Current, Handling

(* A step that leaves the tasks, their rows and the bodies of jobs alone    *)
(* preserves the invariant when conversations stay in existence, jobs stay  *)
(* published, and the worker touches and answers published jobs only.       *)
LEMMA WorkerStep ==
  ASSUME IInv, TypeOK',
         UNCHANGED <<taskVars, leadConv, inbox, copyVars, payload, missed>>,
         \A c \in Handling : status'[c] = "absent" <=> status[c] = "absent",
         \A h \in Handling : job'[h] = "unpublished" <=> job[h] = "unpublished",
         \A d \in Delivery : phase'[d] # "idle" => payload[d[1]] # None,
         \A answer \in sent' : /\ payload[answer[1][1]] # None
                               /\ answer[2] = Phone(answer[1][1])
  PROVE  IInv'
<1> USE DEF taskVars, copyVars
<1>1. /\ RequestShape' /\ RowsReached' /\ FreshRows' /\ MessageStored' /\ LeadHeld'
      /\ EscalatedNeverSeen'
  BY DEF IInv, RequestShape, RowsReached, FreshRows, MessageStored, LeadHeld,
         EscalatedNeverSeen, Current
<1>2. ConversationHeld' /\ CopiesLag'
  BY DEF IInv, ConversationHeld, CopiesLag, Current, Phone, MessageOf
<1>3. JobsKnown' /\ PhasesKnown' /\ AnswersKnown'
  BY DEF IInv, JobsKnown, PhasesKnown, AnswersKnown
<1>4. InboxLinked'
  BY DEF IInv, TypeOK, InboxLinked
<1>5. JobsMatchTables'
  BY DEF IInv, TypeOK, JobBody, JobsMatchTables
<1>6. CustomersKeptApart'
  BY DEF IInv, CustomersKeptApart, Phone, MessageOf
<1>7. RequestsProcessedInOrder'
  BY DEF IInv, RequestsProcessedInOrder, Handled, Reached, Handling
<1> QED
  BY <1>1, <1>2, <1>3, <1>4, <1>5, <1>6, <1>7 DEF IInv

(* Every step of the pipeline is a step of its queue or leaves it alone.    *)
LEMMA QueueStep ==
  ASSUME TypeOK, RequestShape, [Next]_vars
  PROVE  [Queue!Next]_(Queue!qvars)
<1> USE DEF Queue!qvars, Queue!Next, queueVars
<1>1. ASSUME NEW r \in Request,
             \/ \E p \in Payload : Accept(r, p) \/ Refuse(r, p)
             \/ FindConversation(r) \/ CreateConversation(r) \/ AddMessage(r)
             \/ FindLead(r) \/ CreateLead(r) \/ Abort(r)
      PROVE  UNCHANGED queueVars
  BY <1>1 DEF Accept, Refuse, FindConversation, CreateConversation, AddMessage, FindLead,
              CreateLead, Abort
<1>2. ASSUME NEW r \in Request, PublishJob(r)
      PROVE  [Queue!Next]_(Queue!qvars)
  <2>1. Current(r) \in Handling
    BY <1>2, CurrentKnown DEF PublishJob
  <2> QED
    BY <1>2, <2>1 DEF PublishJob
<1>3. ASSUME NEW h \in Handling, HandleMessage(h)
      PROVE  Queue!Next
  BY <1>3 DEF HandleMessage
<1>4. ASSUME NEW d \in Delivery, Work(d)
      PROVE  [Queue!Next]_(Queue!qvars)
  <2>1. d[1] \in Handling /\ d[2] \in 1 .. MaxFaults + 1
    BY DEF Delivery, Attempt
  <2>2. CASE AckJob(d) \/ RejectJob(d)
    BY <2>1, <2>2 DEF AckJob, RejectJob
  <2>3. CASE \/ Escalate(d) \/ Respond(d) \/ UpdateLeadScore(d) \/ LookUpConversation(d)
             \/ SendAnswer(d) \/ PersistAnswer(d)
    BY <2>3 DEF Escalate, Respond, UpdateLeadScore, LookUpConversation, SendAnswer,
                PersistAnswer
  <2> QED
    BY <1>4, <2>2, <2>3 DEF Work
<1>5. ASSUME NEW c \in Handling, (\E a \in Agent : Takeover(c, a)) \/ Release(c)
      PROVE  UNCHANGED queueVars
  BY <1>5 DEF Takeover, Release
<1>6. CASE Replicate \/ StartConsumer \/ ConnectionLost \/ Crash
  BY <1>6 DEF Replicate, StartConsumer, ConnectionLost, Crash
<1>7. CASE UNCHANGED vars
  BY <1>7 DEF vars
<1> QED
  BY <1>1, <1>2, <1>3, <1>4, <1>5, <1>6, <1>7 DEF Next, Task

(* The type invariant of the queue is preserved.                            *)
LEMMA QueueTypeNext ==
  ASSUME Queue!TypeOK, [Queue!Next]_(Queue!qvars)
  PROVE  Queue!TypeOK'
<1> USE QueueAssumption
<1>1. CASE Queue!DeclareQueue
  BY <1>1 DEF Queue!DeclareQueue
<1>2. CASE Queue!ConnectionLost
  BY <1>2 DEF Queue!ConnectionLost, Queue!Requeued
<1>3. CASE Queue!Crash
  BY <1>3 DEF Queue!Crash, Queue!Requeued
<1>4. ASSUME NEW h \in Handling, Queue!Publish(h)
      PROVE  Queue!TypeOK'
  BY <1>4 DEF Queue!Publish
<1>5. ASSUME NEW h \in Handling, Queue!Deliver(h)
      PROVE  Queue!TypeOK'
  BY <1>5 DEF Queue!Deliver
<1>6. ASSUME NEW h \in Handling, NEW n \in 1 .. MaxFaults + 1,
             Queue!Ack(h, n) \/ Queue!Reject(h, n)
      PROVE  Queue!TypeOK'
  BY <1>6 DEF Queue!Ack, Queue!Reject, Queue!Settle
<1>7. CASE UNCHANGED Queue!qvars
  BY <1>7 DEF Queue!qvars
<1> QED
  BY <1>1, <1>2, <1>3, <1>4, <1>5, <1>6, <1>7 DEF Queue!Next

(* The conversation of a published job exists, and its customer is known.   *)
LEMMA JobConversation ==
  ASSUME IInv, NEW h \in Handling, payload[h] # None
  PROVE  /\ payload[h].conversation \in Handling
         /\ status[payload[h].conversation] # "absent"
         /\ Phone(payload[h].conversation) = Phone(h)
         /\ Phone(h) \in Customer
<1>1. payload[h] \in JobBody
  BY DEF IInv, TypeOK
<1>2. payload[h].conversation \in Handling
  BY <1>1 DEF JobBody
<1>3. status[payload[h].conversation] # "absent" /\ inbox[h] = payload[h].conversation
  BY DEF IInv, JobsMatchTables
<1>4. Phone(payload[h].conversation) = Phone(h)
  BY <1>2, <1>3, NoneAssumption DEF IInv, CustomersKeptApart
<1>5. Phone(h) \in Customer
  <2>1. h[2] <= at[h[1]]
    BY DEF IInv, RowsReached
  <2> QED
    BY <2>1, PhoneKnown DEF IInv
<1> QED
  BY <1>2, <1>3, <1>4, <1>5

(* The delivery of a job, and each step of the worker on it.                *)
LEMMA HandleMessageInv ==
  ASSUME IInv, Queue!TypeOK', NEW h \in Handling, HandleMessage(h)
  PROVE  IInv'
<1> USE DEF HandleMessage
<1>1. payload[h] # None
  BY DEF IInv, JobsKnown, Queue!Deliver
<1>2. phase' \in [Delivery -> Phase]
  BY DEF SetPhase, IInv, TypeOK, Phase
<1>3. TypeOK'
  BY <1>2 DEF IInv, TypeOK, taskVars, dbVars, convVars, copyVars
<1>4. \A g \in Handling : job'[g] = "unpublished" <=> job[g] = "unpublished"
  BY DEF Queue!Deliver, IInv, TypeOK
<1>5. \A d \in Delivery : phase'[d] # "idle" => payload[d[1]] # None
  BY <1>1 DEF SetPhase, IInv, TypeOK, PhasesKnown
<1> QED
  BY <1>3, <1>4, <1>5, WorkerStep
  DEF dbVars, convVars, IInv, AnswersKnown, CustomersKeptApart

LEMMA WorkInv ==
  ASSUME IInv, Queue!TypeOK', NEW d \in Delivery, Work(d)
  PROVE  IInv'
<1> DEFINE h == d[1]
<1>1. h \in Handling /\ d[2] \in 1 .. MaxFaults + 1
  BY DEF Delivery, Attempt
<1>2. phase[d] # "idle"
  <2>1. CASE RejectJob(d)
    BY <2>1 DEF RejectJob, Needs, Calls
  <2> QED
    BY <2>1 DEF Work, Escalate, Respond, UpdateLeadScore, LookUpConversation, SendAnswer,
               PersistAnswer, AckJob
<1>3. payload[h] # None
  BY <1>1, <1>2 DEF IInv, PhasesKnown
<1>4. /\ payload[h].conversation \in Handling
      /\ status[payload[h].conversation] # "absent"
      /\ Phone(payload[h].conversation) = Phone(h)
      /\ Phone(h) \in Customer
  BY <1>1, <1>3, JobConversation
<1>5. \E p \in Phase : SetPhase(d, p)
  BY DEF Work, Escalate, Respond, UpdateLeadScore, LookUpConversation, SendAnswer,
         PersistAnswer, AckJob, RejectJob, Phase
<1>6. phase' \in [Delivery -> Phase]
  BY <1>5 DEF SetPhase, IInv, TypeOK
<1>7. \A e \in Delivery : phase'[e] # "idle" => payload[e[1]] # None
  BY <1>3, <1>5 DEF SetPhase, IInv, TypeOK, PhasesKnown
<1>8. UNCHANGED <<taskVars, leadConv, inbox, copyVars, payload, missed, agent>>
  BY DEF Work, Escalate, Respond, UpdateLeadScore, LookUpConversation, SendAnswer,
         PersistAnswer, AckJob, RejectJob, dbVars, convVars
<1>9. /\ status' \in [Handling -> Status]
      /\ \A c \in Handling : status'[c] = "absent" <=> status[c] = "absent"
  <2>1. CASE Escalate(d)
    BY <2>1, <1>4 DEF Escalate, IInv, TypeOK, Status
  <2>2. CASE ~Escalate(d)
    BY <2>2 DEF Work, Respond, UpdateLeadScore, LookUpConversation, SendAnswer,
           PersistAnswer, AckJob, RejectJob, dbVars, convVars, IInv, TypeOK
  <2> QED
    BY <2>1, <2>2
<1>10. \A g \in Handling : job'[g] = "unpublished" <=> job[g] = "unpublished"
  <2>1. CASE AckJob(d) \/ RejectJob(d)
    BY <2>1 DEF AckJob, RejectJob, Queue!Ack, Queue!Reject, Queue!Settle, Queue!Heard,
                IInv, TypeOK
  <2>2. CASE ~(AckJob(d) \/ RejectJob(d))
    BY <2>2 DEF Work, Escalate, Respond, UpdateLeadScore, LookUpConversation, SendAnswer,
           PersistAnswer, queueVars
  <2> QED
    BY <2>1, <2>2
<1>11. /\ sent' \subseteq Delivery \X Customer
       /\ \A answer \in sent' : /\ payload[answer[1][1]] # None
                                /\ answer[2] = Phone(answer[1][1])
  <2>1. CASE SendAnswer(d)
    <3>1. sent' = sent \union {<<d, Phone(payload[h].conversation)>>}
      BY <2>1 DEF SendAnswer
    <3> QED
      BY <3>1, <1>3, <1>4 DEF IInv, TypeOK, AnswersKnown, CustomersKeptApart
  <2>2. CASE ~SendAnswer(d)
    <3>1. sent' = sent
      BY <2>2 DEF Work, Escalate, Respond, UpdateLeadScore, LookUpConversation,
             PersistAnswer, AckJob, RejectJob
    <3> QED
      BY <3>1 DEF IInv, TypeOK, AnswersKnown, CustomersKeptApart
  <2> QED
    BY <2>1, <2>2
<1>12. replies' \subseteq Delivery
  BY DEF Work, Escalate, Respond, UpdateLeadScore, LookUpConversation, SendAnswer,
         PersistAnswer, AckJob, RejectJob, dbVars, IInv, TypeOK
<1>13. TypeOK'
  BY <1>6, <1>8, <1>9, <1>11, <1>12 DEF IInv, TypeOK, taskVars, copyVars
<1> QED
  BY <1>7, <1>8, <1>9, <1>10, <1>11, <1>13, WorkerStep

(* A human agent takes a conversation over or releases it.                  *)
LEMMA DashboardInv ==
  ASSUME IInv, NEW c \in Handling, (\E a \in Agent : Takeover(c, a)) \/ Release(c)
  PROVE  IInv'
<1> USE DEF Takeover, Release
<1>1. UNCHANGED <<taskVars, leadConv, inbox, replies, copyVars, payload, missed,
                  phase, sent, bound, job, tries, running, faults>>
  BY DEF workVars, queueVars
<1>2. /\ status' \in [Handling -> Status]
      /\ \A d \in Handling : status'[d] = "absent" <=> status[d] = "absent"
  BY DEF IInv, TypeOK, Status
<1>3. agent' \in [Handling -> Agent \union {None}]
  BY DEF IInv, TypeOK
<1>4. TypeOK'
  BY <1>1, <1>2, <1>3 DEF IInv, TypeOK, taskVars, copyVars
<1> QED
  BY <1>1, <1>2, <1>4, WorkerStep
  DEF IInv, PhasesKnown, AnswersKnown, CustomersKeptApart

(* The consumer starts, or its connection drops.                            *)
LEMMA BrokerInv ==
  ASSUME IInv, Queue!TypeOK', StartConsumer \/ ConnectionLost
  PROVE  IInv'
<1> USE DEF StartConsumer, ConnectionLost
<1>1. UNCHANGED <<taskVars, dbVars, copyVars, payload, missed, workVars>>
  OBVIOUS
<1>2. TypeOK'
  BY <1>1 DEF IInv, TypeOK, taskVars, dbVars, convVars, copyVars, workVars
<1>3. \A h \in Handling : job'[h] = "unpublished" <=> job[h] = "unpublished"
  BY DEF Queue!DeclareQueue, Queue!ConnectionLost, Queue!Requeued, IInv, TypeOK
<1> QED
  BY <1>1, <1>2, <1>3, WorkerStep
  DEF dbVars, convVars, workVars, IInv, PhasesKnown, AnswersKnown, CustomersKeptApart

(* Phone numbers rest on the batches of the requests alone.                 *)
LEMMA CustomersFrame ==
  ASSUME IInv, UNCHANGED <<batch, inbox, sent>>
  PROVE  CustomersKeptApart'
BY DEF IInv, CustomersKeptApart, Phone, MessageOf

(* ConversationHeld after a step that extracts and ends no message, with the*)
(* phone numbers of the state before it.                                    *)
LEMMA HeldByPhones ==
  ASSUME UNCHANGED <<batch, at>>,
         \A q \in Request :
           step'[q] \in {"addMessage", "findLead", "createLead", "publish"} =>
             /\ conversation'[q].id \in Handling
             /\ status'[conversation'[q].id] # "absent"
             /\ Phone(conversation'[q].id) = Phone(Current(q))
  PROVE  ConversationHeld'
BY DEF ConversationHeld, Current, Phone, MessageOf

(* The replica catches up.                                                  *)
LEMMA ReplicateInv ==
  ASSUME IInv, Replicate
  PROVE  IInv'
<1> USE DEF Replicate
<1>1. UNCHANGED <<taskVars, status, agent, leadConv, inbox, replies, payload, missed,
                  phase, sent, bound, job, tries, running, faults>>
  BY DEF dbVars, convVars, workVars, queueVars
<1>2. TypeOK'
  BY <1>1 DEF IInv, TypeOK, taskVars
<1>3. CopiesLag'
  BY <1>1 DEF CopiesLag
<1>4. /\ RequestShape' /\ RowsReached' /\ FreshRows' /\ MessageStored' /\ LeadHeld'
      /\ EscalatedNeverSeen'
  BY <1>1 DEF taskVars, IInv, RequestShape, RowsReached, FreshRows, MessageStored, LeadHeld,
              EscalatedNeverSeen, Current
<1>5. ConversationHeld' /\ CustomersKeptApart'
  BY <1>1 DEF taskVars, IInv, ConversationHeld, CustomersKeptApart, Current, Phone, MessageOf
<1>6. /\ JobsKnown' /\ PhasesKnown' /\ AnswersKnown' /\ InboxLinked' /\ JobsMatchTables'
  BY <1>1 DEF IInv, JobsKnown, PhasesKnown, AnswersKnown, InboxLinked, JobsMatchTables
<1>7. RequestsProcessedInOrder'
  BY <1>1 DEF taskVars, IInv, RequestsProcessedInOrder, Handled, Reached
<1> QED
  BY <1>2, <1>3, <1>4, <1>5, <1>6, <1>7 DEF IInv

(* A crash ends every task and callback and leaves the tables alone.        *)
LEMMA CrashInv ==
  ASSUME IInv, Queue!TypeOK', Crash
  PROVE  IInv'
<1> USE DEF Crash
<1>1. /\ UNCHANGED <<batch, at, status, agent, leadConv, inbox, replies, statusCopy,
                     leadCopy, payload, missed, sent>>
      /\ \A r \in Request : step'[r] = "idle" /\ conversation'[r] = NoConversation
      /\ \A r \in Request :
           request'[r] = IF request[r] = "running" THEN "lost" ELSE request[r]
      /\ \A d \in Delivery : phase'[d] = IF phase[d] = "idle" THEN "idle" ELSE "over"
  BY DEF dbVars, convVars, copyVars
<1>2. TypeOK'
  <2>1. request' \in [Request -> RequestState]
    BY DEF IInv, TypeOK, RequestState
  <2>2. /\ step' \in [Request -> Step] /\ conversation' \in [Request -> Conversation]
        /\ lead' \in [Request -> Handling \union {None}]
    BY DEF Step, Conversation, NoConversation, Status
  <2>3. phase' \in [Delivery -> Phase]
    BY DEF Phase
  <2> QED
    BY <1>1, <2>1, <2>2, <2>3 DEF IInv, TypeOK
<1>3. RequestShape'
  BY <1>1 DEF IInv, TypeOK, RequestShape
<1>4. /\ RowsReached' /\ FreshRows' /\ ConversationHeld' /\ MessageStored' /\ LeadHeld'
      /\ EscalatedNeverSeen' /\ CopiesLag'
  BY <1>1 DEF IInv, RowsReached, FreshRows, ConversationHeld, MessageStored, LeadHeld,
              EscalatedNeverSeen, NoConversation, CopiesLag
<1>5. \A h \in Handling : job'[h] = "unpublished" <=> job[h] = "unpublished"
  BY DEF Queue!Crash, Queue!Requeued, IInv, TypeOK
<1>6. /\ JobsKnown' /\ PhasesKnown' /\ AnswersKnown' /\ InboxLinked'
      /\ JobsMatchTables' /\ CustomersKeptApart'
  <2>1. JobsKnown' /\ PhasesKnown' /\ AnswersKnown'
    BY <1>1, <1>5 DEF IInv, JobsKnown, PhasesKnown, AnswersKnown
  <2>2. InboxLinked' /\ JobsMatchTables'
    BY <1>1 DEF IInv, InboxLinked, JobsMatchTables
  <2>3. CustomersKeptApart'
    BY <1>1, CustomersFrame
  <2> QED
    BY <2>1, <2>2, <2>3
<1>7. RequestsProcessedInOrder'
  <2>1. \A r \in Request : Reached(r)' = Reached(r)
    BY <1>1 DEF Reached
  <2>2. \A h \in Handling : Handled(h)' <=> Handled(h)
    BY <1>1, <1>5 DEF Handled
  <2> QED
    BY <1>1, <1>5, <2>1, <2>2 DEF IInv, RequestsProcessedInOrder, Handling
<1> QED
  BY <1>2, <1>3, <1>4, <1>6, <1>7 DEF IInv

(* A request comes in: nothing was reached in it, so no phone number moves. *)
LEMMA AcceptInv ==
  ASSUME IInv, NEW r \in Request, NEW p \in Payload, Accept(r, p)
  PROVE  IInv'
<1> USE DEF Accept
<1>1. UNCHANGED <<conversation, lead, status, agent, leadConv, inbox, replies, statusCopy,
                  leadCopy, payload, missed, phase, sent, bound, job, tries, running,
                  faults>>
  BY DEF dbVars, convVars, copyVars, workVars, queueVars
<1>2. /\ p.messages \in Seq(Message) /\ Len(p.messages) \in 1 .. MaxBatch
  BY PayloadAssumption
<1>3. at[r] = 0
  BY DEF IInv, RequestShape
<1>4. /\ request' = [request EXCEPT ![r] = "running"]
      /\ batch' = [batch EXCEPT ![r] = p.messages]
      /\ at' = [at EXCEPT ![r] = 1]
      /\ step' = [step EXCEPT ![r] = "findConversation"]
  OBVIOUS
<1>5. TypeOK'
  <2>1. /\ request' \in [Request -> RequestState] /\ step' \in [Request -> Step]
        /\ at' \in [Request -> Nat]
    BY <1>4 DEF IInv, TypeOK, RequestState, Step
  <2>2. batch' \in [Request -> Seq(Message)]
    BY <1>2, <1>4 DEF IInv, TypeOK
  <2> QED
    BY <1>1, <2>1, <2>2 DEF IInv, TypeOK
<1>6. RequestShape'
  <2> SUFFICES ASSUME NEW q \in Request
               PROVE  /\ Len(batch'[q]) <= MaxBatch
                      /\ step'[q] # "idle" <=> request'[q] = "running"
                      /\ IF request'[q] \in {"new", "refused"} THEN at'[q] = 0
                         ELSE at'[q] \in 1 .. Len(batch'[q])
    BY DEF RequestShape
  <2>1. CASE q = r
    BY <2>1, <1>2, <1>4, MaxBatchAssumption DEF IInv, TypeOK
  <2>2. CASE q # r
    BY <2>2, <1>4 DEF IInv, TypeOK, RequestShape
  <2> QED
    BY <2>1, <2>2
<1>7. \A h \in Handling : h[1] \in Request /\ h[2] \in Nat \ {0}
  BY MaxBatchAssumption DEF Handling, Position
<1>8. \A h \in Handling : h[2] <= at[h[1]] => h[1] # r /\ Phone(h)' = Phone(h)
  BY <1>3, <1>4, <1>7 DEF IInv, TypeOK, Phone, MessageOf
<1>9. RowsReached'
  BY <1>1, <1>3, <1>4, <1>7 DEF IInv, TypeOK, RowsReached
<1>10. \A q \in Request : q # r =>
         /\ step'[q] = step[q] /\ at'[q] = at[q] /\ Current(q)' = Current(q)
  BY <1>4 DEF IInv, TypeOK, Current
<1>11. step'[r] = "findConversation" /\ Current(r)' = <<r, 1>> /\ <<r, 1>> \in Handling
  BY <1>4, MaxBatchAssumption DEF IInv, TypeOK, Current, Handling, Position
<1>12. FreshRows'
  <2>1. payload[<<r, 1>>] = None /\ leadConv[<<r, 1>>] = None
    BY <1>3, <1>11 DEF IInv, RowsReached
  <2> QED
    BY <1>1, <1>10, <1>11, <2>1 DEF IInv, FreshRows
<1>13. ConversationHeld'
  <2> SUFFICES ASSUME NEW q \in Request,
                      step'[q] \in {"addMessage", "findLead", "createLead", "publish"}
               PROVE  /\ conversation'[q].id \in Handling
                      /\ status'[conversation'[q].id] # "absent"
                      /\ Phone(conversation[q].id)' = Phone(Current(q))'
    BY <1>1 DEF ConversationHeld
  <2>1. q # r /\ step[q] \in {"addMessage", "findLead", "createLead", "publish"}
    BY <1>10, <1>11
  <2>2. /\ conversation[q].id \in Handling
        /\ status[conversation[q].id] # "absent"
        /\ Phone(conversation[q].id) = Phone(Current(q))
    BY <2>1 DEF IInv, ConversationHeld
  <2>3. conversation[q].id[2] <= at[conversation[q].id[1]]
    BY <2>2 DEF IInv, RowsReached
  <2>4. Current(q) \in Handling /\ Current(q)[2] <= at[Current(q)[1]]
    BY <2>1, CurrentKnown DEF IInv, TypeOK
  <2>5. /\ Phone(conversation[q].id)' = Phone(conversation[q].id)
        /\ Phone(Current(q))' = Phone(Current(q))
    BY <1>1, <1>8, <1>10, <2>1, <2>2, <2>3, <2>4
  <2> QED
    BY <1>1, <2>2, <2>5
<1>14. MessageStored' /\ LeadHeld'
  BY <1>1, <1>10, <1>11 DEF IInv, MessageStored, LeadHeld
<1>15. /\ EscalatedNeverSeen' /\ CopiesLag' /\ JobsKnown' /\ PhasesKnown' /\ AnswersKnown'
       /\ InboxLinked' /\ JobsMatchTables'
  BY <1>1 DEF IInv, EscalatedNeverSeen, CopiesLag, JobsKnown, PhasesKnown, AnswersKnown,
              InboxLinked, JobsMatchTables
<1>16. CustomersKeptApart'
  <2>1. ASSUME NEW h \in Handling, inbox[h] # None
        PROVE  Phone(inbox[h])' = Phone(h)'
    <3>1. inbox[h] \in Handling /\ status[inbox[h]] # "absent"
      BY <2>1 DEF IInv, TypeOK, InboxLinked
    <3>2. inbox[h][2] <= at[inbox[h][1]] /\ h[2] <= at[h[1]]
      BY <2>1, <3>1 DEF IInv, RowsReached
    <3> QED
      BY <1>1, <1>8, <2>1, <3>1, <3>2 DEF IInv, CustomersKeptApart
  <2>2. ASSUME NEW answer \in sent
        PROVE  answer[2] = Phone(answer[1][1])'
    <3>1. answer[1][1] \in Handling /\ payload[answer[1][1]] # None
      BY DEF IInv, TypeOK, AnswersKnown, Delivery
    <3>2. answer[1][1][2] <= at[answer[1][1][1]]
      BY <3>1 DEF IInv, RowsReached
    <3> QED
      BY <1>8, <3>1, <3>2 DEF IInv, CustomersKeptApart
  <2> QED
    BY <1>1, <2>1, <2>2 DEF CustomersKeptApart
<1>17. RequestsProcessedInOrder'
  <2> SUFFICES ASSUME NEW h \in Handling
               PROVE  /\ h[2] <= Reached(h[1])' => Handled(h)
                      /\ h[2] > at'[h[1]] => inbox[h] = None /\ job[h] = "unpublished"
    BY <1>1 DEF RequestsProcessedInOrder, Handled
  <2>1. CASE h[1] = r
    BY <1>3, <1>4, <1>7, <2>1 DEF IInv, TypeOK, RequestsProcessedInOrder, Reached
  <2>2. CASE h[1] # r
    BY <1>4, <1>7, <2>2 DEF IInv, TypeOK, RequestsProcessedInOrder, Reached
  <2> QED
    BY <2>1, <2>2
<1> QED
  BY <1>5, <1>6, <1>9, <1>12, <1>13, <1>14, <1>15, <1>16, <1>17 DEF IInv

(* A step that only moves tasks leaves what is said of rows and jobs.       *)
LEMMA RowsFrame ==
  ASSUME IInv,
         UNCHANGED <<batch, at, status, leadConv, inbox, statusCopy, leadCopy, payload,
                     missed, phase, sent, job>>
  PROVE  /\ RowsReached' /\ CopiesLag' /\ JobsKnown' /\ PhasesKnown' /\ AnswersKnown'
         /\ InboxLinked' /\ JobsMatchTables' /\ CustomersKeptApart'
<1>1. RowsReached'
  BY DEF IInv, RowsReached
<1>2. CopiesLag' /\ InboxLinked'
  BY DEF IInv, CopiesLag, InboxLinked
<1>3. JobsKnown' /\ PhasesKnown' /\ AnswersKnown'
  BY DEF IInv, JobsKnown, PhasesKnown, AnswersKnown
<1>4. JobsMatchTables'
  BY DEF IInv, JobsMatchTables
<1>5. CustomersKeptApart'
  BY CustomersFrame
<1> QED
  BY <1>1, <1>2, <1>3, <1>4, <1>5

(* Nor does it change the order of a request, unless the request is over.   *)
LEMMA OrderFrame ==
  ASSUME IInv, UNCHANGED <<request, at, inbox, missed, job>>
  PROVE  RequestsProcessedInOrder'
BY DEF IInv, RequestsProcessedInOrder, Handled, Reached

(* A request whose messages cannot be extracted is answered 500.            *)
LEMMA RefuseInv ==
  ASSUME IInv, NEW r \in Request, NEW p \in Payload, Refuse(r, p)
  PROVE  IInv'
<1> USE DEF Refuse
<1>1. UNCHANGED <<batch, at, step, conversation, lead, status, agent, leadConv, inbox,
                  replies, statusCopy, leadCopy, payload, missed, phase, sent, bound, job,
                  tries, running, faults>>
  BY DEF dbVars, convVars, copyVars, workVars, queueVars
<1>2. TypeOK'
  BY <1>1 DEF IInv, TypeOK, RequestState
<1>3. RequestShape'
  BY <1>1 DEF IInv, TypeOK, RequestShape
<1>4. /\ FreshRows' /\ MessageStored' /\ LeadHeld' /\ EscalatedNeverSeen'
  BY <1>1 DEF IInv, FreshRows, MessageStored, LeadHeld, EscalatedNeverSeen, Current
<1>5. ConversationHeld'
  <2> SUFFICES ASSUME NEW q \in Request,
                      step'[q] \in {"addMessage", "findLead", "createLead", "publish"}
               PROVE  /\ conversation'[q].id \in Handling
                      /\ status[conversation'[q].id] # "absent"
                      /\ Phone(conversation'[q].id) = Phone(Current(q))
    BY <1>1 DEF ConversationHeld, Current, Phone, MessageOf
  <2> QED
    BY <1>1 DEF IInv, ConversationHeld
<1>6. RequestsProcessedInOrder'
  <2>1. \A q \in Request : Reached(q)' = Reached(q)
    BY <1>1 DEF Reached, IInv, TypeOK
  <2> QED
    BY <1>1, <2>1 DEF IInv, RequestsProcessedInOrder, Handled, Handling
<1> QED
  BY <1>1, <1>2, <1>3, <1>4, <1>5, <1>6, RowsFrame DEF IInv

(* Two requests never work on the same message.                             *)
LEMMA CurrentDistinct ==
  ASSUME NEW q, NEW r, q # r
  PROVE  Current(q) # Current(r)
BY DEF Current

(* What the read session knows of rows is true of the master.               *)
LEMMA ReadsTrue ==
  ASSUME IInv
  PROVE  /\ \A c \in Handling : ReadStatus[c] = "active" => status[c] # "absent"
         /\ \A l \in Handling : ReadLead[l] # None => ReadLead[l] = leadConv[l]
<1>1. CASE UseReplica
  BY <1>1 DEF IInv, CopiesLag, ReadStatus, ReadLead
<1>2. CASE ~UseReplica
  BY <1>2 DEF ReadStatus, ReadLead
<1> QED
  BY <1>1, <1>2

(* The lookup of the conversation, which finds one, none, or raises.        *)
LEMMA FindConversationInv ==
  ASSUME IInv, NEW r \in Request, FindConversation(r)
  PROVE  IInv'
<1> USE DEF FindConversation
<1>1. UNCHANGED <<request, batch, at, lead, status, agent, leadConv, inbox, replies,
                  statusCopy, leadCopy, payload, missed, phase, sent, bound, job, tries,
                  running, faults>>
  BY DEF dbVars, convVars, copyVars, workVars, queueVars
<1>2. /\ Current(r) \in Handling /\ request[r] = "running"
      /\ step[r] = "findConversation"
  BY CurrentKnown DEF IInv
<1>3. \/ /\ step' = [step EXCEPT ![r] = "createConversation"]
         /\ conversation' = conversation
      \/ \E c \in Handling :
           /\ ReadStatus[c] = "active" /\ Phone(c) = Phone(Current(r))
           /\ conversation' = [conversation EXCEPT ![r] = [id |-> c, status |-> "active"]]
           /\ step' = [step EXCEPT ![r] = "addMessage"]
  BY DEF ActiveConversations, Goto
<1>4. /\ step' \in [Request -> Step] /\ conversation' \in [Request -> Conversation]
      /\ step'[r] \in {"createConversation", "addMessage"}
      /\ \A q \in Request \ {r} :
           step'[q] = step[q] /\ conversation'[q] = conversation[q]
  <2>1. /\ step \in [Request -> Step] /\ conversation \in [Request -> Conversation]
        /\ {"createConversation", "addMessage"} \subseteq Step
    BY DEF IInv, TypeOK, Step
  <2>2. CASE step' = [step EXCEPT ![r] = "createConversation"] /\ conversation' = conversation
    BY <2>1, <2>2
  <2>3. ASSUME NEW c \in Handling,
               conversation' = [conversation EXCEPT ![r] = [id |-> c, status |-> "active"]],
               step' = [step EXCEPT ![r] = "addMessage"]
        PROVE  /\ step' \in [Request -> Step] /\ conversation' \in [Request -> Conversation]
               /\ step'[r] \in {"createConversation", "addMessage"}
               /\ \A q \in Request \ {r} :
                    step'[q] = step[q] /\ conversation'[q] = conversation[q]
    <3>1. [id |-> c, status |-> "active"] \in Conversation
      BY DEF Conversation, Status
    <3> QED
      BY <2>1, <2>3, <3>1
  <2> QED
    BY <1>3, <2>2, <2>3
<1>5. step'[r] = "addMessage" =>
        /\ conversation'[r].id \in Handling
        /\ status[conversation'[r].id] # "absent"
        /\ Phone(conversation'[r].id) = Phone(Current(r))
  BY <1>3, ReadsTrue DEF IInv, TypeOK
<1>6. TypeOK'
  BY <1>1, <1>4 DEF IInv, TypeOK
<1>7. RequestShape' /\ FreshRows'
  <2>1. RequestShape'
    BY <1>1, <1>2, <1>4 DEF IInv, RequestShape
  <2>2. FreshRows'
    BY <1>1, <1>2, <1>4 DEF IInv, FreshRows, Current
  <2> QED
    BY <2>1, <2>2
<1>8. ConversationHeld'
  <2> SUFFICES ASSUME NEW q \in Request,
                      step'[q] \in {"addMessage", "findLead", "createLead", "publish"}
               PROVE  /\ conversation'[q].id \in Handling
                      /\ status[conversation'[q].id] # "absent"
                      /\ Phone(conversation'[q].id) = Phone(Current(q))
    BY <1>1, HeldByPhones
  <2>1. CASE q = r
    BY <1>5, <1>4, <2>1
  <2>2. CASE q # r
    BY <1>4, <2>2 DEF IInv, ConversationHeld
  <2> QED
    BY <2>1, <2>2
<1>9. MessageStored' /\ LeadHeld'
  BY <1>1, <1>4 DEF IInv, MessageStored, LeadHeld, Current
<1>10. EscalatedNeverSeen'
  BY <1>3, <1>4 DEF IInv, TypeOK, EscalatedNeverSeen
<1>11. /\ RowsReached' /\ CopiesLag' /\ JobsKnown' /\ PhasesKnown' /\ AnswersKnown'
       /\ InboxLinked' /\ JobsMatchTables' /\ CustomersKeptApart'
       /\ RequestsProcessedInOrder'
  BY <1>1, RowsFrame, OrderFrame
<1> QED
  BY <1>6, <1>7, <1>8, <1>9, <1>10, <1>11 DEF IInv

(* A conversation of its own for the customer of the message.               *)
LEMMA CreateConversationInv ==
  ASSUME IInv, NEW r \in Request, CreateConversation(r)
  PROVE  IInv'
<1> USE DEF CreateConversation, Goto
<1>1. UNCHANGED <<request, batch, at, lead, agent, leadConv, inbox, replies, statusCopy,
                  leadCopy, payload, missed, phase, sent, bound, job, tries, running,
                  faults>>
  BY DEF copyVars, workVars, queueVars
<1>2. /\ Current(r) \in Handling /\ Current(r)[1] = r /\ Current(r)[2] = at[r]
      /\ request[r] = "running" /\ at[r] \in Nat
  BY CurrentKnown DEF IInv, TypeOK
<1>3. /\ step' \in [Request -> Step] /\ step'[r] = "addMessage"
      /\ conversation' \in [Request -> Conversation]
      /\ conversation'[r] = [id |-> Current(r), status |-> "active"]
      /\ \A q \in Request \ {r} :
           step'[q] = step[q] /\ conversation'[q] = conversation[q]
  BY <1>2 DEF IInv, TypeOK, Step, Conversation, Status
<1>4. /\ status' \in [Handling -> Status] /\ status'[Current(r)] = "active"
      /\ \A c \in Handling : c # Current(r) => status'[c] = status[c]
  BY <1>2 DEF IInv, TypeOK, Status
<1>5. TypeOK'
  BY <1>1, <1>3, <1>4 DEF IInv, TypeOK
<1>6. RequestShape' /\ FreshRows'
  BY <1>1, <1>2, <1>3 DEF IInv, RequestShape, FreshRows, Current
<1>7. RowsReached'
  BY <1>1, <1>2, <1>4 DEF IInv, RowsReached
<1>8. ConversationHeld'
  <2> SUFFICES ASSUME NEW q \in Request,
                      step'[q] \in {"addMessage", "findLead", "createLead", "publish"}
               PROVE  /\ conversation'[q].id \in Handling
                      /\ status'[conversation'[q].id] # "absent"
                      /\ Phone(conversation'[q].id) = Phone(Current(q))
    BY <1>1 DEF ConversationHeld, Current, Phone, MessageOf
  <2>1. CASE q = r
    BY <1>2, <1>3, <1>4, <2>1
  <2>2. CASE q # r
    BY <1>3, <1>4, <2>2 DEF IInv, ConversationHeld
  <2> QED
    BY <2>1, <2>2
<1>9. MessageStored' /\ LeadHeld' /\ EscalatedNeverSeen'
  BY <1>1, <1>3 DEF IInv, MessageStored, LeadHeld, Current, EscalatedNeverSeen
<1>10. CopiesLag' /\ InboxLinked'
  BY <1>1, <1>4 DEF IInv, TypeOK, CopiesLag, InboxLinked
<1>11. JobsMatchTables'
  BY <1>1, <1>4 DEF IInv, TypeOK, JobBody, JobsMatchTables
<1>12. /\ JobsKnown' /\ PhasesKnown' /\ AnswersKnown' /\ CustomersKeptApart'
       /\ RequestsProcessedInOrder'
  BY <1>1 DEF IInv, JobsKnown, PhasesKnown, AnswersKnown, CustomersKeptApart, Phone,
              MessageOf, RequestsProcessedInOrder, Handled, Reached
<1> QED
  BY <1>5, <1>6, <1>7, <1>8, <1>9, <1>10, <1>11, <1>12 DEF IInv

(* The message is stored in the conversation the task holds.                *)
LEMMA AddMessageInv ==
  ASSUME IInv, NEW r \in Request, AddMessage(r)
  PROVE  IInv'
<1> USE DEF AddMessage, Goto
<1>1. conversation[r].status # "escalated"
  BY DEF IInv, EscalatedNeverSeen
<1>2. UNCHANGED <<request, batch, at, conversation, lead, status, agent, leadConv, replies,
                  statusCopy, leadCopy, payload, missed, phase, sent, bound, job, tries,
                  running, faults>>
  BY <1>1 DEF convVars, copyVars, workVars, queueVars
<1>3. /\ Current(r) \in Handling /\ Current(r)[1] = r /\ Current(r)[2] = at[r]
      /\ request[r] = "running" /\ at[r] \in Nat
  BY CurrentKnown DEF IInv, TypeOK
<1>4. /\ step' \in [Request -> Step] /\ step'[r] = "findLead"
      /\ \A q \in Request \ {r} : step'[q] = step[q]
  BY <1>1 DEF IInv, TypeOK, Step
<1>5. /\ conversation[r].id \in Handling /\ status[conversation[r].id] # "absent"
      /\ Phone(conversation[r].id) = Phone(Current(r))
  BY DEF IInv, ConversationHeld
<1>6. /\ inbox' \in [Handling -> Handling \union {None}]
      /\ inbox'[Current(r)] = conversation[r].id
      /\ \A h \in Handling : h # Current(r) => inbox'[h] = inbox[h]
  BY <1>3, <1>5 DEF IInv, TypeOK
<1>7. payload[Current(r)] = None
  BY DEF IInv, FreshRows
<1>8. TypeOK'
  BY <1>2, <1>4, <1>6 DEF IInv, TypeOK
<1>9. RequestShape' /\ FreshRows'
  BY <1>2, <1>3, <1>4 DEF IInv, RequestShape, FreshRows, Current
<1>10. RowsReached'
  BY <1>2, <1>3, <1>6 DEF IInv, RowsReached
<1>11. ConversationHeld'
  BY <1>2, <1>4, <1>5 DEF IInv, ConversationHeld, Current, Phone, MessageOf
<1>12. MessageStored'
  <2> SUFFICES ASSUME NEW q \in Request, step'[q] \in {"findLead", "createLead", "publish"}
               PROVE  inbox'[Current(q)] = conversation[q].id
    BY <1>2 DEF MessageStored, Current
  <2>1. CASE q = r
    BY <1>6, <2>1
  <2>2. CASE q # r
    <3>1. step[q] \in {"findLead", "createLead", "publish"}
      BY <1>4, <2>2
    <3>2. Current(q) \in Handling /\ Current(q) # Current(r)
      BY <2>2, <3>1, CurrentKnown, CurrentDistinct DEF IInv
    <3> QED
      BY <1>6, <3>1, <3>2 DEF IInv, MessageStored
  <2> QED
    BY <2>1, <2>2
<1>13. LeadHeld' /\ EscalatedNeverSeen' /\ CopiesLag'
  BY <1>2, <1>4 DEF IInv, LeadHeld, EscalatedNeverSeen, CopiesLag
<1>14. InboxLinked'
  BY <1>2, <1>5, <1>6 DEF IInv, InboxLinked
<1>15. JobsMatchTables'
  BY <1>2, <1>6, <1>7 DEF IInv, JobsMatchTables
<1>16. JobsKnown' /\ PhasesKnown' /\ AnswersKnown'
  BY <1>2 DEF IInv, JobsKnown, PhasesKnown, AnswersKnown
<1>17. CustomersKeptApart'
  BY <1>2, <1>5, <1>6 DEF IInv, CustomersKeptApart, Phone, MessageOf
<1>18. RequestsProcessedInOrder'
  <2> SUFFICES ASSUME NEW h \in Handling
               PROVE  /\ h[2] <= Reached(h[1])' => Handled(h)'
                      /\ h[2] > at[h[1]] => inbox'[h] = None /\ job[h] = "unpublished"
    BY <1>2 DEF RequestsProcessedInOrder
  <2>1. CASE h = Current(r)
    BY <1>2, <1>3, <2>1 DEF Reached
  <2>2. CASE h # Current(r)
    BY <1>2, <1>6, <2>2 DEF IInv, RequestsProcessedInOrder, Reached, Handled
  <2> QED
    BY <2>1, <2>2
<1> QED
  BY <1>8, <1>9, <1>10, <1>11, <1>12, <1>13, <1>14, <1>15, <1>16, <1>17, <1>18 DEF IInv

(* The lookup of the lead, which finds one, none, or raises.                *)
LEMMA FindLeadInv ==
  ASSUME IInv, NEW r \in Request, FindLead(r)
  PROVE  IInv'
<1> USE DEF FindLead
<1>1. UNCHANGED <<request, batch, at, conversation, status, agent, leadConv, inbox,
                  replies, statusCopy, leadCopy, payload, missed, phase, sent, bound, job,
                  tries, running, faults>>
  BY DEF dbVars, convVars, copyVars, workVars, queueVars
<1>2. /\ request[r] = "running" /\ conversation[r].id \in Handling
      /\ step[r] = "findLead"
  BY CurrentKnown DEF IInv, ConversationHeld
<1>3. /\ step' \in [Request -> Step] /\ step'[r] \in {"createLead", "publish"}
      /\ \A q \in Request \ {r} : step'[q] = step[q]
  BY DEF IInv, TypeOK, Step, Goto
<1>4. /\ lead' \in [Request -> Handling \union {None}]
      /\ \A q \in Request \ {r} : lead'[q] = lead[q]
  BY DEF IInv, TypeOK, LeadsOf
<1>5. step'[r] = "publish" =>
        lead'[r] \in Handling /\ leadConv[lead'[r]] = conversation[r].id
  <2> SUFFICES ASSUME step'[r] = "publish"
               PROVE  lead'[r] \in Handling /\ leadConv[lead'[r]] = conversation[r].id
    OBVIOUS
  <2>1. PICK l \in LeadsOf(conversation[r].id) : lead' = [lead EXCEPT ![r] = l]
    BY DEF IInv, TypeOK, Goto
  <2>2. lead'[r] = l
    BY <2>1 DEF IInv, TypeOK
  <2> QED
    BY <1>2, <2>2, ReadsTrue, NoneAssumption DEF LeadsOf
<1>6. TypeOK'
  BY <1>1, <1>3, <1>4 DEF IInv, TypeOK
<1>7. RequestShape' /\ FreshRows'
  BY <1>1, <1>2, <1>3 DEF IInv, RequestShape, FreshRows, Current
<1>8. ConversationHeld' /\ MessageStored'
  <2>1. ConversationHeld'
    BY <1>1, <1>2, <1>3 DEF IInv, ConversationHeld, Current, Phone, MessageOf
  <2>2. MessageStored'
    BY <1>1, <1>2, <1>3 DEF IInv, MessageStored, Current
  <2> QED
    BY <2>1, <2>2
<1>9. LeadHeld'
  BY <1>1, <1>3, <1>4, <1>5 DEF IInv, LeadHeld
<1>10. EscalatedNeverSeen'
  BY <1>1 DEF IInv, EscalatedNeverSeen
<1> QED
  BY <1>1, <1>6, <1>7, <1>8, <1>9, <1>10, RowsFrame, OrderFrame DEF IInv

(* A new lead: no task and no job refers to its row yet.                    *)
LEMMA CreateLeadInv ==
  ASSUME IInv, NEW r \in Request, CreateLead(r)
  PROVE  IInv'
<1> USE DEF CreateLead, Goto
<1>1. UNCHANGED <<request, batch, at, conversation, status, agent, inbox, replies,
                  statusCopy, leadCopy, payload, missed, phase, sent, bound, job, tries,
                  running, faults>>
  BY DEF convVars, copyVars, workVars, queueVars
<1>2. /\ Current(r) \in Handling /\ Current(r)[1] = r /\ Current(r)[2] = at[r]
      /\ request[r] = "running" /\ at[r] \in Nat
  BY CurrentKnown DEF IInv, TypeOK
<1>3. conversation[r].id \in Handling /\ leadConv[Current(r)] = None
  BY DEF IInv, ConversationHeld, FreshRows
<1>4. /\ step' \in [Request -> Step] /\ step'[r] = "publish"
      /\ lead' \in [Request -> Handling \union {None}] /\ lead'[r] = Current(r)
      /\ \A q \in Request \ {r} : step'[q] = step[q] /\ lead'[q] = lead[q]
  BY <1>2 DEF IInv, TypeOK, Step
<1>5. /\ leadConv' \in [Handling -> Handling \union {None}]
      /\ leadConv'[Current(r)] = conversation[r].id
      /\ \A l \in Handling : l # Current(r) => leadConv'[l] = leadConv[l]
  BY <1>2, <1>3 DEF IInv, TypeOK
<1>6. \A l \in Handling : leadConv[l] # None => leadConv'[l] = leadConv[l]
  BY <1>3, <1>5
<1>7. TypeOK'
  BY <1>1, <1>4, <1>5 DEF IInv, TypeOK
<1>8. RequestShape' /\ EscalatedNeverSeen'
  BY <1>1, <1>2, <1>4 DEF IInv, RequestShape, EscalatedNeverSeen
<1>9. RowsReached'
  BY <1>1, <1>2, <1>5 DEF IInv, RowsReached
<1>10. FreshRows'
  <2> SUFFICES ASSUME NEW q \in Request, step'[q] # "idle"
               PROVE  /\ payload[Current(q)] = None
                      /\ step'[q] # "publish" => leadConv'[Current(q)] = None
    BY <1>1 DEF FreshRows, Current
  <2>1. CASE q = r
    BY <1>4, <2>1 DEF IInv, FreshRows
  <2>2. CASE q # r
    <3>1. step[q] # "idle" /\ step[q] = step'[q]
      BY <1>4, <2>2
    <3>2. Current(q) \in Handling /\ Current(q) # Current(r)
      BY <2>2, <3>1, CurrentKnown, CurrentDistinct DEF IInv
    <3> QED
      BY <1>5, <3>1, <3>2 DEF IInv, FreshRows
  <2> QED
    BY <2>1, <2>2
<1>11. ConversationHeld' /\ MessageStored'
  <2>1. ConversationHeld'
    <3> SUFFICES ASSUME NEW q \in Request,
                        step'[q] \in {"addMessage", "findLead", "createLead", "publish"}
                 PROVE  /\ conversation'[q].id \in Handling
                        /\ status[conversation'[q].id] # "absent"
                        /\ Phone(conversation'[q].id) = Phone(Current(q))
      BY <1>1 DEF ConversationHeld, Current, Phone, MessageOf
    <3>1. step[q] \in {"addMessage", "findLead", "createLead", "publish"}
      BY <1>4
    <3> QED
      BY <1>1, <3>1 DEF IInv, ConversationHeld
  <2>2. MessageStored'
    BY <1>1, <1>4 DEF IInv, MessageStored, Current
  <2> QED
    BY <2>1, <2>2
<1>12. LeadHeld'
  <2> SUFFICES ASSUME NEW q \in Request, step'[q] = "publish"
               PROVE  lead'[q] \in Handling /\ leadConv'[lead'[q]] = conversation[q].id
    BY <1>1 DEF LeadHeld
  <2>1. CASE q = r
    BY <1>2, <1>4, <1>5, <2>1
  <2>2. CASE q # r
    <3>1. step[q] = "publish" /\ lead'[q] = lead[q]
      BY <1>4, <2>2
    <3>2. lead[q] \in Handling /\ leadConv[lead[q]] = conversation[q].id
      BY <3>1 DEF IInv, LeadHeld
    <3>3. conversation[q].id \in Handling
      BY <3>1 DEF IInv, ConversationHeld
    <3> QED
      BY <1>6, <3>1, <3>2, <3>3, NoneAssumption
  <2> QED
    BY <2>1, <2>2
<1>13. CopiesLag'
  BY <1>1, <1>6 DEF IInv, CopiesLag
<1>14. JobsMatchTables'
  <2> SUFFICES ASSUME NEW h \in Handling, payload[h] # None
               PROVE  leadConv'[payload[h].lead] = payload[h].conversation
    BY <1>1 DEF IInv, JobsMatchTables
  <2>1. payload[h] \in JobBody
    BY DEF IInv, TypeOK
  <2>2. payload[h].lead \in Handling /\ payload[h].conversation \in Handling
    BY <2>1 DEF JobBody
  <2>3. leadConv[payload[h].lead] = payload[h].conversation
    BY DEF IInv, JobsMatchTables
  <2> QED
    BY <1>6, <2>2, <2>3, NoneAssumption
<1>15. /\ JobsKnown' /\ PhasesKnown' /\ AnswersKnown' /\ InboxLinked'
       /\ CustomersKeptApart' /\ RequestsProcessedInOrder'
  BY <1>1 DEF IInv, JobsKnown, PhasesKnown, AnswersKnown, InboxLinked, CustomersKeptApart,
              Phone, MessageOf, RequestsProcessedInOrder, Handled, Reached
<1> QED
  BY <1>7, <1>8, <1>9, <1>10, <1>11, <1>12, <1>13, <1>14, <1>15 DEF IInv

(* A task that raises takes the remaining tasks of its request with it.     *)
LEMMA AbortInv ==
  ASSUME IInv, NEW r \in Request, Abort(r)
  PROVE  IInv'
<1> USE DEF Abort, Goto
<1>1. UNCHANGED <<batch, at, status, agent, leadConv, inbox, replies, statusCopy,
                  leadCopy, payload, missed, phase, sent, bound, job, tries, running,
                  faults>>
  BY DEF dbVars, convVars, copyVars, workVars, queueVars
<1>2. step[r] # "idle" /\ request[r] = "running"
  BY DEF MayRaise, IInv, RequestShape
<1>3. /\ request' \in [Request -> RequestState] /\ request'[r] = "aborted"
      /\ step' \in [Request -> Step] /\ step'[r] = "idle"
      /\ conversation' \in [Request -> Conversation] /\ conversation'[r] = NoConversation
      /\ lead' \in [Request -> Handling \union {None}]
      /\ \A q \in Request \ {r} :
           /\ request'[q] = request[q] /\ step'[q] = step[q]
           /\ conversation'[q] = conversation[q] /\ lead'[q] = lead[q]
  BY DEF IInv, TypeOK, RequestState, Step, Conversation, NoConversation, Status
<1>4. TypeOK'
  BY <1>1, <1>3 DEF IInv, TypeOK
<1>5. RequestShape'
  BY <1>1, <1>2, <1>3 DEF IInv, RequestShape
<1>6. /\ FreshRows' /\ ConversationHeld' /\ MessageStored' /\ LeadHeld'
      /\ EscalatedNeverSeen'
  <2>1. \A q \in Request : step'[q] # "idle" =>
          /\ q # r /\ step[q] = step'[q]
          /\ conversation'[q] = conversation[q] /\ lead'[q] = lead[q]
    BY <1>3
  <2>2. FreshRows'
    BY <1>1, <2>1 DEF IInv, FreshRows, Current
  <2>3. ConversationHeld'
    <3> SUFFICES ASSUME NEW q \in Request,
                        step'[q] \in {"addMessage", "findLead", "createLead", "publish"}
                 PROVE  /\ conversation'[q].id \in Handling
                        /\ status[conversation'[q].id] # "absent"
                        /\ Phone(conversation'[q].id) = Phone(Current(q))
      BY <1>1 DEF ConversationHeld, Current, Phone, MessageOf
    <3> QED
      BY <2>1 DEF IInv, ConversationHeld
  <2>4. MessageStored' /\ LeadHeld'
    BY <1>1, <2>1 DEF IInv, MessageStored, LeadHeld, Current
  <2>5. EscalatedNeverSeen'
    BY <1>3 DEF IInv, EscalatedNeverSeen, NoConversation
  <2> QED
    BY <2>2, <2>3, <2>4, <2>5
<1>7. /\ RowsReached' /\ CopiesLag' /\ JobsKnown' /\ PhasesKnown' /\ AnswersKnown'
      /\ InboxLinked' /\ JobsMatchTables' /\ CustomersKeptApart'
  BY <1>1, RowsFrame
<1>8. RequestsProcessedInOrder'
  <2>1. \A q \in Request : Reached(q)' = Reached(q)
    BY <1>1, <1>2, <1>3 DEF Reached
  <2> QED
    BY <1>1, <2>1 DEF IInv, RequestsProcessedInOrder, Handled, Handling
<1> QED
  BY <1>4, <1>5, <1>6, <1>7, <1>8 DEF IInv

(* The job is queued, or lost to the broker, and the task is over.          *)
LEMMA PublishJobInv ==
  ASSUME IInv, Queue!TypeOK', NEW r \in Request, PublishJob(r)
  PROVE  IInv'
<1> USE DEF PublishJob, EndTask, Goto
<1> DEFINE h == Current(r)
<1>1. UNCHANGED <<batch, status, agent, leadConv, inbox, replies, statusCopy, leadCopy,
                  phase, sent>>
  BY DEF dbVars, convVars, copyVars, workVars
<1>2. /\ h \in Handling /\ h[1] = r /\ h[2] = at[r]
      /\ request[r] = "running" /\ at[r] \in 1 .. Len(batch[r]) /\ at[r] \in Nat
      /\ Len(batch[r]) \in Nat
  BY CurrentKnown DEF IInv, TypeOK
<1>3. /\ conversation[r].id \in Handling /\ status[conversation[r].id] # "absent"
      /\ inbox[h] = conversation[r].id
      /\ lead[r] \in Handling /\ leadConv[lead[r]] = conversation[r].id
  BY DEF IInv, ConversationHeld, MessageStored, LeadHeld
<1>4. payload[h] = None /\ job[h] = "unpublished"
  BY <1>2 DEF IInv, FreshRows, JobsKnown
<1>5. /\ step' \in [Request -> Step] /\ conversation' \in [Request -> Conversation]
      /\ lead' \in [Request -> Handling \union {None}]
      /\ conversation'[r] = NoConversation
      /\ \A q \in Request \ {r} :
           /\ request'[q] = request[q] /\ step'[q] = step[q] /\ at'[q] = at[q]
           /\ conversation'[q] = conversation[q] /\ lead'[q] = lead[q]
  <2>1. /\ request \in [Request -> RequestState] /\ step \in [Request -> Step]
        /\ at \in [Request -> Nat] /\ conversation \in [Request -> Conversation]
        /\ lead \in [Request -> Handling \union {None}]
        /\ {"findConversation", "idle"} \subseteq Step
    BY DEF IInv, TypeOK, Step
  <2>2. NoConversation \in Conversation
    BY DEF NoConversation, Conversation, Status
  <2>3. /\ conversation' = [conversation EXCEPT ![r] = NoConversation]
        /\ lead' = [lead EXCEPT ![r] = None]
    OBVIOUS
  <2>4. CASE /\ at' = [at EXCEPT ![r] = @ + 1] /\ UNCHANGED request
             /\ step' = [step EXCEPT ![r] = "findConversation"]
    BY <2>1, <2>2, <2>3, <2>4
  <2>5. CASE /\ request' = [request EXCEPT ![r] = "done"] /\ UNCHANGED at
             /\ step' = [step EXCEPT ![r] = "idle"]
    BY <2>1, <2>2, <2>3, <2>5
  <2> QED
    BY <2>4, <2>5
<1>6. /\ request' \in [Request -> RequestState] /\ at' \in [Request -> Nat]
      /\ \/ /\ at'[r] = at[r] + 1 /\ at'[r] <= Len(batch[r])
            /\ step'[r] = "findConversation" /\ request'[r] = "running"
         \/ at'[r] = at[r] /\ step'[r] = "idle" /\ request'[r] = "done"
  <2>1. /\ request \in [Request -> RequestState] /\ step \in [Request -> Step]
        /\ at \in [Request -> Nat] /\ "done" \in RequestState
    BY DEF IInv, TypeOK, RequestState
  <2>2. CASE at[r] < Len(batch[r])
    <3>1. /\ at' = [at EXCEPT ![r] = @ + 1] /\ request' = request
          /\ step' = [step EXCEPT ![r] = "findConversation"]
      BY <2>2
    <3> QED
      BY <1>2, <2>1, <2>2, <3>1
  <2>3. CASE ~(at[r] < Len(batch[r]))
    <3>1. /\ at' = at /\ request' = [request EXCEPT ![r] = "done"]
          /\ step' = [step EXCEPT ![r] = "idle"]
      BY <2>3
    <3> QED
      BY <2>1, <3>1
  <2> QED
    BY <2>2, <2>3
<1>7. /\ payload' \in [Handling -> JobBody \union {None}]
      /\ \A g \in Handling : g # h => payload'[g] = payload[g] /\ job'[g] = job[g]
      /\ payload'[h] # None =>
           payload'[h] = [conversation |-> conversation[r].id, lead |-> lead[r]]
      /\ payload'[h] # None <=> job'[h] # "unpublished"
      /\ missed' \subseteq Handling /\ missed \subseteq missed'
      /\ missed' \subseteq missed \union {h}
      /\ payload'[h] # None \/ h \in missed'
  <2> DEFINE body == [conversation |-> conversation[r].id, lead |-> lead[r]]
  <2>1. body \in JobBody /\ body # None
    BY <1>3, NoneAssumption DEF JobBody
  <2>2. CASE Queue!Publish(h) /\ bound /\ payload' = [payload EXCEPT ![h] = body]
             /\ UNCHANGED missed
    BY <1>2, <2>1, <2>2 DEF Queue!Publish, IInv, TypeOK
  <2>3. CASE UNCHANGED <<payload, job>> /\ missed' = missed \union {h}
    BY <1>2, <1>4, <2>3 DEF IInv, TypeOK
  <2> QED
    BY <2>2, <2>3 DEF Queue!Publish, queueVars
<1>8. TypeOK'
  BY <1>1, <1>5, <1>6, <1>7 DEF IInv, TypeOK
<1>9. RequestShape'
  <2> SUFFICES ASSUME NEW q \in Request
               PROVE  /\ Len(batch[q]) <= MaxBatch
                      /\ step'[q] # "idle" <=> request'[q] = "running"
                      /\ IF request'[q] \in {"new", "refused"} THEN at'[q] = 0
                         ELSE at'[q] \in 1 .. Len(batch[q])
    BY <1>1 DEF RequestShape
  <2>1. CASE q = r
    BY <1>2, <1>6, <2>1 DEF IInv, RequestShape
  <2>2. CASE q # r
    BY <1>5, <2>2 DEF IInv, RequestShape
  <2> QED
    BY <2>1, <2>2
<1>10. RowsReached'
  <2>1. \A g \in Handling : g[1] \in Request /\ g[2] \in Nat
    BY MaxBatchAssumption DEF Handling, Position
  <2>2. ASSUME NEW q \in Request
        PROVE  at[q] <= at'[q] /\ at[q] \in Nat /\ at'[q] \in Nat
    <3>1. at \in [Request -> Nat] /\ at' \in [Request -> Nat]
      BY <1>6 DEF IInv, TypeOK
    <3>2. at'[q] = at[q] \/ at'[q] = at[q] + 1
      BY <1>5, <1>6
    <3> QED
      BY <3>1, <3>2
  <2>3. \A g \in Handling : g[2] <= at[g[1]] => g[2] <= at'[g[1]]
    BY <2>1, <2>2
  <2>4. h[2] <= at'[h[1]]
    BY <1>2, <2>2
  <2> QED
    BY <1>1, <1>7, <2>3, <2>4 DEF IInv, RowsReached
<1>11. FreshRows'
  <2> SUFFICES ASSUME NEW q \in Request, step'[q] # "idle"
               PROVE  /\ payload'[<<q, at'[q]>>] = None
                      /\ step'[q] # "publish" => leadConv[<<q, at'[q]>>] = None
    BY <1>1 DEF FreshRows, Current
  <2>1. CASE q = r
    <3>1. at'[r] = at[r] + 1 /\ at'[r] <= Len(batch[r])
      BY <1>6, <2>1
    <3>2. <<r, at'[r]>> \in Handling
      BY <1>2, <3>1, MaxBatchAssumption DEF IInv, RequestShape, Handling, Position
    <3>3. payload[<<r, at'[r]>>] = None /\ leadConv[<<r, at'[r]>>] = None
      BY <1>2, <3>1, <3>2 DEF IInv, RowsReached
    <3>4. <<r, at'[r]>> # h
      BY <1>2, <3>1
    <3> QED
      BY <1>7, <2>1, <3>2, <3>3, <3>4
  <2>2. CASE q # r
    <3>1. step[q] # "idle" /\ step[q] = step'[q] /\ at'[q] = at[q]
      BY <1>5, <2>2
    <3>2. Current(q) \in Handling /\ Current(q) # h
      BY <2>2, <3>1, CurrentKnown, CurrentDistinct DEF IInv
    <3> QED
      BY <1>7, <3>1, <3>2 DEF IInv, FreshRows, Current
  <2> QED
    BY <2>1, <2>2
<1>12. ConversationHeld' /\ MessageStored' /\ LeadHeld'
  <2>1. \A q \in Request : step'[q] \in {"addMessage", "findLead", "createLead", "publish"} =>
          /\ q # r /\ step[q] = step'[q] /\ at'[q] = at[q]
          /\ conversation'[q] = conversation[q] /\ lead'[q] = lead[q]
    BY <1>5, <1>6
  <2>2. ConversationHeld'
    <3> SUFFICES ASSUME NEW q \in Request,
                        step'[q] \in {"addMessage", "findLead", "createLead", "publish"}
                 PROVE  /\ conversation'[q].id \in Handling
                        /\ status[conversation'[q].id] # "absent"
                        /\ Phone(conversation'[q].id) = Phone(<<q, at'[q]>>)
      BY <1>1 DEF ConversationHeld, Current, Phone, MessageOf
    <3> QED
      BY <2>1 DEF IInv, ConversationHeld, Current
  <2>3. MessageStored' /\ LeadHeld'
    BY <1>1, <2>1 DEF IInv, MessageStored, LeadHeld, Current
  <2> QED
    BY <2>2, <2>3
<1>13. EscalatedNeverSeen'
  BY <1>5 DEF IInv, EscalatedNeverSeen, NoConversation
<1>14. CopiesLag' /\ InboxLinked' /\ CustomersKeptApart'
  BY <1>1 DEF IInv, CopiesLag, InboxLinked, CustomersKeptApart, Phone, MessageOf
<1>15. JobsKnown'
  BY <1>7 DEF IInv, JobsKnown
<1>16. \A g \in Handling : payload[g] # None => payload'[g] = payload[g]
  BY <1>4, <1>7
<1>17. PhasesKnown' /\ AnswersKnown'
  BY <1>1, <1>16 DEF IInv, TypeOK, PhasesKnown, AnswersKnown, Delivery
<1>18. JobsMatchTables'
  BY <1>1, <1>3, <1>7 DEF IInv, JobsMatchTables
<1>19. RequestsProcessedInOrder'
  <2> SUFFICES ASSUME NEW g \in Handling
               PROVE  /\ g[2] <= Reached(g[1])' => Handled(g)'
                      /\ g[2] > at'[g[1]] => inbox[g] = None /\ job'[g] = "unpublished"
    BY <1>1 DEF RequestsProcessedInOrder
  <2>1. g[1] \in Request /\ g[2] \in Nat
    BY MaxBatchAssumption DEF Handling, Position
  <2>2. CASE g = h
    BY <1>1, <1>2, <1>3, <1>6, <1>7, <2>2, NoneAssumption DEF Handled
  <2>3. CASE g # h /\ g[1] = r
    <3>1. g[2] # at[r]
      BY <1>2, <2>3 DEF Handling, Current
    <3>2. Handled(g)' <=> Handled(g)
      BY <1>1, <1>7, <2>3 DEF Handled
    <3>3. Reached(g[1])' = at[r] \/ Reached(g[1])' = at[r] + 1 - 1
      BY <1>2, <1>6, <2>3 DEF Reached
    <3>4. Reached(g[1]) = at[r] - 1
      BY <1>2, <2>3 DEF Reached
    <3>5. /\ g[2] <= Reached(g[1]) => Handled(g)
          /\ g[2] > at[r] => inbox[g] = None /\ job[g] = "unpublished"
      BY <2>3 DEF IInv, RequestsProcessedInOrder
    <3>6. g[2] <= Reached(g[1])' => Handled(g)'
      BY <1>2, <2>1, <3>1, <3>2, <3>3, <3>4, <3>5
    <3>7. g[2] > at'[g[1]] => g[2] > at[r]
      BY <1>2, <1>6, <2>1, <2>3
    <3> QED
      BY <1>7, <2>3, <3>5, <3>6, <3>7
  <2>4. CASE g[1] # r
    <3>1. g # h /\ Reached(g[1])' = Reached(g[1]) /\ at'[g[1]] = at[g[1]]
      BY <1>2, <1>5, <2>1, <2>4 DEF Reached
    <3> QED
      BY <1>1, <1>7, <3>1 DEF IInv, RequestsProcessedInOrder, Handled
  <2> QED
    BY <2>2, <2>3, <2>4
<1> QED
  BY <1>8, <1>9, <1>10, <1>11, <1>12, <1>13, <1>14, <1>15, <1>17, <1>18, <1>19 DEF IInv

(* Every step of the pipeline preserves the invariant.                      *)
LEMMA IInvNext == IInv /\ [Next]_vars => IInv'
<1> SUFFICES ASSUME IInv, [Next]_vars PROVE IInv'
  OBVIOUS
<1>1. Queue!TypeOK'
  BY QueueStep, QueueTypeNext DEF IInv, TypeOK
<1>2. ASSUME NEW r \in Request, NEW p \in Payload, Accept(r, p) \/ Refuse(r, p)
      PROVE  IInv'
  BY <1>2, AcceptInv, RefuseInv
<1>3. ASSUME NEW r \in Request, Task(r)
      PROVE  IInv'
  BY <1>1, <1>3, FindConversationInv, CreateConversationInv, AddMessageInv, FindLeadInv,
     CreateLeadInv, PublishJobInv, AbortInv DEF Task
<1>4. ASSUME NEW h \in Handling, HandleMessage(h)
      PROVE  IInv'
  BY <1>1, <1>4, HandleMessageInv
<1>5. ASSUME NEW d \in Delivery, Work(d)
      PROVE  IInv'
  BY <1>1, <1>5, WorkInv
<1>6. ASSUME NEW c \in Handling, (\E a \in Agent : Takeover(c, a)) \/ Release(c)
      PROVE  IInv'
  BY <1>6, DashboardInv
<1>7. CASE Replicate \/ StartConsumer \/ ConnectionLost \/ Crash
  BY <1>1, <1>7, ReplicateInv, BrokerInv, CrashInv
<1>8. CASE UNCHANGED vars
  <2>1. TypeOK'
    BY <1>8 DEF IInv, TypeOK, vars, taskVars, dbVars, convVars, copyVars, workVars, queueVars
  <2> QED
    BY <1>8, <2>1, WorkerStep
    DEF IInv, vars, dbVars, convVars, workVars, queueVars, PhasesKnown, AnswersKnown,
        CustomersKeptApart
<1> QED
  BY <1>2, <1>3, <1>4, <1>5, <1>6, <1>7, <1>8 DEF Next

-----------------------------------------------------------------------------
(* The invariant holds in every reachable state.                            *)
THEOREM Invariance == Spec => []IInv
  BY IInvInit, IInvNext, PTL DEF Spec

(* Type correctness of the pipeline.                                        *)
THEOREM TypeCorrect == Spec => []TypeOK
  BY Invariance, PTL DEF IInv

(* A job never names a conversation, message or lead that do not belong     *)
(* together, however the tasks, crashes and the replica interleave.         *)
THEOREM JobsAreConsistent == Spec => []JobsMatchTables
  BY Invariance, PTL DEF IInv

(* No customer's message lands in another's conversation, and no customer   *)
(* gets another's answer.                                                   *)
THEOREM NoCrossTalk == Spec => []CustomersKeptApart
  BY Invariance, PTL DEF IInv

(* The messages of a request are handled in order, none skipped silently    *)
(* before a later one.                                                      *)
THEOREM OrderWithinRequest == Spec => []RequestsProcessedInOrder
  BY Invariance, PTL DEF IInv
=============================================================================
