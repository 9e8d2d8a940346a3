----------------------- MODULE PipelineAnswersProofs -----------------------
(***************************************************************************)
(* What the customer gets: answers are persisted after they were sent, and *)
(* there is one answer to a message, and one more at most for each fault.  *)
(* The bound comes from the queue: QueueProofs is WorkQueue's own theory.  *)
(* Conversations and leads are doubled by races only; every call brings a  *)
(* task or a callback nearer to its end; a takeover is missed only by work *)
(* in flight; and all of it together implements Dialogue.                  *)
(***************************************************************************)
EXTENDS PipelineProofs, FiniteSetTheorems

QueueProofs == INSTANCE WorkQueueProofs WITH Job <- Handling

(* The queue inside the pipeline keeps the invariant proved of WorkQueue.   *)
LEMMA QueueInvariance == Spec => []QueueProofs!Inv
<1> USE QueueAssumption
    DEF QueueProofs!PrefetchAssumption, QueueProofs!MaxFaultsAssumption
<1>1. Init => QueueProofs!Inv
  <2>1. Init => QueueProofs!Init
    BY DEF Init, Queue!Init, QueueProofs!Init
  <2> QED
    BY <2>1, QueueProofs!InvInit
<1>2. [Queue!Next]_(Queue!qvars) => [QueueProofs!Next]_(QueueProofs!qvars)
  <2>1. Queue!DeclareQueue => QueueProofs!DeclareQueue
    BY DEF Queue!DeclareQueue, QueueProofs!DeclareQueue
  <2>2. Queue!ConnectionLost => QueueProofs!ConnectionLost
    BY DEF Queue!ConnectionLost, Queue!Requeued, QueueProofs!ConnectionLost,
           QueueProofs!Requeued
  <2>3. Queue!Crash => QueueProofs!Crash
    BY DEF Queue!Crash, Queue!Requeued, QueueProofs!Crash, QueueProofs!Requeued
  <2>4. ASSUME NEW h \in Handling
        PROVE  /\ Queue!Publish(h) => QueueProofs!Publish(h)
               /\ Queue!Deliver(h) => QueueProofs!Deliver(h)
    <3>1. Queue!Publish(h) => QueueProofs!Publish(h)
      BY DEF Queue!Publish, QueueProofs!Publish
    <3>2. Queue!Cardinality(Queue!Outstanding)
          = QueueProofs!Cardinality(QueueProofs!Outstanding)
      BY DEF Queue!Outstanding, QueueProofs!Outstanding, Queue!Cardinality,
             QueueProofs!Cardinality
    <3>3. Queue!Deliver(h) => QueueProofs!Deliver(h)
      BY <3>2 DEF Queue!Deliver, QueueProofs!Deliver
    <3> QED
      BY <3>1, <3>3
  <2>5. ASSUME NEW h \in Handling, NEW n \in 1 .. MaxFaults + 1
        PROVE  /\ Queue!Ack(h, n) => QueueProofs!Ack(h, n)
               /\ Queue!Reject(h, n) => QueueProofs!Reject(h, n)
    BY DEF Queue!Ack, Queue!Reject, Queue!Settle, Queue!Heard, QueueProofs!Ack,
           QueueProofs!Reject, QueueProofs!Settle, QueueProofs!Heard
  <2> QED
    BY <2>1, <2>2, <2>3, <2>4, <2>5
    DEF Queue!Next, Queue!qvars, QueueProofs!Next, QueueProofs!qvars
<1>3. IInv /\ QueueProofs!Inv /\ [Next]_vars => QueueProofs!Inv'
  BY <1>2, QueueStep, QueueProofs!InvNext DEF IInv
<1> QED
  BY <1>1, <1>3, Invariance, PTL DEF Spec

(* Which deliveries have started, and which have sent their answer.         *)
LEMMA AnswerInvInit == Init => AnswerInv
BY DEF Init, AnswerInv, DeliveriesCounted, AnswersStarted, PersistersSent

(* Each step keeps it, delivery by delivery.                                *)
LEMMA AnswerInvNext == IInv /\ AnswerInv /\ [Next]_vars => AnswerInv'
<1> SUFFICES ASSUME IInv, AnswerInv, [Next]_vars PROVE AnswerInv'
  OBVIOUS
<1> USE DEF AnswerInv
<1>1. TypeOK /\ sent \subseteq Delivery \X Customer /\ phase \in [Delivery -> Phase]
      /\ tries \in [Handling -> Nat]
  <2>1. TypeOK
    BY DEF IInv
  <2> QED
    BY <2>1 DEF TypeOK, Queue!TypeOK
<1>2. \A d \in Delivery : d[1] \in Handling /\ d[2] \in Nat /\ d = <<d[1], d[2]>>
  BY QueueAssumption DEF Delivery, Attempt
<1>3. CASE UNCHANGED <<phase, sent, replies, tries>>
  BY <1>3 DEF DeliveriesCounted, AnswersStarted, PersistersSent
<1>4. ASSUME NEW h \in Handling, HandleMessage(h)
      PROVE  AnswerInv'
  <2> DEFINE e == <<h, tries[h] + 1>>
  <2>1. /\ tries' = [tries EXCEPT ![h] = @ + 1] /\ UNCHANGED <<sent, replies>>
        /\ \E p \in {"escalate", "respond"} : phase' = [phase EXCEPT ![e] = p]
    BY <1>4 DEF HandleMessage, Queue!Deliver, SetPhase, dbVars
  <2>2. DeliveriesCounted'
    <3> SUFFICES ASSUME NEW d \in Delivery, phase'[d] # "idle"
                 PROVE  d[2] <= tries'[d[1]]
      BY DEF DeliveriesCounted
    <3>1. CASE d = e
      BY <1>1, <2>1, <3>1
    <3>2. CASE d # e
      BY <1>1, <1>2, <2>1, <3>2 DEF DeliveriesCounted
    <3> QED
      BY <3>1, <3>2
  <2>3. AnswersStarted' /\ PersistersSent'
    BY <1>1, <2>1 DEF AnswersStarted, PersistersSent
  <2> QED
    BY <2>2, <2>3
<1>5. ASSUME NEW d \in Delivery, Work(d)
      PROVE  AnswerInv'
  <2>1. phase[d] # "idle"
    <3>1. CASE RejectJob(d)
      BY <3>1 DEF RejectJob, Needs, Calls
    <3> QED
      BY <1>5, <3>1 DEF Work, Escalate, Respond, UpdateLeadScore, LookUpConversation,
                        SendAnswer, PersistAnswer, AckJob
  <2>2. tries' = tries
    BY <1>5 DEF Work, Escalate, Respond, UpdateLeadScore, LookUpConversation, SendAnswer,
       PersistAnswer, AckJob, RejectJob, Queue!Ack, Queue!Reject, Queue!Settle, queueVars
  <2>3. /\ sent \subseteq sent' /\ \A answer \in sent' : answer \in sent \/ answer[1] = d
        /\ \E p \in Phase \ {"idle"} : SetPhase(d, p)
    BY <1>5 DEF Work, Escalate, Respond, UpdateLeadScore, LookUpConversation, SendAnswer,
       PersistAnswer, AckJob, RejectJob, Phase
  <2>4. DeliveriesCounted'
    BY <1>1, <2>1, <2>2, <2>3 DEF DeliveriesCounted, SetPhase
  <2>5. AnswersStarted'
    BY <1>1, <2>3 DEF AnswersStarted, SetPhase
  <2>6. PersistersSent'
    <3>1. CASE SendAnswer(d)
      <4>1. /\ sent' = sent \union {<<d, Phone(payload[d[1]].conversation)>>}
            /\ replies' = replies
        BY <3>1 DEF SendAnswer, dbVars
      <4>2. Phone(payload[d[1]].conversation) \in Customer
        BY <1>2, <2>1, JobConversation DEF IInv, PhasesKnown
      <4> QED
        BY <1>1, <2>3, <4>1, <4>2 DEF PersistersSent, SetPhase
    <3>2. CASE PersistAnswer(d)
      <4>1. /\ phase[d] = "persist" /\ sent' = sent /\ replies' = replies \union {d}
            /\ phase' = [phase EXCEPT ![d] = "ack"]
        BY <3>2 DEF PersistAnswer, SetPhase
      <4> QED
        BY <1>1, <4>1 DEF PersistersSent
    <3>3. CASE ~SendAnswer(d) /\ ~PersistAnswer(d)
      <4>1. /\ sent' = sent /\ replies' = replies
            /\ \E p \in Phase \ {"persist"} : phase' = [phase EXCEPT ![d] = p]
        BY <1>5, <3>3 DEF Work, Escalate, Respond, UpdateLeadScore, LookUpConversation,
           AckJob, RejectJob, Phase, SetPhase, dbVars
      <4> QED
        BY <1>1, <4>1 DEF PersistersSent
    <3> QED
      BY <3>1, <3>2, <3>3
  <2> QED
    BY <2>4, <2>5, <2>6
<1>6. CASE Crash
  <2>1. /\ UNCHANGED <<sent, replies, tries>>
        /\ phase' = [d \in Delivery |-> IF phase[d] = "idle" THEN "idle" ELSE "over"]
    BY <1>6 DEF Crash, Queue!Crash, dbVars
  <2> QED
    BY <1>1, <2>1 DEF DeliveriesCounted, AnswersStarted, PersistersSent
<1>7. ASSUME NEW r \in Request,
             Task(r) \/ \E p \in Payload : Accept(r, p) \/ Refuse(r, p)
      PROVE  UNCHANGED <<phase, sent, replies, tries>>
  BY <1>7 DEF Task, Accept, Refuse, FindConversation, CreateConversation, AddMessage,
     FindLead, CreateLead, PublishJob, Abort, Queue!Publish, dbVars, workVars, queueVars
<1>8. ASSUME NEW c \in Handling, (\E a \in Agent : Takeover(c, a)) \/ Release(c)
      PROVE  UNCHANGED <<phase, sent, replies, tries>>
  BY <1>8 DEF Takeover, Release, workVars, queueVars
<1>9. CASE Replicate \/ StartConsumer \/ ConnectionLost \/ UNCHANGED vars
  <2>1. UNCHANGED <<phase, sent, replies, tries>>
    BY <1>9 DEF Replicate, StartConsumer, ConnectionLost, Queue!DeclareQueue,
       Queue!ConnectionLost, vars, dbVars, workVars, queueVars
  <2> QED
    BY <1>3, <2>1
<1> QED
  BY <1>3, <1>4, <1>5, <1>6, <1>7, <1>8, <1>9 DEF Next

(* So it holds in every reachable state.                                    *)
LEMMA AnswerInvariance == Spec => []AnswerInv
  BY AnswerInvInit, AnswerInvNext, Invariance, PTL DEF Spec

(* An answer is persisted only after its own delivery has sent it.          *)
THEOREM PersistedLast == Spec => []PersistedAfterSend
<1>1. IInv /\ AnswerInv => PersistedAfterSend
  BY DEF IInv, TypeOK, AnswerInv, PersistersSent, PersistedAfterSend
<1> QED
  BY <1>1, Invariance, AnswerInvariance, PTL

(* The answers to a message are told apart by their deliveries, and those   *)
(* are numbered from 1 to at most faults + 1.                               *)
LEMMA AnswersNumbered ==
  ASSUME IInv, AnswerInv, QueueProofs!Inv
  PROVE  AnswersBoundedByFaults
<1> SUFFICES ASSUME NEW h \in Handling
             PROVE  Cardinality({answer \in sent : answer[1][1] = h}) <= faults + 1
  BY DEF AnswersBoundedByFaults
<1> DEFINE Answers == {answer \in sent : answer[1][1] = h}
           number == [answer \in Answers |-> answer[1][2]]
<1>1. faults \in Nat /\ tries[h] \in Nat /\ tries[h] <= faults + 1
  BY QueueAssumption
  DEF QueueProofs!Inv, QueueProofs!TypeOK, QueueProofs!TriesBounded
<1>2. \A answer \in Answers :
        /\ answer = <<<<h, answer[1][2]>>, Phone(h)>>
        /\ answer[1][2] \in 1 .. faults + 1
  <2> SUFFICES ASSUME NEW answer \in Answers
               PROVE  /\ answer = <<<<h, answer[1][2]>>, Phone(h)>>
                      /\ answer[1][2] \in 1 .. faults + 1
    OBVIOUS
  <2>1. answer \in Delivery \X Customer /\ answer[1][1] = h /\ answer[2] = Phone(h)
    BY DEF IInv, TypeOK, CustomersKeptApart
  <2>2. answer[1] \in Delivery
    BY <2>1
  <2>3. answer[1] = <<h, answer[1][2]>> /\ answer[1][2] \in 1 .. MaxFaults + 1
    BY <2>1, <2>2 DEF Delivery, Attempt
  <2>4. answer[1][2] <= tries[h]
    BY <2>1, <2>2 DEF AnswerInv, AnswersStarted, DeliveriesCounted
  <2> QED
    BY <1>1, <2>1, <2>3, <2>4, QueueAssumption
<1>3. number \in Injection(Answers, 1 .. faults + 1)
  <2>1. number \in [Answers -> 1 .. faults + 1]
    BY <1>2
  <2>2. \A a, b \in Answers : number[a] = number[b] => a = b
    BY <1>2
  <2> QED
    BY <2>1, <2>2 DEF Injection, IsInjective
<1>4. IsFiniteSet(1 .. faults + 1) /\ Cardinality(1 .. faults + 1) = faults + 1
  BY <1>1, FS_Interval
<1>5. Cardinality(Answers) <= Cardinality(1 .. faults + 1)
  BY <1>3, <1>4, FS_Injection
<1> QED
  BY <1>4, <1>5

(* A message is answered once, and once more at most for each fault.        *)
THEOREM AnswersBounded == Spec => []AnswersBoundedByFaults
  BY AnswersNumbered, Invariance, AnswerInvariance, QueueInvariance, PTL

-----------------------------------------------------------------------------
(* Uniqueness of conversations and leads.                                   *)

(* The phone number of a row is settled when its request is accepted.       *)
LEMMA PhonesKept ==
  ASSUME IInv, [Next]_vars, NEW h \in Handling, h[2] <= at[h[1]]
  PROVE  Phone(h)' = Phone(h)
<1>1. h[1] \in Request /\ h[2] \in Nat \ {0}
  BY MaxBatchAssumption DEF Handling, Position
<1>2. batch'[h[1]] = batch[h[1]]
  <2>1. ASSUME NEW r \in Request, NEW p \in Payload, Accept(r, p)
        PROVE  batch'[h[1]] = batch[h[1]]
    <3>1. at[r] = 0
      BY <2>1 DEF IInv, RequestShape, Accept
    <3>2. h[1] # r
      BY <1>1, <3>1
    <3> QED
      BY <1>1, <2>1, <3>2 DEF Accept, IInv, TypeOK
  <2>2. ASSUME NEW r \in Request, Task(r) \/ \E p \in Payload : Refuse(r, p)
        PROVE  UNCHANGED batch
    BY <2>2 DEF Refuse, Task, FindConversation, CreateConversation, AddMessage, FindLead,
                CreateLead, PublishJob, EndTask, Abort
  <2>3. ASSUME NEW g \in Handling, HandleMessage(g) PROVE UNCHANGED batch
    BY <2>3 DEF HandleMessage, taskVars
  <2>4. ASSUME NEW d \in Delivery, Work(d) PROVE UNCHANGED batch
    BY <2>4 DEF Work, Escalate, Respond, UpdateLeadScore, LookUpConversation, SendAnswer,
                PersistAnswer, AckJob, RejectJob, taskVars
  <2>5. ASSUME NEW c \in Handling, (\E a \in Agent : Takeover(c, a)) \/ Release(c)
        PROVE  UNCHANGED batch
    BY <2>5 DEF Takeover, Release, taskVars
  <2>6. CASE Replicate \/ StartConsumer \/ ConnectionLost \/ Crash \/ UNCHANGED vars
    BY <2>6 DEF Replicate, StartConsumer, ConnectionLost, Crash, vars, taskVars
  <2> QED
    BY <2>1, <2>2, <2>3, <2>4, <2>5, <2>6 DEF Next
<1> QED
  BY <1>2 DEF Phone, MessageOf

(* The message a task works on, and every row, is one that was reached.     *)
LEMMA RowsAndTasksReached ==
  ASSUME IInv
  PROVE  /\ \A c \in Handling : status[c] = "active" => c[2] <= at[c[1]]
         /\ \A r \in Request : step[r] # "idle" =>
              Current(r) \in Handling /\ Current(r)[2] <= at[Current(r)[1]]
<1>1. \A c \in Handling : status[c] = "active" => c[2] <= at[c[1]]
  BY DEF IInv, RowsReached
<1>2. ASSUME NEW r \in Request, step[r] # "idle"
      PROVE  Current(r) \in Handling /\ Current(r)[2] <= at[Current(r)[1]]
  <2>1. Current(r) \in Handling /\ Current(r)[1] = r /\ Current(r)[2] = at[r]
    BY <1>2, CurrentKnown DEF IInv
  <2> QED
    BY <2>1 DEF IInv, TypeOK
<1> QED
  BY <1>1, <1>2

(* A step that activates no conversation, stores no lead and lets no task   *)
(* begin to create a row keeps the rows unique.                             *)
LEMMA UniqueFrame ==
  ASSUME IInv, [Next]_vars, RowsUnique, UNCHANGED leadConv,
         \A c \in Handling : status'[c] = "active" => status[c] = "active",
         \A q \in Request : step'[q] = "createConversation" =>
           step[q] = "createConversation" /\ at'[q] = at[q],
         \A q \in Request : step'[q] = "createLead" =>
           step[q] = "createLead" /\ conversation'[q] = conversation[q]
  PROVE  RowsUnique'
<1>1. \A c \in Handling : status'[c] = "active" =>
        status[c] = "active" /\ Phone(c)' = Phone(c)
  BY RowsAndTasksReached, PhonesKept
<1>2. \A q \in Request : step'[q] = "createConversation" =>
        /\ step[q] = "createConversation"
        /\ Phone(Current(q))' = Phone(Current(q))
  <2> SUFFICES ASSUME NEW q \in Request, step'[q] = "createConversation"
               PROVE  /\ step[q] = "createConversation"
                      /\ Phone(Current(q))' = Phone(Current(q))
    OBVIOUS
  <2>1. step[q] = "createConversation" /\ Current(q)' = Current(q)
    BY DEF Current
  <2>2. Current(q) \in Handling /\ Current(q)[2] <= at[Current(q)[1]]
    BY <2>1, RowsAndTasksReached
  <2>3. \A h \in Handling : h[2] <= at[h[1]] => Phone(h)' = Phone(h)
    BY PhonesKept
  <2>4. Phone(Current(q))' = Phone(Current(q))
    BY <2>1, <2>2, <2>3 DEF Phone, MessageOf
  <2> QED
    BY <2>1, <2>4
<1>3. OneActiveConversation'
  BY <1>1 DEF RowsUnique, OneActiveConversation
<1>4. OneLead'
  BY DEF RowsUnique, OneLead
<1>5. CreatorsAlone'
  BY <1>1, <1>2 DEF RowsUnique, CreatorsAlone, CreatesFor, CreatesLeadFor
<1> QED
  BY <1>3, <1>4, <1>5 DEF RowsUnique

(* The creation of a row by a task that is alone with it.                   *)
LEMMA CreateConversationUnique ==
  ASSUME IInv, RowsUnique, NEW r \in Request, CreateConversation(r)
  PROVE  RowsUnique'
<1> USE DEF RowsUnique
<1>1. /\ Current(r) \in Handling /\ step[r] = "createConversation"
  BY CurrentKnown DEF IInv, CreateConversation
<1>2. /\ status' = [status EXCEPT ![Current(r)] = "active"]
      /\ step' = [step EXCEPT ![r] = "addMessage"]
      /\ conversation' = [conversation EXCEPT ![r] = [id |-> Current(r), status |-> "active"]]
      /\ UNCHANGED <<batch, at, leadConv>>
  BY DEF CreateConversation, Goto
<1>3. /\ \A c \in Handling : status'[c] = "active" => status[c] = "active" \/ c = Current(r)
      /\ step'[r] = "addMessage"
      /\ \A q \in Request \ {r} :
           step'[q] = step[q] /\ conversation'[q] = conversation[q]
  BY <1>1, <1>2 DEF IInv, TypeOK
<1>4. /\ \A h \in Handling : Phone(h)' = Phone(h)
      /\ \A q \in Request : Phone(Current(q))' = Phone(Current(q))
  BY <1>2 DEF Phone, MessageOf, Current
<1>5. /\ \A c \in Handling : status[c] = "active" => Phone(c) # Phone(Current(r))
      /\ \A q \in Request \ {r} : ~CreatesFor(q, Phone(Current(r)))
  BY <1>1 DEF CreatorsAlone
<1>6. OneActiveConversation'
  BY <1>1, <1>3, <1>4, <1>5 DEF OneActiveConversation
<1>7. OneLead'
  BY <1>2 DEF OneLead
<1>8. CreatorsAlone'
  <2> SUFFICES ASSUME NEW q \in Request,
                      step'[q] \in {"createConversation", "createLead"}
               PROVE  /\ step'[q] = "createConversation" =>
                           /\ \A c \in Handling :
                                status'[c] = "active" => Phone(c) # Phone(Current(q))
                           /\ \A o \in Request \ {q} :
                                step'[o] = "createConversation" =>
                                  Phone(Current(o)) # Phone(Current(q))
                      /\ step'[q] = "createLead" =>
                           /\ \A l \in Handling : leadConv[l] # conversation'[q].id
                           /\ \A o \in Request \ {q} :
                                step'[o] = "createLead" =>
                                  conversation'[o].id # conversation'[q].id
    BY <1>2, <1>4 DEF CreatorsAlone, CreatesFor, CreatesLeadFor
  <2>1. q # r /\ step[q] = step'[q] /\ conversation'[q] = conversation[q]
    BY <1>3
  <2> QED
    BY <1>3, <1>5, <2>1 DEF CreatorsAlone, CreatesFor, CreatesLeadFor
<1> QED
  BY <1>6, <1>7, <1>8

(* The same for the lead of a conversation.                                 *)
LEMMA CreateLeadUnique ==
  ASSUME IInv, RowsUnique, NEW r \in Request, CreateLead(r)
  PROVE  RowsUnique'
<1> USE DEF RowsUnique
<1>1. Current(r) \in Handling /\ step[r] = "createLead"
  BY CurrentKnown DEF IInv, CreateLead
<1>2. /\ leadConv' = [leadConv EXCEPT ![Current(r)] = conversation[r].id]
      /\ step' = [step EXCEPT ![r] = "publish"]
      /\ UNCHANGED <<batch, at, conversation, status>>
  BY DEF CreateLead, Goto, convVars
<1>3. /\ \A l \in Handling :
           leadConv'[l] = IF l = Current(r) THEN conversation[r].id ELSE leadConv[l]
      /\ step'[r] = "publish"
      /\ \A q \in Request \ {r} : step'[q] = step[q]
  BY <1>1, <1>2 DEF IInv, TypeOK
<1>4. /\ \A h \in Handling : Phone(h)' = Phone(h)
      /\ \A q \in Request : Phone(Current(q))' = Phone(Current(q))
  BY <1>2 DEF Phone, MessageOf, Current
<1>5. /\ \A l \in Handling : leadConv[l] # conversation[r].id
      /\ \A q \in Request \ {r} : ~CreatesLeadFor(q, conversation[r].id)
  BY <1>1 DEF CreatorsAlone
<1>6. OneActiveConversation'
  BY <1>2, <1>4 DEF OneActiveConversation
<1>7. OneLead'
  BY <1>3, <1>5 DEF OneLead
<1>8. CreatorsAlone'
  <2> SUFFICES ASSUME NEW q \in Request,
                      step'[q] \in {"createConversation", "createLead"}
               PROVE  /\ step'[q] = "createConversation" =>
                           /\ \A c \in Handling :
                                status[c] = "active" => Phone(c) # Phone(Current(q))
                           /\ \A o \in Request \ {q} :
                                step'[o] = "createConversation" =>
                                  Phone(Current(o)) # Phone(Current(q))
                      /\ step'[q] = "createLead" =>
                           /\ \A l \in Handling : leadConv'[l] # conversation[q].id
                           /\ \A o \in Request \ {q} :
                                step'[o] = "createLead" =>
                                  conversation[o].id # conversation[q].id
    BY <1>2, <1>4 DEF CreatorsAlone, CreatesFor, CreatesLeadFor
  <2>1. q # r /\ step[q] = step'[q]
    BY <1>3
  <2> QED
    BY <1>3, <1>5, <2>1 DEF CreatorsAlone, CreatesFor, CreatesLeadFor
<1> QED
  BY <1>6, <1>7, <1>8

(* A look-up that comes to nothing, and the row is not there for anyone.    *)
LEMMA FindConversationUnique ==
  ASSUME IInv, RowsUnique, NEW r \in Request, FindConversation(r),
         step'[r] = "createConversation"
  PROVE  RowsUnique' <=> ~MissesConversation(r)
<1>1. /\ step[r] = "findConversation" /\ UNCHANGED <<batch, at, status, leadConv>>
      /\ step' = [step EXCEPT ![r] = "createConversation"] /\ conversation' = conversation
      /\ ActiveConversations(Phone(Current(r))) = {}
  <2>1. UNCHANGED <<batch, at, status, leadConv>> /\ step[r] = "findConversation"
    BY DEF FindConversation, dbVars, convVars
  <2>2. step' # [step EXCEPT ![r] = "addMessage"]
    BY DEF IInv, TypeOK
  <2> QED
    BY <2>1, <2>2 DEF FindConversation, Goto
<1>2. /\ \A q \in Request : step'[q] = IF q = r THEN "createConversation" ELSE step[q]
  BY <1>1 DEF IInv, TypeOK
<1>3. /\ \A h \in Handling : Phone(h)' = Phone(h)
      /\ \A q \in Request : Phone(Current(q))' = Phone(Current(q))
  BY <1>1 DEF Phone, MessageOf, Current
<1>4. \A c \in Handling : Phone(c) = Phone(Current(r)) => ReadStatus[c] # "active"
  BY <1>1 DEF ActiveConversations
<1>5. MissesConversation(r) <=>
        \/ \E c \in Handling : status[c] = "active" /\ Phone(c) = Phone(Current(r))
        \/ \E q \in Request : CreatesFor(q, Phone(Current(r)))
  BY <1>4 DEF MissesConversation
<1>6. CreatorsAlone' <=>
        /\ \A c \in Handling : status[c] = "active" => Phone(c) # Phone(Current(r))
        /\ \A q \in Request \ {r} : ~CreatesFor(q, Phone(Current(r)))
  BY <1>1, <1>2, <1>3 DEF RowsUnique, CreatorsAlone, CreatesFor, CreatesLeadFor
<1>7. OneActiveConversation' /\ OneLead'
  BY <1>1, <1>3 DEF RowsUnique, OneActiveConversation, OneLead
<1>8. ~CreatesFor(r, Phone(Current(r)))
  BY <1>1 DEF CreatesFor
<1> QED
  BY <1>5, <1>6, <1>7, <1>8 DEF RowsUnique

(* The same for a lead that is not found.                                   *)
LEMMA FindLeadUnique ==
  ASSUME IInv, RowsUnique, NEW r \in Request, FindLead(r), step'[r] = "createLead"
  PROVE  RowsUnique' <=> ~MissesLead(r)
<1>1. /\ step[r] = "findLead" /\ UNCHANGED <<batch, at, conversation, status, leadConv>>
      /\ step' = [step EXCEPT ![r] = "createLead"]
      /\ LeadsOf(conversation[r].id) = {}
  <2>1. UNCHANGED <<batch, at, conversation, status, leadConv>> /\ step[r] = "findLead"
    BY DEF FindLead, dbVars, convVars
  <2>2. step' # [step EXCEPT ![r] = "publish"]
    BY DEF IInv, TypeOK
  <2> QED
    BY <2>1, <2>2 DEF FindLead, Goto
<1>2. /\ \A q \in Request : step'[q] = IF q = r THEN "createLead" ELSE step[q]
  BY <1>1 DEF IInv, TypeOK
<1>3. /\ \A h \in Handling : Phone(h)' = Phone(h)
      /\ \A q \in Request : Phone(Current(q))' = Phone(Current(q))
  BY <1>1 DEF Phone, MessageOf, Current
<1>4. \A l \in Handling : leadConv[l] = conversation[r].id => ReadLead[l] = None
  BY <1>1, ReadsTrue DEF LeadsOf
<1>5. MissesLead(r) <=>
        \/ \E l \in Handling : leadConv[l] = conversation[r].id
        \/ \E q \in Request : CreatesLeadFor(q, conversation[r].id)
  BY <1>4 DEF MissesLead
<1>6. CreatorsAlone' <=>
        /\ \A l \in Handling : leadConv[l] # conversation[r].id
        /\ \A q \in Request \ {r} : ~CreatesLeadFor(q, conversation[r].id)
  BY <1>1, <1>2, <1>3 DEF RowsUnique, CreatorsAlone, CreatesFor, CreatesLeadFor
<1>7. OneActiveConversation' /\ OneLead'
  BY <1>1, <1>3 DEF RowsUnique, OneActiveConversation, OneLead
<1>8. ~CreatesLeadFor(r, conversation[r].id)
  BY <1>1 DEF CreatesLeadFor
<1> QED
  BY <1>5, <1>6, <1>7, <1>8 DEF RowsUnique

(* A human gives a conversation back to the agent.                          *)
LEMMA ReleaseUnique ==
  ASSUME IInv, RowsUnique, NEW c \in Handling, Release(c)
  PROVE  RowsUnique' <=> ~ReleasesSecond(c)
<1>1. /\ UNCHANGED <<batch, at, step, conversation, leadConv>>
      /\ \A d \in Handling : status'[d] = IF d = c THEN "active" ELSE status[d]
  BY DEF Release, taskVars, IInv, TypeOK
<1>2. /\ \A h \in Handling : Phone(h)' = Phone(h)
      /\ \A q \in Request : Phone(Current(q))' = Phone(Current(q))
  BY <1>1 DEF Phone, MessageOf, Current
<1>3. OneActiveConversation' <=>
        \A d \in Handling \ {c} : status[d] = "active" => Phone(d) # Phone(c)
  BY <1>1, <1>2 DEF RowsUnique, OneActiveConversation
<1>4. CreatorsAlone' <=> \A q \in Request : ~CreatesFor(q, Phone(c))
  BY <1>1, <1>2 DEF RowsUnique, CreatorsAlone, CreatesFor, CreatesLeadFor
<1>5. OneLead'
  BY <1>1 DEF RowsUnique, OneLead
<1> QED
  BY <1>3, <1>4, <1>5 DEF RowsUnique, ReleasesSecond

(* The steps of a task, as far as rows are concerned.                       *)
LEMMA TaskUnique ==
  ASSUME IInv, [Next]_vars, RowsUnique, ~Race, NEW r \in Request, Task(r)
  PROVE  RowsUnique'
<1> USE DEF Race
<1>1. CASE FindConversation(r)
  <2>1. CASE step'[r] = "createConversation"
    BY <1>1, <2>1, FindConversationUnique
  <2>2. CASE step'[r] # "createConversation"
    <3>1. step' = [step EXCEPT ![r] = "addMessage"]
      BY <1>1, <2>2 DEF FindConversation, Goto, IInv, TypeOK
    <3>2. UNCHANGED <<at, status, leadConv>> /\ step[r] = "findConversation"
      BY <1>1 DEF FindConversation, dbVars, convVars
    <3>3. \A q \in Request \ {r} : conversation'[q] = conversation[q] /\ step'[q] = step[q]
      BY <1>1, <3>1 DEF FindConversation, IInv, TypeOK
    <3>4. step'[r] = "addMessage"
      BY <3>1 DEF IInv, TypeOK
    <3> QED
      BY <3>2, <3>3, <3>4, UniqueFrame
  <2> QED
    BY <2>1, <2>2
<1>2. CASE CreateConversation(r)
  BY <1>2, CreateConversationUnique
<1>3. CASE FindLead(r)
  <2>1. CASE step'[r] = "createLead"
    BY <1>3, <2>1, FindLeadUnique
  <2>2. CASE step'[r] # "createLead"
    <3>1. step' = [step EXCEPT ![r] = "publish"]
      BY <1>3, <2>2 DEF FindLead, Goto, IInv, TypeOK
    <3>2. UNCHANGED <<at, conversation, status, leadConv>>
      BY <1>3 DEF FindLead, dbVars, convVars
    <3>3. step'[r] = "publish" /\ \A q \in Request \ {r} : step'[q] = step[q]
      BY <3>1 DEF IInv, TypeOK
    <3> QED
      BY <3>2, <3>3, UniqueFrame
  <2> QED
    BY <2>1, <2>2
<1>4. CASE CreateLead(r)
  BY <1>4, CreateLeadUnique
<1>5. CASE AddMessage(r) \/ PublishJob(r) \/ Abort(r)
  <2>1. UNCHANGED <<status, leadConv>>
    BY <1>5 DEF AddMessage, PublishJob, Abort, dbVars, convVars
  <2>2. \E s \in {"findConversation", "idle", "findLead"} : step' = [step EXCEPT ![r] = s]
    BY <1>5 DEF AddMessage, PublishJob, Abort, EndTask, Goto
  <2>3. \A q \in Request \ {r} : conversation'[q] = conversation[q] /\ at'[q] = at[q]
    BY <1>5 DEF AddMessage, PublishJob, Abort, EndTask, IInv, TypeOK
  <2>4. /\ step'[r] \in {"findConversation", "idle", "findLead"}
        /\ \A q \in Request \ {r} : step'[q] = step[q]
    BY <2>2 DEF IInv, TypeOK
  <2> QED
    BY <2>1, <2>3, <2>4, UniqueFrame
<1> QED
  BY <1>1, <1>2, <1>3, <1>4, <1>5 DEF Task

(* Rows stay unique in every step that is not one of the races, and in none *)
(* of those that are.                                                       *)
LEMMA UniqueNext ==
  ASSUME IInv, [Next]_vars, RowsUnique
  PROVE  RowsUnique' <=> ~Race
<1>1. ASSUME Race PROVE ~RowsUnique'
  <2>1. ASSUME NEW r \in Request, MissesConversation(r) PROVE ~RowsUnique'
    BY <2>1, FindConversationUnique DEF MissesConversation
  <2>2. ASSUME NEW r \in Request, MissesLead(r) PROVE ~RowsUnique'
    BY <2>2, FindLeadUnique DEF MissesLead
  <2>3. ASSUME NEW c \in Handling, ReleasesSecond(c) PROVE ~RowsUnique'
    BY <2>3, ReleaseUnique DEF ReleasesSecond
  <2> QED
    BY <1>1, <2>1, <2>2, <2>3 DEF Race
<1>2. ASSUME ~Race PROVE RowsUnique'
  <2>1. ASSUME NEW r \in Request, \E p \in Payload : Accept(r, p) \/ Refuse(r, p)
        PROVE  RowsUnique'
    <3>1. UNCHANGED <<conversation, status, leadConv>> /\ request[r] = "new"
      BY <2>1 DEF Accept, Refuse, dbVars, convVars
    <3>2. \/ step' = [step EXCEPT ![r] = "findConversation"] /\ at' = [at EXCEPT ![r] = 1]
          \/ UNCHANGED <<step, at>>
      BY <2>1 DEF Accept, Refuse
    <3>3. \A q \in Request : \/ step'[q] = step[q] /\ at'[q] = at[q]
                             \/ step'[q] = "findConversation"
      BY <3>2 DEF IInv, TypeOK
    <3> QED
      BY <3>1, <3>3, UniqueFrame
  <2>2. ASSUME NEW r \in Request, Task(r) PROVE RowsUnique'
    BY <1>2, <2>2, TaskUnique
  <2>3. ASSUME NEW h \in Handling, HandleMessage(h) PROVE RowsUnique'
    <3>1. UNCHANGED <<at, step, conversation, status, leadConv>>
      BY <2>3 DEF HandleMessage, taskVars, dbVars, convVars
    <3> QED
      BY <3>1, UniqueFrame
  <2>4. ASSUME NEW d \in Delivery, Work(d) PROVE RowsUnique'
    <3>1. UNCHANGED <<at, step, conversation, leadConv>>
      BY <2>4 DEF Work, Escalate, Respond, UpdateLeadScore, LookUpConversation, SendAnswer,
                  PersistAnswer, AckJob, RejectJob, taskVars, dbVars
    <3>2. \/ UNCHANGED status
          \/ status' = [status EXCEPT ![payload[d[1]].conversation] = "escalated"]
      BY <2>4 DEF Work, Escalate, Respond, UpdateLeadScore, LookUpConversation, SendAnswer,
                  PersistAnswer, AckJob, RejectJob, dbVars, convVars
    <3>3. \A c \in Handling : status'[c] = "active" => status[c] = "active"
      BY <3>2 DEF IInv, TypeOK
    <3> QED
      BY <3>1, <3>3, UniqueFrame
  <2>5. ASSUME NEW c \in Handling, NEW a \in Agent, Takeover(c, a) PROVE RowsUnique'
    <3>1. /\ UNCHANGED <<at, step, conversation, leadConv>>
          /\ status' = [status EXCEPT ![c] = "escalated"]
      BY <2>5 DEF Takeover, taskVars
    <3>2. \A d \in Handling : status'[d] = "active" => status[d] = "active"
      BY <3>1 DEF IInv, TypeOK
    <3> QED
      BY <3>1, <3>2, UniqueFrame
  <2>6. ASSUME NEW c \in Handling, Release(c) PROVE RowsUnique'
    BY <1>2, <2>6, ReleaseUnique DEF Race
  <2>7. CASE Replicate \/ StartConsumer \/ ConnectionLost \/ UNCHANGED vars
    <3>1. UNCHANGED <<at, step, conversation, status, leadConv>>
      BY <2>7 DEF Replicate, StartConsumer, ConnectionLost, vars, taskVars, dbVars, convVars
    <3> QED
      BY <3>1, UniqueFrame
  <2>8. CASE Crash
    <3>1. UNCHANGED <<status, leadConv>> /\ \A q \in Request : step'[q] = "idle"
      BY <2>8 DEF Crash, dbVars, convVars
    <3> QED
      BY <3>1, UniqueFrame
  <2> QED
    BY <2>1, <2>2, <2>3, <2>4, <2>5, <2>6, <2>7, <2>8 DEF Next
<1> QED
  BY <1>1, <1>2

(* The tables are empty at first.                                           *)
LEMMA UniqueInit == Init => RowsUnique
BY DEF Init, RowsUnique, OneActiveConversation, OneLead, CreatorsAlone

(* Look-ups that miss a row, on a stale replica or before another task      *)
(* stores it, and releases next to a second conversation are all the ways   *)
(* to a customer with two active conversations or two leads.                *)
THEOREM OnlyRacesDouble == Spec => DoubledOnlyByRaces
<1>1. IInv /\ [Next]_vars => [RowsUnique => (RowsUnique' <=> ~Race)]_vars
  BY UniqueNext
<1> QED
  BY <1>1, Invariance, PTL DEF Spec, DoubledOnlyByRaces

(* As long as none of them happens, whatever else does, every customer has  *)
(* at most one active conversation, and every conversation at most one lead.*)
THEOREM UniqueUnlessRaced == Spec /\ [][~Race]_vars => []RowsUnique
<1>1. RowsUnique /\ [RowsUnique => (RowsUnique' <=> ~Race)]_vars /\ [~Race]_vars => RowsUnique'
  <2> SUFFICES ASSUME RowsUnique, UNCHANGED vars PROVE RowsUnique'
    OBVIOUS
  <2> QED
    BY DEF vars, taskVars, dbVars, convVars, RowsUnique, OneActiveConversation, OneLead,
           CreatorsAlone, CreatesFor, CreatesLeadFor, Phone, MessageOf, Current
<1> QED
  BY <1>1, UniqueInit, OnlyRacesDouble, PTL DEF Spec, DoubledOnlyByRaces

(* The replica takes over the table of the master as it is.                 *)
LEMMA OneActiveCopyNext ==
  ASSUME IInv, RowsUnique, OneActiveCopy, [Next]_vars
  PROVE  OneActiveCopy'
<1>1. \A c \in Handling : statusCopy[c] = "active" => c[2] <= at[c[1]]
  BY DEF IInv, CopiesLag, RowsReached
<1>2. \A c \in Handling :
        statusCopy[c] = "active" \/ status[c] = "active" => Phone(c)' = Phone(c)
  BY <1>1, PhonesKept, RowsAndTasksReached
<1>3. statusCopy' = statusCopy \/ statusCopy' = status
  <2>1. ASSUME NEW r \in Request,
               Task(r) \/ \E p \in Payload : Accept(r, p) \/ Refuse(r, p)
        PROVE  statusCopy' = statusCopy
    BY <2>1 DEF Accept, Refuse, Task, FindConversation, CreateConversation, AddMessage,
                FindLead, CreateLead, PublishJob, Abort, copyVars
  <2>2. ASSUME NEW h \in Handling, HandleMessage(h) PROVE statusCopy' = statusCopy
    BY <2>2 DEF HandleMessage, copyVars
  <2>3. ASSUME NEW d \in Delivery, Work(d) PROVE statusCopy' = statusCopy
    BY <2>3 DEF Work, Escalate, Respond, UpdateLeadScore, LookUpConversation, SendAnswer,
                PersistAnswer, AckJob, RejectJob, copyVars
  <2>4. ASSUME NEW c \in Handling, (\E a \in Agent : Takeover(c, a)) \/ Release(c)
        PROVE  statusCopy' = statusCopy
    BY <2>4 DEF Takeover, Release, copyVars
  <2>5. CASE StartConsumer \/ ConnectionLost \/ Crash \/ UNCHANGED vars
    BY <2>5 DEF StartConsumer, ConnectionLost, Crash, vars, copyVars
  <2>6. CASE Replicate
    BY <2>6 DEF Replicate
  <2> QED
    BY <2>1, <2>2, <2>3, <2>4, <2>5, <2>6 DEF Next
<1> QED
  BY <1>2, <1>3 DEF RowsUnique, OneActiveConversation, OneActiveCopy

(* Then a look-up never matches several rows, on the replica either: a task *)
(* raises only if the database fails.                                       *)
THEOREM NoAmbiguityUnlessRaced == Spec /\ [][~Race]_vars => []LookupsUnambiguous
<1>1. Init => OneActiveCopy
  BY DEF Init, OneActiveCopy
<1>2. IInv /\ RowsUnique /\ OneActiveCopy => LookupsUnambiguous
  <2> SUFFICES ASSUME IInv, RowsUnique, OneActiveCopy, NEW r \in Request, MayRaise(r)
               PROVE  "database" \in MayFail
    BY DEF LookupsUnambiguous
  <2>1. ASSUME NEW S, \A x, y \in S : x = y
        PROVE  ~(Cardinality(S) > 1)
    <3>1. CASE S = {}
      BY <3>1, FS_EmptySet
    <3>2. ASSUME NEW x \in S PROVE ~(Cardinality(S) > 1)
      <4>1. S = {x}
        BY <2>1, <3>2
      <4>2. Cardinality(S) = 1
        BY <4>1, FS_Singleton
      <4> QED
        BY <4>2
    <3> QED
      BY <3>1, <3>2
  <2>2. \A c, d \in ActiveConversations(Phone(Current(r))) : c = d
    BY DEF ActiveConversations, ReadStatus, RowsUnique, OneActiveConversation, OneActiveCopy
  <2>3. step[r] = "findLead" => \A l, k \in LeadsOf(conversation[r].id) : l = k
    <3> SUFFICES ASSUME step[r] = "findLead", NEW l \in LeadsOf(conversation[r].id),
                        NEW k \in LeadsOf(conversation[r].id)
                 PROVE  l = k
      OBVIOUS
    <3>1. conversation[r].id # None
      BY NoneAssumption DEF IInv, ConversationHeld
    <3>2. leadConv[l] = conversation[r].id /\ leadConv[k] = conversation[r].id
      BY <3>1, ReadsTrue DEF LeadsOf
    <3>3. l \in Handling /\ k \in Handling
      BY DEF LeadsOf
    <3> QED
      BY <3>1, <3>2, <3>3 DEF RowsUnique, OneLead
  <2> QED
    BY <2>1, <2>2, <2>3 DEF MayRaise
<1>3. IInv /\ RowsUnique /\ OneActiveCopy /\ [Next]_vars => OneActiveCopy'
  BY OneActiveCopyNext
<1> QED
  BY <1>1, <1>2, <1>3, Invariance, UniqueUnlessRaced, PTL DEF Spec

-----------------------------------------------------------------------------
(* Progress.                                                                *)

(* At message m of n with k calls of six to go: an earlier call or an earlier *)
(* message has more to go.                                                   *)
LEMMA CountDown ==
  ASSUME NEW n \in Nat, NEW m \in 1 .. n, NEW k \in 1 .. 6
  PROVE  /\ 6 * (n - m) + k \in Nat
         /\ \A j \in 0 .. 6 : j < k => /\ 6 * (n - m) + j \in Nat
                                     /\ 6 * (n - m) + j < 6 * (n - m) + k
         /\ m < n => /\ 6 * (n - (m + 1)) + 6 \in Nat
                     /\ 6 * (n - (m + 1)) + 6 < 6 * (n - m) + k
OBVIOUS

(* A call of a task, the last one of a message included, leaves fewer.      *)
LEMMA TaskAdvances ==
  ASSUME IInv, NEW r \in Request, Task(r)
  PROVE  /\ TaskLeft(r) \in Nat /\ TaskLeft(r)' \in Nat /\ TaskLeft(r)' < TaskLeft(r)
         /\ \A q \in Request \ {r} : TaskLeft(q)' = TaskLeft(q)
<1>1. /\ step[r] # "idle" /\ step \in [Request -> Step] /\ at \in [Request -> Nat]
      /\ at[r] \in 1 .. Len(batch[r]) /\ Len(batch[r]) \in Nat
  <2>1. step[r] # "idle"
    BY DEF Task, FindConversation, CreateConversation, AddMessage, FindLead, CreateLead,
           PublishJob, Abort, MayRaise
  <2> QED
    BY <2>1, CurrentKnown DEF IInv, TypeOK
<1>2. batch' = batch
  BY DEF Task, FindConversation, CreateConversation, AddMessage, FindLead, CreateLead,
         PublishJob, EndTask, Abort
<1>3. \/ /\ at' = at
         /\ \E s \in Step : step' = [step EXCEPT ![r] = s] /\ CallsLeft[s] < CallsLeft[step[r]]
      \/ /\ at[r] < Len(batch[r]) /\ at' = [at EXCEPT ![r] = @ + 1]
         /\ step' = [step EXCEPT ![r] = "findConversation"]
  <2>1. ASSUME EndTask(r)
        PROVE  \/ at' = at /\ step' = [step EXCEPT ![r] = "idle"]
               \/ /\ at[r] < Len(batch[r]) /\ at' = [at EXCEPT ![r] = @ + 1]
                  /\ step' = [step EXCEPT ![r] = "findConversation"]
    BY <2>1 DEF EndTask, Goto
  <2>2. CASE FindConversation(r)
    BY <2>2 DEF FindConversation, Goto, Step, CallsLeft
  <2>3. CASE CreateConversation(r)
    BY <2>3 DEF CreateConversation, Goto, Step, CallsLeft
  <2>4. CASE AddMessage(r)
    BY <2>4, <2>1 DEF AddMessage, Goto, Step, CallsLeft
  <2>5. CASE FindLead(r)
    BY <2>5 DEF FindLead, Goto, Step, CallsLeft
  <2>6. CASE CreateLead(r)
    BY <2>6 DEF CreateLead, Goto, Step, CallsLeft
  <2>7. CASE PublishJob(r)
    BY <2>7, <2>1 DEF PublishJob, Step, CallsLeft
  <2>8. CASE Abort(r)
    <3>1. CallsLeft["idle"] < CallsLeft[step[r]]
      BY <1>1 DEF Step, CallsLeft
    <3> QED
      BY <2>8, <3>1 DEF Abort, Goto, Step
  <2> QED
    BY <2>2, <2>3, <2>4, <2>5, <2>6, <2>7, <2>8 DEF Task
<1>4. \A s \in Step : CallsLeft[s] \in 0 .. 6
  BY DEF Step, CallsLeft
<1>5. CallsLeft[step[r]] \in 1 .. 6 /\ CallsLeft["findConversation"] = 6
  BY <1>1 DEF Step, CallsLeft
<1>6. \A q \in Request \ {r} : TaskLeft(q)' = TaskLeft(q)
  BY <1>1, <1>2, <1>3 DEF TaskLeft
<1>9. TaskLeft(r) = 6 * (Len(batch[r]) - at[r]) + CallsLeft[step[r]]
  BY DEF TaskLeft
<1>7. CASE /\ at' = at
           /\ \E s \in Step : step' = [step EXCEPT ![r] = s] /\ CallsLeft[s] < CallsLeft[step[r]]
  <2>1. PICK s \in Step : step' = [step EXCEPT ![r] = s] /\ CallsLeft[s] < CallsLeft[step[r]]
    BY <1>7
  <2>2. step'[r] = s
    BY <1>1, <2>1
  <2>3. TaskLeft(r)' = 6 * (Len(batch[r]) - at[r]) + CallsLeft[s]
    BY <1>2, <1>7, <2>2 DEF TaskLeft
  <2>4. CallsLeft[s] \in 0 .. 6 /\ CallsLeft[s] < CallsLeft[step[r]]
    BY <1>4, <2>1
  <2>5. TaskLeft(r) \in Nat /\ TaskLeft(r)' \in Nat /\ TaskLeft(r)' < TaskLeft(r)
    BY <1>1, <1>5, <1>9, <2>3, <2>4, CountDown
  <2> QED
    BY <1>6, <2>5
<1>8. CASE /\ at[r] < Len(batch[r]) /\ at' = [at EXCEPT ![r] = @ + 1]
           /\ step' = [step EXCEPT ![r] = "findConversation"]
  <2>1. step'[r] = "findConversation" /\ at'[r] = at[r] + 1
    BY <1>1, <1>8
  <2>2. TaskLeft(r)' = 6 * (Len(batch[r]) - (at[r] + 1)) + 6
    BY <1>2, <1>5, <2>1 DEF TaskLeft
  <2>3. TaskLeft(r) \in Nat /\ TaskLeft(r)' \in Nat /\ TaskLeft(r)' < TaskLeft(r)
    BY <1>1, <1>5, <1>8, <1>9, <2>2, CountDown
  <2> QED
    BY <1>6, <2>3
<1> QED
  BY <1>3, <1>7, <1>8

(* A step of the worker on a delivery leaves it fewer.                      *)
LEMMA CallbackAdvances ==
  ASSUME IInv, NEW d \in Delivery, Work(d)
  PROVE  /\ PhasesLeft[phase'[d]] < PhasesLeft[phase[d]]
         /\ \A e \in Delivery \ {d} : phase'[e] = phase[e]
<1>1. phase \in [Delivery -> Phase]
  BY DEF IInv, TypeOK
<1>2. \E p \in Phase : SetPhase(d, p) /\ PhasesLeft[p] < PhasesLeft[phase[d]]
  <2>1. CASE Escalate(d)
    BY <2>1 DEF Escalate, Phase, PhasesLeft
  <2>2. CASE Respond(d)
    BY <2>2 DEF Respond, Phase, PhasesLeft
  <2>3. CASE UpdateLeadScore(d)
    BY <2>3 DEF UpdateLeadScore, Phase, PhasesLeft
  <2>4. CASE LookUpConversation(d)
    BY <2>4 DEF LookUpConversation, Phase, PhasesLeft
  <2>5. CASE SendAnswer(d)
    BY <2>5 DEF SendAnswer, Phase, PhasesLeft
  <2>6. CASE PersistAnswer(d)
    BY <2>6 DEF PersistAnswer, Phase, PhasesLeft
  <2>7. CASE AckJob(d)
    BY <2>7 DEF AckJob, Phase, PhasesLeft
  <2>8. CASE RejectJob(d)
    <3>1. phase[d] \in {"respond", "send", "persist", "escalate", "score", "lookup"}
      BY <2>8 DEF RejectJob, Needs, Calls
    <3> QED
      BY <2>8, <3>1 DEF RejectJob, Phase, PhasesLeft
  <2> QED
    BY <2>1, <2>2, <2>3, <2>4, <2>5, <2>6, <2>7, <2>8 DEF Work
<1> QED
  BY <1>1, <1>2 DEF SetPhase

(* Steps of others leave a request what it had left, and a crash nothing.   *)
LEMMA TasksAdvance ==
  ASSUME IInv, [Next]_vars, NEW r \in Request, request[r] = "running"
  PROVE  TaskLeft(r)' <= TaskLeft(r) /\ (Task(r) => TaskLeft(r)' < TaskLeft(r))
<1>1. /\ TaskLeft(r) = 6 * (Len(batch[r]) - at[r]) + CallsLeft[step[r]]
      /\ CallsLeft[step[r]] \in 1 .. 6 /\ Len(batch[r]) \in Nat
      /\ at[r] \in 1 .. Len(batch[r])
  <2>1. step[r] \in Step \ {"idle"} /\ at[r] \in 1 .. Len(batch[r]) /\ Len(batch[r]) \in Nat
    BY CurrentKnown DEF IInv, TypeOK, RequestShape
  <2>2. CallsLeft[step[r]] \in 1 .. 6
    BY <2>1 DEF Step, CallsLeft
  <2> QED
    BY <2>1, <2>2 DEF TaskLeft
<1>2. TaskLeft(r) \in Nat
  BY <1>1, CountDown
<1>3. ASSUME Task(r) PROVE TaskLeft(r)' < TaskLeft(r) /\ TaskLeft(r)' \in Nat
  BY <1>3, TaskAdvances
<1>4. ASSUME batch'[r] = batch[r], at'[r] = at[r], step'[r] = step[r]
      PROVE  TaskLeft(r)' = TaskLeft(r)
  BY <1>4 DEF TaskLeft
<1>5. \/ TaskLeft(r)' = TaskLeft(r)
      \/ TaskLeft(r)' < TaskLeft(r) /\ TaskLeft(r)' \in Nat
  <2>1. ASSUME NEW q \in Request, Task(q)
        PROVE  \/ TaskLeft(r)' = TaskLeft(r)
               \/ TaskLeft(r)' < TaskLeft(r) /\ TaskLeft(r)' \in Nat
    BY <2>1, <1>3, TaskAdvances
  <2>2. ASSUME NEW q \in Request, NEW p \in Payload, Accept(q, p) \/ Refuse(q, p)
        PROVE  TaskLeft(r)' = TaskLeft(r)
    <3>1. q # r
      BY <2>2 DEF Accept, Refuse
    <3> QED
      BY <2>2, <3>1, <1>4 DEF Accept, Refuse, IInv, TypeOK
  <2>3. ASSUME NEW h \in Handling, HandleMessage(h) PROVE TaskLeft(r)' = TaskLeft(r)
    BY <2>3, <1>4 DEF HandleMessage, taskVars
  <2>4. ASSUME NEW d \in Delivery, Work(d) PROVE TaskLeft(r)' = TaskLeft(r)
    BY <2>4, <1>4 DEF Work, Escalate, Respond, UpdateLeadScore, LookUpConversation, SendAnswer,
                PersistAnswer, AckJob, RejectJob, taskVars
  <2>5. ASSUME NEW c \in Handling, (\E a \in Agent : Takeover(c, a)) \/ Release(c)
        PROVE  TaskLeft(r)' = TaskLeft(r)
    BY <2>5, <1>4 DEF Takeover, Release, taskVars
  <2>6. CASE Replicate \/ StartConsumer \/ ConnectionLost \/ UNCHANGED vars
    BY <2>6, <1>4 DEF Replicate, StartConsumer, ConnectionLost, vars, taskVars
  <2>7. CASE Crash
    <3>1. batch' = batch /\ at' = at /\ step'[r] = "idle"
      BY <2>7 DEF Crash
    <3>2. TaskLeft(r)' = 6 * (Len(batch[r]) - at[r]) + 0
      BY <3>1 DEF TaskLeft, CallsLeft
    <3> QED
      BY <3>2, <1>1, CountDown
  <2> QED
    BY <2>1, <2>2, <2>3, <2>4, <2>5, <2>6, <2>7 DEF Next
<1> QED
  BY <1>2, <1>3, <1>5

(* A delivery that has begun is never begun again.                          *)
LEMMA CallbacksAdvance ==
  ASSUME IInv, AnswerInv, [Next]_vars, NEW d \in Delivery, phase[d] # "idle"
  PROVE  /\ PhasesLeft[phase'[d]] <= PhasesLeft[phase[d]]
         /\ Work(d) => PhasesLeft[phase'[d]] < PhasesLeft[phase[d]]
<1>1. PhasesLeft[phase[d]] \in Nat /\ PhasesLeft["over"] <= PhasesLeft[phase[d]]
  <2>1. phase[d] \in Phase \ {"idle"}
    BY DEF IInv, TypeOK
  <2> QED
    BY <2>1 DEF Phase, PhasesLeft
<1>2. ASSUME Work(d) 
      PROVE  /\ PhasesLeft[phase'[d]] < PhasesLeft[phase[d]]
             /\ phase'[d] \in Phase \ {"idle"}
  <2>1. phase'[d] \in Phase \ {"idle"}
    <3>1. \E p \in Phase \ {"idle"} : SetPhase(d, p)
      BY <1>2 DEF Work, Escalate, Respond, UpdateLeadScore, LookUpConversation, SendAnswer,
                  PersistAnswer, AckJob, RejectJob, Phase
    <3> QED
      BY <3>1 DEF SetPhase, IInv, TypeOK
  <2> QED
    BY <1>2, <2>1, CallbackAdvances
<1>3. ASSUME phase'[d] \in Phase \ {"idle"} PROVE PhasesLeft[phase'[d]] \in Nat
  BY <1>3 DEF Phase, PhasesLeft
<1>4. \/ phase'[d] = phase[d] \/ phase'[d] = "over" \/ Work(d)
  <2>1. ASSUME NEW r \in Request,
               Task(r) \/ \E p \in Payload : Accept(r, p) \/ Refuse(r, p)
        PROVE  phase'[d] = phase[d]
    BY <2>1 DEF Accept, Refuse, Task, FindConversation, CreateConversation, AddMessage,
                FindLead, CreateLead, PublishJob, Abort, workVars
  <2>2. ASSUME NEW h \in Handling, HandleMessage(h) PROVE phase'[d] = phase[d]
    <3>1. d[2] <= tries[d[1]]
      BY DEF AnswerInv, DeliveriesCounted
    <3>2. d # <<h, tries[h] + 1>>
      <4>1. tries[h] \in Nat
        BY DEF IInv, TypeOK, Queue!TypeOK
      <4> QED
        BY <3>1, <4>1
    <3> QED
      BY <2>2, <3>2 DEF HandleMessage, SetPhase, IInv, TypeOK
  <2>3. ASSUME NEW e \in Delivery, Work(e) PROVE phase'[d] = phase[d] \/ Work(d)
    BY <2>3, CallbackAdvances
  <2>4. ASSUME NEW c \in Handling, (\E a \in Agent : Takeover(c, a)) \/ Release(c)
        PROVE  phase'[d] = phase[d]
    BY <2>4 DEF Takeover, Release, workVars
  <2>5. CASE Replicate \/ StartConsumer \/ ConnectionLost \/ UNCHANGED vars
    BY <2>5 DEF Replicate, StartConsumer, ConnectionLost, vars, workVars
  <2>6. CASE Crash
    BY <2>6 DEF Crash
  <2> QED
    BY <2>1, <2>2, <2>3, <2>4, <2>5, <2>6 DEF Next
<1> QED
  BY <1>1, <1>2, <1>3, <1>4

(* What makes requests and callbacks end once the event loop resumes them.  *)
THEOREM Advances == Spec => EachStepAdvances
<1>1. IInv /\ AnswerInv /\ [Next]_vars =>
        [/\ \A r \in Request : request[r] = "running" =>
             /\ TaskLeft(r)' <= TaskLeft(r)
             /\ Task(r) => TaskLeft(r)' < TaskLeft(r)
         /\ \A d \in Delivery : phase[d] # "idle" =>
             /\ PhasesLeft[phase'[d]] <= PhasesLeft[phase[d]]
             /\ Work(d) => PhasesLeft[phase'[d]] < PhasesLeft[phase[d]]]_vars
  BY TasksAdvance, CallbacksAdvance
<1> QED
  BY <1>1, Invariance, AnswerInvariance, PTL DEF Spec, EachStepAdvances

-----------------------------------------------------------------------------
(* What the calls that write find unwritten.                                *)


(* A step that leaves tasks, messages and the existence of conversations    *)
(* alone leaves a task as fresh as it was.                                  *)
LEMMA FreshTaskFrame ==
  ASSUME FreshTask, UNCHANGED <<request, batch, at, step, inbox, missed>>,
         \A c \in Handling : status'[c] = "absent" <=> status[c] = "absent",
         \A r \in Request : step[r] # "idle" => Current(r) \in Handling
  PROVE  FreshTask'
BY DEF FreshTask, Current

(* The worker neither opens nor removes a conversation.                     *)
LEMMA WorkKeepsRows ==
  ASSUME IInv, NEW d \in Delivery, Work(d)
  PROVE  /\ \/ UNCHANGED status
            \/ /\ Escalate(d) /\ payload[d[1]].conversation \in Handling
               /\ status[payload[d[1]].conversation] # "absent"
               /\ status' = [status EXCEPT ![payload[d[1]].conversation] = "escalated"]
         /\ \A c \in Handling : status'[c] = "absent" <=> status[c] = "absent"
<1>1. CASE Escalate(d)
  <2>1. d[1] \in Handling /\ payload[d[1]] # None
    BY <1>1 DEF Escalate, Delivery, IInv, PhasesKnown
  <2>2. payload[d[1]].conversation \in Handling /\ status[payload[d[1]].conversation] # "absent"
    BY <2>1, JobConversation
  <2>3. status' = [status EXCEPT ![payload[d[1]].conversation] = "escalated"]
    BY <1>1 DEF Escalate
  <2> QED
    BY <1>1, <2>2, <2>3 DEF IInv, TypeOK
<1>2. CASE ~Escalate(d)
  BY <1>2 DEF Work, Respond, UpdateLeadScore, LookUpConversation, SendAnswer, PersistAnswer,
              AckJob, RejectJob, dbVars, convVars
<1> QED
  BY <1>1, <1>2

(* Every step leaves the tasks fresh: one that comes to its call again does  *)
(* so for the next message.                                                 *)
LEMMA FreshTaskNext ==
  ASSUME IInv, FreshTask, [Next]_vars
  PROVE  FreshTask'
<1>1. \A r \in Request : step[r] # "idle" => Current(r) \in Handling
  BY CurrentKnown DEF IInv
<1>2. \A h \in Handling : h[2] > at[h[1]] =>
        status[h] = "absent" /\ inbox[h] = None /\ h \notin missed
  <2> SUFFICES ASSUME NEW h \in Handling, h[2] > at[h[1]]
               PROVE  status[h] = "absent" /\ inbox[h] = None /\ h \notin missed
    OBVIOUS
  <2>1. ~(h[2] <= at[h[1]])
    BY MaxBatchAssumption DEF IInv, TypeOK, Handling, Position
  <2> QED
    BY <2>1 DEF IInv, RowsReached
<1>3. ASSUME NEW r \in Request, NEW p \in Payload, Accept(r, p) PROVE FreshTask'
  <2>1. at[r] = 0 /\ step[r] = "idle"
    BY <1>3 DEF Accept, IInv, RequestShape
  <2>2. /\ request' = [request EXCEPT ![r] = "running"]
        /\ batch' = [batch EXCEPT ![r] = p.messages]
        /\ at' = [at EXCEPT ![r] = 1]
        /\ step' = [step EXCEPT ![r] = "findConversation"]
        /\ UNCHANGED <<status, inbox, missed>>
    BY <1>3 DEF Accept, dbVars, convVars
  <2>3. <<r, 1>> \in Handling
    BY MaxBatchAssumption DEF Handling, Position
  <2>4. status[<<r, 1>>] = "absent" /\ inbox[<<r, 1>>] = None /\ <<r, 1>> \notin missed
    BY <2>1, <2>3, <1>2
  <2>5. Current(r)' = <<r, 1>> /\ request'[r] = "running"
    BY <2>2 DEF Current, IInv, TypeOK
  <2>6. \A q \in Request \ {r} : /\ request'[q] = request[q] /\ batch'[q] = batch[q]
                               /\ step'[q] = step[q] /\ Current(q)' = Current(q)
    BY <2>2 DEF Current, IInv, TypeOK
  <2> QED
    BY <2>2, <2>4, <2>5, <2>6 DEF FreshTask
<1>4. ASSUME NEW r \in Request, NEW p \in Payload, Refuse(r, p) PROVE FreshTask'
  <2>1. /\ UNCHANGED <<batch, at, step, status, inbox, missed>> /\ request[r] = "new"
        /\ request' = [request EXCEPT ![r] = "refused"]
    BY <1>4 DEF Refuse, dbVars, convVars
  <2> QED
    BY <2>1 DEF FreshTask, Current, IInv, TypeOK
<1>5. ASSUME NEW r \in Request, Task(r) PROVE FreshTask'
  <2>1. /\ Current(r) \in Handling /\ Current(r)[1] = r /\ Current(r)[2] = at[r]
        /\ request[r] = "running" /\ step[r] # "idle"
    <3>1. step[r] # "idle"
      BY <1>5 DEF Task, FindConversation, CreateConversation, AddMessage, FindLead, CreateLead,
                  PublishJob, Abort, MayRaise
    <3> QED
      BY <3>1, CurrentKnown DEF IInv
  <2>2. \A q \in Request \ {r} : Current(q) # Current(r)
    BY CurrentDistinct
  <2>3. ASSUME EndTask(r)
        PROVE  /\ UNCHANGED batch
               /\ \A q \in Request \ {r} : /\ request'[q] = request[q]
                                          /\ Current(q)' = Current(q)
               /\ request'[r] \in {"running", "done"}
               /\ \/ step' = [step EXCEPT ![r] = "idle"]
                  \/ /\ step' = [step EXCEPT ![r] = "findConversation"]
                     /\ Current(r)' = <<r, at[r] + 1>> /\ <<r, at[r] + 1>> \in Handling
    <3>1. CASE at[r] < Len(batch[r])
      <4>1. at[r] + 1 \in Position
        BY <2>1, <3>1, MaxBatchAssumption DEF IInv, TypeOK, RequestShape, Position
      <4>2. <<r, at[r] + 1>> \in Handling
        BY <4>1 DEF Handling
      <4> QED
        BY <2>1, <2>3, <3>1, <4>2 DEF EndTask, Goto, Current, IInv, TypeOK
    <3>2. CASE ~(at[r] < Len(batch[r]))
      BY <2>3, <3>2 DEF EndTask, Goto, Current, IInv, TypeOK
    <3> QED
      BY <3>1, <3>2
  <2>4. ASSUME PublishJob(r) PROVE FreshTask'
    <3>1. /\ UNCHANGED <<status, inbox>> /\ EndTask(r)
          /\ missed' = missed \/ missed' = missed \union {Current(r)}
      BY <2>4 DEF PublishJob, dbVars, convVars
    <3>2. \A q \in Request \ {r} : step'[q] = step[q]
      BY <2>3, <3>1 DEF IInv, TypeOK
    <3>3. step'[r] # "idle" =>
            /\ Current(r)' = <<r, at[r] + 1>> /\ <<r, at[r] + 1>> \in Handling
            /\ Current(r)' # Current(r)
      BY <2>1, <2>3, <3>1 DEF IInv, TypeOK
    <3>4. step'[r] # "idle" =>
            LET h == <<r, at[r] + 1>>
            IN  status[h] = "absent" /\ inbox[h] = None /\ h \notin missed
      BY <1>2, <3>3 DEF IInv, TypeOK
    <3> QED
      BY <2>1, <2>2, <2>3, <3>1, <3>2, <3>3, <3>4 DEF FreshTask
  <2>5. ASSUME FindConversation(r) PROVE FreshTask'
    <3>1. UNCHANGED <<request, batch, at, status, inbox, missed>> /\ step[r] = "findConversation"
      BY <2>5 DEF FindConversation, dbVars, convVars
    <3>2. \E s \in {"createConversation", "addMessage"} : step' = [step EXCEPT ![r] = s]
      BY <2>5 DEF FindConversation, Goto
    <3> QED
      BY <3>1, <3>2 DEF FreshTask, Current, IInv, TypeOK
  <2>6. ASSUME CreateConversation(r) PROVE FreshTask'
    <3>1. /\ UNCHANGED <<request, batch, at, inbox, missed>> /\ step[r] = "createConversation"
          /\ status' = [status EXCEPT ![Current(r)] = "active"]
          /\ step' = [step EXCEPT ![r] = "addMessage"]
      BY <2>6 DEF CreateConversation, Goto
    <3>2. \A q \in Request : Current(q)' = Current(q)
      BY <3>1 DEF Current
    <3>3. \A q \in Request \ {r} :
            step'[q] = step[q] /\ (step[q] # "idle" => status'[Current(q)] = status[Current(q)])
      BY <1>1, <2>1, <2>2, <3>1 DEF IInv, TypeOK
    <3>4. step'[r] = "addMessage"
      BY <3>1 DEF IInv, TypeOK
    <3> QED
      BY <3>1, <3>2, <3>3, <3>4 DEF FreshTask
  <2>7. ASSUME AddMessage(r) PROVE FreshTask'
    <3>1. /\ UNCHANGED <<request, batch, at, status, missed>> /\ step[r] = "addMessage"
          /\ inbox' = [inbox EXCEPT ![Current(r)] = conversation[r].id]
          /\ step' = [step EXCEPT ![r] = "findLead"]
      BY <2>7 DEF AddMessage, Goto, convVars, IInv, EscalatedNeverSeen
    <3>2. \A q \in Request : Current(q)' = Current(q)
      BY <3>1 DEF Current
    <3>3. \A q \in Request \ {r} :
            step'[q] = step[q] /\ (step[q] # "idle" => inbox'[Current(q)] = inbox[Current(q)])
      BY <1>1, <2>1, <2>2, <3>1 DEF IInv, TypeOK
    <3>4. step'[r] = "findLead"
      BY <3>1 DEF IInv, TypeOK
    <3> QED
      BY <3>1, <3>2, <3>3, <3>4 DEF FreshTask
  <2>8. ASSUME FindLead(r) \/ CreateLead(r) PROVE FreshTask'
    <3>1. /\ UNCHANGED <<request, batch, at, status, inbox, missed>>
          /\ step[r] \in {"findLead", "createLead"}
          /\ \E s \in {"createLead", "publish"} : step' = [step EXCEPT ![r] = s]
      BY <2>8 DEF FindLead, CreateLead, Goto, dbVars, convVars
    <3> QED
      BY <3>1 DEF FreshTask, Current, IInv, TypeOK
  <2>9. ASSUME Abort(r) PROVE FreshTask'
    <3>1. /\ UNCHANGED <<batch, at, status, inbox, missed>>
          /\ request' = [request EXCEPT ![r] = "aborted"]
          /\ step' = [step EXCEPT ![r] = "idle"]
      BY <2>9 DEF Abort, Goto, dbVars, convVars
    <3> QED
      BY <3>1 DEF FreshTask, Current, IInv, TypeOK
  <2> QED
    BY <1>5, <2>4, <2>5, <2>6, <2>7, <2>8, <2>9 DEF Task
<1>6. ASSUME NEW h \in Handling, HandleMessage(h) PROVE FreshTask'
  BY <1>1, <1>6, FreshTaskFrame DEF HandleMessage, taskVars, dbVars, convVars
<1>7. ASSUME NEW d \in Delivery, Work(d) PROVE FreshTask'
  <2>1. UNCHANGED <<request, batch, at, step, inbox, missed>>
    BY <1>7 DEF Work, Escalate, Respond, UpdateLeadScore, LookUpConversation, SendAnswer,
                PersistAnswer, AckJob, RejectJob, taskVars, dbVars
  <2>2. \A c \in Handling : status'[c] = "absent" <=> status[c] = "absent"
    BY <1>7, WorkKeepsRows
  <2> QED
    BY <1>1, <2>1, <2>2, FreshTaskFrame
<1>8. ASSUME NEW c \in Handling, (\E a \in Agent : Takeover(c, a)) \/ Release(c)
      PROVE  FreshTask'
  <2>1. UNCHANGED <<request, batch, at, step, inbox, missed>>
    BY <1>8 DEF Takeover, Release, taskVars
  <2>2. \A d \in Handling : status'[d] = "absent" <=> status[d] = "absent"
    BY <1>8 DEF Takeover, Release, IInv, TypeOK
  <2> QED
    BY <1>1, <2>1, <2>2, FreshTaskFrame
<1>9. CASE Replicate \/ StartConsumer \/ ConnectionLost \/ UNCHANGED vars
  BY <1>1, <1>9, FreshTaskFrame DEF Replicate, StartConsumer, ConnectionLost, vars, taskVars,
     dbVars, convVars
<1>10. CASE Crash
  <2>1. /\ UNCHANGED <<batch>> /\ \A q \in Request : step'[q] = "idle"
        /\ \A q \in Request : request'[q] \in {"new", "refused"} => request'[q] = request[q]
    BY <1>10 DEF Crash
  <2> QED
    BY <2>1 DEF FreshTask
<1> QED
  BY <1>3, <1>4, <1>5, <1>6, <1>7, <1>8, <1>9, <1>10 DEF Next

(* A delivery that has not come to its send was not sent, and one that has  *)
(* not come to its record is not on record.                                 *)
LEMMA AnswersNewNext ==
  ASSUME IInv, AnswerInv, SendersNew, PersistersNew, [Next]_vars
  PROVE  SendersNew' /\ PersistersNew'
<1> DEFINE Early == {"respond", "score", "lookup", "send"}
<1>1. phase \in [Delivery -> Phase] /\ tries \in [Handling -> Nat]
  BY DEF IInv, TypeOK, Queue!TypeOK
<1>2. CASE UNCHANGED <<phase, sent, replies>>
  BY <1>2 DEF SendersNew, PersistersNew
<1>3. ASSUME NEW h \in Handling, HandleMessage(h) PROVE SendersNew' /\ PersistersNew'
  <2> DEFINE e == <<h, tries[h] + 1>>
  <2>1. /\ UNCHANGED <<sent, replies>>
        /\ \E p \in {"escalate", "respond"} : phase' = [phase EXCEPT ![e] = p]
    BY <1>3 DEF HandleMessage, SetPhase, dbVars
  <2>2. e \in Delivery => phase[e] = "idle"
    BY <1>1 DEF AnswerInv, DeliveriesCounted
  <2>3. e \in Delivery => e \notin replies /\ \A answer \in sent : answer[1] # e
    BY <2>2 DEF AnswerInv, AnswersStarted, PersistersSent
  <2>4. \A d \in Delivery : d = e \/ phase'[d] = phase[d]
    BY <1>1, <2>1
  <2>5. SendersNew'
    BY <2>1, <2>3, <2>4 DEF SendersNew
  <2>6. PersistersNew'
    BY <2>1, <2>3, <2>4 DEF PersistersNew
  <2> QED
    BY <2>5, <2>6
<1>4. ASSUME NEW d \in Delivery, Work(d) PROVE SendersNew' /\ PersistersNew'
  <2>1. CASE SendAnswer(d)
    <3>1. /\ phase[d] = "send" /\ phase' = [phase EXCEPT ![d] = "persist"]
          /\ replies' = replies
          /\ \A answer \in sent' : answer \in sent \/ answer[1] = d
      BY <2>1 DEF SendAnswer, SetPhase, dbVars
    <3> QED
      BY <1>1, <3>1 DEF SendersNew, PersistersNew
  <2>2. CASE PersistAnswer(d)
    <3>1. /\ phase' = [phase EXCEPT ![d] = "ack"] /\ sent' = sent
          /\ replies' = replies \union {d}
      BY <2>2 DEF PersistAnswer, SetPhase
    <3> QED
      BY <1>1, <3>1 DEF SendersNew, PersistersNew
  <2>3. CASE ~SendAnswer(d) /\ ~PersistAnswer(d)
    <3>1. sent' = sent /\ replies' = replies
      BY <1>4, <2>3 DEF Work, Escalate, Respond, UpdateLeadScore, LookUpConversation, AckJob,
                        RejectJob, dbVars
    <3>2. PICK p \in Phase \ {"persist"} : /\ phase' = [phase EXCEPT ![d] = p]
                                           /\ p \in Early => phase[d] \in Early
      BY <1>4, <2>3 DEF Work, Escalate, Respond, UpdateLeadScore, LookUpConversation, AckJob,
                        RejectJob, SetPhase, Phase
    <3>3. /\ \A e \in Delivery \ {d} : phase'[e] = phase[e]
          /\ phase'[d] # "persist" /\ (phase'[d] \in Early => phase[d] \in Early)
      BY <1>1, <3>2
    <3>4. SendersNew'
      BY <3>1, <3>3 DEF SendersNew
    <3>5. PersistersNew'
      BY <3>1, <3>3 DEF PersistersNew
    <3> QED
      BY <3>4, <3>5
  <2> QED
    BY <2>1, <2>2, <2>3
<1>5. CASE Crash
  <2>1. /\ UNCHANGED <<sent, replies>>
        /\ \A d \in Delivery : phase'[d] \in {"idle", "over"}
    BY <1>5 DEF Crash, dbVars
  <2> QED
    BY <2>1 DEF SendersNew, PersistersNew
<1>6. ASSUME NEW r \in Request,
             Task(r) \/ \E p \in Payload : Accept(r, p) \/ Refuse(r, p)
      PROVE  UNCHANGED <<phase, sent, replies>>
  BY <1>6 DEF Task, Accept, Refuse, FindConversation, CreateConversation, AddMessage,
     FindLead, CreateLead, PublishJob, Abort, dbVars, workVars
<1>7. ASSUME NEW c \in Handling, (\E a \in Agent : Takeover(c, a)) \/ Release(c)
      PROVE  UNCHANGED <<phase, sent, replies>>
  BY <1>7 DEF Takeover, Release, workVars
<1>8. CASE Replicate \/ StartConsumer \/ ConnectionLost \/ UNCHANGED vars
  BY <1>2, <1>8 DEF Replicate, StartConsumer, ConnectionLost, vars, dbVars, workVars
<1> QED
  BY <1>2, <1>3, <1>4, <1>5, <1>6, <1>7, <1>8 DEF Next

(* So calls that write find nothing of theirs written, in every state.       *)
LEMMA FreshInvariance == Spec => []FreshInv
<1>1. Init => FreshInv
  BY DEF Init, FreshInv, FreshTask, SendersNew, PersistersNew
<1>2. IInv /\ AnswerInv /\ FreshInv /\ [Next]_vars => FreshInv'
  BY FreshTaskNext, AnswersNewNext DEF FreshInv
<1> QED
  BY <1>1, <1>2, Invariance, AnswerInvariance, PTL DEF Spec

-----------------------------------------------------------------------------
(* A task gets hold of an existing conversation only by a look-up, which    *)
(* returns active rows.                                                     *)
LEMMA HoldersShrink ==
  ASSUME IInv, FreshInv, NEW r \in Request, Task(r), NEW c \in Handling,
         status[c] = "escalated", ReadStatus[c] # "active",
         NEW h \in Handling, Holds(h, c)'
  PROVE  Holds(h, c)
<1>1. h[1] \in Request
  BY DEF Handling
<1>2. CASE h[1] # r
  <2>1. /\ at'[h[1]] = at[h[1]] /\ step'[h[1]] = step[h[1]]
        /\ conversation'[h[1]] = conversation[h[1]]
    BY <1>1, <1>2 DEF Task, FindConversation, CreateConversation, AddMessage, FindLead,
       CreateLead, PublishJob, EndTask, Abort, Goto, IInv, TypeOK
  <2> QED
    BY <2>1 DEF Holds, Current
<1>3. CASE h[1] = r
  <2>1. CASE FindConversation(r)
    <3>1. \/ step'[r] = "createConversation"
          \/ \E d \in Handling : ReadStatus[d] = "active" /\ conversation'[r].id = d
      BY <2>1 DEF FindConversation, ActiveConversations, Goto, IInv, TypeOK
    <3> QED
      BY <1>3, <3>1 DEF Holds
  <2>2. CASE CreateConversation(r)
    <3>1. conversation'[r].id = Current(r) /\ status[Current(r)] = "absent"
      BY <2>2 DEF CreateConversation, FreshInv, FreshTask, IInv, TypeOK
    <3> QED
      BY <1>3, <3>1 DEF Holds
  <2>3. CASE AddMessage(r) \/ FindLead(r) \/ CreateLead(r)
    <3>1. step[r] \in {"addMessage", "findLead", "createLead"}
          /\ UNCHANGED <<at, conversation>>
      BY <2>3 DEF AddMessage, FindLead, CreateLead, IInv, EscalatedNeverSeen
    <3> QED
      BY <1>3, <3>1 DEF Holds, Current
  <2>4. CASE PublishJob(r) \/ Abort(r)
    <3>1. step'[r] \in {"idle", "findConversation"}
      BY <2>4 DEF PublishJob, EndTask, Abort, Goto, IInv, TypeOK
    <3> QED
      BY <1>3, <3>1 DEF Holds
  <2> QED
    BY <2>1, <2>2, <2>3, <2>4 DEF Task
<1> QED
  BY <1>2, <1>3

(* A job of the conversation is queued by a task that holds it, and is not  *)
(* open again once it is settled and its callbacks are over.                *)
LEMMA JobsShrink ==
  ASSUME IInv, Next, NEW c \in Handling, NEW h \in Handling, HasJob(h, c)'
  PROVE  Holds(h, c) \/ HasJob(h, c)
<1> DEFINE Open(n) == phase[<<h, n>>] \notin {"idle", "over"}
<1>1. ASSUME UNCHANGED payload,
             job'[h] \in {"acked", "dropped"} \/ job'[h] = job[h]
               \/ job[h] \notin {"acked", "dropped"},
             \A n \in Attempt : Open(n)' => Open(n) \/ job[h] \notin {"acked", "dropped"}
      PROVE  HasJob(h, c)
  BY <1>1 DEF HasJob
<1>2. ASSUME NEW r \in Request, PublishJob(r) PROVE Holds(h, c) \/ HasJob(h, c)
  <2>1. step[r] = "publish" /\ UNCHANGED phase
    BY <1>2 DEF PublishJob, workVars
  <2>2. Current(r) \in Handling /\ Current(r)[1] = r
    BY <2>1, CurrentKnown DEF IInv
  <2>3. CASE UNCHANGED <<payload, job>>
    BY <2>1, <2>3 DEF HasJob
  <2>4. CASE ~UNCHANGED <<payload, job>>
    <3>1. /\ job' = [job EXCEPT ![Current(r)] = "ready"]
          /\ payload' = [payload EXCEPT ![Current(r)] =
                           [conversation |-> conversation[r].id, lead |-> lead[r]]]
      BY <1>2, <2>4 DEF PublishJob, Queue!Publish, queueVars
    <3>2. CASE h = Current(r)
      <4>1. conversation[r].id = c
        BY <2>2, <3>1, <3>2 DEF HasJob, IInv, TypeOK
      <4> QED
        BY <2>1, <2>2, <3>2, <4>1 DEF Holds, IInv, EscalatedNeverSeen
    <3>3. CASE h # Current(r)
      BY <2>1, <2>2, <3>1, <3>3 DEF HasJob, IInv, TypeOK, Queue!TypeOK
    <3> QED
      BY <3>2, <3>3
  <2> QED
    BY <2>3, <2>4
<1>3. ASSUME NEW r \in Request,
             \/ FindConversation(r) \/ CreateConversation(r) \/ AddMessage(r) \/ FindLead(r)
             \/ CreateLead(r) \/ Abort(r)
             \/ \E p \in Payload : Accept(r, p) \/ Refuse(r, p)
      PROVE  HasJob(h, c)
  <2>1. UNCHANGED <<payload, job, phase>>
    BY <1>3 DEF FindConversation, CreateConversation, AddMessage, FindLead, CreateLead, Abort,
                Accept, Refuse, workVars, queueVars
  <2> QED
    BY <2>1 DEF HasJob
<1>4. ASSUME NEW k \in Handling, HandleMessage(k) PROVE HasJob(h, c)
  <2>1. /\ job[k] = "ready" /\ job' = [job EXCEPT ![k] = "delivered"]
        /\ \E p \in Phase : phase' = [phase EXCEPT ![<<k, tries[k] + 1>>] = p]
        /\ UNCHANGED payload
    BY <1>4 DEF HandleMessage, Queue!Deliver, SetPhase, Phase
  <2>2. CASE h = k
    BY <1>1, <2>1, <2>2
  <2>3. CASE h # k
    <3>1. job'[h] = job[h] /\ \A n \in Attempt : phase'[<<h, n>>] = phase[<<h, n>>]
      BY <2>1, <2>3 DEF IInv, TypeOK, Queue!TypeOK, Delivery
    <3> QED
      BY <1>1, <2>1, <3>1
  <2> QED
    BY <2>2, <2>3
<1>5. ASSUME NEW d \in Delivery, Work(d) PROVE HasJob(h, c)
  <2>1. UNCHANGED payload
    BY <1>5 DEF Work, Escalate, Respond, UpdateLeadScore, LookUpConversation, SendAnswer,
                PersistAnswer, AckJob, RejectJob
  <2>2. CASE AckJob(d) \/ RejectJob(d)
    <3>1. phase' = [phase EXCEPT ![d] = "over"]
      BY <2>2 DEF AckJob, RejectJob, SetPhase
    <3>2. job' = job \/ \E o \in {"acked", "dropped"} : job' = [job EXCEPT ![d[1]] = o]
      BY <2>2 DEF AckJob, RejectJob, Queue!Ack, Queue!Reject, Queue!Settle
    <3>3. job'[h] \in {"acked", "dropped"} \/ job'[h] = job[h]
      BY <3>2 DEF IInv, TypeOK, Queue!TypeOK
    <3>4. \A n \in Attempt : Open(n)' => Open(n)
      BY <3>1 DEF IInv, TypeOK, Delivery
    <3> QED
      BY <1>1, <2>1, <3>3, <3>4
  <2>3. CASE ~(AckJob(d) \/ RejectJob(d))
    <3>1. UNCHANGED job /\ phase[d] \notin {"idle", "over"}
      BY <1>5, <2>3 DEF Work, Escalate, Respond, UpdateLeadScore, LookUpConversation,
                        SendAnswer, PersistAnswer, queueVars
    <3>2. \E p \in Phase : phase' = [phase EXCEPT ![d] = p]
      BY <1>5, <2>3 DEF Work, Escalate, Respond, UpdateLeadScore, LookUpConversation,
                        SendAnswer, PersistAnswer, SetPhase, Phase
    <3>3. \A n \in Attempt : Open(n)' => Open(n)
      BY <3>1, <3>2 DEF IInv, TypeOK, Delivery
    <3> QED
      BY <1>1, <2>1, <3>1, <3>3
  <2> QED
    BY <2>2, <2>3
<1>6. CASE \/ \E k \in Handling : (\E a \in Agent : Takeover(k, a)) \/ Release(k)
           \/ Replicate \/ StartConsumer
  <2>1. UNCHANGED <<payload, job, phase>>
    BY <1>6 DEF Takeover, Release, Replicate, StartConsumer, Queue!DeclareQueue, workVars,
                queueVars
  <2> QED
    BY <2>1 DEF HasJob
<1>7. CASE ConnectionLost \/ Crash
  <2>1. /\ UNCHANGED payload
        /\ job' = [k \in Handling |-> IF job[k] = "delivered" THEN "ready" ELSE job[k]]
        /\ \/ UNCHANGED phase
           \/ phase' = [d \in Delivery |-> IF phase[d] = "idle" THEN "idle" ELSE "over"]
    BY <1>7 DEF ConnectionLost, Crash, Queue!ConnectionLost, Queue!Crash, Queue!Requeued,
                workVars
  <2>2. job'[h] = job[h] \/ job[h] \notin {"acked", "dropped"}
    BY <2>1
  <2>3. \A n \in Attempt : Open(n)' => Open(n)
    BY <2>1 DEF IInv, TypeOK, Delivery
  <2> QED
    BY <1>1, <2>1, <2>2, <2>3
<1> QED
  BY <1>2, <1>3, <1>4, <1>5, <1>6, <1>7 DEF Next, Task

(* Nobody but a task of its own takes hold of a conversation.               *)
LEMMA HoldersKept ==
  ASSUME IInv, Next, \A r \in Request : ~Task(r), NEW c, NEW h \in Handling, Holds(h, c)'
  PROVE  Holds(h, c)
<1>1. h[1] \in Request
  BY DEF Handling
<1>2. ASSUME NEW r \in Request, NEW p \in Payload, Accept(r, p) \/ Refuse(r, p)
      PROVE  Holds(h, c)
  <2>1. h[1] = r => ~Accept(r, p)
    BY <1>2 DEF Accept, Holds, IInv, TypeOK
  <2>2. /\ at'[h[1]] = at[h[1]] /\ step'[h[1]] = step[h[1]]
        /\ conversation'[h[1]] = conversation[h[1]]
    BY <1>1, <1>2, <2>1 DEF Accept, Refuse, IInv, TypeOK
  <2> QED
    BY <2>2 DEF Holds, Current
<1>3. CASE Crash
  BY <1>1, <1>3 DEF Crash, Holds
<1>4. CASE UNCHANGED <<at, step, conversation>>
  BY <1>4 DEF Holds, Current
<1>5. ASSUME NEW k \in Handling,
             HandleMessage(k) \/ (\E a \in Agent : Takeover(k, a)) \/ Release(k)
      PROVE  UNCHANGED <<at, step, conversation>>
  BY <1>5 DEF HandleMessage, Takeover, Release, taskVars
<1>6. ASSUME NEW d \in Delivery, Work(d)
      PROVE  UNCHANGED <<at, step, conversation>>
  BY <1>6 DEF Work, Escalate, Respond, UpdateLeadScore, LookUpConversation, SendAnswer,
              PersistAnswer, AckJob, RejectJob, taskVars
<1>7. CASE Replicate \/ StartConsumer \/ ConnectionLost
  BY <1>4, <1>7 DEF Replicate, StartConsumer, ConnectionLost, taskVars
<1> QED
  BY <1>2, <1>3, <1>4, <1>5, <1>6, <1>7 DEF Next

(* A takeover is missed by the work in flight and by nothing else, for any  *)
(* number of requests, agents and faults, with or without a replica.        *)
THEOREM TakeoverIsKept == Spec => TakeoverHolds
<1>1. ASSUME IInv, FreshInv, [Next]_vars
      PROVE  [\A c \in Handling :
                status[c] = "escalated" /\ ReadStatus[c] # "active" =>
                  Release(c) \/ OpenWork(c)' \subseteq OpenWork(c)]_vars
  <2>1. ASSUME Next, NEW c \in Handling, status[c] = "escalated", ReadStatus[c] # "active"
        PROVE  OpenWork(c)' \subseteq OpenWork(c)
    <3> SUFFICES ASSUME NEW h \in Handling, Holds(h, c)' \/ HasJob(h, c)'
                 PROVE  Holds(h, c) \/ HasJob(h, c)
      BY DEF OpenWork
    <3>1. Holds(h, c)' => Holds(h, c)
      BY <1>1, <2>1, HoldersShrink, HoldersKept
    <3>2. HasJob(h, c)' => Holds(h, c) \/ HasJob(h, c)
      BY <1>1, <2>1, JobsShrink
    <3> QED
      BY <3>1, <3>2
  <2> QED
    BY <1>1, <2>1
<1> QED
  BY <1>1, Invariance, FreshInvariance, PTL DEF Spec, TakeoverHolds

-----------------------------------------------------------------------------
(* The refinement of Dialogue.                                              *)

(* At first nothing is promised yet.                                         *)
LEMMA PromiseInit == Init => Promise!Init
<1> SUFFICES ASSUME Init PROVE Promise!Init
  OBVIOUS
<1>1. Extracted = {}
  BY MaxBatchAssumption DEF Init, Extracted, Handling, Position
<1>2. [h \in Extracted |-> Phone(h)] = [m \in {} |-> None]
  BY <1>1
<1>3. {h \in Handling : payload[h] # None} = {}
  BY DEF Init
<1> QED
  BY <1>2, <1>3 DEF Init, Queue!Init, Promise!Init, Promise!Incoming, Promise!Position, Handling,
     Position

(* While the batches stay, nothing is received.                             *)
LEMMA ReceivedFrame ==
  ASSUME batch' = batch
  PROVE  [h \in Extracted |-> Phone(h)]' = [h \in Extracted |-> Phone(h)]
BY DEF Extracted, Phone, MessageOf

(* A row or a task that was reached is about a message that was received.   *)
LEMMA ReachedExtracted ==
  ASSUME IInv, NEW h \in Handling, h[2] <= at[h[1]]
  PROVE  h \in Extracted
<1>1. h[1] \in Request /\ h[2] \in Nat \ {0}
  BY MaxBatchAssumption DEF Handling, Position
<1>2. at[h[1]] \in 1 .. Len(batch[h[1]]) /\ Len(batch[h[1]]) \in Nat
  BY <1>1 DEF IInv, TypeOK, RequestShape
<1> QED
  BY <1>1, <1>2 DEF Extracted

(* The steps of a request and its tasks.                                    *)
LEMMA RequestKeepsPromise ==
  ASSUME IInv, FreshInv, NEW r \in Request,
         Task(r) \/ \E p \in Payload : Accept(r, p) \/ Refuse(r, p)
  PROVE  [Promise!Next]_(Promise!vars)
<1> USE DEF Promise!Incoming, Promise!Position, Handling, Position
<1>1. Promise!Incoming = Handling
  OBVIOUS
<1>2. UNCHANGED <<sent, replies, faults>>
  BY DEF Task, Accept, Refuse, FindConversation, CreateConversation, AddMessage, FindLead,
     CreateLead, PublishJob, Abort, Queue!Publish, dbVars, workVars, queueVars
<1>3. ASSUME NEW p \in Payload, Accept(r, p) PROVE Promise!Receive(r)
  <2>1. /\ batch' = [batch EXCEPT ![r] = p.messages] /\ request[r] = "new"
        /\ UNCHANGED <<inbox, status, payload, missed>>
    BY <1>3 DEF Accept, dbVars, convVars
  <2>2. batch[r] = <<>>
    BY <2>1 DEF FreshInv, FreshTask
  <2>3. /\ Len(p.messages) \in Position /\ p.messages \in Seq(Message)
    BY PayloadAssumption
  <2>4. \A h \in Extracted : h[1] # r
    BY <2>2 DEF Extracted
  <2> DEFINE n == Len(p.messages)
             sender == [i \in 1 .. n |-> Sender[p.messages[i]]]
  <2>5. sender \in [1 .. n -> Customer]
    BY <2>3, SenderAssumption
  <2>6. \A h \in Handling :
          batch'[h[1]] = IF h[1] = r THEN p.messages ELSE batch[h[1]]
    BY <2>1 DEF IInv, TypeOK
  <2>7. Extracted' = Extracted \union ({r} \X (1 .. n))
    <3>1. \A h \in Handling : h \in Extracted' <=> h \in Extracted \/ h \in {r} \X (1 .. n)
      BY <2>2, <2>3, <2>6, MaxBatchAssumption DEF Extracted
    <3>2. {r} \X (1 .. n) \subseteq Handling
      <4>1. 1 .. n \subseteq Position
        BY <2>3, MaxBatchAssumption
      <4> QED
        BY <4>1
    <3>3. Extracted \subseteq Handling /\ Extracted' \subseteq Handling
      BY DEF Extracted
    <3> QED
      BY <3>1, <3>2, <3>3
  <2>8. \A h \in Extracted' : Phone(h)' = IF h[1] = r THEN sender[h[2]] ELSE Phone(h)
    <3> SUFFICES ASSUME NEW h \in Extracted'
                 PROVE  Phone(h)' = IF h[1] = r THEN sender[h[2]] ELSE Phone(h)
      OBVIOUS
    <3>1. h \in Handling /\ h \in Extracted \union ({r} \X (1 .. n))
      BY <2>7 DEF Extracted
    <3>2. CASE h[1] = r
      <4>1. h[2] \in 1 .. n
        BY <2>4, <3>1, <3>2
      <4> QED
        BY <2>6, <3>1, <3>2, <4>1 DEF Phone, MessageOf
    <3>3. CASE h[1] # r
      BY <2>6, <3>1, <3>3 DEF Phone, MessageOf
    <3> QED
      BY <3>2, <3>3
  <2>9. [h \in Extracted |-> Phone(h)]' =
          [m \in Extracted \union ({r} \X (1 .. n)) |->
             IF m[1] = r THEN sender[m[2]] ELSE [h \in Extracted |-> Phone(h)][m]]
    <3> DEFINE F == [h \in Extracted |-> Phone(h)]
               G == [m \in Extracted \union ({r} \X (1 .. n)) |->
                       IF m[1] = r THEN sender[m[2]] ELSE F[m]]
    <3>1. F' = [h \in Extracted' |-> Phone(h)']
      OBVIOUS
    <3>2. \A m \in Extracted' : Phone(m)' = IF m[1] = r THEN sender[m[2]] ELSE F[m]
      BY <2>7, <2>8
    <3> QED
      BY <2>7, <3>1, <3>2
  <2> QED
    BY <1>2, <2>1, <2>3, <2>4, <2>5, <2>9 DEF Promise!Receive
<1>4. ASSUME Task(r)
      PROVE  /\ batch' = batch /\ Current(r) \in Handling /\ Current(r) \in Extracted
             /\ Current(r)[1] = r /\ Current(r)[2] = at[r] /\ step[r] # "idle"
             /\ [h \in Extracted |-> Phone(h)]' = [h \in Extracted |-> Phone(h)]
  <2>1. step[r] # "idle" /\ batch' = batch
    BY <1>4 DEF Task, FindConversation, CreateConversation, AddMessage, FindLead, CreateLead,
                PublishJob, EndTask, Abort, MayRaise
  <2>2. Current(r) \in Handling /\ Current(r)[1] = r /\ Current(r)[2] = at[r]
    BY <2>1, CurrentKnown DEF IInv
  <2>3. Current(r)[2] <= at[Current(r)[1]]
    BY <2>2 DEF IInv, TypeOK
  <2> QED
    BY <2>1, <2>2, <2>3, ReachedExtracted, ReceivedFrame
<1>5. CASE \/ FindConversation(r) \/ FindLead(r) \/ CreateLead(r) \/ Abort(r)
           \/ \E p \in Payload : Refuse(r, p)
  <2>1. UNCHANGED <<batch, inbox, status, payload, missed>>
    BY <1>5 DEF FindConversation, FindLead, CreateLead, Abort, Refuse, dbVars, convVars
  <2>2. [h \in Extracted |-> Phone(h)]' = [h \in Extracted |-> Phone(h)]
    BY <2>1, ReceivedFrame
  <2> QED
    BY <1>2, <2>1, <2>2 DEF Promise!vars
<1>6. ASSUME CreateConversation(r) PROVE Promise!Open(Current(r))
  <2>1. /\ status' = [status EXCEPT ![Current(r)] = "active"]
        /\ UNCHANGED <<inbox, payload, missed>> /\ step[r] = "createConversation"
    BY <1>6 DEF CreateConversation
  <2>2. status[Current(r)] = "absent"
    BY <2>1 DEF FreshInv, FreshTask
  <2> QED
    BY <1>2, <1>4, <1>6, <2>1, <2>2 DEF Task, Promise!Open
<1>7. ASSUME AddMessage(r)
      PROVE  /\ conversation[r].id \in Handling
             /\ Promise!Store(Current(r), conversation[r].id)
  <2> DEFINE c == conversation[r].id
  <2>1. /\ inbox' = [inbox EXCEPT ![Current(r)] = c]
        /\ UNCHANGED <<status, payload, missed>> /\ step[r] = "addMessage"
    BY <1>7 DEF AddMessage, convVars
  <2>2. inbox[Current(r)] = None
    BY <2>1 DEF FreshInv, FreshTask
  <2>3. c \in Handling /\ status[c] # "absent" /\ Phone(c) = Phone(Current(r))
    BY <2>1 DEF IInv, ConversationHeld
  <2>4. c \in Extracted
    BY <2>3, ReachedExtracted DEF IInv, RowsReached
  <2>5. \A k \in Handling : k[1] = r /\ k[2] < at[r] => payload[k] # None \/ k \in missed
    <3> SUFFICES ASSUME NEW k \in Handling, k[1] = r, k[2] < at[r]
                 PROVE  payload[k] # None \/ k \in missed
      OBVIOUS
    <3>1. k[2] <= at[r] - 1
      BY DEF IInv, TypeOK
    <3>2. request[r] = "running"
      BY <2>1, CurrentKnown DEF IInv
    <3>3. k[2] <= Reached(k[1])
      BY <3>1, <3>2 DEF Reached
    <3> QED
      BY <3>3 DEF IInv, RequestsProcessedInOrder, Handled, JobsKnown
  <2>6. Promise!Before(Current(r)) \subseteq {h \in Handling : payload[h] # None} \union missed
    BY <1>4, <1>7, <2>5 DEF Task, Promise!Before
  <2>7. [h \in Extracted |-> Phone(h)][c] = [h \in Extracted |-> Phone(h)][Current(r)]
    BY <1>4, <1>7, <2>3, <2>4 DEF Task
  <2> QED
    BY <1>2, <1>4, <1>7, <2>1, <2>2, <2>3, <2>4, <2>6, <2>7 DEF Task, Promise!Store
<1>8. ASSUME PublishJob(r)
      PROVE  \E m \in Handling : Promise!Enqueue(m)
  <2> DEFINE q == {h \in Handling : payload[h] # None}
             body == [conversation |-> conversation[r].id, lead |-> lead[r]]
  <2>7. PICK m \in Handling : m = Current(r)
    BY <1>4, <1>8 DEF Task
  <2>1. /\ UNCHANGED <<status, inbox>> /\ step[r] = "publish"
        /\ \/ payload' = [payload EXCEPT ![Current(r)] = body] /\ missed' = missed
           \/ missed' = missed \union {Current(r)} /\ payload' = payload
    BY <1>8 DEF PublishJob, dbVars, convVars
  <2>2. Current(r) \notin missed /\ payload[Current(r)] = None
    BY <2>1 DEF FreshInv, FreshTask, IInv, FreshRows
  <2>3. inbox[Current(r)] # None
    BY <2>1, NoneAssumption DEF IInv, MessageStored, ConversationHeld
  <2>4. body # None
    <3>1. body \in JobBody
      BY <2>1 DEF IInv, ConversationHeld, LeadHeld, JobBody
    <3> QED
      BY <3>1, NoneAssumption
  <2>5. CASE payload' = [payload EXCEPT ![Current(r)] = body] /\ missed' = missed
    <3>1. q' = q \union {Current(r)}
      BY <1>4, <1>8, <2>4, <2>5 DEF Task, IInv, TypeOK
    <3> QED
      BY <1>2, <1>4, <1>8, <2>1, <2>2, <2>3, <2>5, <2>7, <3>1 DEF Task, Promise!Enqueue
  <2>6. CASE missed' = missed \union {Current(r)} /\ payload' = payload
    <3>1. q' = q
      BY <2>6
    <3> QED
      BY <1>2, <1>4, <1>8, <2>1, <2>2, <2>3, <2>6, <2>7, <3>1 DEF Task, Promise!Enqueue
  <2> QED
    BY <2>1, <2>5, <2>6
<1>9. CASE CreateConversation(r) \/ AddMessage(r) \/ PublishJob(r)
  <2>1. Current(r) \in Promise!Incoming
    BY <1>1, <1>4, <1>9 DEF Task
  <2>2. CASE CreateConversation(r)
    BY <1>6, <2>1, <2>2 DEF Promise!Next
  <2>3. CASE AddMessage(r)
    BY <1>1, <1>7, <2>1, <2>3 DEF Promise!Next
  <2>4. CASE PublishJob(r)
    BY <1>1, <1>8, <2>4 DEF Promise!Next
  <2> QED
    BY <1>9, <2>2, <2>3, <2>4
<1>10. CASE \E p \in Payload : Accept(r, p)
  BY <1>3, <1>10 DEF Promise!Next
<1> QED
  BY <1>5, <1>9, <1>10 DEF Task

(* The steps of the worker on a delivery.                                   *)
LEMMA WorkKeepsPromise ==
  ASSUME IInv, AnswerInv, FreshInv, \A h \in Handling : tries[h] <= faults + 1,
         NEW d \in Delivery, Work(d)
  PROVE  [Promise!Next]_(Promise!vars)
<1> USE DEF Promise!Incoming, Promise!Position, Handling, Position
<1>1. /\ UNCHANGED <<batch, inbox, payload, missed, faults>>
      /\ [h \in Extracted |-> Phone(h)]' = [h \in Extracted |-> Phone(h)]
  <2>1. UNCHANGED <<batch, inbox, payload, missed, faults>>
    BY DEF Work, Escalate, Respond, UpdateLeadScore, LookUpConversation, SendAnswer,
           PersistAnswer, AckJob, RejectJob, Queue!Ack, Queue!Reject, Queue!Settle, taskVars,
           dbVars, queueVars
  <2> QED
    BY <2>1, ReceivedFrame
<1>2. d[1] \in Handling /\ d[2] \in 1 .. MaxFaults + 1 /\ d = <<d[1], d[2]>>
  BY DEF Delivery, Attempt
<1>3. CASE Escalate(d)
  <2>1. /\ payload[d[1]].conversation \in Handling
        /\ status[payload[d[1]].conversation] # "absent"
    BY <1>2, <1>3, JobConversation DEF Escalate, IInv, PhasesKnown
  <2>2. UNCHANGED <<sent, replies>>
    BY <1>3 DEF Escalate
  <2>3. Promise!Handover(payload[d[1]].conversation)
    BY <1>1, <1>3, <2>1, <2>2 DEF Escalate, Promise!Handover
  <2> QED
    BY <2>1, <2>3 DEF Promise!Next
<1>4. CASE SendAnswer(d)
  <2>1. /\ sent' = sent \union {<<d, Phone(payload[d[1]].conversation)>>} /\ phase[d] = "send"
        /\ UNCHANGED <<status, replies>>
    BY <1>4 DEF SendAnswer, dbVars, convVars
  <2>2. payload[d[1]] # None
    BY <2>1 DEF IInv, PhasesKnown
  <2>3. Phone(payload[d[1]].conversation) = Phone(d[1])
    BY <1>2, <2>2, JobConversation
  <2>4. d[1] \in Extracted
    BY <1>2, <2>2, ReachedExtracted DEF IInv, RowsReached
  <2>5. d[2] \in 1 .. faults + 1
    <3>1. d[2] <= tries[d[1]] /\ tries[d[1]] <= faults + 1
      BY <1>2, <2>1 DEF AnswerInv, DeliveriesCounted
    <3>2. tries[d[1]] \in Nat /\ faults \in Nat
      BY <1>2, QueueAssumption DEF IInv, TypeOK, Queue!TypeOK
    <3> QED
      BY <1>2, <3>1, <3>2, QueueAssumption
  <2>6. \A answer \in sent : answer[1] # d
    BY <2>1 DEF FreshInv, SendersNew
  <2>7. Promise!Send(d[1])
    BY <1>1, <1>2, <2>1, <2>2, <2>3, <2>4, <2>5, <2>6 DEF Promise!Send
  <2> QED
    BY <1>2, <2>7 DEF Promise!Next
<1>5. CASE PersistAnswer(d)
  <2>1. /\ replies' = replies \union {d} /\ phase[d] = "persist" /\ UNCHANGED <<status, sent>>
    BY <1>5 DEF PersistAnswer, convVars
  <2>2. PICK phone \in Customer : <<d, phone>> \in sent
    BY <2>1 DEF AnswerInv, PersistersSent
  <2>3. d \notin replies
    BY <2>1 DEF FreshInv, PersistersNew
  <2>4. Promise!Record
    BY <1>1, <2>1, <2>2, <2>3 DEF Promise!Record
  <2> QED
    BY <2>4 DEF Promise!Next
<1>6. CASE ~Escalate(d) /\ ~SendAnswer(d) /\ ~PersistAnswer(d)
  <2>1. UNCHANGED <<status, sent, replies>>
    BY <1>6 DEF Work, Respond, UpdateLeadScore, LookUpConversation, AckJob, RejectJob, dbVars,
                convVars
  <2> QED
    BY <1>1, <2>1 DEF Promise!vars
<1> QED
  BY <1>3, <1>4, <1>5, <1>6

(* Every step of the pipeline is a step of Dialogue or leaves it alone.     *)
LEMMA PromiseNext ==
  ASSUME IInv, AnswerInv, FreshInv, \A h \in Handling : tries[h] <= faults + 1, [Next]_vars
  PROVE  [Promise!Next]_(Promise!vars)
<1>1. ASSUME NEW r \in Request,
             Task(r) \/ \E p \in Payload : Accept(r, p) \/ Refuse(r, p)
      PROVE  [Promise!Next]_(Promise!vars)
  BY <1>1, RequestKeepsPromise
<1>2. ASSUME NEW h \in Handling, HandleMessage(h) PROVE UNCHANGED Promise!vars
  <2>1. UNCHANGED <<batch, inbox, status, payload, missed, sent, replies, faults>>
    BY <1>2 DEF HandleMessage, Queue!Deliver, taskVars, dbVars, convVars
  <2> QED
    BY <2>1, ReceivedFrame DEF Promise!vars
<1>3. ASSUME NEW d \in Delivery, Work(d) PROVE [Promise!Next]_(Promise!vars)
  BY <1>3, WorkKeepsPromise
<1>4. ASSUME NEW c \in Handling, (\E a \in Agent : Takeover(c, a)) \/ Release(c)
      PROVE  Promise!Next
  <2>1. /\ UNCHANGED <<batch, inbox, payload, missed, sent, replies, faults>>
        /\ status[c] # "absent"
        /\ \E s \in {"escalated", "active"} : status' = [status EXCEPT ![c] = s]
    BY <1>4 DEF Takeover, Release, taskVars, workVars, queueVars
  <2>2. Promise!Handover(c)
    BY <2>1, ReceivedFrame DEF Promise!Handover
  <2> QED
    BY <2>2 DEF Promise!Next, Promise!Incoming, Promise!Position, Handling, Position
<1>5. CASE Replicate \/ StartConsumer \/ UNCHANGED vars
  <2>1. UNCHANGED <<batch, inbox, status, payload, missed, sent, replies, faults>>
    BY <1>5 DEF Replicate, StartConsumer, Queue!DeclareQueue, vars, taskVars, dbVars, convVars,
                workVars, queueVars
  <2> QED
    BY <2>1, ReceivedFrame DEF Promise!vars
<1>6. CASE ConnectionLost \/ Crash
  <2>1. /\ UNCHANGED <<batch, inbox, status, payload, missed, sent, replies>>
        /\ faults' = faults + 1
    BY <1>6 DEF ConnectionLost, Crash, Queue!ConnectionLost, Queue!Crash, taskVars, dbVars,
                convVars, workVars
  <2>2. Promise!Fault
    BY <2>1, ReceivedFrame DEF Promise!Fault
  <2> QED
    BY <2>2 DEF Promise!Next
<1> QED
  BY <1>1, <1>2, <1>3, <1>4, <1>5, <1>6 DEF Next

(* The pipeline keeps what Dialogue promises customers.                     *)
THEOREM ImplementsDialogue == Spec => DialogueSpec
<1>1. QueueProofs!Inv => \A h \in Handling : tries[h] <= faults + 1
  BY DEF QueueProofs!Inv, QueueProofs!TriesBounded, QueueProofs!RedeliveredOnlyAfterFault
<1>2. IInv /\ AnswerInv /\ FreshInv /\ QueueProofs!Inv /\ [Next]_vars =>
        [Promise!Next]_(Promise!vars)
  BY <1>1, PromiseNext
<1> QED
  BY <1>2, PromiseInit, Invariance, AnswerInvariance, FreshInvariance, QueueInvariance, PTL
  DEF Spec, DialogueSpec, Promise!Spec
=============================================================================
