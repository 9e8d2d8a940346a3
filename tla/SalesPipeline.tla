--------------------------- MODULE SalesPipeline ---------------------------
(***************************************************************************)
(* The path of a customer's message: the WhatsApp webhook turns a request  *)
(* into background tasks (webhook_controller.py), each task stores the     *)
(* message and queues a job (message_mediator.py over the conversation and *)
(* lead repositories), a worker answers the job (ai_message_consumer.py),  *)
(* while human agents take conversations over and release them             *)
(* (conversation_service.py).                                              *)
(*                                                                         *)
(* Every repository call has a session and a transaction of its own, so a  *)
(* task and a worker are sequences of steps, one per call, and everything  *)
(* interleaves between the steps.  Rows are named by the handling (request *)
(* and position in it) that creates them, which stands for the fresh UUID. *)
(***************************************************************************)
EXTENDS Naturals, Sequences, FiniteSets

CONSTANTS Request,     \* the POSTs Meta sends
          Message,     \* WhatsApp messages
          Customer,    \* phone numbers
          Agent,       \* human agents
          Sender,      \* the phone number a message comes from
          Kind,        \* its type
          AsksHuman,   \* the messages that contain an escalation keyword
          Payload,     \* what a request can carry
          MaxBatch,    \* bound on the messages of one request
          UseReplica,  \* reads go to a replica that lags behind the master
          MayFail,     \* the outside services that may fail
          BrokenCalls, \* the calls whose arguments do not fit the callee
          Prefetch, MaxFaults,
          None

KindName == {"text", "document", "audio", "image"}
Service == {"database", "broker", "llm", "whatsapp"}

(* The calls of the worker that raise TypeError or AttributeError whatever  *)
(* their data: MemoryService(window=...), redis=... (an Ellipsis) used by   *)
(* memory.append, process_message(tenant_config=...), and get_by_id, which  *)
(* no repository defines, in LeadScorer and in _process.                    *)
CallSite ==
  {"MemoryService", "memory.append", "process_message", "LeadScorer", "get_by_id"}

ASSUME SenderAssumption == Sender \in [Message -> Customer]
ASSUME KindAssumption == Kind \in [Message -> KindName]
ASSUME MaxBatchAssumption == MaxBatch \in Nat \ {0}
ASSUME PayloadAssumption ==
  \A p \in Payload : /\ p.messages \in Seq(Message)
                     /\ Len(p.messages) \in 1 .. MaxBatch
                     /\ p.contacts \in BOOLEAN
ASSUME SwitchAssumption ==
  /\ UseReplica \in BOOLEAN
  /\ MayFail \subseteq Service
  /\ BrokenCalls \subseteq CallSite
  /\ AsksHuman \subseteq Message
ASSUME QueueAssumption == Prefetch \in Nat \ {0} /\ MaxFaults \in Nat

Position == 1 .. MaxBatch
Handling == Request \X Position
Attempt == 1 .. MaxFaults + 1
Delivery == Handling \X Attempt
JobBody == [conversation : Handling, lead : Handling]

ASSUME NoneAssumption == None \notin Handling /\ None \notin Agent /\ None \notin JobBody

VARIABLES
  request,  \* what has become of each request
  batch,    \* the messages extracted from it
  at,       \* the position of the task that is running
  step,     \* the call of handle_inbound that task makes next
  conversation, lead,  \* its local variables: a row read or created earlier
  status, agent,       \* conversations table, on the master
  leadConv,            \* leads table: the conversation_id of each lead
  inbox,               \* messages with role "user": their conversation_id
  replies,             \* messages with role "assistant", by the delivery
  statusCopy, leadCopy,  \* the replica's conversations and leads
  payload,  \* the body of each job published
  missed,   \* handlings whose publish reached no queue
  phase,    \* what the worker does next for each delivery
  sent,     \* the answers WhatsApp accepted: <<delivery, phone number>>
  bound, job, tries, running, faults   \* the queue ai.messages.queue

taskVars == <<request, batch, at, step, conversation, lead>>
convVars == <<status, agent>>
copyVars == <<statusCopy, leadCopy>>
dbVars == <<convVars, leadConv, inbox, replies>>
workVars == <<phase, sent>>
queueVars == <<bound, job, tries, running, faults>>
vars == <<taskVars, dbVars, copyVars, payload, missed, workVars, queueVars>>

Queue == INSTANCE WorkQueue WITH Job <- Handling

RequestState == {"new", "running", "done", "refused", "aborted", "lost"}
Step == {"idle", "findConversation", "createConversation", "addMessage",
         "findLead", "createLead", "publish"}
Status == {"absent", "active", "escalated"}
Phase == {"idle", "escalate", "respond", "score", "lookup", "send", "persist",
          "ack", "over"}
Conversation == [id : Handling \union {None}, status : Status]
NoConversation == [id |-> None, status |-> "absent"]

TypeOK ==
  /\ request \in [Request -> RequestState]
  /\ batch \in [Request -> Seq(Message)]
  /\ at \in [Request -> Nat]
  /\ step \in [Request -> Step]
  /\ conversation \in [Request -> Conversation]
  /\ lead \in [Request -> Handling \union {None}]
  /\ status \in [Handling -> Status]
  /\ agent \in [Handling -> Agent \union {None}]
  /\ leadConv \in [Handling -> Handling \union {None}]
  /\ inbox \in [Handling -> Handling \union {None}]
  /\ replies \subseteq Delivery
  /\ statusCopy \in [Handling -> Status]
  /\ leadCopy \in [Handling -> Handling \union {None}]
  /\ payload \in [Handling -> JobBody \union {None}]
  /\ missed \subseteq Handling
  /\ phase \in [Delivery -> Phase]
  /\ sent \subseteq Delivery \X Customer
  /\ Queue!TypeOK

Init ==
  /\ request = [r \in Request |-> "new"]
  /\ batch = [r \in Request |-> <<>>]
  /\ at = [r \in Request |-> 0]
  /\ step = [r \in Request |-> "idle"]
  /\ conversation = [r \in Request |-> NoConversation]
  /\ lead = [r \in Request |-> None]
  /\ status = [h \in Handling |-> "absent"]
  /\ agent = [h \in Handling |-> None]
  /\ leadConv = [h \in Handling |-> None]
  /\ inbox = [h \in Handling |-> None]
  /\ replies = {}
  /\ statusCopy = [h \in Handling |-> "absent"]
  /\ leadCopy = [h \in Handling |-> None]
  /\ payload = [h \in Handling |-> None]
  /\ missed = {}
  /\ phase = [d \in Delivery |-> "idle"]
  /\ sent = {}
  /\ Queue!Init

-----------------------------------------------------------------------------
(* WebhookController.handle_whatsapp.  Extracting the messages raises for a *)
(* non-empty "contacts" list (its items are models, without the .get of a   *)
(* dict) and for audio and image messages (same mistake), so the request is *)
(* answered 500 and none of its messages is queued.                         *)
Extractable(p) ==
  /\ ~p.contacts
  /\ \A i \in DOMAIN p.messages : Kind[p.messages[i]] \in {"text", "document"}

Accept(r, p) ==
  /\ request[r] = "new"
  /\ Extractable(p)
  /\ request' = [request EXCEPT ![r] = "running"]
  /\ batch' = [batch EXCEPT ![r] = p.messages]
  /\ at' = [at EXCEPT ![r] = 1]
  /\ step' = [step EXCEPT ![r] = "findConversation"]
  /\ UNCHANGED <<conversation, lead, dbVars, copyVars, payload, missed, workVars, queueVars>>

Refuse(r, p) ==
  /\ request[r] = "new"
  /\ ~Extractable(p)
  /\ request' = [request EXCEPT ![r] = "refused"]
  /\ UNCHANGED <<batch, at, step, conversation, lead, dbVars, copyVars, payload,
                 missed, workVars, queueVars>>

-----------------------------------------------------------------------------
(* The task MessageMediator.handle_inbound of the message at at[r].         *)
Current(r) == <<r, at[r]>>
MessageOf(h) == batch[h[1]][h[2]]
Phone(h) == Sender[MessageOf(h)]

ReadStatus == IF UseReplica THEN statusCopy ELSE status
ReadLead == IF UseReplica THEN leadCopy ELSE leadConv

(* Mutants: a filter missing from the lookup.                               *)
ConversationsOf(phone) ==
  {c \in Handling : ReadStatus[c] # "absent" /\ Phone(c) = phone}
ActiveOfAnyone(phone) == {c \in Handling : ReadStatus[c] = "active"}
LeadsOfAny(c) == {l \in Handling : ReadLead[l] # None}

(* The rows findOne matches; it raises when there is more than one.         *)
ActiveConversations(phone) ==
  {c \in Handling : ReadStatus[c] = "active" /\ Phone(c) = phone}
LeadsOf(c) == {l \in Handling : ReadLead[l] = c}

Goto(r, s) == step' = [step EXCEPT ![r] = s]

(* Starlette runs the tasks of a request one after the other.               *)
EndTask(r) ==
  /\ conversation' = [conversation EXCEPT ![r] = NoConversation]
  /\ lead' = [lead EXCEPT ![r] = None]
  /\ IF at[r] < Len(batch[r])
     THEN /\ at' = [at EXCEPT ![r] = @ + 1]
          /\ Goto(r, "findConversation")
          /\ UNCHANGED request
     ELSE /\ request' = [request EXCEPT ![r] = "done"]
          /\ Goto(r, "idle")
          /\ UNCHANGED at
  /\ UNCHANGED batch

(* Mutant: get_or_create creates without the look-up.                       *)
CreateBlindly(r) ==
  /\ step[r] = "findConversation"
  /\ Goto(r, "createConversation")
  /\ UNCHANGED <<request, batch, at, conversation, lead, dbVars, copyVars, payload,
                 missed, workVars, queueVars>>

(* Mutant: the look-up answers from a cache, with rows as they were created.*)
FindCached(r) ==
  /\ step[r] = "findConversation"
  /\ LET found == ConversationsOf(Phone(Current(r)))
     IN \/ /\ found = {}
           /\ Goto(r, "createConversation")
           /\ UNCHANGED conversation
        \/ \E c \in found :
             /\ conversation' = [conversation EXCEPT ![r] = [id |-> c, status |-> "active"]]
             /\ Goto(r, "addMessage")
  /\ UNCHANGED <<request, batch, at, lead, dbVars, copyVars, payload, missed, workVars,
                 queueVars>>

FindConversation(r) ==
  /\ step[r] = "findConversation"
  /\ LET found == ActiveConversations(Phone(Current(r)))
     IN \/ /\ found = {}
           /\ Goto(r, "createConversation")
           /\ UNCHANGED conversation
        \/ \E c \in found :
             /\ found = {c}
             /\ conversation' = [conversation EXCEPT ![r] =
                                   [id |-> c, status |-> ReadStatus[c]]]
             /\ Goto(r, "addMessage")
  /\ UNCHANGED <<request, batch, at, lead, dbVars, copyVars, payload, missed,
                 workVars, queueVars>>

CreateConversation(r) ==
  /\ step[r] = "createConversation"
  /\ status' = [status EXCEPT ![Current(r)] = "active"]
  /\ conversation' = [conversation EXCEPT ![r] = [id |-> Current(r), status |-> "active"]]
  /\ Goto(r, "addMessage")
  /\ UNCHANGED <<request, batch, at, lead, agent, leadConv, inbox, replies, copyVars,
                 payload, missed, workVars, queueVars>>

(* The check for "escalated" looks at the row as the lookup returned it.    *)
AddMessage(r) ==
  /\ step[r] = "addMessage"
  /\ inbox' = [inbox EXCEPT ![Current(r)] = conversation[r].id]
  /\ IF conversation[r].status = "escalated"
     THEN EndTask(r)
     ELSE /\ Goto(r, "findLead")
          /\ UNCHANGED <<request, batch, at, conversation, lead>>
  /\ UNCHANGED <<convVars, leadConv, replies, copyVars, payload, missed, workVars,
                 queueVars>>

FindLead(r) ==
  /\ step[r] = "findLead"
  /\ LET found == LeadsOf(conversation[r].id)
     IN \/ /\ found = {}
           /\ Goto(r, "createLead")
           /\ UNCHANGED lead
        \/ \E l \in found :
             /\ found = {l}
             /\ lead' = [lead EXCEPT ![r] = l]
             /\ Goto(r, "publish")
  /\ UNCHANGED <<request, batch, at, conversation, dbVars, copyVars, payload, missed,
                 workVars, queueVars>>

(* Mutant: the conversation taken for granted.                              *)
CreateLeadForOwn(r) ==
  /\ step[r] = "createLead"
  /\ leadConv' = [leadConv EXCEPT ![Current(r)] = Current(r)]
  /\ lead' = [lead EXCEPT ![r] = Current(r)]
  /\ Goto(r, "publish")
  /\ UNCHANGED <<request, batch, at, conversation, convVars, inbox, replies, copyVars,
                 payload, missed, workVars, queueVars>>

CreateLead(r) ==
  /\ step[r] = "createLead"
  /\ leadConv' = [leadConv EXCEPT ![Current(r)] = conversation[r].id]
  /\ lead' = [lead EXCEPT ![r] = Current(r)]
  /\ Goto(r, "publish")
  /\ UNCHANGED <<request, batch, at, conversation, convVars, inbox, replies, copyVars,
                 payload, missed, workVars, queueVars>>

(* publish returns False when the broker fails it; nobody looks.            *)
PublishJob(r) ==
  /\ step[r] = "publish"
  /\ \/ /\ Queue!Publish(Current(r))
        /\ IF bound
           THEN /\ payload' = [payload EXCEPT ![Current(r)] =
                                 [conversation |-> conversation[r].id, lead |-> lead[r]]]
                /\ UNCHANGED missed
           ELSE /\ missed' = missed \union {Current(r)}
                /\ UNCHANGED payload
     \/ /\ "broker" \in MayFail
        /\ missed' = missed \union {Current(r)}
        /\ UNCHANGED <<payload, queueVars>>
  /\ EndTask(r)
  /\ UNCHANGED <<dbVars, copyVars, workVars>>

(* A repository call raises: the database fails, or findOne matches several *)
(* rows.  A create that raises at its refresh has committed the row, which  *)
(* looks like a failure at the start of the next step: of "publish" too,    *)
(* after the lead was created.                                              *)
MayRaise(r) ==
  \/ /\ "database" \in MayFail
     /\ step[r] \notin {"idle", "publish"} \/ (step[r] = "publish" /\ lead[r] = Current(r))
  \/ /\ step[r] = "findConversation"
     /\ Cardinality(ActiveConversations(Phone(Current(r)))) > 1
  \/ step[r] = "findLead" /\ Cardinality(LeadsOf(conversation[r].id)) > 1

(* Abort: the task raises, and with it the remaining tasks of the request.  *)
(* Mutants: the exception is swallowed and the next task runs; the task is  *)
(* run again.                                                               *)
AbortOneTask(r) ==
  /\ MayRaise(r)
  /\ EndTask(r)
  /\ UNCHANGED <<dbVars, copyVars, payload, missed, workVars, queueVars>>

AbortAndRetry(r) ==
  /\ MayRaise(r)
  /\ conversation' = [conversation EXCEPT ![r] = NoConversation]
  /\ lead' = [lead EXCEPT ![r] = None]
  /\ Goto(r, "findConversation")
  /\ UNCHANGED <<request, batch, at, dbVars, copyVars, payload, missed, workVars, queueVars>>

Abort(r) ==
  /\ MayRaise(r)
  /\ request' = [request EXCEPT ![r] = "aborted"]
  /\ conversation' = [conversation EXCEPT ![r] = NoConversation]
  /\ lead' = [lead EXCEPT ![r] = None]
  /\ Goto(r, "idle")
  /\ UNCHANGED <<batch, at, dbVars, copyVars, payload, missed, workVars, queueVars>>

Task(r) ==
  \/ FindConversation(r) \/ CreateConversation(r) \/ AddMessage(r)
  \/ FindLead(r) \/ CreateLead(r) \/ PublishJob(r) \/ Abort(r)

-----------------------------------------------------------------------------
(* The worker: handle_message and _process for the delivery d = <<h, n>>.   *)
SetPhase(d, p) == phase' = [phase EXCEPT ![d] = p]

HandleMessage(h) ==
  /\ Queue!Deliver(h)
  /\ SetPhase(<<h, tries[h] + 1>>,
              IF MessageOf(h) \in AsksHuman THEN "escalate" ELSE "respond")
  /\ UNCHANGED <<taskVars, dbVars, copyVars, payload, missed, sent>>

(* update_status writes the status of the row and nothing else.             *)
Escalate(d) ==
  /\ phase[d] = "escalate"
  /\ status' = [status EXCEPT ![payload[d[1]].conversation] = "escalated"]
  /\ SetPhase(d, "ack")
  /\ UNCHANGED <<taskVars, agent, leadConv, inbox, replies, copyVars, payload, missed,
                 sent, queueVars>>

(* The agent is built and AgentService.process_message answers; an answer   *)
(* below the confidence threshold escalates.                                *)
Respond(d) ==
  /\ phase[d] = "respond"
  /\ BrokenCalls \intersect {"MemoryService", "process_message", "memory.append"} = {}
  /\ \E next \in {"score", "escalate"} : SetPhase(d, next)
  /\ UNCHANGED <<taskVars, dbVars, copyVars, payload, missed, sent, queueVars>>

UpdateLeadScore(d) ==
  /\ phase[d] = "score"
  /\ "LeadScorer" \notin BrokenCalls
  /\ SetPhase(d, "lookup")
  /\ UNCHANGED <<taskVars, dbVars, copyVars, payload, missed, sent, queueVars>>

(* Mutant: the answer is persisted before it is sent.                       *)
LookUpThenPersist(d) ==
  /\ phase[d] = "lookup"
  /\ "get_by_id" \notin BrokenCalls
  /\ SetPhase(d, "persist")
  /\ UNCHANGED <<taskVars, dbVars, copyVars, payload, missed, sent, queueVars>>

(* A conversation the read session does not know ends the job quietly.      *)
LookUpConversation(d) ==
  /\ phase[d] = "lookup"
  /\ "get_by_id" \notin BrokenCalls
  /\ SetPhase(d, IF ReadStatus[payload[d[1]].conversation] = "absent"
                 THEN "ack" ELSE "send")
  /\ UNCHANGED <<taskVars, dbVars, copyVars, payload, missed, sent, queueVars>>

SendAnswer(d) ==
  /\ phase[d] = "send"
  /\ sent' = sent \union {<<d, Phone(payload[d[1]].conversation)>>}
  /\ SetPhase(d, "persist")
  /\ UNCHANGED <<taskVars, dbVars, copyVars, payload, missed, queueVars>>

PersistAnswer(d) ==
  /\ phase[d] = "persist"
  /\ replies' = replies \union {d}
  /\ SetPhase(d, "ack")
  /\ UNCHANGED <<taskVars, convVars, leadConv, inbox, copyVars, payload, missed, sent,
                 queueVars>>

(* Mutant: no acknowledgement.                                              *)
AckNever(d) ==
  /\ phase[d] = "ack"
  /\ SetPhase(d, "over")
  /\ UNCHANGED <<taskVars, dbVars, copyVars, payload, missed, sent, queueVars>>

AckJob(d) ==
  /\ phase[d] = "ack"
  /\ Queue!Ack(d[1], d[2])
  /\ SetPhase(d, "over")
  /\ UNCHANGED <<taskVars, dbVars, copyVars, payload, missed, sent>>

(* What a phase depends on, and the calls in it that may be broken.  A send *)
(* that WhatsApp accepted but whose answer got lost raises after SendAnswer.*)
Needs(p) ==
  CASE p = "respond" -> {"database", "llm"}
    [] p = "send" -> {"whatsapp"}
    [] p = "persist" -> {"database", "whatsapp"}
    [] p \in {"escalate", "score", "lookup"} -> {"database"}
    [] OTHER -> {}

Calls(p) ==
  CASE p = "respond" -> {"MemoryService", "process_message", "memory.append"}
    [] p = "score" -> {"LeadScorer"}
    [] p = "lookup" -> {"get_by_id"}
    [] OTHER -> {}

(* _process raises, handle_message re-raises, message.process() rejects.    *)
RejectJob(d) ==
  /\ \/ Needs(phase[d]) \intersect MayFail # {}
     \/ Calls(phase[d]) \intersect BrokenCalls # {}
  /\ Queue!Reject(d[1], d[2])
  /\ SetPhase(d, "over")
  /\ UNCHANGED <<taskVars, dbVars, copyVars, payload, missed, sent>>

Work(d) ==
  \/ Escalate(d) \/ Respond(d) \/ UpdateLeadScore(d) \/ LookUpConversation(d)
  \/ SendAnswer(d) \/ PersistAnswer(d) \/ AckJob(d) \/ RejectJob(d)

-----------------------------------------------------------------------------
(* Mutant: the arguments of update_status swapped.                          *)
TakeoverSwapped(c, a) ==
  /\ status[c] # "absent"
  /\ status' = [status EXCEPT ![c] = a]
  /\ agent' = [agent EXCEPT ![c] = "escalated"]
  /\ UNCHANGED <<taskVars, leadConv, inbox, replies, copyVars, payload, missed,
                 workVars, queueVars>>

(* The dashboard: ConversationService.takeover_conversation and             *)
(* release_conversation.  update_status writes assigned_agent_id only when  *)
(* it is given an agent, so a release keeps the assignment.                 *)
Takeover(c, a) ==
  /\ status[c] # "absent"
  /\ status' = [status EXCEPT ![c] = "escalated"]
  /\ agent' = [agent EXCEPT ![c] = a]
  /\ UNCHANGED <<taskVars, leadConv, inbox, replies, copyVars, payload, missed,
                 workVars, queueVars>>

Release(c) ==
  /\ status[c] # "absent"
  /\ status' = [status EXCEPT ![c] = "active"]
  /\ UNCHANGED <<taskVars, agent, leadConv, inbox, replies, copyVars, payload, missed,
                 workVars, queueVars>>

(* The replica catches up with the master.                                  *)
Replicate ==
  /\ UseReplica
  /\ statusCopy' = status
  /\ leadCopy' = leadConv
  /\ UNCHANGED <<taskVars, dbVars, payload, missed, workVars, queueVars>>

-----------------------------------------------------------------------------
StartConsumer ==
  /\ Queue!DeclareQueue
  /\ UNCHANGED <<taskVars, dbVars, copyVars, payload, missed, workVars>>

ConnectionLost ==
  /\ Queue!ConnectionLost
  /\ UNCHANGED <<taskVars, dbVars, copyVars, payload, missed, workVars>>

(* The process dies: its background tasks and callbacks are gone, what the  *)
(* database and the broker hold is not.                                     *)
Crash ==
  /\ Queue!Crash
  /\ request' = [r \in Request |-> IF request[r] = "running" THEN "lost" ELSE request[r]]
  /\ step' = [r \in Request |-> "idle"]
  /\ conversation' = [r \in Request |-> NoConversation]
  /\ lead' = [r \in Request |-> None]
  /\ phase' = [d \in Delivery |-> IF phase[d] = "idle" THEN "idle" ELSE "over"]
  /\ UNCHANGED <<batch, at, dbVars, copyVars, payload, missed, sent>>

Next ==
  \/ \E r \in Request : \/ \E p \in Payload : Accept(r, p) \/ Refuse(r, p)
                        \/ Task(r)
  \/ \E h \in Handling : HandleMessage(h)
  \/ \E d \in Delivery : Work(d)
  \/ \E c \in Handling : (\E a \in Agent : Takeover(c, a)) \/ Release(c)
  \/ Replicate \/ StartConsumer \/ ConnectionLost \/ Crash

Spec == Init /\ [][Next]_vars

(* The event loop resumes every task and callback, each awaited call returns*)
(* or raises, and the broker goes on delivering.  Nothing is assumed of     *)
(* Meta, of human agents or of the replica.                                 *)
Fairness ==
  /\ \A r \in Request : WF_vars(Task(r))
  /\ \A h \in Handling : WF_vars(HandleMessage(h))
  /\ \A d \in Delivery : WF_vars(Work(d))

FairSpec == Spec /\ Fairness

-----------------------------------------------------------------------------
(* Safety.                                                                  *)

(* What a job says agrees with the tables: its conversation exists and holds*)
(* the message the job is about, and its lead belongs to that conversation. *)
(* handle_inbound collects the three over four transactions.                *)
JobsMatchTables ==
  \A h \in Handling : payload[h] # None =>
    /\ status[payload[h].conversation] # "absent"
    /\ inbox[h] = payload[h].conversation
    /\ leadConv[payload[h].lead] = payload[h].conversation

(* A message is stored only in a conversation of the customer who sent it,  *)
(* and an answer goes only to the customer whose message it answers.        *)
CustomersKeptApart ==
  /\ \A h \in Handling : inbox[h] # None => Phone(inbox[h]) = Phone(h)
  /\ \A answer \in sent : answer[2] = Phone(answer[1][1])

(* Tasks of a request run in the order of its messages, and a task that is  *)
(* over stored its message and queued a job, or lost the job to the broker. *)
Handled(h) == inbox[h] # None /\ (job[h] # "unpublished" \/ h \in missed)

Reached(r) == IF request[r] = "done" THEN at[r] ELSE at[r] - 1

RequestsProcessedInOrder ==
  \A h \in Handling :
    /\ h[2] <= Reached(h[1]) => Handled(h)
    /\ h[2] > at[h[1]] => inbox[h] = None /\ job[h] = "unpublished"

(* The comment at the end of _process: an answer is persisted only after    *)
(* its own delivery has sent it.                                            *)
PersistedAfterSend == \A d \in replies : \E phone \in Customer : <<d, phone>> \in sent

(* The customer is sent at most one answer to a message, and one more for   *)
(* each lost connection or crash that made the broker deliver the job again.*)
AnswersBoundedByFaults ==
  \A h \in Handling : Cardinality({answer \in sent : answer[1][1] = h}) <= faults + 1

(* conversation_repository.py:29, "Check if an active conversation already  *)
(* exists", and scalar_one_or_none in findOne, which raises on a second one.*)
OneActiveConversation ==
  \A c, d \in Handling :
    status[c] = "active" /\ status[d] = "active" /\ Phone(c) = Phone(d) => c = d

(* lead_repository.py:29: one lead per conversation.                        *)
OneLead ==
  \A l, k \in Handling : leadConv[l] # None /\ leadConv[l] = leadConv[k] => l = k

(* Who is about to create a row is alone with it, and the row is not there. *)
CreatesFor(r, phone) == step[r] = "createConversation" /\ Phone(Current(r)) = phone
CreatesLeadFor(r, c) == step[r] = "createLead" /\ conversation[r].id = c

CreatorsAlone ==
  \A r \in Request :
    /\ step[r] = "createConversation" =>
         /\ \A c \in Handling : status[c] = "active" => Phone(c) # Phone(Current(r))
         /\ \A q \in Request \ {r} : ~CreatesFor(q, Phone(Current(r)))
    /\ step[r] = "createLead" =>
         /\ \A l \in Handling : leadConv[l] # conversation[r].id
         /\ \A q \in Request \ {r} : ~CreatesLeadFor(q, conversation[r].id)

RowsUnique == OneActiveConversation /\ OneLead /\ CreatorsAlone

(* A look-up that comes to nothing although the row is there, which a stale *)
(* replica does, or another task is about to create it; and the release of  *)
(* a conversation whose customer has another one, or is about to get it.    *)
MissesConversation(r) ==
  /\ FindConversation(r) /\ step'[r] = "createConversation"
  /\ \/ \E c \in Handling :
          status[c] = "active" /\ ReadStatus[c] # "active" /\ Phone(c) = Phone(Current(r))
     \/ \E q \in Request : CreatesFor(q, Phone(Current(r)))

MissesLead(r) ==
  /\ FindLead(r) /\ step'[r] = "createLead"
  /\ \/ \E l \in Handling : leadConv[l] = conversation[r].id /\ ReadLead[l] = None
     \/ \E q \in Request : CreatesLeadFor(q, conversation[r].id)

ReleasesSecond(c) ==
  /\ Release(c)
  /\ \/ \E d \in Handling \ {c} : status[d] = "active" /\ Phone(d) = Phone(c)
     \/ \E q \in Request : CreatesFor(q, Phone(c))

Race ==
  \/ \E r \in Request : MissesConversation(r) \/ MissesLead(r)
  \/ \E c \in Handling : ReleasesSecond(c)

(* Those three are all the ways in which a customer gets a second active    *)
(* conversation or a conversation a second lead, and each of them leads to  *)
(* it unless the creator fails: whatever else happens in whatever order,    *)
(* rows stay unique.                                                        *)
DoubledOnlyByRaces == [][RowsUnique => (RowsUnique' <=> ~Race)]_vars

(* What may still have the AI answer in a conversation: the tasks that hold *)
(* it and did not see it escalated, its jobs that are not settled, and the  *)
(* callbacks of its jobs, late ones included.                               *)
Holds(h, c) ==
  /\ h = Current(h[1])
  /\ step[h[1]] \in {"addMessage", "findLead", "createLead", "publish"}
  /\ conversation[h[1]].id = c
  /\ conversation[h[1]].status # "escalated"

HasJob(h, c) ==
  /\ payload[h] # None
  /\ payload[h].conversation = c
  /\ \/ job[h] \notin {"acked", "dropped"}
     \/ \E n \in Attempt : phase[<<h, n>>] \notin {"idle", "over"}

OpenWork(c) == {h \in Handling : Holds(h, c) \/ HasJob(h, c)}

(* message_mediator.py:47, "Skip AI if a human agent is handling this       *)
(* conversation".  The status tested there is that of the look-up, which is *)
(* "active", so a task that already holds the conversation goes on and      *)
(* queues its job, and a job that is queued is worked on.  But nothing      *)
(* joins them: from the takeover on, or from when the replica shows it, the *)
(* work open on the conversation only shrinks, through new messages,        *)
(* redelivery and crashes, until the conversation is released.              *)
TakeoverHolds ==
  [][\A c \in Handling :
       status[c] = "escalated" /\ ReadStatus[c] # "active" =>
         Release(c) \/ OpenWork(c)' \subseteq OpenWork(c)]_vars

(* What the pipeline is for: Dialogue says what customers are promised, in  *)
(* terms of the tables and of what was sent, and the pipeline keeps it      *)
(* through stale reads, failures, lost connections and crashes.             *)
Extracted == {h \in Handling : h[2] <= Len(batch[h[1]])}

Promise == INSTANCE Dialogue WITH
  from <- [h \in Extracted |-> Phone(h)],
  thread <- inbox,
  queued <- {h \in Handling : payload[h] # None}

DialogueSpec == Promise!Spec

(* Liveness.                                                                *)

(* A request answered 200 comes to an end: its tasks all run, or one raises,*)
(* or the process dies.                                                     *)
RequestsFinish == \A r \in Request : request[r] = "running" ~> request[r] # "running"

(* A queued job is acknowledged or dropped, whatever fails in between.      *)
JobsSettle ==
  \A h \in Handling : job[h] = "ready" ~> job[h] \in {"acked", "dropped"}

(* With services that do not fail and calls that fit, every job is answered *)
(* or its conversation goes to a human, through lost connections and crashes*)
(* too: no job is acknowledged with nothing done for its customer.          *)
AnsweredOrHandedOver ==
  \A h \in Handling : job[h] = "ready" ~>
     \/ \E d \in replies : d[1] = h
     \/ payload[h] # None /\ status[payload[h].conversation] = "escalated"
=============================================================================
