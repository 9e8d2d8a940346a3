------------------------- MODULE PipelineInvariant -------------------------
(***************************************************************************)
(* The inductive invariant of SalesPipeline: what its safety properties    *)
(* rest on.  A task keeps rows it read or created in local variables over  *)
(* several transactions; the invariant says what remains true of them while*)
(* everything else moves.                                                  *)
(***************************************************************************)
EXTENDS SalesPipeline

(* Where a request is determines how far it is in its messages.             *)
RequestShape ==
  \A r \in Request :
    /\ Len(batch[r]) <= MaxBatch
    /\ step[r] # "idle" <=> request[r] = "running"
    /\ IF request[r] \in {"new", "refused"} THEN at[r] = 0
       ELSE at[r] \in 1 .. Len(batch[r])

(* Only handlings that were reached have left anything behind: the phone    *)
(* number of a row never changes, since the batch of its request is fixed.  *)
RowsReached ==
  \A h \in Handling :
    \/ status[h] # "absent" \/ inbox[h] # None \/ leadConv[h] # None
    \/ payload[h] # None \/ h \in missed
    => h[2] <= at[h[1]]

(* The task that is running has not queued its job, nor created its lead    *)
(* before the step that does.                                               *)
FreshRows ==
  \A r \in Request : step[r] # "idle" =>
    /\ payload[Current(r)] = None
    /\ step[r] # "publish" => leadConv[Current(r)] = None

(* The rows a task holds exist, belong together and to its customer.        *)
ConversationHeld ==
  \A r \in Request :
    step[r] \in {"addMessage", "findLead", "createLead", "publish"} =>
      /\ conversation[r].id \in Handling
      /\ status[conversation[r].id] # "absent"
      /\ Phone(conversation[r].id) = Phone(Current(r))

MessageStored ==
  \A r \in Request :
    step[r] \in {"findLead", "createLead", "publish"} =>
      inbox[Current(r)] = conversation[r].id

LeadHeld ==
  \A r \in Request :
    step[r] = "publish" =>
      /\ lead[r] \in Handling
      /\ leadConv[lead[r]] = conversation[r].id

(* The look-up returns active rows only, so that no task ever sees          *)
(* "escalated": the branch of AddMessage that skips the AI is not taken.    *)
EscalatedNeverSeen == \A r \in Request : conversation[r].status # "escalated"

(* The replica knows nothing the master does not.                           *)
CopiesLag ==
  /\ \A c \in Handling : statusCopy[c] # "absent" => status[c] # "absent"
  /\ \A l \in Handling : leadCopy[l] # None => leadCopy[l] = leadConv[l]

(* The queue holds the jobs that have a body, the worker works on those.    *)
JobsKnown == \A h \in Handling : job[h] # "unpublished" <=> payload[h] # None
PhasesKnown == \A d \in Delivery : phase[d] # "idle" => payload[d[1]] # None
AnswersKnown == \A answer \in sent : payload[answer[1][1]] # None

(* A message is stored in a conversation that exists.                       *)
InboxLinked == \A h \in Handling : inbox[h] # None => status[inbox[h]] # "absent"

IInv ==
  /\ TypeOK
  /\ RequestShape
  /\ RowsReached
  /\ FreshRows
  /\ ConversationHeld
  /\ MessageStored
  /\ LeadHeld
  /\ EscalatedNeverSeen
  /\ CopiesLag
  /\ JobsKnown
  /\ PhasesKnown
  /\ AnswersKnown
  /\ InboxLinked
  /\ JobsMatchTables
  /\ CustomersKeptApart
  /\ RequestsProcessedInOrder

-----------------------------------------------------------------------------
(* What the bound on answers and their order rest on besides.               *)

(* A callback that has started belongs to a delivery the queue has counted. *)
DeliveriesCounted ==
  \A d \in Delivery : phase[d] # "idle" => d[2] <= tries[d[1]]

AnswersStarted == \A answer \in sent : phase[answer[1]] # "idle"

(* Whoever is about to persist an answer, or has, sent it before.           *)
PersistersSent ==
  \A d \in Delivery : phase[d] = "persist" \/ d \in replies =>
    \E phone \in Customer : <<d, phone>> \in sent

AnswerInv == DeliveriesCounted /\ AnswersStarted /\ PersistersSent

(* A task starts from nothing: no row has its name before the step that     *)
(* stores it, its job was not lost already, and no message of a request is  *)
(* there before it is accepted.                                             *)
FreshTask ==
  \A r \in Request :
    /\ request[r] \in {"new", "refused"} => batch[r] = <<>>
    /\ step[r] # "idle" => Current(r) \notin missed
    /\ step[r] \in {"findConversation", "createConversation"} =>
         status[Current(r)] = "absent"
    /\ step[r] \in {"findConversation", "createConversation", "addMessage"} =>
         inbox[Current(r)] = None

(* An answer is not sent twice by one delivery.                             *)
SendersNew ==
  \A d \in Delivery : phase[d] \in {"respond", "score", "lookup", "send"} =>
    \A answer \in sent : answer[1] # d

(* Only an answer that is not on record yet is about to be put there.       *)
PersistersNew ==
  \A d \in Delivery :
    phase[d] \in {"respond", "score", "lookup", "send", "persist"} => d \notin replies

FreshInv == FreshTask /\ SendersNew /\ PersistersNew

-----------------------------------------------------------------------------
(* What follows from RowsUnique.                                            *)

(* What the replica holds was once the table of the master.                 *)
OneActiveCopy ==
  \A c, d \in Handling :
    statusCopy[c] = "active" /\ statusCopy[d] = "active" /\ Phone(c) = Phone(d) => c = d

(* Then a look-up never matches several rows, on the replica either: a task *)
(* raises only if the database fails.                                       *)
LookupsUnambiguous == \A r \in Request : MayRaise(r) => "database" \in MayFail

(* The calls that are left to a request, and to a delivery, at most.        *)
CallsLeft ==
  [idle |-> 0, publish |-> 1, createLead |-> 2, findLead |-> 3, addMessage |-> 4,
   createConversation |-> 5, findConversation |-> 6]

TaskLeft(r) == 6 * (Len(batch[r]) - at[r]) + CallsLeft[step[r]]

PhasesLeft ==
  [over |-> 0, ack |-> 1, escalate |-> 2, persist |-> 3, send |-> 4, lookup |-> 5,
   score |-> 6, respond |-> 7]

(* A request and a callback come closer to their end with each step of      *)
(* their own, and no other step, a fault included, takes them back: a       *)
(* request of n messages ends within 6 n calls, a callback within 7.        *)
EachStepAdvances ==
  [][/\ \A r \in Request : request[r] = "running" =>
          /\ TaskLeft(r)' <= TaskLeft(r)
          /\ Task(r) => TaskLeft(r)' < TaskLeft(r)
     /\ \A d \in Delivery : phase[d] # "idle" =>
          /\ PhasesLeft[phase'[d]] <= PhasesLeft[phase[d]]
          /\ Work(d) => PhasesLeft[phase'[d]] < PhasesLeft[phase[d]]]_vars
=============================================================================
