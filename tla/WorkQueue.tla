----------------------------- MODULE WorkQueue -----------------------------
(***************************************************************************)
(* A durable RabbitMQ queue as app/configs/messaging_config.py uses it:    *)
(* RabbitMQClient.publish puts a job on a topic exchange, consume declares *)
(* and binds the queue and runs a callback per delivery inside             *)
(* "async with message.process()", which acknowledges the delivery when    *)
(* the callback returns and rejects it WITHOUT requeueing when it raises.  *)
(* The queue has no dead-letter exchange, so a rejected job is gone.       *)
(*                                                                         *)
(* What the broker holds outstanding goes back to the queue when the       *)
(* connection or the process dies.  After a lost connection the callbacks  *)
(* that were running go on running; what they acknowledge afterwards is    *)
(* not heard.                                                              *)
(***************************************************************************)
EXTENDS Naturals, FiniteSets

CONSTANTS Job,        \* the messages that can be published
          Prefetch,   \* set_qos(prefetch_count=10)
          MaxFaults   \* bound on lost connections and process crashes

ASSUME PrefetchAssumption == Prefetch \in Nat \ {0}
ASSUME MaxFaultsAssumption == MaxFaults \in Nat

VARIABLES bound,    \* the queue is declared and bound to its exchange
          job,      \* what the broker knows of each job
          tries,    \* how often each job has been delivered
          running,  \* the deliveries <<j, n>> whose callback is running
          faults    \* connections lost and processes crashed so far

qvars == <<bound, job, tries, running, faults>>

JobState == {"unpublished", "ready", "delivered", "acked", "dropped"}

TypeOK ==
  /\ bound \in BOOLEAN
  /\ job \in [Job -> JobState]
  /\ tries \in [Job -> Nat]
  /\ running \subseteq Job \X Nat
  /\ faults \in 0 .. MaxFaults

Init ==
  /\ bound = FALSE
  /\ job = [j \in Job |-> "unpublished"]
  /\ tries = [j \in Job |-> 0]
  /\ running = {}
  /\ faults = 0

-----------------------------------------------------------------------------
(* consume: the first start of a consumer declares the queue and binds it;  *)
(* both are durable, so a restart finds them.                               *)
DeclareQueue ==
  /\ ~bound
  /\ bound' = TRUE
  /\ UNCHANGED <<job, tries, running, faults>>

(* publish, when the broker takes the message.  An exchange with no bound   *)
(* queue discards it, and publish returns True all the same.                *)
Publish(j) ==
  /\ job[j] = "unpublished"
  /\ job' = IF bound THEN [job EXCEPT ![j] = "ready"] ELSE job
  /\ UNCHANGED <<bound, tries, running, faults>>

Outstanding == {j \in Job : job[j] = "delivered"}

(* The broker hands a ready job to the consumer, at most Prefetch at a time.*)
Deliver(j) ==
  /\ job[j] = "ready"
  /\ Cardinality(Outstanding) < Prefetch
  /\ job' = [job EXCEPT ![j] = "delivered"]
  /\ tries' = [tries EXCEPT ![j] = @ + 1]
  /\ running' = running \union {<<j, tries[j] + 1>>}
  /\ UNCHANGED <<bound, faults>>

(* Mutant: any acknowledgement counts, that of a dead channel too.          *)
HeardAlways(j, n) == TRUE

(* The broker hears an acknowledgement only for the delivery it holds       *)
(* outstanding: one on a channel that has died is lost.                     *)
Heard(j, n) == job[j] = "delivered" /\ tries[j] = n

Settle(j, n, outcome) ==
  /\ <<j, n>> \in running
  /\ running' = running \ {<<j, n>>}
  /\ job' = IF Heard(j, n) THEN [job EXCEPT ![j] = outcome] ELSE job
  /\ UNCHANGED <<bound, tries, faults>>

(* Mutant: the callback returns and nothing is acknowledged.                *)
AckForgotten(j, n) ==
  /\ <<j, n>> \in running
  /\ running' = running \ {<<j, n>>}
  /\ UNCHANGED <<bound, job, tries, faults>>

(* message.process(): the callback returned.                                *)
Ack(j, n) == Settle(j, n, "acked")

(* Mutant: message.process(requeue=True).                                   *)
RejectRequeues(j, n) == Settle(j, n, "ready")

(* message.process(): the callback raised; requeue is False by default.     *)
Reject(j, n) == Settle(j, n, "dropped")

(* Mutants: the broker forgets what is outstanding, and a consumer that     *)
(* acknowledges on delivery.                                                *)
RequeuedNever == job
RequeuedDropped == [j \in Job |-> IF job[j] = "delivered" THEN "dropped" ELSE job[j]]

Requeued == [j \in Job |-> IF job[j] = "delivered" THEN "ready" ELSE job[j]]

(* The connection drops and connect_robust restores it with its consumers.  *)
ConnectionLost ==
  /\ faults < MaxFaults
  /\ faults' = faults + 1
  /\ job' = Requeued
  /\ UNCHANGED <<bound, tries, running>>

(* The process dies with its callbacks and is started again.                *)
Crash ==
  /\ faults < MaxFaults
  /\ faults' = faults + 1
  /\ job' = Requeued
  /\ running' = {}
  /\ UNCHANGED <<bound, tries>>

Next ==
  \/ DeclareQueue
  \/ ConnectionLost
  \/ Crash
  \/ \E j \in Job :
       \/ Publish(j)
       \/ Deliver(j)
       \/ \E n \in 1 .. MaxFaults + 1 : Ack(j, n) \/ Reject(j, n)

Spec == Init /\ [][Next]_qvars

(* The broker goes on delivering and every callback returns or raises.      *)
Fairness ==
  \A j \in Job :
    /\ WF_qvars(Deliver(j))
    /\ \A n \in 1 .. MaxFaults + 1 : WF_qvars(Ack(j, n) \/ Reject(j, n))

FairSpec == Spec /\ Fairness

-----------------------------------------------------------------------------
(* A job is delivered again only after a lost connection or a crash: once   *)
(* more per fault, and never while no fault has happened.                   *)
RedeliveredOnlyAfterFault == \A j \in Job : tries[j] <= faults + 1

(* A job the broker holds outstanding has its callback running: no job      *)
(* waits for an acknowledgement that nobody will send.                      *)
OutstandingHasCallback ==
  \A j \in Job : job[j] = "delivered" => <<j, tries[j]>> \in running

(* A settled job stays settled, with no further delivery, whatever callbacks *)
(* of earlier deliveries are still running.                                 *)
SettledForGood ==
  [][\A j \in Job : job[j] \in {"acked", "dropped"} =>
       job'[j] = job[j] /\ tries'[j] = tries[j]]_qvars

(* Every job the broker has accepted is acknowledged or dropped in the end. *)
JobsSettle == \A j \in Job : job[j] = "ready" ~> job[j] \in {"acked", "dropped"}
=============================================================================
