-------------------------- MODULE WorkQueueProofs --------------------------
(***************************************************************************)
(* What holds of the queue for every set of jobs, every prefetch and every *)
(* number of faults.                                                       *)
(***************************************************************************)
EXTENDS WorkQueue, TLAPS

(* The number of a delivery is tied to the faults by what the broker knows: *)
(* a job that waits has been delivered at most once per fault, so its next  *)
(* delivery is within the bound.                                            *)
TriesBounded ==
  \A j \in Job :
    /\ tries[j] <= faults + 1
    /\ job[j] = "ready" => tries[j] <= faults
    /\ job[j] = "unpublished" => tries[j] = 0

Inv ==
  /\ TypeOK
  /\ TriesBounded
  /\ OutstandingHasCallback

(* The first state satisfies the inductive invariant.                       *)
LEMMA InvInit == Init => Inv
<1> SUFFICES ASSUME Init PROVE Inv
  OBVIOUS
<1>1. TypeOK
  <2>1. bound \in BOOLEAN
    BY DEF Init
  <2>2. /\ job \in [Job -> JobState] /\ tries \in [Job -> Nat]
        /\ running \subseteq Job \X Nat /\ faults \in 0 .. MaxFaults
    BY MaxFaultsAssumption DEF Init, JobState
  <2> QED
    BY <2>1, <2>2 DEF TypeOK
<1>2. TriesBounded /\ OutstandingHasCallback
  BY DEF Init, TriesBounded, OutstandingHasCallback
<1> QED
  BY <1>1, <1>2 DEF Inv

(* Acknowledging and rejecting preserve the invariant: a callback that ends *)
(* without being heard is not the one of the outstanding delivery.          *)
LEMMA InvSettle ==
  ASSUME Inv, NEW j \in Job, NEW n \in Nat, NEW outcome \in {"acked", "dropped"},
         Settle(j, n, outcome)
  PROVE  Inv'
<1>1. TypeOK'
  BY DEF Inv, TypeOK, Settle, JobState
<1>2. TriesBounded'
  BY DEF Inv, TypeOK, Settle, TriesBounded
<1>3. OutstandingHasCallback'
  BY DEF Inv, TypeOK, Settle, Heard, OutstandingHasCallback
<1> QED
  BY <1>1, <1>2, <1>3 DEF Inv

(* Every step of the queue preserves the invariant.                         *)
LEMMA InvNext == Inv /\ [Next]_qvars => Inv'
<1> SUFFICES ASSUME Inv, [Next]_qvars PROVE Inv'
  OBVIOUS
<1> USE MaxFaultsAssumption
<1>1. CASE DeclareQueue
  BY <1>1 DEF DeclareQueue, Inv, TypeOK, TriesBounded, OutstandingHasCallback
<1>2. CASE ConnectionLost
  BY <1>2 DEF ConnectionLost, Requeued, Inv, TypeOK, JobState, TriesBounded,
              OutstandingHasCallback
<1>3. CASE Crash
  BY <1>3 DEF Crash, Requeued, Inv, TypeOK, JobState, TriesBounded,
              OutstandingHasCallback
<1>4. ASSUME NEW j \in Job, Publish(j) PROVE Inv'
  BY <1>4 DEF Publish, Inv, TypeOK, JobState, TriesBounded, OutstandingHasCallback
<1>5. ASSUME NEW j \in Job, Deliver(j) PROVE Inv'
  BY <1>5 DEF Deliver, Inv, TypeOK, JobState, TriesBounded, OutstandingHasCallback
<1>6. ASSUME NEW j \in Job, NEW n \in 1 .. MaxFaults + 1, Ack(j, n) \/ Reject(j, n)
      PROVE  Inv'
  BY <1>6, InvSettle DEF Ack, Reject
<1>7. CASE UNCHANGED qvars
  BY <1>7 DEF qvars, Inv, TypeOK, TriesBounded, OutstandingHasCallback
<1> QED
  BY <1>1, <1>2, <1>3, <1>4, <1>5, <1>6, <1>7 DEF Next

(* The invariant holds in every reachable state.                            *)
THEOREM Invariance == Spec => []Inv
  BY InvInit, InvNext, PTL DEF Spec

(* Type correctness of the queue.                                           *)
THEOREM TypeCorrect == Spec => []TypeOK
  BY Invariance, PTL DEF Inv

(* A job is delivered once, and once more at most for each fault.           *)
THEOREM RedeliveryBounded == Spec => []RedeliveredOnlyAfterFault
<1>1. Inv => RedeliveredOnlyAfterFault
  BY DEF Inv, TriesBounded, RedeliveredOnlyAfterFault
<1> QED
  BY <1>1, Invariance, PTL

(* No delivery waits for an acknowledgement that cannot come.               *)
THEOREM NoOrphanDelivery == Spec => []OutstandingHasCallback
  BY Invariance, PTL DEF Inv

(* No step touches a settled job.                                           *)
THEOREM SettlementIsFinal == Spec => SettledForGood
<1> DEFINE Kept == \A j \in Job : job[j] \in {"acked", "dropped"} =>
                     job'[j] = job[j] /\ tries'[j] = tries[j]
<1>1. Inv /\ [Next]_qvars => [Kept]_qvars
  <2> SUFFICES ASSUME Inv, Next PROVE Kept
    OBVIOUS
  <2> SUFFICES ASSUME NEW k \in Job, job[k] \in {"acked", "dropped"}
               PROVE  job'[k] = job[k] /\ tries'[k] = tries[k]
    OBVIOUS
  <2>1. CASE DeclareQueue \/ ConnectionLost \/ Crash
    BY <2>1 DEF DeclareQueue, ConnectionLost, Crash, Requeued
  <2>2. ASSUME NEW j \in Job, Publish(j) \/ Deliver(j)
        PROVE  job'[k] = job[k] /\ tries'[k] = tries[k]
    BY <2>2 DEF Publish, Deliver, Inv, TypeOK
  <2>3. ASSUME NEW j \in Job, NEW n \in 1 .. MaxFaults + 1, Ack(j, n) \/ Reject(j, n)
        PROVE  job'[k] = job[k] /\ tries'[k] = tries[k]
    BY <2>3 DEF Ack, Reject, Settle, Heard, Inv, TypeOK
  <2> QED
    BY <2>1, <2>2, <2>3 DEF Next
<1> QED
  BY <1>1, Invariance, PTL DEF Spec, SettledForGood
=============================================================================
