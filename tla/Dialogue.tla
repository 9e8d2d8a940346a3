------------------------------ MODULE Dialogue ------------------------------
(***************************************************************************)
(* What customers are promised, whatever tasks, replicas, queues and       *)
(* workers do to keep it: a message is stored once, after the ones before  *)
(* it in its request were dealt with, in a conversation of the customer who*)
(* sent it; it is queued for an answer once, or its answer is lost; an     *)
(* answer goes to the customer who asked, at most once and once more per   *)
(* fault, and is on record only after it was sent; what is stored is never *)
(* moved, and a conversation never disappears.  Human agents take          *)
(* conversations and give them back at any time.                           *)
(*                                                                         *)
(* Abstract specification of SalesPipeline.  A conversation is named by the*)
(* message it was opened for.                                              *)
(***************************************************************************)
EXTENDS Naturals

CONSTANTS Request, MaxBatch, Customer, None

Position == 1 .. MaxBatch
Incoming == Request \X Position

VARIABLES
  from,     \* the customer each message received so far is from
  thread,   \* the conversation a message is stored in
  status,   \* the conversations: absent, active, or escalated to a human
  queued,   \* the messages that are queued for an answer
  missed,   \* those whose answer was lost before
  sent,     \* answers sent: <<<<message, number>>, customer>>
  replies,  \* answers on record: <<message, number>>
  faults    \* lost connections and crashes so far

vars == <<from, thread, status, queued, missed, sent, replies, faults>>

Init ==
  /\ from = [m \in {} |-> None]
  /\ thread = [m \in Incoming |-> None]
  /\ status = [c \in Incoming |-> "absent"]
  /\ queued = {} /\ missed = {}
  /\ sent = {} /\ replies = {}
  /\ faults = 0

\* All messages of a request come together.
Receive(r) ==
  /\ \A m \in DOMAIN from : m[1] # r
  /\ \E n \in Position : \E sender \in [1 .. n -> Customer] :
       from' = [m \in DOMAIN from \union ({r} \X (1 .. n)) |->
                  IF m[1] = r THEN sender[m[2]] ELSE from[m]]
  /\ UNCHANGED <<thread, status, queued, missed, sent, replies, faults>>

Open(c) ==
  /\ status[c] = "absent" /\ c \in DOMAIN from
  /\ status' = [status EXCEPT ![c] = "active"]
  /\ UNCHANGED <<from, thread, queued, missed, sent, replies, faults>>

Before(m) == {k \in Incoming : k[1] = m[1] /\ k[2] < m[2]}

Store(m, c) ==
  /\ thread[m] = None /\ Before(m) \subseteq queued \union missed
  /\ status[c] # "absent"
  /\ {m, c} \subseteq DOMAIN from /\ from[c] = from[m]
  /\ thread' = [thread EXCEPT ![m] = c]
  /\ UNCHANGED <<from, status, queued, missed, sent, replies, faults>>

Enqueue(m) ==
  /\ thread[m] # None /\ m \notin queued \union missed
  /\ \/ queued' = queued \union {m} /\ UNCHANGED missed
     \/ missed' = missed \union {m} /\ UNCHANGED queued
  /\ UNCHANGED <<from, thread, status, sent, replies, faults>>

Send(m) ==
  /\ m \in queued
  /\ \E n \in 1 .. faults + 1 :
       /\ \A answer \in sent : answer[1] # <<m, n>>
       /\ sent' = sent \union {<<<<m, n>>, from[m]>>}
  /\ UNCHANGED <<from, thread, status, queued, missed, replies, faults>>

Record ==
  /\ \E answer \in sent : /\ answer[1] \notin replies
                          /\ replies' = replies \union {answer[1]}
  /\ UNCHANGED <<from, thread, status, queued, missed, sent, faults>>

\* The AI or a human agent hands the conversation to a human; the human returns it.
Handover(c) ==
  /\ status[c] # "absent"
  /\ \E s \in {"escalated", "active"} : status' = [status EXCEPT ![c] = s]
  /\ UNCHANGED <<from, thread, queued, missed, sent, replies, faults>>

Fault ==
  /\ faults' = faults + 1
  /\ UNCHANGED <<from, thread, status, queued, missed, sent, replies>>

Next ==
  \/ \E r \in Request : Receive(r)
  \/ \E m \in Incoming : \/ Open(m) \/ Enqueue(m) \/ Send(m) \/ Handover(m)
                        \/ \E c \in Incoming : Store(m, c)
  \/ Record \/ Fault

Spec == Init /\ [][Next]_vars
=============================================================================
