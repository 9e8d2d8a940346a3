------------------------------ MODULE Registry ------------------------------
(***************************************************************************)
(* What registration and login promise: each is one step.  An account is   *)
(* there from the moment it is enrolled, if nobody has its name or its     *)
(* e-mail, and for good; whoever is told that an account is registered has *)
(* enrolled it, and whoever is refused asked for one that is taken.  A     *)
(* session starts for the e-mail of an account, stays with it, and is as   *)
(* old as its last renewal.                                                *)
(*                                                                         *)
(* Abstract specification of Accounts: no look-ups that may be overtaken,  *)
(* no replica and no Redis.                                                *)
(***************************************************************************)
EXTENDS Naturals

CONSTANTS Client, Account, NoSession, None

VARIABLES
  now,     \* the clock
  users,   \* the accounts
  answer,  \* what each client's last registration came to, until its next call
  session  \* the e-mail each client is logged in with, and since when

vars == <<now, users, answer, session>>

Init ==
  /\ now = 0
  /\ users = {}
  /\ answer = [c \in Client |-> None]
  /\ session = [c \in Client |-> NoSession]

Answer(c, verdict) == answer' = [answer EXCEPT ![c] = verdict]

NextCall(c) == Answer(c, None) /\ UNCHANGED <<now, users, session>>

Taken(a) == \E b \in users : b.username = a.username \/ b.email = a.email

\* The answer may be lost.
Enroll(c, a) ==
  /\ ~ Taken(a)
  /\ users' = users \union {a}
  /\ answer[c] = None
  /\ Answer(c, <<"registered", a>>) \/ UNCHANGED answer
  /\ UNCHANGED <<now, session>>

Refuse(c, a) ==
  /\ Taken(a)
  /\ answer[c] = None
  /\ Answer(c, <<"refused", a>>)
  /\ UNCHANGED <<now, users, session>>

LogIn(c) ==
  /\ session[c] = NoSession
  /\ \E a \in users : session' = [session EXCEPT ![c] = [email |-> a.email, at |-> now]]
  /\ UNCHANGED <<now, users, answer>>

Renew(c) ==
  /\ session[c] # NoSession
  /\ session' = [session EXCEPT ![c].at = now]
  /\ UNCHANGED <<now, users, answer>>

LogOut(c) ==
  /\ session[c] # NoSession
  /\ session' = [session EXCEPT ![c] = NoSession]
  /\ Answer(c, None)
  /\ UNCHANGED <<now, users>>

Tick == now' = now + 1 /\ UNCHANGED <<users, answer, session>>

Next ==
  \/ \E c \in Client :
       \/ NextCall(c) \/ LogIn(c) \/ Renew(c) \/ LogOut(c)
       \/ \E a \in Account : Enroll(c, a) \/ Refuse(c, a)
  \/ Tick

Spec == Init /\ [][Next]_vars
=============================================================================
