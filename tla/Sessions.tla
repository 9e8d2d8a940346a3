------------------------------ MODULE Sessions ------------------------------
(***************************************************************************)
(* The sessions of requests and deliveries and the connection pools of     *)
(* master and replica (database_config.py, base_repository.py).  A task is *)
(* a list of visits to a pool.  A repository call opens a session, takes a *)
(* connection with its first statement and gives it back when it commits   *)
(* or leaves the session, by an error too; a call that refreshes the row   *)
(* after its commit takes a connection again.  The session that the AI     *)
(* worker opens for retrieval is never closed: it keeps its connection     *)
(* until the worker is done and the garbage collector finds it.            *)
(***************************************************************************)
EXTENDS Naturals, Sequences, FiniteSets

CONSTANTS Task,
          Request,   \* the tasks that are requests; the others are deliveries
          Script,    \* the lists of visits each task may make
          Capacity,  \* connections of a pool: pool_size + max_overflow
          Replicas   \* whether a replica is configured: a subset of BOOLEAN

(* Visits: a session for "read" or "write"; "again", the refresh after a    *)
(* commit; "open", the worker's session, and "retrieve", its first query.   *)
Visit == {"read", "write", "again", "open", "retrieve"}

FindById == <<"read">>
FindAll == <<"read">>
FindOne == <<"read">>
Count == <<"read">>
FindAndCountAll == <<"read">>
Create == <<"write", "again">>
BulkCreate == <<"write", "again">>
UpdateAbsent == <<"write">>
Update == <<"write", "again">>
Delete == <<"write">>
UpdateWhere == <<"write">>
DeleteWhere == <<"write">>
ExecuteQuery == <<"write">>

Keepers == {t \in Task : \E s \in Script[t] : \E i \in DOMAIN s : s[i] = "retrieve"}

ASSUME RequestAssumption == Request \subseteq Task
\* _process retrieves once.
ASSUME ScriptAssumption ==
  /\ Script \in [Task -> SUBSET Seq(Visit)]
  /\ \A t \in Task : \A s \in Script[t] : \A i, j \in DOMAIN s :
       s[i] = "retrieve" /\ s[j] = "retrieve" => i = j
ASSUME ReplicasAssumption == Replicas \subseteq BOOLEAN
ASSUME FiniteAssumption == IsFiniteSet(Task)
ASSUME CapacityAssumption == Capacity \in Nat

Pool == {"master", "replica"}
Result == {"none", "done", "database", "unknown"}

VARIABLES
  connected,  \* Database._connected
  readFrom,   \* the engine the read factory is bound to
  listed,     \* whether replica_engine is set
  out,        \* connections taken from each pool
  garbage,    \* those of sessions nothing refers to any more
  kept,       \* tasks whose retrieval session has one
  step, todo, \* what each task does, and the visits it has left
  result      \* how the last list of visits of each request ended: "unknown"
              \* by an exception that is neither the database's nor HTTP's

databaseVars == <<connected, readFrom, listed>>
poolVars == <<out, garbage, kept>>
taskVars == <<step, todo, result>>
sessionVars == <<databaseVars, poolVars, taskVars>>

SessionTypeOK ==
  /\ connected \in BOOLEAN /\ listed \in BOOLEAN
  /\ readFrom \in Pool
  /\ out \in [Pool -> 0 .. Capacity]
  /\ garbage \in [Pool -> 0 .. Capacity]
  /\ kept \subseteq Keepers
  /\ step \in [Task -> {"idle", "next", "wait", "run"}]
  /\ todo \in [Task -> Seq(Visit)]
  /\ \A t \in Task : step[t] = "idle" => todo[t] = <<>>
  /\ result \in [Request -> Result]

SessionInit ==
  /\ connected = FALSE /\ listed = FALSE /\ readFrom = "master"
  /\ out = [p \in Pool |-> 0] /\ garbage = [p \in Pool |-> 0]
  /\ kept = {}
  /\ step = [t \in Task |-> "idle"] /\ todo = [t \in Task |-> <<>>]
  /\ result = [r \in Request |-> "none"]

PoolOf(v) == IF v \in {"read", "retrieve"} THEN readFrom ELSE "master"
Wants(t, p) == todo[t] # <<>> /\ PoolOf(Head(todo[t])) = p

-----------------------------------------------------------------------------
(* Database                                                                 *)

\* A replica that fails its test is only taken off the list.
Tested(configured) == {configured, FALSE}

\* The read factory is bound before the connections are tested.
Connect ==
  /\ \E configured \in Replicas :
       /\ readFrom' = IF configured THEN "replica" ELSE "master"
       /\ listed' \in Tested(configured)
  /\ connected' = TRUE
  /\ UNCHANGED <<poolVars, taskVars>>

\* Connections that are out stay out.
Disconnect ==
  /\ connected' = FALSE
  /\ UNCHANGED <<readFrom, listed, poolVars, taskVars>>

-----------------------------------------------------------------------------
(* A task                                                                   *)

SetResult(t, r) == result' = IF t \in Request THEN [result EXCEPT ![t] = r] ELSE result

Begin(t, s) ==
  /\ step[t] = "idle"
  /\ step' = [step EXCEPT ![t] = "next"]
  /\ todo' = [todo EXCEPT ![t] = s]
  /\ SetResult(t, "none")
  /\ UNCHANGED <<databaseVars, poolVars>>

\* The task is over: a connection its retrieval kept is garbage, with "back"
\* connections returned to the pool p.
End(t, r, p, back) ==
  LET wasted == IF t \in kept THEN 1 ELSE 0 IN
  /\ step' = [step EXCEPT ![t] = "idle"]
  /\ todo' = [todo EXCEPT ![t] = <<>>]
  /\ SetResult(t, r)
  /\ out' = [out EXCEPT ![p] = @ - back]
  /\ garbage' = [garbage EXCEPT ![readFrom] = @ + wasted]
  /\ kept' = kept \ {t}
  /\ UNCHANGED databaseVars

\* get_session raises a RuntimeError while the database is not connected; a
\* session takes no connection yet.
GetSession(t) ==
  /\ step[t] = "next" /\ todo[t] # <<>>
  /\ LET v == Head(todo[t]) IN
     IF v \in {"read", "write", "open"} /\ ~ connected
     THEN End(t, "unknown", "master", 0)
     ELSE /\ IF v = "open" THEN todo' = [todo EXCEPT ![t] = Tail(@)] /\ UNCHANGED step
                           ELSE step' = [step EXCEPT ![t] = "wait"] /\ UNCHANGED todo
          /\ UNCHANGED <<databaseVars, poolVars, result>>

Checkout(t) ==
  /\ step[t] = "wait"
  /\ LET p == PoolOf(Head(todo[t])) IN
     out[p] < Capacity /\ out' = [out EXCEPT ![p] = @ + 1]
  /\ step' = [step EXCEPT ![t] = "run"]
  /\ UNCHANGED <<databaseVars, garbage, kept, todo, result>>

\* Mutant: the pool has no timeout.
FailToConnect(t) ==
  /\ step[t] = "wait"
  /\ out[PoolOf(Head(todo[t]))] < Capacity
  /\ End(t, "unknown", "master", 0)

\* The pool is exhausted for pool_timeout seconds, or the server cannot be reached.
FailCheckout(t) ==
  /\ step[t] = "wait"
  /\ \/ out[PoolOf(Head(todo[t]))] = Capacity /\ End(t, "database", "master", 0)
     \/ out[PoolOf(Head(todo[t]))] < Capacity /\ End(t, "unknown", "master", 0)

\* The statement runs; the connection goes back, except the retrieval's.
Execute(t) ==
  LET v == Head(todo[t]) IN
  /\ step[t] = "run"
  /\ todo' = [todo EXCEPT ![t] = Tail(@)]
  /\ step' = [step EXCEPT ![t] = "next"]
  /\ IF v = "retrieve" THEN kept' = kept \union {t} /\ UNCHANGED out
                       ELSE out' = [out EXCEPT ![PoolOf(v)] = @ - 1] /\ UNCHANGED kept
  /\ UNCHANGED <<databaseVars, garbage, result>>

\* Mutant: a session is left open by an error.
FailLeaking(t) ==
  /\ step[t] = "run"
  /\ End(t, "database", "master", 0)

\* The statement fails: the repository's session is closed, the retrieval's is not.
FailStatement(t) ==
  LET v == Head(todo[t]) IN
  /\ step[t] = "run"
  /\ IF v = "retrieve"
     THEN /\ garbage' = [garbage EXCEPT ![readFrom] = @ + 1]
          /\ step' = [step EXCEPT ![t] = "idle"]
          /\ todo' = [todo EXCEPT ![t] = <<>>]
          /\ SetResult(t, "database")
          /\ UNCHANGED <<databaseVars, out, kept>>
     ELSE End(t, "database", PoolOf(v), 1)

\* The handler or the worker raises something of its own between two visits:
\* get_by_id, which no repository has, a failed upload or language model.
Raise(t) ==
  /\ step[t] = "next"
  /\ End(t, "unknown", "master", 0)

Finish(t) ==
  /\ step[t] = "next" /\ todo[t] = <<>>
  /\ End(t, "done", "master", 0)

Work(t) ==
  \/ GetSession(t) \/ Checkout(t) \/ FailCheckout(t)
  \/ Execute(t) \/ FailStatement(t) \/ Raise(t) \/ Finish(t)

\* The collector ends the connections of lost sessions, all at once.
Collect(p) ==
  /\ garbage[p] > 0
  /\ out' = [out EXCEPT ![p] = @ - garbage[p]]
  /\ garbage' = [garbage EXCEPT ![p] = 0]
  /\ UNCHANGED <<databaseVars, kept, taskVars>>

-----------------------------------------------------------------------------
Running(p) == {t \in Task : step[t] = "run" /\ Wants(t, p)}
Waiting(p) == {t \in Task : step[t] = "wait" /\ Wants(t, p)}
Keeping(p) == IF p = readFrom THEN kept ELSE {}

(* No connection is lost: one that is out belongs to a statement that runs, *)
(* to the retrieval of a worker that is not done, or to garbage.            *)
ConnectionsAccounted ==
  \A p \in Pool :
    out[p] = Cardinality(Running(p)) + Cardinality(Keeping(p)) + garbage[p]
=============================================================================
