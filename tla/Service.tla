------------------------------ MODULE Service ------------------------------
(***************************************************************************)
(* The running process: the lifespan of main.py drives the database that   *)
(* requests and deliveries take their sessions from.  A request passes the *)
(* middlewares inwards, its handler makes its visits to the database, and  *)
(* the response, or an exception, passes them outwards (middlewares/).     *)
(* The server admits requests only between start-up and shutdown and lets  *)
(* them end first; deliveries are cut off or outlive the broker.  When the *)
(* connection to the broker is lost and restored, the callbacks of its dead*)
(* channel go on and no longer count for the prefetch.                     *)
(***************************************************************************)
EXTENDS Startup, Sessions

CONSTANTS QueueOf,  \* the consumer that the task of a delivery belongs to
          Prefetch  \* deliveries a consumer may have open at the broker

ASSUME QueueAssumption == QueueOf \in [Task \ Request -> Consumer]
\* Only one consumer's worker retrieves, the AI's (ai_message_consumer.py, _process).
ASSUME KeeperAssumption ==
  /\ Keepers \intersect Request = {}
  /\ \A t, u \in Keepers : QueueOf[t] = QueueOf[u]
ASSUME PrefetchAssumption == Prefetch \in Nat

(* Outermost first: register_middlewares adds them in the opposite order.   *)
Middleware == <<"context", "logging", "limit", "security", "cors">>

(* The header each adds to a response on its way out.                       *)
Stamp == [context |-> {"id"}, logging |-> {"time"}, limit |-> {},
          security |-> {"security"}, cors |-> {}]

Stamps == UNION {Stamp[m] : m \in DOMAIN Stamp}
Status == {"ok", "client", "conflict", "database", "internal"}
NoAnswer == [status |-> "none", stamps |-> {}]
Raised == [status |-> "raised", stamps |-> {}]

VARIABLES
  depth,   \* how many middlewares each request has entered
  way,     \* "in" or "out", "none" between two requests
  answer,  \* what it carries on its way out
  detached \* the deliveries at work whose channel is dead

requestVars == <<depth, way, answer>>
vars == <<startupVars, sessionVars, requestVars, detached>>

RequestTypeOK ==
  /\ depth \in [Request -> 0 .. Len(Middleware)]
  /\ way \in [Request -> {"none", "in", "out"}]
  /\ answer \in [Request -> {NoAnswer, Raised} \union [status: Status, stamps: SUBSET Stamps]]

TypeOK ==
  /\ StartupTypeOK /\ SessionTypeOK /\ RequestTypeOK
  /\ detached \subseteq {t \in Task \ Request : step[t] # "idle"}

Init ==
  /\ StartupInit /\ SessionInit
  /\ depth = [r \in Request |-> 0]
  /\ way = [r \in Request |-> "none"]
  /\ answer = [r \in Request |-> NoAnswer]
  /\ detached = {}

-----------------------------------------------------------------------------
(* The lifespan                                                             *)

\* Mutant: connect is called and not awaited.
OpenUnawaited ==
  /\ Pass("created", "database")
  /\ UNCHANGED <<loadVars, consumerVars, sessionVars, requestVars, detached>>

OpenDatabase ==
  /\ Pass("created", "database") /\ Connect
  /\ UNCHANGED <<loadVars, consumerVars, requestVars, detached>>

CloseDatabase ==
  /\ Pass("unsubscribed", "stopped") /\ Disconnect
  /\ UNCHANGED <<loadVars, consumerVars, requestVars, detached>>

\* uvicorn shuts down when the last request is answered.
StopServing ==
  /\ Drain
  /\ \A r \in Request : way[r] = "none"
  /\ UNCHANGED <<sessionVars, requestVars, detached>>

Lifespan ==
  \/ OpenDatabase \/ CloseDatabase \/ StopServing
  \/ /\ \/ LoadInfrastructure \/ NextDirectory \/ Wire
        \/ \E m \in Module : LoadFile(m)
        \/ StartManager \/ CreateTables \/ OpenBroker \/ CloseBroker
        \/ AskToStop
     /\ UNCHANGED <<sessionVars, requestVars, detached>>

-----------------------------------------------------------------------------
(* A request                                                                *)

Move(r, d, w, a) ==
  /\ depth' = [depth EXCEPT ![r] = d]
  /\ way' = [way EXCEPT ![r] = w]
  /\ answer' = [answer EXCEPT ![r] = a]

Accept(r) ==
  /\ stage = "serving" /\ way[r] = "none"
  /\ Move(r, 0, "in", NoAnswer)
  /\ UNCHANGED <<startupVars, sessionVars>>

\* The limiter is called with a request where it expects a limit, which raises,
\* and a limiter that raises lets the request pass: nothing is turned away.
Enter(r) ==
  /\ way[r] = "in" /\ depth[r] < Len(Middleware)
  /\ Move(r, depth[r] + 1, "in", NoAnswer)
  /\ UNCHANGED <<startupVars, sessionVars>>

Reply(s) == [status |-> s, stamps |-> {}]
AtHandler(r) == way[r] = "in" /\ depth[r] = Len(Middleware) /\ step[r] = "idle"

Handle(r) ==
  /\ AtHandler(r) /\ result[r] = "none"
  /\ \E s \in Script[r] : Begin(r, s)
  /\ UNCHANGED <<startupVars, requestVars>>

\* validation_exception_handler and http_exception_handler: 422 and 4xx, before
\* or instead of a database call.
Refuse(r) ==
  /\ AtHandler(r) /\ result[r] = "none"
  /\ Move(r, depth[r], "out", Reply("client"))
  /\ UNCHANGED <<startupVars, sessionVars>>

\* Mutant: database errors have no handler of their own.
UnhandledOf(r) ==
  CASE result[r] = "done" -> {Reply("ok"), Reply("client")}
    [] result[r] = "database" -> {Reply("conflict"), Raised}
    [] OTHER -> {Raised}

\* The handlers of setup_exception_handlers: an integrity error is answered 409
\* or 400, another database error 500; anything else goes on to the outside,
\* whether the database is at fault or the handler itself.
AnswersOf(r) ==
  CASE result[r] = "done" -> {Reply("ok"), Reply("client")}
    [] result[r] = "database" -> {Reply("conflict"), Reply("database")}
    [] OTHER -> {Raised}

Answer(r) ==
  /\ AtHandler(r) /\ result[r] # "none"
  /\ \E a \in AnswersOf(r) : Move(r, depth[r], "out", a)
  /\ UNCHANGED <<startupVars, sessionVars>>

\* dispatch after call_next: a response gets the header; an exception passes.
Leave(r) ==
  /\ way[r] = "out" /\ depth[r] > 0
  /\ LET a == answer[r] IN
     Move(r, depth[r] - 1, "out",
          IF a = Raised THEN a
          ELSE [a EXCEPT !.stamps = @ \union Stamp[Middleware[depth[r]]]])
  /\ UNCHANGED <<startupVars, sessionVars>>

\* global_exception_handler runs outside of all middlewares.
GlobalHandler(r) ==
  /\ way[r] = "out" /\ depth[r] = 0 /\ answer[r] = Raised
  /\ Move(r, 0, "out", Reply("internal"))
  /\ UNCHANGED <<startupVars, sessionVars>>

Send(r) ==
  /\ way[r] = "out" /\ depth[r] = 0 /\ answer[r] # Raised
  /\ Move(r, 0, "none", NoAnswer)
  /\ SetResult(r, "none")
  /\ UNCHANGED <<startupVars, databaseVars, poolVars, step, todo>>

ServeRequest(r) ==
  Enter(r) \/ Handle(r) \/ Refuse(r) \/ Answer(r) \/ Leave(r) \/ GlobalHandler(r) \/ Send(r)

-----------------------------------------------------------------------------
(* A delivery                                                               *)

\* What the broker waits for of a consumer: the tasks of its present channel.
Outstanding(q) ==
  {t \in Task \ Request : QueueOf[t] = q /\ step[t] # "idle" /\ t \notin detached}

\* Mutant: no prefetch count is set.
ReceiveUnlimited(t) ==
  /\ QueueOf[t] \in consuming
  /\ \E s \in Script[t] : Begin(t, s)
  /\ UNCHANGED <<startupVars, requestVars, detached>>

\* The prefetch count of the channel holds for each of its consumers.
Receive(t) ==
  /\ QueueOf[t] \in consuming
  /\ Cardinality(Outstanding(QueueOf[t])) < Prefetch
  /\ \E s \in Script[t] : Begin(t, s)
  /\ UNCHANGED <<startupVars, requestVars, detached>>

\* The connection to the broker is lost and restored, with a new channel and the
\* same consumers; the callbacks of the old one go on.
ConnectionLost ==
  /\ consuming # {}
  /\ \E q \in Consumer : Outstanding(q) # {}
  /\ detached' = {t \in Task \ Request : step[t] # "idle"}
  /\ UNCHANGED <<startupVars, sessionVars, requestVars>>

\* Closing or losing the channel may cancel what its callbacks wait for.
Cancel(t) ==
  /\ stage \in {"unsubscribed", "stopped"} \/ t \in detached
  /\ step[t] # "idle"
  /\ LET v == Head(todo[t]) IN
     IF step[t] # "run" THEN End(t, "unknown", "master", 0)
     ELSE IF v = "retrieve" THEN FailStatement(t)
     ELSE End(t, "unknown", PoolOf(v), 1)
  /\ UNCHANGED <<startupVars, requestVars>>

\* A callback that is over is no longer anybody's.
StillDetached == detached' = {t \in detached : step'[t] # "idle"}

-----------------------------------------------------------------------------
WorkOn(t) == Work(t) /\ StillDetached /\ UNCHANGED <<startupVars, requestVars>>

Next ==
  \/ Lifespan
  \/ AbortStartup /\ UNCHANGED <<sessionVars, requestVars, detached>>
  \/ \E q \in Consumer : StartConsumer(q) /\ UNCHANGED <<sessionVars, requestVars, detached>>
  \/ \E r \in Request : (Accept(r) \/ ServeRequest(r)) /\ UNCHANGED detached
  \/ \E t \in Task : WorkOn(t)
  \/ \E t \in Task \ Request : Receive(t) \/ (Cancel(t) /\ StillDetached)
  \/ ConnectionLost
  \/ \E p \in Pool : Collect(p) /\ UNCHANGED <<startupVars, requestVars, detached>>

\* The server goes on with its shutdown and its requests, and every await of
\* theirs ends: at the latest the pool's timeout ends the wait for a connection.
Advance ==
  \/ (Lifespan /\ stage # "serving")
  \/ \E r \in Request : (ServeRequest(r) /\ UNCHANGED detached) \/ WorkOn(r)

Fairness == WF_vars(Advance)

Spec == Init /\ [][Next]_vars /\ Fairness

-----------------------------------------------------------------------------
(* Nobody finds the database closed before the shutdown has closed it:      *)
(* requests and deliveries come when it is open, and requests leave while   *)
(* it is (lifespan, 32, 53-60, 69-71).                                      *)
OpenWhileServing ==
  /\ \A t \in Task : step[t] # "idle" /\ ~ connected => stage = "stopped"
  /\ \A r \in Request : way[r] # "none" => connected

(* What leaves has the headers of every middleware if and only if its work   *)
(* ended in a way the exception handlers know: a refusal, a failing          *)
(* statement and a pool timeout are answered with all headers; a database    *)
(* closed or out of reach and whatever the handler itself raises with none   *)
(* (setup_exception_handlers, 136-169, and dispatch of the middlewares).     *)
AnswersStamped ==
  \A r \in Request :
    way[r] = "out" /\ depth[r] = 0 /\ answer[r] # Raised =>
      answer[r].stamps = IF result[r] = "unknown" THEN {} ELSE Stamps

(* Deliveries that keep a connection each while they wait for another can    *)
(* hold a whole pool only with the help of dead channels: an exhausted pool  *)
(* has a connection that comes back without the others, or callbacks of lost *)
(* connections keep all of it but the prefetch.  The broker alone (the       *)
(* prefetch of messaging_config.py:64) never closes the circle.              *)
WaitsNotCircular ==
  \A p \in Pool :
    out[p] = Capacity =>
      \/ Running(p) # {} \/ garbage[p] > 0
      \/ Capacity <= Prefetch + Cardinality(Keeping(p) \intersect detached)

(* The shutdown ends: no request waits for good, though deliveries go on    *)
(* and the connections of lost sessions are slow to come back.              *)
ShutdownEnds == stage = "stopping" ~> stage = "stopped"
=============================================================================
