------------------------------ MODULE Startup ------------------------------
(***************************************************************************)
(* How the process comes up and goes down.  loader.py reads the modules of *)
(* one directory after the other into the container, in the order the file *)
(* system lists them; a module that cannot be imported is logged and       *)
(* skipped.  container.py binds a class to those of its parameters that    *)
(* the container has by then.  Wiring imports the packages again, so that  *)
(* what was skipped there ends the start-up.  The lifespan of main.py then *)
(* opens the database, the socket manager, the tables and the broker, and  *)
(* closes them in another order.                                           *)
(***************************************************************************)
EXTENDS Naturals, Sequences

CONSTANTS Infrastructure,  \* what load_infrastructure registers
          Layer,           \* the modules of each directory, in the order of loading
          Params,          \* the constructor parameters of each
          Wired,           \* the modules of the packages that are wired
          MayBreak,        \* the sets of modules that may fail to import
          MayLack,         \* those that may lack the class named after the file
          Consumer         \* the consumers that the lifespan starts

Module == UNION {Layer[i] : i \in DOMAIN Layer}
Name == Infrastructure \union Module

ASSUME LayerAssumption == Layer \in Seq(SUBSET Name) /\ Layer # <<>>
ASSUME ParamsAssumption == Params \in [Module -> SUBSET Name]
ASSUME BrokenAssumption ==
  Wired \subseteq Module /\ MayBreak \subseteq SUBSET Module /\ MayLack \subseteq SUBSET Module
\* Repositories take infrastructure, services repositories and utilities, mediators
\* services, controllers mediators: nothing takes what a later directory has.
ASSUME LayeredAssumption ==
  /\ Infrastructure \intersect Module = {}
  /\ \A i \in DOMAIN Layer : \A j \in i .. Len(Layer) : \A m \in Layer[i] :
       Params[m] \intersect Layer[j] = {}

Up == {"loading", "created", "database", "manager", "tables"}
Open == {"serving", "stopping", "draining", "unsubscribed"}
Stage == Up \union Open \union {"stopped", "aborted"}

VARIABLES
  stage,     \* how far the start-up or the shutdown has come
  layer,     \* the directory being loaded, 0 before the infrastructure
  unread,    \* its files not yet loaded
  loaded,    \* Container: the names registered
  bound,     \* the parameters each registered class was bound to
  broken,    \* the modules that fail to import
  classless, \* the modules that import and lack their class
  starting,  \* the consumers whose task has been created and not finished
  consuming  \* the consumers that receive deliveries

loadVars == <<layer, unread, loaded, bound, broken, classless>>
consumerVars == <<starting, consuming>>
startupVars == <<stage, loadVars, consumerVars>>

StartupTypeOK ==
  /\ stage \in Stage
  /\ layer \in 0 .. Len(Layer)
  /\ unread \subseteq Module
  /\ loaded \subseteq Name
  /\ bound \in [Module -> SUBSET Name]
  /\ broken \subseteq Module /\ classless \subseteq Module
  /\ starting \subseteq Consumer /\ consuming \subseteq Consumer

StartupInit ==
  /\ stage = "loading" /\ layer = 0
  /\ unread = {} /\ loaded = {}
  /\ bound = [m \in Module |-> {}]
  /\ broken \in MayBreak /\ classless \in MayLack
  /\ starting = {} /\ consuming = {}

-----------------------------------------------------------------------------
(* load_all_dependencies                                                    *)

LoadInfrastructure ==
  /\ stage = "loading" /\ layer = 0
  /\ loaded' = Infrastructure
  /\ layer' = 1 /\ unread' = Layer[1]
  /\ UNCHANGED <<stage, bound, broken, classless, consumerVars>>

\* Container.register: the parameters that are there are bound.
Register(m) ==
  /\ loaded' = loaded \union {m}
  /\ bound' = [bound EXCEPT ![m] = Params[m] \intersect loaded]

\* load_factory_modules and load_modules_from_directory, one file of a listing:
\* what cannot be imported, or has no class of its name, is logged and skipped.
LoadFile(m) ==
  /\ stage = "loading" /\ m \in unread
  /\ unread' = unread \ {m}
  /\ IF m \in broken \union classless THEN UNCHANGED <<loaded, bound>> ELSE Register(m)
  /\ UNCHANGED <<stage, layer, broken, classless, consumerVars>>

\* Mutant: the directories are loaded in one pass.
NextWithAll ==
  /\ stage = "loading" /\ layer = 1
  /\ layer' = Len(Layer)
  /\ unread' = Module \ loaded
  /\ UNCHANGED <<stage, loaded, bound, broken, classless, consumerVars>>

NextDirectory ==
  /\ stage = "loading" /\ layer \in 1 .. Len(Layer) - 1 /\ unread = {}
  /\ layer' = layer + 1 /\ unread' = Layer[layer + 1]
  /\ UNCHANGED <<stage, loaded, bound, broken, classless, consumerVars>>

\* Mutant: wiring skips what cannot be imported, as loading does.
WireLoaded ==
  /\ stage = "loading" /\ layer = Len(Layer) /\ unread = {}
  /\ stage' = "created"
  /\ UNCHANGED <<loadVars, consumerVars>>

Wire ==
  /\ stage = "loading" /\ layer = Len(Layer) /\ unread = {}
  /\ stage' = IF Wired \intersect broken = {} THEN "created" ELSE "aborted"
  /\ UNCHANGED <<loadVars, consumerVars>>

-----------------------------------------------------------------------------
(* lifespan                                                                 *)

Pass(from, to) == stage = from /\ stage' = to

\* manager.start, initialize_models.
StartManager == Pass("database", "manager") /\ UNCHANGED <<loadVars, consumerVars>>
CreateTables == Pass("manager", "tables") /\ UNCHANGED <<loadVars, consumerVars>>

\* RabbitMQClient.connect; then the two tasks are created and never looked at.
OpenBroker ==
  /\ Pass("tables", "serving")
  /\ starting' = Consumer
  /\ UNCHANGED <<loadVars, consuming>>

\* An exception before "startup complete" ends the process.
AbortStartup ==
  /\ stage \in Up /\ stage' = "aborted"
  /\ UNCHANGED <<loadVars, consumerVars>>

\* start_ai_message_consumer and start_knowledge_consumer: a consumer that
\* cannot be declared is gone, and the process serves without it.
StartConsumer(q) ==
  /\ q \in starting
  /\ starting' = starting \ {q}
  /\ \/ stage \in {"serving", "stopping", "draining"} /\ consuming' = consuming \union {q}
     \/ UNCHANGED consuming
  /\ UNCHANGED <<stage, loadVars>>

\* The server is told to stop; when its requests are answered, manager.stop.
AskToStop == Pass("serving", "stopping") /\ UNCHANGED <<loadVars, consumerVars>>
Drain == Pass("stopping", "draining") /\ UNCHANGED <<loadVars, consumerVars>>

\* RabbitMQClient.disconnect swallows its errors.
CloseBroker ==
  /\ Pass("draining", "unsubscribed")
  /\ consuming' = {}
  /\ UNCHANGED <<loadVars, starting>>

-----------------------------------------------------------------------------
(* Whatever the order of the listings, a class is bound to every parameter  *)
(* of its that the container has in the end, and to the same ones: nothing  *)
(* is loaded before what it needs (load_all_dependencies, 296-310).         *)
BoundInAnyOrder ==
  stage \notin {"loading", "aborted"} =>
    \A m \in Module \intersect loaded : bound[m] = Params[m] \intersect loaded

(* A module that could not be imported is never missed by a request: the    *)
(* process that opens the database lacks nothing of the wired packages but  *)
(* what has no class to register, which wiring does not notice (loader.py,  *)
(* 92-99, 313-322).                                                         *)
NothingMissing ==
  stage \notin {"loading", "aborted"} => Wired \ loaded \subseteq classless
=============================================================================
