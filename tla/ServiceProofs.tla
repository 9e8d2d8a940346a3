---------------------------- MODULE ServiceProofs ----------------------------
(***************************************************************************)
(* What holds of the running process for every layout of its modules, all  *)
(* tasks and their visits to the database, and pools of any capacity.      *)
(***************************************************************************)
EXTENDS Service, FiniteSetTheorems, SequenceTheorems, TLAPS

(* What the first n directories have.                                       *)
UpTo(n) == UNION {Layer[i] : i \in 1 .. n}

(* Loading: the container has what the directories read so far offer and can*)
(* be imported, each class bound to all its parameters that are there.      *)
LoadInv ==
  /\ layer = 0 => loaded = {} /\ unread = {} /\ stage \in {"loading", "aborted"}
  /\ layer > 0 => unread \subseteq Layer[layer]
  /\ loaded \subseteq Infrastructure \union UpTo(layer)
  /\ UpTo(layer) \ (broken \union classless \union unread) \subseteq loaded
  /\ \A m \in Module \intersect loaded : bound[m] = Params[m] \intersect loaded
  /\ NothingMissing

(* Consumers exist only while the broker is open.                           *)
ConsumersInv ==
  /\ stage \in Up \union {"aborted"} => starting = {} /\ consuming = {}
  /\ stage \in {"unsubscribed", "stopped"} => consuming = {}

(* Until the process serves nobody has a session.                           *)
QuietInv ==
  stage \in Up \union {"aborted"} =>
    /\ \A t \in Task : step[t] = "idle"
    /\ \A r \in Request : way[r] = "none"
    /\ kept = {} /\ out = [p \in Pool |-> 0] /\ garbage = [p \in Pool |-> 0]

OpenedInv == stage \in Open \union {"database", "manager", "tables"} => connected

(* A request is in the server while it may be, and works at its handler.    *)
PlaceInv ==
  \A r \in Request :
    /\ way[r] # "none" => stage \in {"serving", "stopping"}
    /\ step[r] # "idle" => way[r] = "in" /\ depth[r] = Len(Middleware)

(* Retrieval is for keepers, once, and what it keeps goes with the task.    *)
Retrieves(t) == \E i \in DOMAIN todo[t] : todo[t][i] = "retrieve"

KeepersInv ==
  \A t \in Task :
    /\ Retrieves(t) => t \in Keepers /\ t \notin kept
    /\ \A i, j \in DOMAIN todo[t] : todo[t][i] = "retrieve" /\ todo[t][j] = "retrieve" => i = j
    /\ t \in kept => step[t] # "idle"
    /\ step[t] \in {"wait", "run"} => todo[t] # <<>>

(* The stamps of the middlewares from the inside out to the one after d.    *)
StampsAfter(d) == UNION {Stamp[Middleware[i]] : i \in d + 1 .. Len(Middleware)}

(* A response has the stamps of what it has passed; an exception that passes*)
(* and what the outside makes of it come of what no handler knows.          *)
StampInv ==
  \A r \in Request :
    way[r] = "out" =>
      \/ answer[r] = Raised /\ result[r] = "unknown"
      \/ answer[r].status \in Status /\ answer[r].stamps = StampsAfter(depth[r])
         /\ result[r] # "unknown"
      \/ depth[r] = 0 /\ answer[r] = Reply("internal") /\ result[r] = "unknown"

-----------------------------------------------------------------------------
(* Loading                                                                  *)

LEMMA LayerFacts ==
  /\ Len(Layer) \in Nat \ {0} /\ DOMAIN Layer = 1 .. Len(Layer)
  /\ \A i \in 1 .. Len(Layer) : Layer[i] \subseteq Module
  /\ \A m \in Module : Params[m] \subseteq Name
  /\ UpTo(Len(Layer)) = Module /\ UpTo(0) = {} /\ UpTo(1) = Layer[1]
  /\ \A n \in 1 .. Len(Layer) - 1 : UpTo(n + 1) = UpTo(n) \union Layer[n + 1]
  /\ \A n \in 0 .. Len(Layer) : UpTo(n) \subseteq Module
<1>1. Len(Layer) \in Nat \ {0} /\ DOMAIN Layer = 1 .. Len(Layer)
  BY LayerAssumption, EmptySeq
<1>2. UpTo(Len(Layer)) = Module
  BY <1>1 DEF UpTo, Module
<1>3. \A i \in 1 .. Len(Layer) : Layer[i] \subseteq Module
  BY <1>1 DEF Module
<1>4. UpTo(0) = {} /\ UpTo(1) = Layer[1]
  BY <1>1 DEF UpTo
<1>5. ASSUME NEW n \in 1 .. Len(Layer) - 1
      PROVE  UpTo(n + 1) = UpTo(n) \union Layer[n + 1]
  <2>1. 1 .. n + 1 = 1 .. n \union {n + 1}
    BY <1>1
  <2> QED
    BY <2>1, Zenon DEF UpTo
<1>6. \A n \in 0 .. Len(Layer) : UpTo(n) \subseteq Module
  BY <1>1 DEF UpTo, Module
<1>7. \A m \in Module : Params[m] \subseteq Name
  BY ParamsAssumption
<1> QED
  BY <1>1, <1>2, <1>3, <1>4, <1>5, <1>6, <1>7

LEMMA LoadInit == StartupInit => StartupTypeOK /\ LoadInv
<1>1. StartupInit => StartupTypeOK
  BY LayerFacts, BrokenAssumption DEF StartupInit, StartupTypeOK, Stage, Up
<1> QED
  BY <1>1, LayerFacts DEF StartupInit, LoadInv, NothingMissing

LEMMA LoadFileStep ==
  ASSUME StartupTypeOK, LoadInv, NEW m \in Module, LoadFile(m)
  PROVE  LoadInv'
<1> USE LayerFacts
<1>1. stage = "loading" /\ m \in unread /\ layer \in 1 .. Len(Layer) /\ m \in Layer[layer]
  BY DEF LoadFile, LoadInv, StartupTypeOK
<1>2. m \in UpTo(layer)
  BY <1>1 DEF UpTo
<1>3. CASE m \in broken \union classless
  BY <1>1, <1>3 DEF LoadFile, LoadInv, NothingMissing
<1>4. CASE m \notin broken \union classless
  <2>1. /\ loaded' = loaded \union {m}
        /\ bound' = [bound EXCEPT ![m] = Params[m] \intersect loaded]
        /\ unread' = unread \ {m} /\ UNCHANGED <<stage, layer, broken, classless>>
    BY <1>4 DEF LoadFile, Register
  <2>2. m \notin Params[m]
    BY <1>1, LayeredAssumption
  <2>3. ASSUME NEW k \in Module \intersect loaded
        PROVE  m \notin Params[k]
    <3>1. k \in UpTo(layer)
      BY LayeredAssumption DEF LoadInv
    <3>2. PICK i \in 1 .. layer : k \in Layer[i]
      BY <3>1 DEF UpTo
    <3> QED
      BY <1>1, <3>2, LayeredAssumption
  <2>4. \A k \in Module \intersect loaded' : bound'[k] = Params[k] \intersect loaded'
    BY <2>1, <2>2, <2>3 DEF LoadInv, StartupTypeOK
  <2>5. loaded' \subseteq Infrastructure \union UpTo(layer)
    BY <1>2, <2>1 DEF LoadInv
  <2>6. UpTo(layer) \ (broken \union classless \union unread') \subseteq loaded'
    BY <2>1 DEF LoadInv
  <2>7. unread' \subseteq Layer[layer]
    BY <1>1, <2>1 DEF LoadInv
  <2> QED
    BY <1>1, <2>1, <2>4, <2>5, <2>6, <2>7 DEF LoadInv, NothingMissing
<1> QED
  BY <1>3, <1>4

LEMMA LoadStep ==
  ASSUME StartupTypeOK, LoadInv, LoadInfrastructure \/ NextDirectory \/ Wire
  PROVE  LoadInv'
<1> USE LayerFacts
<1>1. CASE LoadInfrastructure
  <2>1. \A k \in Module : k \notin loaded'
    BY <1>1, LayeredAssumption DEF LoadInfrastructure
  <2> QED
    BY <1>1, <2>1 DEF LoadInfrastructure, LoadInv, NothingMissing
<1>2. CASE NextDirectory
  <2>1. /\ layer \in 1 .. Len(Layer) - 1 /\ layer' = layer + 1 /\ unread = {}
        /\ unread' = Layer[layer + 1] /\ stage = "loading"
        /\ UNCHANGED <<stage, loaded, bound, broken, classless>>
    BY <1>2 DEF NextDirectory
  <2>2. UpTo(layer') = UpTo(layer) \union Layer[layer + 1]
    BY <2>1
  <2> QED
    BY <2>1, <2>2 DEF LoadInv, NothingMissing
<1>3. CASE Wire
  <2>1. UpTo(layer) = Module /\ unread = {}
    BY <1>3 DEF Wire
  <2> QED
    BY <1>3, <2>1, BrokenAssumption DEF Wire, LoadInv, NothingMissing, loadVars
<1> QED
  BY <1>1, <1>2, <1>3

(* Later steps leave what was loaded.                                       *)
LEMMA LoadedStays ==
  ASSUME LoadInv, UNCHANGED loadVars,
         stage \in {"loading", "aborted"} => stage' \in {"loading", "aborted"}
  PROVE  LoadInv'
  BY DEF LoadInv, NothingMissing, loadVars

(* What has type and order of the lifespan.                                 *)
LEMMA StartupTypeStep ==
  ASSUME StartupTypeOK, LoadInv, [Next]_vars
  PROVE  StartupTypeOK'
<1> USE LayerFacts DEF Stage, Up, Open
<1>1. CASE LoadInfrastructure \/ NextDirectory \/ Wire
  <2>1. CASE LoadInfrastructure
    BY <2>1 DEF LoadInfrastructure, StartupTypeOK, consumerVars, Name
  <2>2. CASE NextDirectory
    BY <2>2 DEF NextDirectory, StartupTypeOK, consumerVars
  <2>3. CASE Wire
    BY <2>3 DEF Wire, StartupTypeOK, loadVars, consumerVars
  <2> QED
    BY <1>1, <2>1, <2>2, <2>3
<1>2. ASSUME NEW m \in Module, LoadFile(m) PROVE StartupTypeOK'
  BY <1>2 DEF LoadFile, Register, StartupTypeOK, consumerVars, Name
<1>3. CASE OpenDatabase \/ CloseDatabase \/ StopServing \/ StartManager \/ CreateTables
           \/ OpenBroker \/ CloseBroker \/ AskToStop \/ AbortStartup
  BY <1>3 DEF OpenDatabase, CloseDatabase, StopServing, Drain, StartManager, CreateTables,
     OpenBroker, CloseBroker, AskToStop, AbortStartup, Pass, StartupTypeOK, loadVars,
     consumerVars
<1>4. ASSUME NEW q \in Consumer, StartConsumer(q) PROVE StartupTypeOK'
  BY <1>4 DEF StartConsumer, StartupTypeOK, loadVars
<1>5. CASE UNCHANGED startupVars
  BY <1>5 DEF startupVars, loadVars, consumerVars, StartupTypeOK
<1>6. ASSUME NEW r \in Request, Accept(r) \/ ServeRequest(r) PROVE UNCHANGED startupVars
  BY <1>6 DEF Accept, ServeRequest, Enter, Handle, Refuse, Answer, Leave, GlobalHandler, Send
<1>7. ASSUME NEW t \in Task, WorkOn(t) \/ Receive(t) \/ Cancel(t) PROVE UNCHANGED startupVars
  BY <1>7 DEF WorkOn, Receive, Cancel
<1> QED
  BY <1>1, <1>2, <1>3, <1>4, <1>5, <1>6, <1>7 DEF Next, Lifespan, ConnectionLost, vars

-----------------------------------------------------------------------------
(* Sessions                                                                 *)

(* The connections of p that the task t accounts for.                       *)
Own(t, p) ==
  (IF t \in Running(p) THEN 1 ELSE 0) + (IF t \in Keeping(p) THEN 1 ELSE 0)

(* What one task does to the sessions: nothing to those of others, and what *)
(* it takes or leaves of a pool it or the collector accounts for.           *)
TaskStep(t) ==
  /\ UNCHANGED databaseVars
  /\ step' \in [Task -> {"idle", "next", "wait", "run"}]
  /\ todo' \in [Task -> Seq(Visit)]
  /\ result' \in [Request -> Result]
  /\ \A u \in Task \ {t} : step'[u] = step[u] /\ todo'[u] = todo[u] /\ (u \in kept' <=> u \in kept)
  /\ \A r \in Request \ {t} : result'[r] = result[r]
  /\ kept' \subseteq Task
  /\ out' \in [Pool -> Int] /\ garbage' \in [Pool -> Nat]
  /\ \A p \in Pool : /\ out'[p] <= Capacity
                     /\ out'[p] - garbage'[p] - Own(t, p)' = out[p] - garbage[p] - Own(t, p)

(* What is said of one task by KeepersInv and SessionTypeOK.                *)
TaskOK(t) ==
  /\ step[t] = "idle" => todo[t] = <<>>
  /\ Retrieves(t) => t \in Keepers /\ t \notin kept
  /\ \A i, j \in DOMAIN todo[t] : todo[t][i] = "retrieve" /\ todo[t][j] = "retrieve" => i = j
  /\ t \in kept => step[t] # "idle" /\ t \in Keepers
  /\ step[t] \in {"wait", "run"} => todo[t] # <<>>

LEMMA PoolFacts ==
  /\ Capacity \in Nat /\ IsFiniteSet(Task)
  /\ "master" \in Pool /\ "replica" \in Pool
  BY CapacityAssumption, FiniteAssumption DEF Pool

LEMMA CountsFinite ==
  ASSUME SessionTypeOK, NEW p \in Pool
  PROVE  /\ IsFiniteSet(Running(p)) /\ Cardinality(Running(p)) \in Nat
         /\ IsFiniteSet(Keeping(p)) /\ Cardinality(Keeping(p)) \in Nat
<1>1. Running(p) \in SUBSET Task /\ Keeping(p) \in SUBSET Task
  BY DEF Running, Keeping, SessionTypeOK, Keepers
<1> QED
  BY <1>1, PoolFacts, FS_Subset, FS_CardinalityType

(* A set that differs from another in t only.                               *)
LEMMA CountOne ==
  ASSUME NEW S, NEW T, NEW t, IsFiniteSet(S), IsFiniteSet(T), S \ {t} = T \ {t}
  PROVE  Cardinality(T) - (IF t \in T THEN 1 ELSE 0) = Cardinality(S) - (IF t \in S THEN 1 ELSE 0)
<1>1. Cardinality(S) \in Nat /\ Cardinality(T) \in Nat
  BY FS_CardinalityType
<1>2. Cardinality(S \ {t}) = IF t \in S THEN Cardinality(S) - 1 ELSE Cardinality(S)
  BY FS_RemoveElement
<1>3. Cardinality(T \ {t}) = IF t \in T THEN Cardinality(T) - 1 ELSE Cardinality(T)
  BY FS_RemoveElement
<1> QED
  BY <1>1, <1>2, <1>3

LEMMA TaskAccounted ==
  ASSUME SessionTypeOK, ConnectionsAccounted, NEW t \in Task, TaskStep(t)
  PROVE  ConnectionsAccounted'
<1> SUFFICES ASSUME NEW p \in Pool
             PROVE  out'[p] = Cardinality(Running(p)') + Cardinality(Keeping(p)') + garbage'[p]
  BY DEF ConnectionsAccounted
<1>1. /\ Running(p)' \ {t} = Running(p) \ {t}
      /\ Keeping(p)' \ {t} = Keeping(p) \ {t}
  BY DEF TaskStep, Running, Keeping, Wants, PoolOf, databaseVars, SessionTypeOK, Keepers
<1>2. /\ Running(p)' \in SUBSET Task /\ Keeping(p)' \in SUBSET Task
  BY DEF TaskStep, Running, Keeping
<1>3. IsFiniteSet(Running(p)') /\ IsFiniteSet(Keeping(p)')
      /\ Cardinality(Running(p)') \in Nat /\ Cardinality(Keeping(p)') \in Nat
  BY <1>2, PoolFacts, FS_Subset, FS_CardinalityType
<1>4. /\ Cardinality(Running(p)') - (IF t \in Running(p)' THEN 1 ELSE 0)
           = Cardinality(Running(p)) - (IF t \in Running(p) THEN 1 ELSE 0)
      /\ Cardinality(Keeping(p)') - (IF t \in Keeping(p)' THEN 1 ELSE 0)
           = Cardinality(Keeping(p)) - (IF t \in Keeping(p) THEN 1 ELSE 0)
  BY <1>1, <1>3, CountsFinite, CountOne
<1>5. out'[p] - garbage'[p] - Own(t, p)' = out[p] - garbage[p] - Own(t, p)
  BY DEF TaskStep
<1>6. out[p] = Cardinality(Running(p)) + Cardinality(Keeping(p)) + garbage[p]
  BY DEF ConnectionsAccounted
<1>7. out[p] \in Nat /\ garbage[p] \in Nat /\ out'[p] \in Int /\ garbage'[p] \in Nat
  BY PoolFacts DEF SessionTypeOK, TaskStep
<1>8. Own(t, p)' = (IF t \in Running(p)' THEN 1 ELSE 0) + (IF t \in Keeping(p)' THEN 1 ELSE 0)
  BY DEF Own
<1> DEFINE R == Cardinality(Running(p))
           K == Cardinality(Keeping(p))
           S == Cardinality(Running(p)')
           L == Cardinality(Keeping(p)')
<1>9. R \in Nat /\ K \in Nat /\ S \in Nat /\ L \in Nat
  BY <1>3, CountsFinite
<1> HIDE DEF R, K, S, L
<1> QED
  BY <1>4, <1>5, <1>6, <1>7, <1>8, <1>9 DEF Own, R, K, S, L

LEMMA TaskTyped ==
  ASSUME SessionTypeOK, KeepersInv, ConnectionsAccounted, NEW t \in Task, TaskStep(t), TaskOK(t)'
  PROVE  SessionTypeOK' /\ KeepersInv' /\ ConnectionsAccounted'
<1>1. ConnectionsAccounted'
  BY TaskAccounted
<1>2. KeepersInv' /\ kept' \subseteq Keepers /\ \A u \in Task : step'[u] = "idle" => todo'[u] = <<>>
  BY DEF KeepersInv, TaskStep, TaskOK, Retrieves, SessionTypeOK
<1>3. \A p \in Pool : Cardinality(Running(p)') \in Nat /\ Cardinality(Keeping(p)') \in Nat
  BY PoolFacts, FS_Subset, FS_CardinalityType DEF TaskStep, Running, Keeping
<1>4. ASSUME NEW p \in Pool PROVE out'[p] \in 0 .. Capacity /\ garbage'[p] \in 0 .. Capacity
  <2>1. out'[p] = Cardinality(Running(p)') + Cardinality(Keeping(p)') + garbage'[p]
    BY <1>1 DEF ConnectionsAccounted
  <2>2. out'[p] \in Int /\ garbage'[p] \in Nat /\ out'[p] <= Capacity
    BY DEF TaskStep
  <2> QED
    BY <1>3, <2>1, <2>2, PoolFacts
<1> QED
  BY <1>1, <1>2, <1>4 DEF SessionTypeOK, TaskStep, databaseVars

LEMMA SetResultTyped ==
  ASSUME SessionTypeOK, NEW t \in Task, NEW x \in Result, SetResult(t, x)
  PROVE  /\ result' \in [Request -> Result]
         /\ \A r \in Request \ {t} : result'[r] = result[r]
         /\ t \in Request => result'[t] = x
  BY DEF SetResult, SessionTypeOK

LEMMA ResultKept ==
  ASSUME SessionTypeOK, UNCHANGED result
  PROVE  result' \in [Request -> Result] /\ \A r \in Request : result'[r] = result[r]
  BY DEF SessionTypeOK

(* What the task accounts for, by what it does.                             *)
LEMMA OwnFacts ==
  ASSUME SessionTypeOK, KeepersInv, NEW t \in Task, NEW p \in Pool
  PROVE  Own(t, p) = (IF step[t] = "run" /\ PoolOf(Head(todo[t])) = p THEN 1 ELSE 0)
                     + (IF t \in kept /\ p = readFrom THEN 1 ELSE 0)
  BY DEF Own, Running, Wants, Keeping, KeepersInv

LEMMA EndStep ==
  ASSUME SessionTypeOK, KeepersInv, NEW t \in Task, NEW x \in Result, NEW p \in Pool,
         NEW back \in {0, 1}, End(t, x, p, back),
         back = (IF step[t] = "run" THEN 1 ELSE 0),
         step[t] = "run" => p = PoolOf(Head(todo[t]))
  PROVE  TaskStep(t) /\ TaskOK(t)'
<1>1. /\ UNCHANGED databaseVars
      /\ step' = [step EXCEPT ![t] = "idle"] /\ todo' = [todo EXCEPT ![t] = <<>>]
      /\ SetResult(t, x) /\ kept' = kept \ {t}
  BY DEF End
<1>2. step'[t] = "idle" /\ todo'[t] = <<>> /\ todo' \in [Task -> Seq(Visit)]
      /\ step' \in [Task -> {"idle", "next", "wait", "run"}]
  <2>1. <<>> \in Seq(Visit)
    BY EmptySeq
  <2> QED
    BY <1>1, <2>1 DEF SessionTypeOK
<1>3. TaskOK(t)'
  BY <1>1, <1>2 DEF TaskOK, Retrieves
<1>4. out' \in [Pool -> Int] /\ garbage' \in [Pool -> Nat]
  BY PoolFacts DEF End, SessionTypeOK
<1>5. ASSUME NEW q \in Pool
      PROVE  /\ out'[q] <= Capacity
             /\ out'[q] - garbage'[q] - Own(t, q)' = out[q] - garbage[q] - Own(t, q)
  <2>1. Own(t, q)' = 0
    BY <1>1, <1>2 DEF Own, Running, Keeping
  <2>2. /\ out'[q] = out[q] - (IF q = p THEN back ELSE 0)
        /\ garbage'[q] = garbage[q] + (IF q = readFrom /\ t \in kept THEN 1 ELSE 0)
    BY DEF End, SessionTypeOK
  <2>3. out[q] \in 0 .. Capacity /\ garbage[q] \in 0 .. Capacity
    BY DEF SessionTypeOK
  <2> QED
    BY <2>1, <2>2, <2>3, OwnFacts, PoolFacts
<1> QED
  BY <1>1, <1>2, <1>3, <1>4, <1>5, SetResultTyped DEF TaskStep, SessionTypeOK, Keepers

(* A step of one task in which what it accounts for changes with the pools. *)
LEMMA PlainStep ==
  ASSUME SessionTypeOK, KeepersInv, NEW t \in Task, UNCHANGED databaseVars,
         step' \in [Task -> {"idle", "next", "wait", "run"}], todo' \in [Task -> Seq(Visit)],
         \A u \in Task \ {t} : step'[u] = step[u] /\ todo'[u] = todo[u],
         result' \in [Request -> Result],
         \A r \in Request \ {t} : result'[r] = result[r],
         kept' \in {kept, kept \union {t}},
         out' \in [Pool -> Int], garbage' \in [Pool -> Nat],
         \A p \in Pool : out'[p] <= Capacity,
         \A p \in Pool :
           out'[p] - garbage'[p]
             - (IF step'[t] = "run" /\ todo'[t] # <<>> /\ PoolOf(Head(todo'[t])) = p
                THEN 1 ELSE 0)
             - (IF t \in kept' /\ p = readFrom THEN 1 ELSE 0)
           = out[p] - garbage[p] - Own(t, p)
  PROVE  TaskStep(t)
<1>3. \A u \in Task \ {t} : u \in kept' <=> u \in kept
  OBVIOUS
<1>4. kept' \subseteq Task
  BY DEF SessionTypeOK, Keepers
<1>5. ASSUME NEW p \in Pool
      PROVE  out'[p] - garbage'[p] - Own(t, p)' = out[p] - garbage[p] - Own(t, p)
  <2> DEFINE run == step'[t] = "run" /\ todo'[t] # <<>> /\ PoolOf(Head(todo'[t])) = p
             keep == t \in kept' /\ p = readFrom
  <2>1. out'[p] \in Int /\ garbage'[p] \in Nat
    OBVIOUS
  <2>2. Own(t, p)' = (IF run THEN 1 ELSE 0) + (IF keep THEN 1 ELSE 0)
    BY DEF Own, Running, Wants, Keeping, PoolOf, databaseVars
  <2>3. out'[p] - garbage'[p] - (IF run THEN 1 ELSE 0) - (IF keep THEN 1 ELSE 0)
          = out[p] - garbage[p] - Own(t, p)
    OBVIOUS
  <2> HIDE DEF run, keep
  <2> QED
    BY <2>1, <2>2, <2>3
<1> QED
  BY <1>3, <1>4, <1>5 DEF TaskStep

LEMMA ListFacts ==
  ASSUME SessionTypeOK, NEW t \in Task, todo[t] # <<>>
  PROVE  /\ todo[t] \in Seq(Visit) /\ Head(todo[t]) = todo[t][1] /\ Head(todo[t]) \in Visit
         /\ 1 \in DOMAIN todo[t]
         /\ Tail(todo[t]) \in Seq(Visit)
         /\ \A i \in DOMAIN Tail(todo[t]) :
              i \in Nat \ {0} /\ i + 1 \in DOMAIN todo[t] /\ Tail(todo[t])[i] = todo[t][i + 1]
<1>1. todo[t] \in Seq(Visit)
  BY DEF SessionTypeOK
<1>2. Len(todo[t]) \in Nat \ {0} /\ DOMAIN todo[t] = 1 .. Len(todo[t])
  BY <1>1, EmptySeq
<1> QED
  BY <1>1, <1>2, HeadTailProperties

LEMMA PoolOfTyped ==
  ASSUME SessionTypeOK, NEW v \in Visit
  PROVE  PoolOf(v) \in Pool
  BY DEF PoolOf, SessionTypeOK, Pool

LEMMA BeginStep ==
  ASSUME SessionTypeOK, KeepersInv, NEW t \in Task, NEW s \in Script[t], Begin(t, s)
  PROVE  TaskStep(t) /\ TaskOK(t)'
<1>1. s \in Seq(Visit)
  BY ScriptAssumption
<1>2. /\ step[t] = "idle" /\ UNCHANGED <<databaseVars, out, garbage, kept>>
      /\ step' = [step EXCEPT ![t] = "next"] /\ todo' = [todo EXCEPT ![t] = s]
      /\ SetResult(t, "none")
  BY DEF Begin, poolVars, databaseVars
<1>3. \A p \in Pool : Own(t, p) = 0 /\ t \notin kept
  BY <1>2, OwnFacts DEF KeepersInv
<1>4. out' \in [Pool -> Int] /\ garbage' \in [Pool -> Nat] /\ \A p \in Pool : out'[p] <= Capacity
  BY <1>2, PoolFacts DEF SessionTypeOK
<1>5. "none" \in Result
  BY DEF Result
<1>a. /\ step'[t] = "next" /\ todo'[t] = s
      /\ step' \in [Task -> {"idle", "next", "wait", "run"}] /\ todo' \in [Task -> Seq(Visit)]
      /\ \A u \in Task \ {t} : step'[u] = step[u] /\ todo'[u] = todo[u]
  BY <1>1, <1>2 DEF SessionTypeOK
<1>6. ASSUME NEW p \in Pool
      PROVE  out'[p] - garbage'[p]
               - (IF step'[t] = "run" /\ todo'[t] # <<>> /\ PoolOf(Head(todo'[t])) = p
                  THEN 1 ELSE 0)
               - (IF t \in kept' /\ p = readFrom THEN 1 ELSE 0)
             = out[p] - garbage[p] - Own(t, p)
  <2>1. out[p] \in Int /\ garbage[p] \in Int
    BY PoolFacts DEF SessionTypeOK
  <2> QED
    BY <1>2, <1>3, <1>a, <2>1
<1>7. TaskStep(t)
  BY <1>2, <1>4, <1>5, <1>6, <1>a, SetResultTyped, PlainStep
<1>8. TaskOK(t)'
  BY <1>2, <1>3, <1>a, ScriptAssumption, PoolFacts DEF TaskOK, Retrieves, Keepers
<1> QED
  BY <1>7, <1>8

LEMMA GetSessionStep ==
  ASSUME SessionTypeOK, KeepersInv, NEW t \in Task, GetSession(t)
  PROVE  TaskStep(t) /\ TaskOK(t)'
<1> DEFINE v == Head(todo[t])
<1>1. step[t] = "next" /\ todo[t] # <<>>
  BY DEF GetSession
<1>2. CASE End(t, "unknown", "master", 0)
  BY <1>1, <1>2, EndStep, PoolFacts DEF Result
<1>3. CASE ~ End(t, "unknown", "master", 0)
  <2>1. /\ UNCHANGED <<databaseVars, out, garbage, kept, result>>
        /\ \/ v = "open" /\ todo' = [todo EXCEPT ![t] = Tail(@)] /\ UNCHANGED step
           \/ v # "open" /\ step' = [step EXCEPT ![t] = "wait"] /\ UNCHANGED todo
    BY <1>3 DEF GetSession, poolVars, databaseVars
  <2>2. PICK s \in {"next", "wait"}, list \in {todo[t], Tail(todo[t])} :
          /\ step'[t] = s /\ todo'[t] = list
          /\ s = "wait" => list = todo[t]
    BY <1>1, <2>1 DEF SessionTypeOK
  <2>3. list \in Seq(Visit) /\ s # "run"
        /\ step' \in [Task -> {"idle", "next", "wait", "run"}] /\ todo' \in [Task -> Seq(Visit)]
        /\ \A u \in Task \ {t} : step'[u] = step[u] /\ todo'[u] = todo[u]
    BY <1>1, <2>1, <2>2, ListFacts DEF SessionTypeOK
  <2>4. out' \in [Pool -> Int] /\ garbage' \in [Pool -> Nat]
        /\ \A p \in Pool : out'[p] <= Capacity
    BY <2>1, PoolFacts DEF SessionTypeOK
  <2>5. ASSUME NEW p \in Pool
        PROVE  out'[p] - garbage'[p]
                 - (IF step'[t] = "run" /\ todo'[t] # <<>> /\ PoolOf(Head(todo'[t])) = p
                    THEN 1 ELSE 0)
                 - (IF t \in kept' /\ p = readFrom THEN 1 ELSE 0)
               = out[p] - garbage[p] - Own(t, p)
    <3>1. out[p] \in Int /\ garbage[p] \in Int
      BY PoolFacts DEF SessionTypeOK
    <3> QED
      BY <1>1, <2>1, <2>2, <2>3, <3>1, OwnFacts
  <2>6. TaskStep(t)
    BY <2>1, <2>3, <2>4, <2>5, ResultKept, PlainStep
  <2>7. \A i \in DOMAIN list : \E k \in DOMAIN todo[t] :
          list[i] = todo[t][k] /\ k = (IF list = todo[t] THEN i ELSE i + 1)
    BY <1>1, <2>2, ListFacts
  <2>8. \A i \in DOMAIN list : i \in Int
    BY <2>3
  <2>9. TaskOK(t)'
    <3>1. kept' = kept /\ (s = "wait" => list # <<>>) /\ s # "idle"
      BY <1>1, <2>1, <2>2
    <3>2. \A i, j \in DOMAIN list : list[i] = "retrieve" /\ list[j] = "retrieve" => i = j
      BY <2>7, <2>8 DEF KeepersInv
    <3>3. Retrieves(t)' => Retrieves(t)
      BY <2>2, <2>7 DEF Retrieves
    <3>4. t \in kept => t \in Keepers
      BY DEF SessionTypeOK
    <3> QED
      BY <2>2, <2>3, <3>1, <3>2, <3>3, <3>4 DEF TaskOK, KeepersInv
  <2> QED
    BY <2>6, <2>9
<1> QED
  BY <1>2, <1>3

LEMMA CheckoutStep ==
  ASSUME SessionTypeOK, KeepersInv, NEW t \in Task, Checkout(t)
  PROVE  TaskStep(t) /\ TaskOK(t)'
<1> DEFINE q == PoolOf(Head(todo[t]))
<1>1. step[t] = "wait" /\ todo[t] # <<>> /\ UNCHANGED <<databaseVars, garbage, kept, result>>
      /\ out[q] < Capacity /\ out' = [out EXCEPT ![q] = @ + 1]
      /\ step' = [step EXCEPT ![t] = "run"] /\ todo' = todo
  BY DEF Checkout, KeepersInv
<1>2. q \in Pool /\ todo[t] \in Seq(Visit)
  BY <1>1, ListFacts, PoolOfTyped
<1>3. /\ step'[t] = "run" /\ todo'[t] = todo[t]
      /\ step' \in [Task -> {"idle", "next", "wait", "run"}] /\ todo' \in [Task -> Seq(Visit)]
      /\ \A u \in Task \ {t} : step'[u] = step[u] /\ todo'[u] = todo[u]
  BY <1>1 DEF SessionTypeOK
<1> HIDE DEF q
<1>4. out' \in [Pool -> Int] /\ garbage' \in [Pool -> Nat] /\ \A p \in Pool : out'[p] <= Capacity
  BY <1>1, <1>2, PoolFacts DEF SessionTypeOK
<1>5. ASSUME NEW p \in Pool
      PROVE  out'[p] - garbage'[p]
               - (IF step'[t] = "run" /\ todo'[t] # <<>> /\ PoolOf(Head(todo'[t])) = p
                  THEN 1 ELSE 0)
               - (IF t \in kept' /\ p = readFrom THEN 1 ELSE 0)
             = out[p] - garbage[p] - Own(t, p)
  <2>1. out[p] \in Int /\ garbage[p] \in Int
    BY PoolFacts DEF SessionTypeOK
  <2>2. Own(t, p) = IF t \in kept /\ p = readFrom THEN 1 ELSE 0
    BY <1>1, OwnFacts
  <2>3. out'[p] = out[p] + (IF p = q THEN 1 ELSE 0)
    BY <1>1, <1>2, <2>1 DEF SessionTypeOK
  <2> QED
    <3> DEFINE run == step'[t] = "run" /\ todo'[t] # <<>> /\ PoolOf(Head(todo'[t])) = p
               keep == t \in kept /\ p = readFrom
    <3>1. run <=> p = q
      BY <1>1, <1>3 DEF q
    <3>2. garbage'[p] = garbage[p] /\ kept' = kept
      BY <1>1
    <3> HIDE DEF run
    <3>3. out'[p] - garbage'[p] - (IF run THEN 1 ELSE 0) - (IF keep THEN 1 ELSE 0)
            = out[p] - garbage[p] - Own(t, p)
      BY <2>1, <2>2, <2>3, <3>1, <3>2
    <3> QED
      BY <3>2, <3>3 DEF run
<1>6. TaskStep(t)
  BY <1>1, <1>3, <1>4, <1>5, ResultKept, PlainStep
<1>7. TaskOK(t)'
  BY <1>1, <1>3 DEF TaskOK, KeepersInv, Retrieves, SessionTypeOK
<1> QED
  BY <1>6, <1>7

LEMMA ExecuteStep ==
  ASSUME SessionTypeOK, KeepersInv, NEW t \in Task, Execute(t)
  PROVE  TaskStep(t) /\ TaskOK(t)'
<1> DEFINE v == Head(todo[t])
           q == PoolOf(v)
<1>1. step[t] = "run" /\ todo[t] # <<>> /\ UNCHANGED <<databaseVars, garbage, result>>
      /\ step' = [step EXCEPT ![t] = "next"] /\ todo' = [todo EXCEPT ![t] = Tail(@)]
  BY DEF Execute, KeepersInv
<1>2. q \in Pool /\ v \in Visit
  BY <1>1, ListFacts, PoolOfTyped
<1>3. /\ step'[t] = "next" /\ todo'[t] = Tail(todo[t])
      /\ step' \in [Task -> {"idle", "next", "wait", "run"}] /\ todo' \in [Task -> Seq(Visit)]
      /\ \A u \in Task \ {t} : step'[u] = step[u] /\ todo'[u] = todo[u]
  BY <1>1, ListFacts DEF SessionTypeOK
<1>4. IF v = "retrieve" THEN kept' = kept \union {t} /\ out' = out
                        ELSE out' = [out EXCEPT ![q] = @ - 1] /\ kept' = kept
  BY DEF Execute
<1>5. v = "retrieve" => t \notin kept /\ q = readFrom /\ t \in Keepers
  BY <1>1, ListFacts DEF KeepersInv, Retrieves, PoolOf
<1>6. out' \in [Pool -> Int] /\ garbage' \in [Pool -> Nat] /\ \A p \in Pool : out'[p] <= Capacity
  <2>1. \A p \in Pool : out[p] \in Int /\ out[p] <= Capacity
    BY PoolFacts DEF SessionTypeOK
  <2>2. out' = out \/ out' = [out EXCEPT ![q] = @ - 1]
    BY <1>4
  <2> HIDE DEF q, v
  <2>3. out \in [Pool -> Int]
    BY PoolFacts DEF SessionTypeOK
  <2>4. ASSUME out' = [out EXCEPT ![q] = @ - 1]
        PROVE  out' \in [Pool -> Int] /\ \A p \in Pool : out'[p] <= Capacity
    <3>1. out' \in [Pool -> Int]
      BY <1>2, <2>3, <2>4
    <3>2. ASSUME NEW p \in Pool PROVE out'[p] <= Capacity
      <4>1. out'[p] = out[p] \/ out'[p] = out[p] - 1
        BY <2>3, <2>4
      <4> QED
        BY <2>1, <4>1, PoolFacts
    <3> QED
      BY <3>1, <3>2
  <2>5. out' \in [Pool -> Int] /\ \A p \in Pool : out'[p] <= Capacity
    BY <2>1, <2>2, <2>3, <2>4
  <2> QED
    BY <1>1, <2>5, PoolFacts DEF SessionTypeOK
<1>7. ASSUME NEW p \in Pool
      PROVE  out'[p] - garbage'[p]
               - (IF step'[t] = "run" /\ todo'[t] # <<>> /\ PoolOf(Head(todo'[t])) = p
                  THEN 1 ELSE 0)
               - (IF t \in kept' /\ p = readFrom THEN 1 ELSE 0)
             = out[p] - garbage[p] - Own(t, p)
  <2> DEFINE keep == t \in kept' /\ p = readFrom
             kept0 == t \in kept /\ p = readFrom
  <2>1. out[p] \in Int /\ garbage[p] \in Int /\ garbage'[p] = garbage[p]
    BY <1>1, PoolFacts DEF SessionTypeOK
  <2>2. Own(t, p) = (IF p = q THEN 1 ELSE 0) + (IF kept0 THEN 1 ELSE 0)
    BY <1>1, OwnFacts
  <2>3. out'[p] = out[p] - (IF p = q /\ v # "retrieve" THEN 1 ELSE 0)
    BY <1>2, <1>4, <2>1 DEF SessionTypeOK
  <2>4. IF v = "retrieve" THEN ~ kept0 /\ (keep <=> p = q) ELSE keep <=> kept0
    BY <1>4, <1>5
  <2> HIDE DEF q, v, kept0, keep
  <2>5. out'[p] - garbage'[p] - 0 - (IF keep THEN 1 ELSE 0) = out[p] - garbage[p] - Own(t, p)
    BY <2>1, <2>2, <2>3, <2>4
  <2> QED
    BY <1>3, <2>5 DEF keep
<1>8. TaskStep(t)
  <2>1. kept' \in {kept, kept \union {t}}
    BY <1>4
  <2> HIDE DEF q, v
  <2> QED
    BY <1>1, <1>3, <1>6, <1>7, <2>1, ResultKept, PlainStep
<1>9. TaskOK(t)'
  <2>1. \A i \in DOMAIN Tail(todo[t]) :
          i \in Nat \ {0} /\ i + 1 \in DOMAIN todo[t] /\ Tail(todo[t])[i] = todo[t][i + 1]
    BY <1>1, ListFacts
  <2>2. \A i, j \in DOMAIN Tail(todo[t]) :
          Tail(todo[t])[i] = "retrieve" /\ Tail(todo[t])[j] = "retrieve" => i = j
    BY <2>1 DEF KeepersInv
  <2>3. \A i \in DOMAIN Tail(todo[t]) : v = "retrieve" => Tail(todo[t])[i] # "retrieve"
    <3>1. v = todo[t][1] /\ 1 \in DOMAIN todo[t]
      BY <1>1, ListFacts
    <3> HIDE DEF v
    <3> SUFFICES ASSUME NEW i \in DOMAIN Tail(todo[t]), v = "retrieve",
                        Tail(todo[t])[i] = "retrieve"
                 PROVE  FALSE
      OBVIOUS
    <3>2. i \in Nat \ {0} /\ i + 1 \in DOMAIN todo[t] /\ todo[t][i + 1] = "retrieve"
      BY <2>1
    <3>3. i + 1 = 1
      BY <3>1, <3>2 DEF KeepersInv
    <3> QED
      BY <3>2, <3>3
  <2>4. Retrieves(t)' => Retrieves(t) /\ v # "retrieve"
    BY <1>3, <2>1, <2>3 DEF Retrieves
  <2>5. t \in kept' => t \in Keepers
    BY <1>4, <1>5 DEF SessionTypeOK
  <2>6. v # "retrieve" => kept' = kept
    BY <1>4
  <2> HIDE DEF v, q
  <2> QED
    BY <1>3, <2>2, <2>4, <2>5, <2>6 DEF TaskOK, KeepersInv
<1> QED
  BY <1>8, <1>9

LEMMA FailStatementStep ==
  ASSUME SessionTypeOK, KeepersInv, NEW t \in Task, FailStatement(t)
  PROVE  TaskStep(t) /\ TaskOK(t)'
<1> DEFINE v == Head(todo[t])
<1>1. step[t] = "run" /\ todo[t] # <<>> /\ v \in Visit /\ PoolOf(v) \in Pool
  BY ListFacts, PoolOfTyped DEF FailStatement, KeepersInv
<1>2. CASE v # "retrieve"
  BY <1>1, <1>2, EndStep DEF FailStatement, Result
<1>3. CASE v = "retrieve"
  <2>1. /\ UNCHANGED <<databaseVars, out, kept>>
        /\ garbage' = [garbage EXCEPT ![readFrom] = @ + 1]
        /\ step' = [step EXCEPT ![t] = "idle"] /\ todo' = [todo EXCEPT ![t] = <<>>]
        /\ SetResult(t, "database")
    BY <1>3 DEF FailStatement
  <2>2. /\ step'[t] = "idle" /\ todo'[t] = <<>>
        /\ step' \in [Task -> {"idle", "next", "wait", "run"}] /\ todo' \in [Task -> Seq(Visit)]
        /\ \A u \in Task \ {t} : step'[u] = step[u] /\ todo'[u] = todo[u]
    <3>1. <<>> \in Seq(Visit)
      BY EmptySeq
    <3> QED
      BY <2>1, <3>1 DEF SessionTypeOK
  <2>3. t \notin kept /\ PoolOf(v) = readFrom /\ readFrom \in Pool
    BY <1>1, <1>3, ListFacts DEF KeepersInv, Retrieves, PoolOf
  <2>4. out' \in [Pool -> Int] /\ garbage' \in [Pool -> Nat]
        /\ \A p \in Pool : out'[p] <= Capacity
    BY <2>1, <2>3, PoolFacts DEF SessionTypeOK
  <2>5. ASSUME NEW p \in Pool
        PROVE  out'[p] - garbage'[p]
                 - (IF step'[t] = "run" /\ todo'[t] # <<>> /\ PoolOf(Head(todo'[t])) = p
                    THEN 1 ELSE 0)
                 - (IF t \in kept' /\ p = readFrom THEN 1 ELSE 0)
               = out[p] - garbage[p] - Own(t, p)
    <3>1. out[p] \in Int /\ garbage[p] \in Int /\ out'[p] = out[p] /\ t \notin kept'
      BY <2>1, <2>3, PoolFacts DEF SessionTypeOK
    <3>2. Own(t, p) = IF p = readFrom THEN 1 ELSE 0
      BY <1>1, <2>3, OwnFacts
    <3>3. garbage'[p] = garbage[p] + (IF p = readFrom THEN 1 ELSE 0)
      BY <2>1, <3>1 DEF SessionTypeOK
    <3> QED
      BY <2>2, <3>1, <3>2, <3>3
  <2>6. TaskStep(t)
    BY <2>1, <2>2, <2>4, <2>5, SetResultTyped, PlainStep DEF Result
  <2>7. TaskOK(t)'
    BY <2>1, <2>2, <2>3 DEF TaskOK, Retrieves
  <2> QED
    BY <2>6, <2>7
<1> QED
  BY <1>2, <1>3

LEMMA WorkStep ==
  ASSUME SessionTypeOK, KeepersInv, NEW t \in Task, Work(t)
  PROVE  TaskStep(t) /\ TaskOK(t)'
<1>1. CASE FailCheckout(t)
  BY <1>1, EndStep, PoolFacts DEF FailCheckout, Result
<1>2. CASE Finish(t) \/ Raise(t)
  BY <1>2, EndStep, PoolFacts DEF Finish, Raise, Result
<1> QED
  BY <1>1, <1>2, GetSessionStep, CheckoutStep, ExecuteStep, FailStatementStep DEF Work

LEMMA CancelStep ==
  ASSUME SessionTypeOK, KeepersInv, NEW t \in Task, Cancel(t)
  PROVE  TaskStep(t) /\ TaskOK(t)'
<1>1. CASE FailStatement(t)
  BY <1>1, FailStatementStep
<1>2. CASE step[t] # "run" /\ End(t, "unknown", "master", 0)
  BY <1>2, EndStep, PoolFacts DEF Cancel, Result
<1>3. CASE step[t] = "run" /\ End(t, "unknown", PoolOf(Head(todo[t])), 1)
  <2>1. PoolOf(Head(todo[t])) \in Pool
    BY <1>3, ListFacts, PoolOfTyped DEF KeepersInv
  <2> QED
    BY <1>3, <2>1, EndStep DEF Result
<1> QED
  BY <1>1, <1>2, <1>3 DEF Cancel

LEMMA CollectStep ==
  ASSUME SessionTypeOK, KeepersInv, ConnectionsAccounted, NEW p \in Pool, Collect(p)
  PROVE  SessionTypeOK' /\ KeepersInv' /\ ConnectionsAccounted'
<1>1. UNCHANGED <<databaseVars, kept, step, todo, result>>
      /\ out' = [out EXCEPT ![p] = @ - garbage[p]] /\ garbage' = [garbage EXCEPT ![p] = 0]
  BY DEF Collect, taskVars
<1>2. ConnectionsAccounted'
  <2> SUFFICES ASSUME NEW q \in Pool
               PROVE  out'[q] = Cardinality(Running(q)') + Cardinality(Keeping(q)') + garbage'[q]
    BY DEF ConnectionsAccounted
  <2>1. Running(q)' = Running(q) /\ Keeping(q)' = Keeping(q)
    BY <1>1 DEF Running, Keeping, Wants, PoolOf, databaseVars
  <2>2. out[q] = Cardinality(Running(q)) + Cardinality(Keeping(q)) + garbage[q]
    BY DEF ConnectionsAccounted
  <2>3. out[q] \in Nat /\ garbage[q] \in Nat
    BY PoolFacts DEF SessionTypeOK
  <2> QED
    BY <1>1, <2>1, <2>2, <2>3, CountsFinite DEF SessionTypeOK
<1>3. ASSUME NEW q \in Pool PROVE garbage[q] <= out[q]
  <2>1. out[q] = Cardinality(Running(q)) + Cardinality(Keeping(q)) + garbage[q]
    BY DEF ConnectionsAccounted
  <2>2. out[q] \in Nat /\ garbage[q] \in Nat
    BY PoolFacts DEF SessionTypeOK
  <2> QED
    BY <2>1, <2>2, CountsFinite
<1>4. SessionTypeOK' /\ KeepersInv'
  BY <1>1, <1>3, PoolFacts DEF SessionTypeOK, KeepersInv, Retrieves, databaseVars
<1> QED
  BY <1>2, <1>4

-----------------------------------------------------------------------------
(* Requests                                                                 *)

LEMMA MiddlewareFacts ==
  /\ Len(Middleware) = 5
  /\ \A i \in 1 .. 5 : Middleware[i] \in DOMAIN Stamp
  /\ \A m \in DOMAIN Stamp : \E i \in 1 .. 5 : m = Middleware[i]
  /\ "id" \in Stamps
<1>1. Len(Middleware) = 5
  BY DEF Middleware
<1>2. DOMAIN Stamp = {"context", "logging", "limit", "security", "cors"}
  BY DEF Stamp
<1>3. /\ Middleware[1] = "context" /\ Middleware[2] = "logging" /\ Middleware[3] = "limit"
      /\ Middleware[4] = "security" /\ Middleware[5] = "cors"
  BY DEF Middleware
<1>4. \A i \in 1 .. 5 : Middleware[i] \in DOMAIN Stamp
  BY <1>2, <1>3
<1>5. \A m \in DOMAIN Stamp : \E i \in 1 .. 5 : m = Middleware[i]
  BY <1>2, <1>3
<1>6. Stamp["context"] = {"id"}
  BY DEF Stamp
<1>7. "id" \in Stamps
  BY <1>2, <1>6 DEF Stamps
<1> QED
  BY <1>1, <1>4, <1>5, <1>7

LEMMA StampFacts ==
  /\ StampsAfter(5) = {} /\ StampsAfter(0) = Stamps
  /\ \A d \in 1 .. 5 : StampsAfter(d - 1) = StampsAfter(d) \union Stamp[Middleware[d]]
  /\ \A d \in 0 .. 5 : StampsAfter(d) \subseteq Stamps
<1>1. StampsAfter(5) = {}
  BY MiddlewareFacts DEF StampsAfter
<1>2. \A d \in 0 .. 5 : StampsAfter(d) \subseteq Stamps
  BY MiddlewareFacts DEF StampsAfter, Stamps
<1>3. Stamps \subseteq StampsAfter(0)
  BY MiddlewareFacts DEF StampsAfter, Stamps
<1>4. ASSUME NEW d \in 1 .. 5
      PROVE  StampsAfter(d - 1) = StampsAfter(d) \union Stamp[Middleware[d]]
  <2>1. (d - 1) + 1 .. 5 = (d + 1 .. 5) \union {d}
    OBVIOUS
  <2> QED
    BY <2>1, MiddlewareFacts DEF StampsAfter
<1> QED
  BY <1>1, <1>2, <1>3, <1>4

-----------------------------------------------------------------------------
SessionInv == SessionTypeOK /\ KeepersInv /\ ConnectionsAccounted

IInv ==
  /\ StartupTypeOK /\ LoadInv /\ ConsumersInv
  /\ SessionInv /\ QuietInv /\ OpenedInv
  /\ RequestTypeOK /\ PlaceInv /\ StampInv

LEMMA IInvInit == Init => IInv
<1> SUFFICES ASSUME Init PROVE IInv
  OBVIOUS
<1>1. SessionTypeOK
  <2>1. <<>> \in Seq(Visit)
    BY EmptySeq
  <2>2. 0 \in 0 .. Capacity
    BY PoolFacts
  <2> QED
    BY <2>1, <2>2 DEF Init, SessionInit, SessionTypeOK, Pool, Result
<1>2. KeepersInv
  BY DEF Init, SessionInit, KeepersInv, Retrieves
<1>3. ConnectionsAccounted
  <2>1. ASSUME NEW p \in Pool
        PROVE  out[p] = Cardinality(Running(p)) + Cardinality(Keeping(p)) + garbage[p]
    <3>1. Running(p) = {} /\ Keeping(p) = {}
      BY DEF Init, SessionInit, Running, Keeping
    <3>2. out[p] = 0 /\ garbage[p] = 0
      BY DEF Init, SessionInit
    <3> QED
      BY <3>1, <3>2, FS_EmptySet
  <2> QED
    BY <2>1 DEF ConnectionsAccounted
<1>4. RequestTypeOK
  BY MiddlewareFacts DEF Init, RequestTypeOK
<1>5. StartupTypeOK /\ LoadInv
  BY LoadInit DEF Init
<1>6. ConsumersInv /\ QuietInv /\ OpenedInv
  BY DEF Init, StartupInit, SessionInit, ConsumersInv, QuietInv, OpenedInv, Open
<1>7. PlaceInv /\ StampInv
  BY RequestAssumption DEF Init, SessionInit, PlaceInv, StampInv
<1> QED
  BY <1>1, <1>2, <1>3, <1>4, <1>5, <1>6, <1>7 DEF IInv, SessionInv

LEMMA SessionsStay ==
  ASSUME SessionInv, UNCHANGED sessionVars
  PROVE  SessionInv'
<1>1. UNCHANGED <<databaseVars, out, garbage, kept, step, todo, result>>
  BY DEF sessionVars, poolVars, taskVars
<1>2. SessionTypeOK' /\ KeepersInv'
  BY <1>1 DEF SessionInv, SessionTypeOK, KeepersInv, Retrieves, databaseVars
<1>3. \A p \in Pool : Running(p)' = Running(p) /\ Keeping(p)' = Keeping(p)
  BY <1>1 DEF Running, Keeping, Wants, PoolOf, databaseVars
<1>4. ConnectionsAccounted'
  BY <1>1, <1>3 DEF SessionInv, ConnectionsAccounted
<1> QED
  BY <1>2, <1>4 DEF SessionInv

(* The database is opened and closed.                                       *)
LEMMA ConnectStep ==
  ASSUME SessionInv, Connect,
         \A t \in Task : step[t] = "idle", kept = {},
         out = [p \in Pool |-> 0], garbage = [p \in Pool |-> 0]
  PROVE  SessionInv'
<1>1. /\ UNCHANGED <<out, garbage, kept, step, todo, result>> /\ connected' = TRUE
      /\ readFrom' \in Pool /\ listed' \in BOOLEAN
  BY ReplicasAssumption DEF Connect, Tested, poolVars, taskVars, Pool
<1>2. SessionTypeOK' /\ KeepersInv'
  BY <1>1 DEF SessionInv, SessionTypeOK, KeepersInv, Retrieves
<1>3. \A p \in Pool : Running(p)' = {} /\ Keeping(p)' = {}
  BY <1>1 DEF Running, Keeping
<1>4. ConnectionsAccounted'
  BY <1>1, <1>3, FS_EmptySet DEF ConnectionsAccounted
<1> QED
  BY <1>2, <1>4 DEF SessionInv

LEMMA DisconnectStep ==
  ASSUME SessionInv, Disconnect
  PROVE  SessionInv'
<1>1. UNCHANGED <<readFrom, listed, out, garbage, kept, step, todo, result>>
      /\ connected' = FALSE
  BY DEF Disconnect, poolVars, taskVars
<1>2. SessionTypeOK' /\ KeepersInv'
  BY <1>1 DEF SessionInv, SessionTypeOK, KeepersInv, Retrieves
<1>3. \A p \in Pool : Running(p)' = Running(p) /\ Keeping(p)' = Keeping(p)
  BY <1>1 DEF Running, Keeping, Wants, PoolOf
<1>4. ConnectionsAccounted'
  BY <1>1, <1>3 DEF SessionInv, ConnectionsAccounted
<1> QED
  BY <1>2, <1>4 DEF SessionInv

(* Steps of the lifespan that leave sessions and requests alone.            *)
LEMMA StageStep ==
  ASSUME IInv, UNCHANGED <<sessionVars, requestVars>>,
         stage' \in Up \union {"aborted"} => stage \in Up \union {"aborted"},
         stage' \in Open \union {"database", "manager", "tables"} =>
           stage \in Open \union {"database", "manager", "tables"},
         stage \in {"serving", "stopping"} =>
           \/ stage' \in {"serving", "stopping"}
           \/ \A r \in Request : way[r] = "none"
  PROVE  SessionInv' /\ QuietInv' /\ OpenedInv' /\ RequestTypeOK' /\ PlaceInv' /\ StampInv'
<1>1. SessionInv'
  BY SessionsStay DEF IInv
<1>2. UNCHANGED <<connected, out, garbage, kept, step, todo, result, depth, way, answer>>
  BY DEF sessionVars, databaseVars, poolVars, taskVars, requestVars
<1>3. QuietInv' /\ OpenedInv'
  BY <1>2 DEF IInv, QuietInv, OpenedInv
<1>4. RequestTypeOK'
  BY <1>2 DEF IInv, RequestTypeOK
<1>5. PlaceInv' /\ StampInv'
  BY <1>2 DEF IInv, PlaceInv, StampInv
<1> QED
  BY <1>1, <1>3, <1>4, <1>5

LEMMA LifespanStep ==
  ASSUME IInv, [Next]_vars,
         \/ Lifespan
         \/ AbortStartup /\ UNCHANGED <<sessionVars, requestVars>>
         \/ \E q \in Consumer : StartConsumer(q) /\ UNCHANGED <<sessionVars, requestVars>>
  PROVE  IInv'
<1> DEFINE Rest == SessionInv' /\ QuietInv' /\ OpenedInv' /\ RequestTypeOK' /\ PlaceInv'
                   /\ StampInv'
<1>1. StartupTypeOK'
  BY StartupTypeStep DEF IInv
<1> SUFFICES LoadInv' /\ ConsumersInv' /\ Rest
  BY <1>1 DEF IInv
<1>2. CASE /\ \/ LoadInfrastructure \/ NextDirectory \/ Wire
              \/ \E m \in Module : LoadFile(m)
           /\ UNCHANGED <<sessionVars, requestVars>>
  <2>1. LoadInv'
    BY <1>2, LoadStep, LoadFileStep DEF IInv
  <2>2. stage = "loading" /\ stage' \in {"loading", "created", "aborted"}
        /\ UNCHANGED consumerVars
    BY <1>2 DEF LoadInfrastructure, NextDirectory, Wire, LoadFile
  <2>3. ConsumersInv'
    BY <2>2 DEF IInv, ConsumersInv, consumerVars, Up
  <2>4. Rest
    BY <1>2, <2>2, StageStep DEF Up, Open
  <2> QED
    BY <2>1, <2>3, <2>4
<1>3. CASE OpenDatabase
  <2>1. stage = "created" /\ stage' = "database" /\ Connect /\ connected' = TRUE
        /\ UNCHANGED <<loadVars, consumerVars, requestVars, poolVars, taskVars>>
    BY <1>3 DEF OpenDatabase, Pass, Connect
  <2>2. LoadInv' /\ ConsumersInv'
    BY <2>1, LoadedStays DEF IInv, ConsumersInv, consumerVars, Up
  <2>3. /\ \A t \in Task : step[t] = "idle"
        /\ \A r \in Request : way[r] = "none"
        /\ kept = {} /\ out = [p \in Pool |-> 0] /\ garbage = [p \in Pool |-> 0]
    BY <2>1 DEF IInv, QuietInv, Up
  <2>4. SessionInv'
    BY <2>1, <2>3, ConnectStep DEF IInv
  <2>5. QuietInv' /\ OpenedInv'
    BY <2>1, <2>3 DEF QuietInv, OpenedInv, poolVars, taskVars, requestVars
  <2>6. RequestTypeOK' /\ PlaceInv' /\ StampInv'
    BY <2>1, <2>3, RequestAssumption
    DEF IInv, RequestTypeOK, PlaceInv, StampInv, requestVars, taskVars
  <2> QED
    BY <2>2, <2>4, <2>5, <2>6
<1>4. CASE CloseDatabase
  <2>1. stage = "unsubscribed" /\ stage' = "stopped" /\ Disconnect
        /\ UNCHANGED <<loadVars, consumerVars, requestVars, poolVars, taskVars>>
    BY <1>4 DEF CloseDatabase, Pass, Disconnect
  <2>2. LoadInv' /\ ConsumersInv'
    BY <2>1, LoadedStays DEF IInv, ConsumersInv, consumerVars, Up
  <2>3. SessionInv'
    BY <2>1, DisconnectStep DEF IInv
  <2>4. QuietInv' /\ OpenedInv'
    BY <2>1 DEF QuietInv, OpenedInv, Up, Open
  <2>5. RequestTypeOK' /\ PlaceInv' /\ StampInv'
    BY <2>1 DEF IInv, RequestTypeOK, PlaceInv, StampInv, requestVars, taskVars
  <2> QED
    BY <2>2, <2>3, <2>4, <2>5
<1>5. CASE /\ UNCHANGED <<sessionVars, requestVars>>
           /\ StartManager \/ CreateTables \/ OpenBroker \/ CloseBroker \/ AskToStop
              \/ StopServing \/ AbortStartup
  <2>1. /\ UNCHANGED loadVars
        /\ \/ stage = "database" /\ stage' = "manager" /\ UNCHANGED consumerVars
           \/ stage = "manager" /\ stage' = "tables" /\ UNCHANGED consumerVars
           \/ stage = "tables" /\ stage' = "serving"
           \/ stage = "draining" /\ stage' = "unsubscribed" /\ consuming' = {}
           \/ stage = "serving" /\ stage' = "stopping"
           \/ stage = "stopping" /\ stage' = "draining" /\ \A r \in Request : way[r] = "none"
           \/ stage \in Up /\ stage' = "aborted" /\ UNCHANGED consumerVars
    BY <1>5 DEF StartManager, CreateTables, OpenBroker, CloseBroker, AskToStop, StopServing,
       Drain, AbortStartup, Pass
  <2>2. LoadInv'
    BY <2>1, LoadedStays DEF IInv
  <2>3. ConsumersInv'
    BY <2>1 DEF IInv, ConsumersInv, consumerVars, Up
  <2>4. Rest
    BY <1>5, <2>1, StageStep DEF Up, Open
  <2> QED
    BY <2>2, <2>3, <2>4
<1>6. ASSUME NEW q \in Consumer, StartConsumer(q), UNCHANGED <<sessionVars, requestVars>>
      PROVE  LoadInv' /\ ConsumersInv' /\ Rest
  <2>1. q \in starting /\ UNCHANGED <<stage, loadVars>>
        /\ (stage \in {"serving", "stopping", "draining"} \/ consuming' = consuming)
    BY <1>6 DEF StartConsumer
  <2>2. LoadInv'
    BY <2>1, LoadedStays DEF IInv
  <2>3. ConsumersInv'
    BY <2>1 DEF IInv, ConsumersInv, Up
  <2>4. Rest
    BY <1>6, <2>1, StageStep
  <2> QED
    BY <2>2, <2>3, <2>4
<1> QED
  BY <1>2, <1>3, <1>4, <1>5, <1>6 DEF Lifespan, StopServing

(* A task's step, of a request at its handler or of a delivery.             *)
LEMMA TaskKeeps ==
  ASSUME IInv, NEW t \in Task, TaskStep(t), TaskOK(t)', UNCHANGED <<startupVars, requestVars>>,
         stage \notin Up \union {"aborted"},
         t \in Request => way[t] = "in" /\ depth[t] = Len(Middleware)
  PROVE  IInv'
<1>1. UNCHANGED <<stage, loadVars, consumerVars, connected, depth, way, answer>>
  BY DEF startupVars, requestVars, TaskStep, databaseVars
<1>2. StartupTypeOK' /\ LoadInv' /\ ConsumersInv'
  BY <1>1, LoadedStays
  DEF IInv, StartupTypeOK, ConsumersInv, loadVars, consumerVars
<1>3. SessionInv'
  BY TaskTyped DEF IInv, SessionInv
<1>4. QuietInv' /\ OpenedInv'
  BY <1>1 DEF IInv, QuietInv, OpenedInv
<1>5. RequestTypeOK'
  BY <1>1 DEF IInv, RequestTypeOK
<1>6. PlaceInv'
  BY <1>1, RequestAssumption DEF IInv, PlaceInv, TaskStep
<1>7. StampInv'
  BY <1>1 DEF IInv, StampInv, TaskStep
<1> QED
  BY <1>2, <1>3, <1>4, <1>5, <1>6, <1>7 DEF IInv

(* Whoever has a session has it in a process that has started.              *)
LEMMA Started ==
  ASSUME IInv
  PROVE  /\ \A t \in Task : step[t] # "idle" => stage \notin Up \union {"aborted"}
         /\ \A r \in Request : step[r] # "idle" => way[r] = "in" /\ depth[r] = Len(Middleware)
         /\ \A r \in Request : way[r] # "none" => stage \in {"serving", "stopping"}
  BY RequestAssumption DEF IInv, QuietInv, PlaceInv

LEMMA WorkKeeps ==
  ASSUME IInv, NEW t \in Task,
         \/ WorkOn(t)
         \/ t \notin Request /\ (Receive(t) \/ Cancel(t))
  PROVE  IInv'
<1>1. CASE WorkOn(t)
  <2>1. step[t] # "idle"
    BY <1>1 DEF WorkOn, Work, GetSession, Checkout, FailCheckout, Execute, FailStatement, Raise, Finish
  <2> QED
    BY <1>1, <2>1, Started, WorkStep, TaskKeeps DEF WorkOn, IInv, SessionInv
<1>2. CASE t \notin Request /\ Receive(t)
  <2>1. PICK s \in Script[t] : Begin(t, s)
    BY <1>2 DEF Receive
  <2>2. stage \notin Up \union {"aborted"} /\ UNCHANGED <<startupVars, requestVars>>
    BY <1>2 DEF Receive, IInv, ConsumersInv
  <2>3. TaskStep(t) /\ TaskOK(t)'
    BY <2>1, BeginStep DEF IInv, SessionInv
  <2> QED
    BY <1>2, <2>2, <2>3, TaskKeeps
<1>3. CASE t \notin Request /\ Cancel(t)
  <2>1. TaskStep(t) /\ TaskOK(t)'
    BY <1>3, CancelStep DEF IInv, SessionInv
  <2>2. step[t] # "idle" /\ UNCHANGED <<startupVars, requestVars>>
    BY <1>3 DEF Cancel
  <2> QED
    BY <1>3, <2>1, <2>2, Started, TaskKeeps
<1> QED
  BY <1>1, <1>2, <1>3

LEMMA HandleKeeps ==
  ASSUME IInv, NEW r \in Request, Handle(r)
  PROVE  IInv'
<1>1. PICK s \in Script[r] : Begin(r, s)
  BY DEF Handle
<1>2. r \in Task /\ way[r] = "in" /\ depth[r] = Len(Middleware)
      /\ UNCHANGED <<startupVars, requestVars>>
  BY RequestAssumption DEF Handle, AtHandler
<1>3. stage \notin Up \union {"aborted"}
  BY <1>2, Started DEF Up
<1>4. TaskStep(r) /\ TaskOK(r)'
  BY <1>1, <1>2, BeginStep DEF IInv, SessionInv
<1> QED
  BY <1>2, <1>3, <1>4, TaskKeeps

(* A step of a request through the server that leaves its session alone.    *)
LEMMA MoveKeeps ==
  ASSUME IInv, NEW r \in Request, UNCHANGED <<startupVars, sessionVars>>,
         NEW d \in 0 .. 5, NEW w \in {"in", "out"},
         NEW a \in {NoAnswer, Raised} \union [status: Status, stamps: SUBSET Stamps],
         Move(r, d, w, a), step[r] = "idle", stage \in {"serving", "stopping"},
         w = "out" =>
           \/ a = Raised /\ result[r] = "unknown"
           \/ a.status \in Status /\ a.stamps = StampsAfter(d) /\ result[r] # "unknown"
           \/ d = 0 /\ a = Reply("internal") /\ result[r] = "unknown"
  PROVE  IInv'
<1>1. UNCHANGED <<stage, loadVars, consumerVars, connected, out, garbage, kept, step, result>>
  BY DEF startupVars, sessionVars, databaseVars, poolVars, taskVars
<1>2. StartupTypeOK' /\ LoadInv' /\ ConsumersInv'
  BY <1>1, LoadedStays DEF IInv, StartupTypeOK, ConsumersInv, loadVars, consumerVars
<1>3. SessionInv'
  BY SessionsStay DEF IInv
<1>4. depth'[r] = d /\ way'[r] = w /\ answer'[r] = a
      /\ \A q \in Request \ {r} : depth'[q] = depth[q] /\ way'[q] = way[q] /\ answer'[q] = answer[q]
  BY DEF Move, IInv, RequestTypeOK
<1>5. RequestTypeOK'
  BY MiddlewareFacts DEF Move, IInv, RequestTypeOK
<1>6. QuietInv' /\ OpenedInv'
  BY <1>1 DEF IInv, QuietInv, OpenedInv, Up
<1>7. PlaceInv'
  BY <1>1, <1>4 DEF IInv, PlaceInv
<1>8. StampInv'
  BY <1>1, <1>4 DEF IInv, StampInv
<1> QED
  BY <1>2, <1>3, <1>5, <1>6, <1>7, <1>8 DEF IInv

LEMMA RequestKeeps ==
  ASSUME IInv, NEW r \in Request, Accept(r) \/ ServeRequest(r)
  PROVE  IInv'
<1> USE MiddlewareFacts
<1>1. CASE Accept(r)
  <2>1. step[r] = "idle"
    BY <1>1, Started DEF Accept
  <2> QED
    BY <1>1, <2>1, MoveKeeps DEF Accept
<1>2. CASE Enter(r)
  <2>1. way[r] = "in" /\ depth[r] < 5 /\ Move(r, depth[r] + 1, "in", NoAnswer)
        /\ UNCHANGED <<startupVars, sessionVars>>
    BY <1>2 DEF Enter
  <2>2. step[r] = "idle" /\ stage \in {"serving", "stopping"} /\ depth[r] + 1 \in 0 .. 5
    BY <2>1, Started DEF IInv, RequestTypeOK
  <2> QED
    BY <2>1, <2>2, MoveKeeps
<1>3. CASE Refuse(r) \/ Answer(r)
  <2>1. PICK a \in {Raised} \union {Reply(x) : x \in Status} :
          /\ Move(r, depth[r], "out", a) /\ UNCHANGED <<startupVars, sessionVars>>
          /\ a = Raised => result[r] = "unknown"
          /\ a # Raised => result[r] # "unknown"
    <3>1. CASE Refuse(r)
      BY <3>1 DEF Refuse, Status, Reply, Raised
    <3>2. CASE Answer(r)
      <4>1. result[r] \in {"done", "database", "unknown"}
        BY <3>2, RequestAssumption DEF Answer, IInv, SessionInv, SessionTypeOK, Result
      <4> QED
        BY <3>2, <4>1 DEF Answer, AnswersOf, Status, Reply, Raised
    <3> QED
      BY <1>3, <3>1, <3>2
  <2>2. step[r] = "idle" /\ way[r] = "in" /\ depth[r] = 5
    BY <1>3 DEF Refuse, Answer, AtHandler
  <2>3. stage \in {"serving", "stopping"}
    BY <2>2, Started
  <2>4. a # Raised => a.status \in Status /\ a.stamps = StampsAfter(5)
    BY <2>1, StampFacts DEF Reply
  <2>5. a \in {NoAnswer, Raised} \union [status: Status, stamps: SUBSET Stamps]
    BY <2>1 DEF Reply
  <2> QED
    BY <2>1, <2>2, <2>3, <2>4, <2>5, MoveKeeps
<1>4. CASE Leave(r)
  <2> DEFINE a == answer[r]
             b == IF a = Raised THEN a
                  ELSE [a EXCEPT !.stamps = @ \union Stamp[Middleware[depth[r]]]]
  <2>1. /\ way[r] = "out" /\ depth[r] > 0 /\ Move(r, depth[r] - 1, "out", b)
        /\ UNCHANGED <<startupVars, sessionVars>>
    BY <1>4 DEF Leave
  <2>2. depth[r] \in 1 .. 5 /\ depth[r] - 1 \in 0 .. 5
    BY <2>1 DEF IInv, RequestTypeOK
  <2>3. step[r] = "idle" /\ stage \in {"serving", "stopping"}
    BY <2>1, Started
  <2>4. \/ a = Raised /\ result[r] = "unknown"
        \/ a # Raised /\ a.status \in Status /\ a.stamps = StampsAfter(depth[r])
           /\ result[r] # "unknown"
    BY <2>1, <2>2 DEF IInv, StampInv, Raised, Status
  <2>5. a # Raised =>
          /\ a \in [status: Status, stamps: SUBSET Stamps]
          /\ StampsAfter(depth[r] - 1) = a.stamps \union Stamp[Middleware[depth[r]]]
          /\ StampsAfter(depth[r] - 1) \subseteq Stamps
    BY <2>1, <2>2, <2>4, StampFacts DEF IInv, RequestTypeOK, NoAnswer, Status
  <2>6. a # Raised =>
          /\ b \in [status: Status, stamps: SUBSET Stamps]
          /\ b.status \in Status /\ b.stamps = StampsAfter(depth[r] - 1)
    <3> HIDE DEF a
    <3> QED
      BY <2>5
  <2>7. a = Raised => b = Raised
    OBVIOUS
  <2> HIDE DEF a, b
  <2> QED
    BY <2>1, <2>2, <2>3, <2>4, <2>6, <2>7, MoveKeeps
<1>5. CASE GlobalHandler(r)
  <2>1. way[r] = "out" /\ depth[r] = 0 /\ answer[r] = Raised
        /\ Move(r, 0, "out", Reply("internal")) /\ UNCHANGED <<startupVars, sessionVars>>
    BY <1>5 DEF GlobalHandler
  <2>2. step[r] = "idle" /\ stage \in {"serving", "stopping"}
    BY <2>1, Started
  <2>3. result[r] = "unknown"
    BY <2>1 DEF IInv, StampInv, Raised, Reply, Status
  <2>4. Reply("internal") \in [status: Status, stamps: SUBSET Stamps]
    BY DEF Reply, Status
  <2> QED
    BY <2>1, <2>2, <2>3, <2>4, MoveKeeps
<1>6. CASE Send(r)
  <2>1. /\ way[r] = "out" /\ way' = [way EXCEPT ![r] = "none"]
        /\ depth' = [depth EXCEPT ![r] = 0] /\ answer' = [answer EXCEPT ![r] = NoAnswer]
        /\ SetResult(r, "none")
        /\ UNCHANGED <<startupVars, databaseVars, poolVars, step, todo>>
    BY <1>6 DEF Send, Move
  <2>2. r \in Task /\ "none" \in Result
    BY RequestAssumption DEF Result
  <2>3. result' \in [Request -> Result]
    BY <2>1, <2>2, SetResultTyped DEF IInv, SessionInv
  <2>4. \A q \in Request \ {r} : result'[q] = result[q]
    BY <2>1, <2>2, SetResultTyped DEF IInv, SessionInv
  <2>5. UNCHANGED <<stage, loadVars, consumerVars, connected, out, garbage, kept, step, todo>>
    BY <2>1 DEF startupVars, databaseVars, poolVars
  <2>6. SessionInv'
    <3>1. SessionTypeOK' /\ KeepersInv'
      BY <2>1, <2>3, <2>5
      DEF IInv, SessionInv, SessionTypeOK, KeepersInv, Retrieves, databaseVars
    <3>2. \A p \in Pool : Running(p)' = Running(p) /\ Keeping(p)' = Keeping(p)
      BY <2>1, <2>5 DEF Running, Keeping, Wants, PoolOf, databaseVars
    <3>3. ConnectionsAccounted'
      BY <2>5, <3>2 DEF IInv, SessionInv, ConnectionsAccounted
    <3> QED
      BY <3>1, <3>3 DEF SessionInv
  <2>7. StartupTypeOK' /\ LoadInv' /\ ConsumersInv'
    BY <2>5, LoadedStays DEF IInv, StartupTypeOK, ConsumersInv, loadVars, consumerVars
  <2>8. RequestTypeOK'
    BY <2>1 DEF IInv, RequestTypeOK
  <2>9. QuietInv' /\ OpenedInv'
    BY <2>1, <2>5, Started DEF IInv, QuietInv, OpenedInv, Up, RequestTypeOK
  <2>10. PlaceInv' /\ StampInv'
    BY <2>1, <2>4, <2>5, Started DEF IInv, PlaceInv, StampInv, RequestTypeOK
  <2> QED
    BY <2>6, <2>7, <2>8, <2>9, <2>10 DEF IInv
<1> QED
  BY <1>1, <1>2, <1>3, <1>4, <1>5, <1>6, HandleKeeps DEF ServeRequest

LEMMA CollectKeeps ==
  ASSUME IInv, NEW p \in Pool, Collect(p), UNCHANGED <<startupVars, requestVars>>
  PROVE  IInv'
<1>1. SessionInv'
  BY CollectStep DEF IInv, SessionInv
<1>2. UNCHANGED <<stage, loadVars, consumerVars, connected, kept, step, result, depth, way, answer>>
  BY DEF Collect, startupVars, requestVars, databaseVars, taskVars
<1>3. StartupTypeOK' /\ LoadInv' /\ ConsumersInv'
  BY <1>2, LoadedStays DEF IInv, StartupTypeOK, ConsumersInv, loadVars, consumerVars
<1>4. stage \notin Up \union {"aborted"}
  BY DEF IInv, QuietInv, Collect
<1>5. QuietInv' /\ OpenedInv' /\ RequestTypeOK' /\ PlaceInv' /\ StampInv'
  BY <1>2, <1>4 DEF IInv, QuietInv, OpenedInv, RequestTypeOK, PlaceInv, StampInv
<1> QED
  BY <1>1, <1>3, <1>5 DEF IInv

LEMMA StutterKeeps == IInv /\ UNCHANGED vars => IInv'
<1> SUFFICES ASSUME IInv, UNCHANGED vars PROVE IInv'
  OBVIOUS
<1>1. UNCHANGED <<startupVars, sessionVars, requestVars>>
  BY DEF vars
<1>2. StartupTypeOK' /\ LoadInv' /\ ConsumersInv'
  BY <1>1, LoadedStays DEF IInv, StartupTypeOK, ConsumersInv, startupVars, loadVars, consumerVars
<1>3. UNCHANGED stage
  BY <1>1 DEF startupVars
<1>4. SessionInv' /\ QuietInv' /\ OpenedInv' /\ RequestTypeOK' /\ PlaceInv' /\ StampInv'
  BY <1>1, <1>3, StageStep DEF Up, Open
<1> QED
  BY <1>2, <1>4 DEF IInv

-----------------------------------------------------------------------------
(* The prefetch                                                             *)

PrefetchInv ==
  /\ detached \subseteq {t \in Task \ Request : step[t] # "idle"}
  /\ \A q \in Consumer : Cardinality(Outstanding(q)) <= Prefetch

LEMMA OutstandingFinite ==
  ASSUME NEW q
  PROVE  /\ IsFiniteSet(Outstanding(q)) /\ Cardinality(Outstanding(q)) \in Nat
         /\ IsFiniteSet(Outstanding(q)') /\ Cardinality(Outstanding(q)') \in Nat
<1>1. Outstanding(q) \in SUBSET Task /\ Outstanding(q)' \in SUBSET Task
  BY DEF Outstanding
<1> QED
  BY <1>1, PoolFacts, FS_Subset, FS_CardinalityType

(* While no delivery starts and none loses its channel.                     *)
LEMMA NoneReceived ==
  ASSUME PrefetchInv,
         \A t \in Task \ Request : step'[t] # "idle" => step[t] # "idle",
         detached' = {t \in detached : step'[t] # "idle"}
  PROVE  PrefetchInv'
<1>1. ASSUME NEW q \in Consumer PROVE Cardinality(Outstanding(q)') <= Prefetch
  <2>1. Outstanding(q)' \subseteq Outstanding(q)
    BY DEF Outstanding, PrefetchInv
  <2>2. Cardinality(Outstanding(q)') <= Cardinality(Outstanding(q))
    BY <2>1, OutstandingFinite, FS_Subset
  <2> QED
    BY <2>2, OutstandingFinite, PrefetchAssumption DEF PrefetchInv
<1>2. detached' \subseteq {t \in Task \ Request : step'[t] # "idle"}
  BY DEF PrefetchInv
<1> QED
  BY <1>1, <1>2 DEF PrefetchInv

LEMMA ReceiveCounted ==
  ASSUME IInv, PrefetchInv, NEW t \in Task \ Request, Receive(t)
  PROVE  PrefetchInv'
<1>1. step[t] = "idle" /\ step' = [step EXCEPT ![t] = "next"] /\ detached' = detached
  BY DEF Receive, Begin
<1>2. step \in [Task -> {"idle", "next", "wait", "run"}]
  BY DEF IInv, SessionInv, SessionTypeOK
<1>3. t \notin detached /\ detached' \subseteq {u \in Task \ Request : step'[u] # "idle"}
  BY <1>1, <1>2 DEF PrefetchInv
<1>4. ASSUME NEW q \in Consumer PROVE Cardinality(Outstanding(q)') <= Prefetch
  <2>1. CASE QueueOf[t] = q
    <3>1. Outstanding(q)' = Outstanding(q) \union {t} /\ t \notin Outstanding(q)
      BY <1>1, <1>2, <1>3, <2>1 DEF Outstanding
    <3>2. Cardinality(Outstanding(q)') = Cardinality(Outstanding(q)) + 1
      BY <3>1, OutstandingFinite, FS_AddElement
    <3>3. Cardinality(Outstanding(q)) < Prefetch
      BY <2>1 DEF Receive
    <3> QED
      BY <3>2, <3>3, OutstandingFinite, PrefetchAssumption
  <2>2. CASE QueueOf[t] # q
    <3>1. Outstanding(q)' = Outstanding(q)
      BY <1>1, <1>2, <2>2 DEF Outstanding
    <3> QED
      BY <3>1 DEF PrefetchInv
  <2> QED
    BY <2>1, <2>2
<1> QED
  BY <1>3, <1>4 DEF PrefetchInv

LEMMA LossEmpties ==
  ASSUME ConnectionLost
  PROVE  PrefetchInv'
<1>1. detached' = {t \in Task \ Request : step[t] # "idle"} /\ step' = step
  BY DEF ConnectionLost, sessionVars, taskVars
<1>2. \A q \in Consumer : Outstanding(q)' = {}
  BY <1>1 DEF Outstanding
<1> QED
  BY <1>1, <1>2, FS_EmptySet, PrefetchAssumption DEF PrefetchInv

(* Requests leave the deliveries alone.                                     *)
LEMMA RequestApart ==
  ASSUME IInv, NEW r \in Request, Accept(r) \/ ServeRequest(r)
  PROVE  \A t \in Task \ Request : step'[t] = step[t]
<1>1. CASE Handle(r)
  BY <1>1 DEF Handle, Begin, IInv, SessionInv, SessionTypeOK
<1> QED
  BY <1>1 DEF Accept, ServeRequest, Enter, Refuse, Answer, Leave, GlobalHandler, Send,
     sessionVars, taskVars

LEMMA PrefetchStep == IInv /\ PrefetchInv /\ [Next]_vars => PrefetchInv'
<1> SUFFICES ASSUME IInv, PrefetchInv, [Next]_vars PROVE PrefetchInv'
  OBVIOUS
<1>1. ASSUME UNCHANGED detached, \A t \in Task \ Request : step'[t] = step[t]
      PROVE  PrefetchInv'
  <2>1. detached' = {t \in detached : step'[t] # "idle"}
    BY <1>1 DEF PrefetchInv
  <2> QED
    BY <1>1, <2>1, NoneReceived
<1>2. ASSUME NEW t \in Task, WorkOn(t) \/ (Cancel(t) /\ StillDetached)
      PROVE  PrefetchInv'
  <2>1. step[t] # "idle"
    BY <1>2
    DEF WorkOn, Work, GetSession, Checkout, FailCheckout, Execute, FailStatement, Raise,
        Finish, Cancel
  <2>2. TaskStep(t)
    BY <1>2, WorkStep, CancelStep DEF WorkOn, IInv, SessionInv
  <2>3. \A u \in Task \ {t} : step'[u] = step[u]
    BY <2>2 DEF TaskStep
  <2> QED
    BY <1>2, <2>1, <2>3, NoneReceived DEF WorkOn, StillDetached
<1>3. CASE UNCHANGED <<detached, step>>
  BY <1>1, <1>3
<1>7. Lifespan => UNCHANGED <<detached, step>>
  BY DEF Lifespan, OpenDatabase, Connect, CloseDatabase, Disconnect, StopServing,
     sessionVars, taskVars
<1>8. \A p \in Pool : Collect(p) /\ UNCHANGED <<startupVars, requestVars, detached>>
                        => UNCHANGED <<detached, step>>
  BY DEF Collect, taskVars
<1>9. UNCHANGED <<sessionVars, requestVars, detached>> \/ UNCHANGED vars
        => UNCHANGED <<detached, step>>
  BY DEF sessionVars, taskVars, vars
<1>4. ASSUME NEW r \in Request, (Accept(r) \/ ServeRequest(r)) /\ UNCHANGED detached
      PROVE  PrefetchInv'
  BY <1>1, <1>4, RequestApart
<1>5. ASSUME NEW t \in Task \ Request, Receive(t) PROVE PrefetchInv'
  BY <1>5, ReceiveCounted
<1>6. CASE ConnectionLost
  BY <1>6, LossEmpties
<1> QED
  BY <1>2, <1>3, <1>4, <1>5, <1>6, <1>7, <1>8, <1>9 DEF Next

-----------------------------------------------------------------------------
(* The invariant holds in every reachable state.                            *)
THEOREM Invariance == Spec => []IInv
<1>1. ASSUME IInv, ConnectionLost PROVE IInv'
  BY <1>1, StageStep, LoadedStays
  DEF ConnectionLost, IInv, StartupTypeOK, ConsumersInv, startupVars, loadVars, consumerVars,
      Up, Open
<1>2. IInv /\ [Next]_vars => IInv'
  BY <1>1, LifespanStep, WorkKeeps, RequestKeeps, CollectKeeps, StutterKeeps DEF Next
<1> QED
  BY <1>2, IInvInit, PTL DEF Spec

(* At no time the broker waits for more deliveries of a consumer than the   *)
(* prefetch, however often it was lost.                                     *)
THEOREM PrefetchHolds == Spec => []PrefetchInv
<1>1. Init => PrefetchInv
  <2> SUFFICES ASSUME Init PROVE PrefetchInv
    OBVIOUS
  <2>1. \A q \in Consumer : Outstanding(q) = {}
    BY DEF Init, SessionInit, Outstanding
  <2> QED
    BY <2>1, FS_EmptySet, PrefetchAssumption DEF Init, PrefetchInv
<1> QED
  BY <1>1, PrefetchStep, Invariance, PTL DEF Spec

(* Type correctness of start-up, sessions and requests.                     *)
THEOREM TypeCorrect == Spec => []TypeOK
<1>1. IInv /\ PrefetchInv => TypeOK
  BY DEF IInv, SessionInv, PrefetchInv, TypeOK
<1> QED
  BY <1>1, Invariance, PrefetchHolds, PTL

(* In whatever order the directories are listed, a class gets all of its    *)
(* parameters that the container has.                                       *)
THEOREM BindingIgnoresOrder == Spec => []BoundInAnyOrder
<1>1. IInv => BoundInAnyOrder
  BY DEF IInv, LoadInv, BoundInAnyOrder
<1> QED
  BY <1>1, Invariance, PTL

(* A process that goes on to open its database misses no wired module.      *)
THEOREM WiredIsLoaded == Spec => []NothingMissing
<1>1. IInv => NothingMissing
  BY DEF IInv, LoadInv
<1> QED
  BY <1>1, Invariance, PTL

(* Every connection that is out is somebody's or the collector's.           *)
THEOREM NoConnectionLost == Spec => []ConnectionsAccounted
<1>1. IInv => ConnectionsAccounted
  BY DEF IInv, SessionInv
<1> QED
  BY <1>1, Invariance, PTL

(* Deliveries that keep connections exhaust a pool only when callbacks of   *)
(* dead channels keep all of it but the prefetch.                           *)
THEOREM NoCircularWait == Spec => []WaitsNotCircular
<1>1. ASSUME IInv, PrefetchInv, NEW p \in Pool, out[p] = Capacity, Running(p) = {},
             garbage[p] <= 0
      PROVE  Capacity <= Prefetch + Cardinality(Keeping(p) \intersect detached)
  <2> DEFINE K == Keeping(p)
             D == Keeping(p) \intersect detached
             L == Keeping(p) \ detached
  <2>1. K \subseteq kept /\ kept \subseteq Keepers /\ Keepers \subseteq Task
    BY <1>1 DEF IInv, SessionInv, SessionTypeOK, Keeping, Keepers
  <2>2. IsFiniteSet(K) /\ IsFiniteSet(D) /\ IsFiniteSet(L)
        /\ Cardinality(K) \in Nat /\ Cardinality(D) \in Nat /\ Cardinality(L) \in Nat
    BY <2>1, PoolFacts, FS_Subset, FS_CardinalityType
  <2>3. Cardinality(K) = Cardinality(D) + Cardinality(L)
    <3>1. K = D \union L /\ D \intersect L = {}
      OBVIOUS
    <3> HIDE DEF K, D, L
    <3>2. Cardinality(D \intersect L) = 0
      BY <3>1, FS_EmptySet
    <3>3. Cardinality(D \union L)
            = Cardinality(D) + Cardinality(L) - Cardinality(D \intersect L)
      BY <2>2, FS_Union
    <3> QED
      BY <2>2, <3>1, <3>2, <3>3
  <2>4. Cardinality(L) <= Prefetch
    <3>1. CASE L = {}
      BY <3>1, FS_EmptySet, PrefetchAssumption
    <3>2. CASE L # {}
      <4>1. PICK t \in L : TRUE
        BY <3>2
      <4>2. t \in Keepers /\ t \in Task \ Request /\ QueueOf[t] \in Consumer
        BY <2>1, <4>1, KeeperAssumption, QueueAssumption
      <4>3. L \subseteq Outstanding(QueueOf[t])
        <5>1. \A u \in L : u \in Task \ Request /\ QueueOf[u] = QueueOf[t]
          BY <2>1, <4>2, KeeperAssumption
        <5>2. \A u \in L : step[u] # "idle" /\ u \notin detached
          BY <1>1, <2>1 DEF IInv, SessionInv, KeepersInv
        <5> QED
          BY <5>1, <5>2 DEF Outstanding
      <4>4. Cardinality(L) <= Cardinality(Outstanding(QueueOf[t]))
        BY <4>3, OutstandingFinite, FS_Subset
      <4>5. Cardinality(Outstanding(QueueOf[t])) <= Prefetch
        BY <1>1, <4>2 DEF PrefetchInv
      <4> HIDE DEF L
      <4> QED
        BY <2>2, <4>4, <4>5, OutstandingFinite, PrefetchAssumption
    <3> QED
      BY <3>1, <3>2
  <2>5. out[p] = Cardinality(Running(p)) + Cardinality(K) + garbage[p]
    BY <1>1 DEF IInv, SessionInv, ConnectionsAccounted
  <2>6. Cardinality(Running(p)) = 0 /\ garbage[p] = 0
    BY <1>1, PoolFacts, FS_EmptySet DEF IInv, SessionInv, SessionTypeOK
  <2> HIDE DEF K, L
  <2> QED
    BY <1>1, <2>2, <2>3, <2>4, <2>5, <2>6, PoolFacts, PrefetchAssumption
<1>2. ASSUME IInv, PrefetchInv PROVE WaitsNotCircular
  <2>1. \A p \in Pool : garbage[p] \in Nat
    BY <1>2, PoolFacts DEF IInv, SessionInv, SessionTypeOK
  <2> QED
    BY <1>1, <1>2, <2>1 DEF WaitsNotCircular
<1> QED
  BY <1>2, Invariance, PrefetchHolds, PTL

(* Nobody finds the database closed before the shutdown has closed it.      *)
THEOREM DatabaseOpen == Spec => []OpenWhileServing
<1>1. IInv => OpenWhileServing
  BY Started DEF IInv, StartupTypeOK, Stage, Open, OpenedInv, OpenWhileServing
<1> QED
  BY <1>1, Invariance, PTL

(* A response has every middleware's header, unless the work for it ended   *)
(* in an exception that no handler knows: then it has none.                 *)
THEOREM HeadersComplete == Spec => []AnswersStamped
<1>1. ASSUME IInv, NEW r \in Request, way[r] = "out", depth[r] = 0, answer[r] # Raised
      PROVE  answer[r].stamps = IF result[r] = "unknown" THEN {} ELSE Stamps
  <2>1. Reply("internal").stamps = {}
    BY DEF Reply
  <2> QED
    BY <1>1, <2>1, StampFacts DEF IInv, StampInv
<1>2. IInv => AnswersStamped
  BY <1>1 DEF AnswersStamped
<1> QED
  BY <1>2, Invariance, PTL
=============================================================================
