------------------------- MODULE ConnectionsProofs -------------------------
(***************************************************************************)
(* What holds of the connection manager for every number of sockets,       *)
(* clients, users and rooms, whoever reconnects under whose client_id.     *)
(***************************************************************************)
EXTENDS Connections, FiniteSetTheorems, TLAPS

(* An endpoint knows its client and user from the moment it accepts.        *)
Identified ==
  \A s \in Socket :
    /\ phase[s] = "new" => client[s] = None
    /\ phase[s] = "accepting" \/ Running(s) => client[s] \in Client /\ user[s] \in User

(* join_room enters nobody twice, so leaving once is leaving.               *)
Distinct(list) == \A i, j \in 1 .. Len(list) : list[i] = list[j] => i = j

RoomsDistinct == \A r \in Room : Distinct(rooms[r])

HeardOpened == \A s \in heard : phase[s] # "new"

IInv ==
  /\ TypeOK
  /\ Identified
  /\ RoomsDistinct
  /\ HeardOpened
  /\ NothingLeftBehind
  /\ BooksBalance
  /\ LostOnlyByReuse
  /\ RoomHearsInFull

-----------------------------------------------------------------------------
(* list.remove keeps a list of distinct clients distinct and takes exactly  *)
(* the client out of it.                                                    *)
LEMMA WithoutFacts ==
  ASSUME NEW list \in Seq(Client), NEW c, Distinct(list)
  PROVE  /\ Without(list, c) \in Seq(Client)
         /\ Distinct(Without(list, c))
         /\ \A i \in 1 .. Len(Without(list, c)) :
              /\ Without(list, c)[i] # c
              /\ \E j \in 1 .. Len(list) : Without(list, c)[i] = list[j]
<1>1. CASE ~In(c, list)
  BY <1>1 DEF In, Without
<1>2. CASE In(c, list)
  <2> DEFINE Is(i) == list[i] = c /\ \A j \in 1 .. i - 1 : list[j] # c
             first == CHOOSE i \in 1 .. Len(list) : Is(i)
             rest == [i \in 1 .. Len(list) - 1 |->
                        IF i < first THEN list[i] ELSE list[i + 1]]
  <2>1. PICK i \in 1 .. Len(list) : list[i] = c
    BY <1>2 DEF In
  <2>2. Is(i)
    BY <2>1 DEF Distinct
  <2>3. first \in 1 .. Len(list) /\ list[first] = c
    BY <2>2
  <2>4. Without(list, c) = rest
    BY <1>2 DEF Without
  <2> HIDE DEF first
  <2>5. rest \in Seq(Client) /\ Len(rest) = Len(list) - 1
    BY <2>3
  <2>6. Distinct(rest)
    BY <2>3, <2>5 DEF Distinct
  <2>7. ASSUME NEW k \in 1 .. Len(rest)
        PROVE  rest[k] # c /\ \E j \in 1 .. Len(list) : rest[k] = list[j]
    BY <2>3, <2>5, <2>7 DEF Distinct
  <2> QED
    BY <2>4, <2>5, <2>6, <2>7
<1> QED
  BY <1>1, <1>2

(* The sets that are counted are finite.                                    *)
LEMMA CountedFinite ==
  /\ IsFiniteSet({s \in Socket : Running(s)})
  /\ \A u, c : IsFiniteSet(EndpointsOf(u, c))
<1>1. \A T \in SUBSET Socket : IsFiniteSet(T)
  BY SocketAssumption, FS_Subset
<1> QED
  BY <1>1 DEF EndpointsOf

(* In the first state nothing is registered and nobody runs.                *)
LEMMA IInvInit == Init => IInv
<1> SUFFICES ASSUME Init PROVE IInv
  OBVIOUS
<1>1. TypeOK
  <2>1. /\ phase \in [Socket -> Phase]
        /\ client \in [Socket -> Client \union {None}]
        /\ user \in [Socket -> User \union {None}]
        /\ active \in [Client -> Socket \union {None}]
    BY DEF Init, Phase
  <2>2. entries \in [User -> [Client -> Nat]] /\ rooms \in [Room -> Seq(Client)]
    BY DEF Init
  <2>3. queue \in Seq(Message) /\ published \in 0 .. MaxPublish
    BY BoundAssumption DEF Init
  <2>4. shrunk \in BOOLEAN
    BY DEF Init
  <2>5. /\ gauge \in Nat /\ current = None /\ at \in Nat \ {0}
        /\ start \subseteq Socket /\ heard \subseteq Socket /\ passed \subseteq Client
    BY DEF Init
  <2> QED
    BY <2>1, <2>2, <2>3, <2>4, <2>5 DEF TypeOK
<1>2. Identified /\ RoomsDistinct /\ HeardOpened
  BY DEF Init, Identified, Running, RoomsDistinct, Distinct, HeardOpened
<1>3. NothingLeftBehind /\ LostOnlyByReuse /\ RoomHearsInFull
  BY DEF Init, NothingLeftBehind, LostOnlyByReuse, RoomHearsInFull, Running
<1>4. /\ {s \in Socket : Running(s)} = {}
      /\ \A u, c : EndpointsOf(u, c) = {}
  BY DEF Init, Running, EndpointsOf
<1>5. BooksBalance
  BY <1>4, FS_EmptySet DEF Init, BooksBalance
<1> QED
  BY <1>1, <1>2, <1>3, <1>5 DEF IInv

(* The books balance after a step that starts and ends no endpoint.         *)
LEMMA BooksFrame ==
  ASSUME IInv, UNCHANGED <<entries, gauge>>,
         \A s \in Socket : Running(s)' <=> Running(s),
         \A s \in Socket : Running(s) => client'[s] = client[s] /\ user'[s] = user[s]
  PROVE  BooksBalance'
<1>1. {s \in Socket : Running(s)}' = {s \in Socket : Running(s)}
  OBVIOUS
<1>2. \A u \in User, c \in Client : EndpointsOf(u, c)' = EndpointsOf(u, c)
  BY DEF EndpointsOf
<1> QED
  BY <1>1, <1>2 DEF IInv, BooksBalance

(* A step that neither connects nor disconnects, and leaves the rooms and   *)
(* the listener alone, preserves the invariant.                             *)
LEMMA EndpointStep ==
  ASSUME IInv, TypeOK', Identified',
         UNCHANGED <<bookVars, rooms, listenerVars, shrunk>>,
         \A s \in Socket : Running(s)' <=> Running(s),
         \A s \in Socket : phase[s] # "new" =>
           phase'[s] # "new" /\ client'[s] = client[s] /\ user'[s] = user[s]
  PROVE  IInv'
<1> USE DEF bookVars, listenerVars
<1>0. \A s \in Socket : Running(s) => phase[s] # "new"
  BY DEF Running
<1>1. BooksBalance'
  BY <1>0, BooksFrame
<1>2. RoomsDistinct'
  BY DEF IInv, RoomsDistinct
<1>3. HeardOpened' /\ \A s \in heard : client'[s] = client[s]
  BY DEF IInv, HeardOpened, TypeOK
<1>4. NothingLeftBehind'
  <2>1. ASSUME NEW c \in Client, active[c] # None
        PROVE  Running(active[c])' /\ client'[active[c]] = c
    BY <1>0, <2>1 DEF IInv, NothingLeftBehind, TypeOK
  <2>2. ASSUME NEW r \in Room, NEW i \in 1 .. Len(rooms[r])
        PROVE  \E s \in Socket : Running(s)' /\ client'[s] = rooms[r][i]
    BY <1>0 DEF IInv, NothingLeftBehind
  <2>3. \A c \in Client : active'[c] # None =>
          Running(active[c])' /\ client'[active'[c]] = c
    BY <2>1
  <2>4. \A s : Running(s)' <=> phase'[s] \in {"open", "replying", "erring"}
    BY DEF Running
  <2> QED
    BY <2>2, <2>3, <2>4 DEF NothingLeftBehind, Running
<1>5. LostOnlyByReuse'
  <2> SUFFICES ASSUME NEW s \in Socket, Running(s)', active'[client'[s]] # s
               PROVE  \E t \in Socket \ {s} : client'[t] = client'[s]
    BY DEF LostOnlyByReuse
  <2>1. Running(s) /\ client'[s] = client[s] /\ client[s] \in Client
    BY <1>0 DEF IInv, Identified
  <2>2. PICK t \in Socket \ {s} : client[t] = client[s]
    BY <2>1 DEF IInv, LostOnlyByReuse
  <2>3. phase[t] # "new"
    BY <2>1, <2>2, NoneAssumption DEF IInv, Identified
  <2> QED
    BY <2>1, <2>2, <2>3
<1>6. RoomHearsInFull'
  BY <1>3 DEF IInv, RoomHearsInFull
<1> QED
  BY <1>1, <1>2, <1>3, <1>4, <1>5, <1>6 DEF IInv

(* Opening, turning away, and events that only ask for an answer.           *)
LEMMA AnswerInv ==
  ASSUME IInv, NEW s \in Socket,
         \/ Open(s) \/ TurnAway(s) \/ Ping(s) \/ Raise(s) \/ Reply(s) \/ ReportError(s)
  PROVE  IInv'
<1>0. /\ UNCHANGED <<bookVars, rooms, published, queue, listenerVars, shrunk>>
      /\ \E p \in Phase : phase' = [phase EXCEPT ![s] = p]
  BY DEF Phase, Open, TurnAway, Ping, Raise, Reply, ReportError, SetPhase
<1>1. TypeOK'
  <2>1. phase' \in [Socket -> Phase]
    BY <1>0 DEF IInv, TypeOK
  <2>2. /\ client' \in [Socket -> Client \union {None}]
        /\ user' \in [Socket -> User \union {None}]
    <3>1. CASE Open(s)
      BY <3>1 DEF IInv, TypeOK, Open
    <3>2. CASE ~Open(s)
      <4>1. UNCHANGED <<client, user>>
        BY <3>2 DEF TurnAway, Ping, Raise, Reply, ReportError
      <4> QED
        BY <4>1 DEF IInv, TypeOK
    <3> QED
      BY <3>1, <3>2
  <2> QED
    BY <1>0, <2>1, <2>2 DEF IInv, TypeOK, bookVars, listenerVars
<1>2. Identified'
  BY DEF IInv, TypeOK, Identified, Running, Open, TurnAway, Ping, Raise, Reply,
         ReportError, SetPhase
<1>3. /\ UNCHANGED <<bookVars, rooms, listenerVars, shrunk>>
      /\ \A t \in Socket : Running(t)' <=> Running(t)
      /\ \A t \in Socket : phase[t] # "new" =>
           phase'[t] # "new" /\ client'[t] = client[t] /\ user'[t] = user[t]
  BY DEF IInv, TypeOK, Running, Open, TurnAway, Ping, Raise, Reply, ReportError, SetPhase
<1> QED
  BY <1>1, <1>2, <1>3, EndpointStep

(* Publication, here and elsewhere, and loss.                               *)
LEMMA PublishInv ==
  ASSUME IInv, (\E s \in Socket : Publish(s)) \/ PublishElsewhere \/ Lose
  PROVE  IInv'
<1>1. /\ UNCHANGED <<endpointVars, bookVars, rooms, listenerVars, shrunk>>
      /\ published' \in 0 .. MaxPublish
  BY BoundAssumption DEF IInv, TypeOK, Publish, PublishElsewhere, Lose
<1>2. queue' \in Seq(Message)
  <2>1. ASSUME NEW s \in Socket, Publish(s) PROVE queue' \in Seq(Message)
    <3>1. client[s] \in Client
      BY <2>1 DEF IInv, Identified, Running, Publish
    <3>2. PICK m \in Message : queue' = Append(queue, m)
      BY <2>1, <3>1 DEF Publish, Message
    <3> QED
      BY <3>2 DEF IInv, TypeOK
  <2>2. ASSUME PublishElsewhere PROVE queue' \in Seq(Message)
    BY <2>2 DEF IInv, TypeOK, PublishElsewhere, Message
  <2>3. ASSUME Lose PROVE queue' \in Seq(Message)
    <3>1. queue \in Seq(Message) /\ queue # <<>> /\ queue' = Tail(queue)
      BY <2>3 DEF IInv, TypeOK, Lose
    <3> QED
      BY <3>1
  <2> QED
    BY <2>1, <2>2, <2>3
<1>3. TypeOK' /\ Identified'
  BY <1>1, <1>2 DEF IInv, TypeOK, Identified, Running, endpointVars, bookVars, listenerVars
<1>4. \A t \in Socket : (Running(t)' <=> Running(t)) /\ phase'[t] = phase[t]
        /\ client'[t] = client[t] /\ user'[t] = user[t]
  BY <1>1 DEF Running, endpointVars
<1> QED
  BY <1>1, <1>3, <1>4, EndpointStep

(* A socket is registered, in place of the one that had its client_id.      *)
LEMMA ConnectInv ==
  ASSUME IInv, NEW s \in Socket, Connect(s)
  PROVE  IInv'
<1> USE DEF IInv
<1> DEFINE c == client[s]
           u == user[s]
<1>1. c \in Client /\ u \in User /\ ~Running(s) /\ s # None
  BY NoneAssumption DEF Connect, Identified, Running
<1>2. /\ \A t \in Socket : Running(t)' <=> Running(t) \/ t = s
      /\ UNCHANGED <<client, user, rooms, listenerVars, shrunk>>
  BY DEF Connect, SetPhase, Running, TypeOK
<1>3. TypeOK'
  BY <1>1 DEF Connect, SetPhase, TypeOK, Phase, listenerVars
<1>4. Identified' /\ RoomsDistinct' /\ HeardOpened'
  BY <1>1, <1>2 DEF Connect, SetPhase, Identified, RoomsDistinct, HeardOpened, TypeOK, Running,
     listenerVars
<1>5. NothingLeftBehind'
  <2>1. ASSUME NEW d \in Client, active'[d] # None
        PROVE  active'[d] \in Socket /\ Running(active[d])' /\ client[active'[d]] = d
    <3>1. CASE d = c
      <4>1. active'[d] = s
        BY <1>1, <3>1 DEF Connect, TypeOK
      <4>2. Running(active[d])'
        BY <1>2, <4>1 DEF Running
      <4> QED
        BY <3>1, <4>1, <4>2
    <3>2. CASE d # c
      <4>1. active'[d] = active[d] /\ active[d] \in Socket
        BY <2>1, <3>2 DEF Connect, TypeOK
      <4>2. Running(active[d]) /\ client[active[d]] = d
        BY <2>1, <4>1 DEF NothingLeftBehind
      <4>3. Running(active[d])'
        BY <1>2, <4>1, <4>2 DEF Running
      <4> QED
        BY <4>1, <4>2, <4>3
    <3> QED
      BY <3>1, <3>2
  <2>2. ASSUME NEW r \in Room, NEW i \in 1 .. Len(rooms[r])
        PROVE  \E t \in Socket : Running(t)' /\ client[t] = rooms[r][i]
    BY <1>2 DEF NothingLeftBehind
  <2> QED
    BY <1>2, <2>1, <2>2 DEF NothingLeftBehind, Running
<1>6. BooksBalance'
  <2>1. {t \in Socket : Running(t)}' = {t \in Socket : Running(t)} \union {s}
    BY <1>2
  <2>2. \A v \in User, d \in Client :
          EndpointsOf(v, d)' = IF v = u /\ d = c THEN EndpointsOf(v, d) \union {s}
                                              ELSE EndpointsOf(v, d)
    BY <1>2 DEF EndpointsOf
  <2>3. gauge' = Cardinality({t \in Socket : Running(t)}')
    <3>1. gauge' = Cardinality({t \in Socket : Running(t)}) + 1
      BY DEF Connect, BooksBalance
    <3>2. s \notin {t \in Socket : Running(t)}
      BY <1>1
    <3>3. Cardinality({t \in Socket : Running(t)} \union {s})
            = Cardinality({t \in Socket : Running(t)}) + 1
      BY <3>2, CountedFinite, FS_AddElement
    <3> QED
      BY <2>1, <3>1, <3>3
  <2>4. ASSUME NEW v \in User, NEW d \in Client
        PROVE  entries'[v][d] = Cardinality(EndpointsOf(v, d)')
    <3>1. s \notin EndpointsOf(v, d) /\ IsFiniteSet(EndpointsOf(v, d))
      BY <1>1, CountedFinite DEF EndpointsOf
    <3>2. CASE v = u /\ d = c
      <4>1. entries'[v][d] = entries[v][d] + 1
        BY <1>1, <3>2 DEF Connect, TypeOK
      <4> QED
        BY <2>2, <3>1, <3>2, <4>1, FS_AddElement DEF BooksBalance
    <3>3. CASE ~(v = u /\ d = c)
      <4>1. entries'[v][d] = entries[v][d]
        BY <1>1, <3>3 DEF Connect, TypeOK
      <4> QED
        BY <2>2, <3>3, <4>1 DEF BooksBalance
    <3> QED
      BY <3>2, <3>3
  <2> QED
    BY <2>3, <2>4 DEF BooksBalance
<1>7. LostOnlyByReuse'
  <2> SUFFICES ASSUME NEW t \in Socket, Running(t)', active'[client[t]] # t
               PROVE  \E w \in Socket \ {t} : client[w] = client[t]
    BY <1>2 DEF LostOnlyByReuse
  <2>1. CASE client[t] = c
    <3>1. active'[c] = s
      BY <1>1 DEF Connect, TypeOK
    <3>2. t # s
      BY <2>1, <3>1
    <3> QED
      BY <2>1, <3>2
  <2>2. CASE client[t] # c
    <3>1. t # s /\ Running(t)
      BY <1>2, <2>2
    <3>2. active'[client[t]] = active[client[t]]
      BY <2>2, <3>1 DEF Connect, TypeOK, Identified
    <3> QED
      BY <3>1, <3>2 DEF LostOnlyByReuse
  <2> QED
    BY <2>1, <2>2
<1>8. RoomHearsInFull'
  BY <1>2 DEF RoomHearsInFull, listenerVars
<1> QED
  BY <1>3, <1>4, <1>5, <1>6, <1>7, <1>8

(* The client is taken out of the books by whichever of its endpoints ends. *)
LEMMA DisconnectInv ==
  ASSUME IInv, NEW s \in Socket, Disconnect(s)
  PROVE  IInv'
<1> USE DEF IInv
<1> DEFINE c == client[s]
           u == user[s]
<1>1. c \in Client /\ u \in User /\ Running(s)
  BY DEF Disconnect, Identified, Running
<1>2. /\ \A t \in Socket : Running(t)' <=> Running(t) /\ t # s
      /\ UNCHANGED <<client, user, published, queue, listenerVars>>
  BY DEF Disconnect, SetPhase, Running, TypeOK
<1>3. \A r \in Room : rooms'[r] = Without(rooms[r], c)
  BY DEF Disconnect
<1>4. \A r \in Room :
        /\ rooms'[r] \in Seq(Client) /\ Distinct(rooms'[r])
        /\ \A i \in 1 .. Len(rooms'[r]) :
             rooms'[r][i] # c /\ \E j \in 1 .. Len(rooms[r]) : rooms'[r][i] = rooms[r][j]
  <2> TAKE r \in Room
  <2>1. rooms[r] \in Seq(Client) /\ Distinct(rooms[r])
    BY DEF RoomsDistinct, TypeOK
  <2>2. rooms'[r] = Without(rooms[r], c)
    BY <1>3
  <2> HIDE DEF c
  <2> QED
    BY <2>1, <2>2, WithoutFacts
<1>5. BooksBalance' /\ gauge' \in Nat
  <2>1. {t \in Socket : Running(t)}' = {t \in Socket : Running(t)} \ {s}
    BY <1>2
  <2>2. \A v \in User, d \in Client :
          EndpointsOf(v, d)' = IF v = u /\ d = c THEN EndpointsOf(v, d) \ {s}
                                              ELSE EndpointsOf(v, d)
    BY <1>2 DEF EndpointsOf
  <2>3. gauge' = Cardinality({t \in Socket : Running(t)}')
    BY <1>1, <2>1, CountedFinite, FS_RemoveElement DEF Disconnect, BooksBalance
  <2>4. ASSUME NEW v \in User, NEW d \in Client
        PROVE  entries'[v][d] = Cardinality(EndpointsOf(v, d)')
    <3>1. CASE v = u /\ d = c
      <4>1. s \in EndpointsOf(v, d) /\ IsFiniteSet(EndpointsOf(v, d))
        BY <1>1, <3>1, CountedFinite DEF EndpointsOf
      <4>2. entries[v][d] # 0
        BY <4>1, FS_EmptySet DEF BooksBalance
      <4>3. entries'[v][d] = entries[v][d] - 1
        BY <1>1, <3>1, <4>2 DEF Disconnect, TypeOK
      <4> QED
        BY <2>2, <3>1, <4>1, <4>3, FS_RemoveElement DEF BooksBalance
    <3>2. CASE ~(v = u /\ d = c)
      <4>1. entries'[v][d] = entries[v][d]
        BY <1>1, <3>2 DEF Disconnect, TypeOK
      <4> QED
        BY <2>2, <3>2, <4>1 DEF BooksBalance
    <3> QED
      BY <3>1, <3>2
  <2>5. gauge' \in Nat
    BY <2>1, <2>3, CountedFinite, FS_RemoveElement, FS_CardinalityType
  <2> QED
    BY <2>3, <2>4, <2>5 DEF BooksBalance
<1>6. TypeOK'
  <2>1. rooms' \in [Room -> Seq(Client)]
    BY <1>4 DEF Disconnect
  <2>2. entries' \in [User -> [Client -> Nat]]
    BY <1>1 DEF Disconnect, TypeOK
  <2>3. phase' \in [Socket -> Phase] /\ active' \in [Client -> Socket \union {None}]
        /\ shrunk' \in BOOLEAN
    BY <1>1 DEF Disconnect, SetPhase, TypeOK, Phase
  <2> QED
    BY <1>2, <1>5, <2>1, <2>2, <2>3 DEF TypeOK, listenerVars
<1>7. Identified' /\ RoomsDistinct' /\ HeardOpened'
  BY <1>1, <1>2, <1>4 DEF Disconnect, SetPhase, Identified, RoomsDistinct, HeardOpened,
     TypeOK, Running, listenerVars
<1>8. NothingLeftBehind'
  <2>1. ASSUME NEW d \in Client, active'[d] # None
        PROVE  active'[d] \in Socket /\ Running(active[d])' /\ client[active'[d]] = d
    BY <1>1, <1>2, <2>1 DEF Disconnect, NothingLeftBehind, TypeOK, SetPhase, Running
  <2>2. ASSUME NEW r \in Room, NEW i \in 1 .. Len(rooms'[r])
        PROVE  \E t \in Socket : Running(t)' /\ client[t] = rooms'[r][i]
    BY <1>2, <1>4 DEF NothingLeftBehind
  <2> QED
    BY <1>2, <2>1, <2>2 DEF NothingLeftBehind, Running
<1>9. LostOnlyByReuse'
  <2> SUFFICES ASSUME NEW t \in Socket, Running(t)', active'[client[t]] # t
               PROVE  \E w \in Socket \ {t} : client[w] = client[t]
    BY <1>2 DEF LostOnlyByReuse
  <2>1. CASE client[t] = c
    BY <1>2, <2>1
  <2>2. CASE client[t] # c
    BY <1>2, <2>2 DEF Disconnect, TypeOK, LostOnlyByReuse
  <2> QED
    BY <2>1, <2>2
<1>10. RoomHearsInFull'
  <2> SUFFICES ASSUME current # None, current.room # None, ~shrunk',
                      NEW i \in 1 .. at - 1
               PROVE  LET d == rooms'[current.room][i] IN
                      /\ i <= Len(rooms'[current.room])
                      /\ d = current.exclude \/ d \in passed
                           \/ \E t \in heard : client[t] = d
    BY <1>2 DEF RoomHearsInFull, listenerVars
  <2>1. current.room \in Room
    BY DEF TypeOK, Message
  <2>2. ~shrunk /\ ~In(c, rooms[current.room])
    BY <2>1 DEF Disconnect, Shrinks
  <2>3. rooms'[current.room] = rooms[current.room]
    BY <1>3, <2>1, <2>2 DEF Without
  <2> QED
    BY <2>2, <2>3 DEF RoomHearsInFull
<1> QED
  BY <1>5, <1>6, <1>7, <1>8, <1>9, <1>10

(* A client takes or gives up its seat in a room and is answered.           *)
LEMMA RoomInv ==
  ASSUME IInv, NEW s \in Socket, NEW r \in Room, Subscribe(s, r) \/ Unsubscribe(s, r)
  PROVE  IInv'
<1> USE DEF IInv
<1> DEFINE c == client[s]
<1>1. c \in Client /\ Running(s)
  BY DEF Subscribe, Unsubscribe, Identified, Running
<1>2. /\ \A t \in Socket : Running(t)' <=> Running(t)
      /\ UNCHANGED <<client, user, bookVars, published, queue, listenerVars>>
      /\ \A t \in Socket : phase'[t] = phase[t] \/ (t = s /\ phase'[t] = "replying")
  BY DEF Subscribe, Unsubscribe, SetPhase, Running, TypeOK
<1>3. \A q \in Room : q # r => rooms'[q] = rooms[q]
  BY DEF Subscribe, Unsubscribe, TypeOK
<1>4. \/ rooms'[r] = rooms[r]
      \/ rooms'[r] = Append(rooms[r], c) /\ ~In(c, rooms[r]) /\ Subscribe(s, r)
      \/ rooms'[r] = Without(rooms[r], c) /\ Unsubscribe(s, r)
  BY DEF Subscribe, Unsubscribe, TypeOK
<1>5. rooms[r] \in Seq(Client) /\ Distinct(rooms[r])
  BY DEF RoomsDistinct, TypeOK
<1>6. /\ rooms'[r] \in Seq(Client) /\ Distinct(rooms'[r])
      /\ \A i \in 1 .. Len(rooms'[r]) :
           rooms'[r][i] = c \/ \E j \in 1 .. Len(rooms[r]) : rooms'[r][i] = rooms[r][j]
  <2> HIDE DEF c
  <2>1. CASE rooms'[r] = rooms[r]
    BY <1>5, <2>1
  <2>2. CASE rooms'[r] = Append(rooms[r], c) /\ ~In(c, rooms[r])
    BY <1>1, <1>5, <2>2 DEF Distinct, In
  <2>3. CASE rooms'[r] = Without(rooms[r], c)
    BY <1>5, <2>3, WithoutFacts
  <2> QED
    BY <1>4, <2>1, <2>2, <2>3
<1>7. TypeOK'
  <2>1. rooms' \in [Room -> Seq(Client)]
    BY <1>3, <1>6 DEF Subscribe, Unsubscribe, TypeOK
  <2>2. phase' \in [Socket -> Phase] /\ shrunk' \in BOOLEAN
    BY DEF Subscribe, Unsubscribe, SetPhase, TypeOK, Phase
  <2> QED
    BY <1>2, <2>1, <2>2 DEF TypeOK, listenerVars, bookVars
<1>8. Identified' /\ HeardOpened' /\ LostOnlyByReuse'
  BY <1>1, <1>2 DEF Identified, HeardOpened, LostOnlyByReuse, Running, bookVars,
     listenerVars, TypeOK
<1>9. RoomsDistinct'
  BY <1>3, <1>6 DEF RoomsDistinct
<1>10. NothingLeftBehind'
  <2>1. ASSUME NEW d \in Client, active'[d] # None
        PROVE  Running(active[d])' /\ client[active'[d]] = d
    BY <1>2, <2>1 DEF NothingLeftBehind, TypeOK, Running, bookVars
  <2>2. ASSUME NEW q \in Room, NEW i \in 1 .. Len(rooms'[q])
        PROVE  \E t \in Socket : Running(t)' /\ client[t] = rooms'[q][i]
    BY <1>1, <1>2, <1>3, <1>6 DEF NothingLeftBehind
  <2> QED
    BY <1>2, <2>1, <2>2 DEF NothingLeftBehind, Running
<1>11. BooksBalance'
  BY <1>2, BooksFrame DEF bookVars
<1>12. RoomHearsInFull'
  <2> SUFFICES ASSUME current # None, current.room # None, ~shrunk',
                      NEW i \in 1 .. at - 1
               PROVE  LET d == rooms'[current.room][i] IN
                      /\ i <= Len(rooms'[current.room])
                      /\ d = current.exclude \/ d \in passed
                           \/ \E t \in heard : client[t] = d
    BY <1>2 DEF RoomHearsInFull, listenerVars
  <2>1. current.room \in Room
    BY DEF TypeOK, Message
  <2>2. ~shrunk
    BY DEF Subscribe, Unsubscribe
  <2>3. i <= Len(rooms[current.room])
    BY <2>2 DEF RoomHearsInFull
  <2>4. /\ rooms'[current.room][i] = rooms[current.room][i]
        /\ i <= Len(rooms'[current.room])
    <3>1. CASE current.room # r
      BY <1>3, <2>1, <2>3, <3>1
    <3>2. CASE current.room = r /\ rooms'[r] = rooms[r]
      BY <2>3, <3>2
    <3>3. CASE current.room = r /\ rooms'[r] = Append(rooms[r], c)
      BY <1>1, <1>5, <2>3, <3>3 DEF TypeOK
    <3>4. CASE current.room = r /\ rooms'[r] = Without(rooms[r], c) /\ Unsubscribe(s, r)
      <4>1. ~In(c, rooms[r])
        BY <3>4 DEF Unsubscribe, Shrinks
      <4> QED
        BY <2>3, <3>4, <4>1 DEF Without
    <3> QED
      BY <1>4, <3>1, <3>2, <3>3, <3>4
  <2> QED
    BY <2>2, <2>4 DEF RoomHearsInFull
<1> QED
  BY <1>7, <1>8, <1>9, <1>10, <1>11, <1>12

(* The listener moves nothing but itself.                                   *)
LEMMA ListenerFrame ==
  ASSUME IInv, TypeOK', HeardOpened', RoomHearsInFull',
         UNCHANGED <<endpointVars, bookVars, rooms>>
  PROVE  IInv'
<1> USE DEF IInv, endpointVars, bookVars
<1>1. Identified' /\ RoomsDistinct' /\ NothingLeftBehind' /\ LostOnlyByReuse'
  BY DEF Identified, RoomsDistinct, NothingLeftBehind, LostOnlyByReuse, Running
<1>2. BooksBalance'
  BY BooksFrame DEF Running
<1> QED
  BY <1>1, <1>2

(* Every step of the listener preserves the invariant.                      *)
LEMMA ListenInv ==
  ASSUME IInv, Listen
  PROVE  IInv'
<1> USE DEF IInv
<1>1. ASSUME Take PROVE IInv'
  <2>1. Registered \subseteq Socket
    BY DEF Registered, TypeOK
  <2>2. queue \in Seq(Message) /\ queue # <<>>
    BY <1>1 DEF Take, TypeOK
  <2>3. Head(queue) \in Message /\ Tail(queue) \in Seq(Message)
    BY <2>2
  <2>4. TypeOK'
    <3>1. shrunk' \in BOOLEAN
      BY <1>1 DEF Take
    <3>2. /\ current' \in Message \union {None} /\ queue' \in Seq(Message)
          /\ at' \in Nat \ {0} /\ start' \subseteq Socket
          /\ heard' \subseteq Socket /\ passed' \subseteq Client
      BY <1>1, <2>1, <2>3 DEF Take
    <3>3. UNCHANGED <<endpointVars, bookVars, rooms, published>>
      BY <1>1 DEF Take
    <3> QED
      BY <3>1, <3>2, <3>3 DEF TypeOK, endpointVars, bookVars
  <2>5. HeardOpened' /\ RoomHearsInFull'
    BY <1>1 DEF Take, HeardOpened, RoomHearsInFull
  <2> QED
    BY <1>1, <2>4, <2>5, ListenerFrame DEF Take
<1>2. ASSUME SendToRoom PROVE IInv'
  <2> DEFINE list == rooms[current.room]
  <2>1. current \in Message /\ current.room \in Room /\ list \in Seq(Client)
    BY <1>2 DEF SendToRoom, TypeOK, Message
  <2>2. PICK i \in at .. Len(list) :
          /\ Addressed(list[i])
          /\ \A j \in at .. i - 1 : ~Addressed(list[j])
          /\ at' = i + 1
          /\ heard' = heard \union {active[list[i]]}
          /\ passed' = passed \union {list[j] : j \in at .. i - 1}
    BY <1>2 DEF SendToRoom
  <2>3. UNCHANGED <<endpointVars, bookVars, rooms, published, queue, current, start, shrunk>>
    BY <1>2 DEF SendToRoom
  <2>4. at \in Nat \ {0} /\ i \in 1 .. Len(list)
    BY <2>1 DEF TypeOK
  <2>5. /\ active[list[i]] \in Socket
        /\ Running(active[list[i]])
        /\ client[active[list[i]]] = list[i]
    BY <2>1, <2>2, <2>4 DEF Addressed, TypeOK, NothingLeftBehind
  <2>6. {list[j] : j \in at .. i - 1} \subseteq Client
    BY <2>1, <2>4
  <2>7. TypeOK'
    BY <2>2, <2>3, <2>4, <2>5, <2>6 DEF TypeOK, endpointVars, bookVars
  <2>8. HeardOpened'
    BY <2>2, <2>3, <2>5 DEF HeardOpened, Running, endpointVars
  <2>9. RoomHearsInFull'
    <3> SUFFICES ASSUME ~shrunk, NEW k \in 1 .. at' - 1
                 PROVE  /\ k <= Len(list)
                        /\ \/ list[k] = current.exclude
                           \/ list[k] \in passed'
                           \/ \E t \in heard' : client[t] = list[k]
      BY <2>3 DEF RoomHearsInFull, endpointVars
    <3>1. CASE k < at
      BY <1>2, <2>2, <2>4, <3>1 DEF RoomHearsInFull, SendToRoom
    <3>2. CASE k \in at .. i - 1
      <4>1. ~Addressed(list[k]) /\ list[k] \in passed'
        BY <2>2, <3>2
      <4> QED
        BY <2>4, <3>2, <4>1
    <3>3. CASE k = i
      BY <2>2, <2>4, <2>5, <3>3
    <3> QED
      BY <2>2, <2>4, <3>1, <3>2, <3>3
  <2> QED
    BY <2>3, <2>7, <2>8, <2>9, ListenerFrame
<1>3. ASSUME SendToAll PROVE IInv'
  <2>1. PICK s \in Registered \ heard : heard' = heard \union {s}
    BY <1>3 DEF SendToAll
  <2>2. s \in Socket /\ Running(s)
    BY DEF Registered, TypeOK, NothingLeftBehind
  <2>3. TypeOK'
    BY <1>3, <2>1, <2>2 DEF SendToAll, TypeOK, endpointVars, bookVars
  <2>4. HeardOpened' /\ RoomHearsInFull'
    BY <1>3, <2>1, <2>2 DEF SendToAll, HeardOpened, RoomHearsInFull, Running, endpointVars
  <2> QED
    BY <1>3, <2>3, <2>4, ListenerFrame DEF SendToAll
<1>4. ASSUME EndFanout PROVE IInv'
  <2>1. TypeOK'
    <3>1. shrunk' \in BOOLEAN
      BY <1>4 DEF EndFanout
    <3>2. /\ current' = None /\ at' \in Nat \ {0} /\ start' \subseteq Socket
          /\ heard' \subseteq Socket /\ passed' \subseteq Client
      BY <1>4 DEF EndFanout
    <3>3. UNCHANGED <<endpointVars, bookVars, rooms, published, queue>>
      BY <1>4 DEF EndFanout
    <3> QED
      BY <3>1, <3>2, <3>3 DEF TypeOK, endpointVars, bookVars
  <2>2. HeardOpened' /\ RoomHearsInFull'
    BY <1>4 DEF EndFanout, HeardOpened, RoomHearsInFull
  <2> QED
    BY <1>4, <2>1, <2>2, ListenerFrame DEF EndFanout
<1> QED
  BY <1>1, <1>2, <1>3, <1>4 DEF Listen, FailRoom, FinishRoom, FinishBroadcast

(* A stuttering step preserves the invariant.                               *)
LEMMA IdleInv == IInv /\ UNCHANGED vars => IInv'
<1> SUFFICES ASSUME IInv, UNCHANGED vars PROVE IInv'
  OBVIOUS
<1>1. TypeOK' /\ HeardOpened' /\ RoomHearsInFull'
  BY DEF IInv, vars, endpointVars, bookVars, listenerVars, TypeOK, HeardOpened,
     RoomHearsInFull
<1> QED
  BY <1>1, ListenerFrame DEF vars

(* Every step preserves the invariant.                                      *)
LEMMA IInvNext == IInv /\ [Next]_vars => IInv'
<1> SUFFICES ASSUME IInv, [Next]_vars PROVE IInv'
  OBVIOUS
<1>1. ASSUME NEW s \in Socket, Endpoint(s) PROVE IInv'
  BY <1>1, AnswerInv, PublishInv, ConnectInv, DisconnectInv, RoomInv DEF Endpoint
<1>2. ASSUME PublishElsewhere \/ Lose PROVE IInv'
  BY <1>2, PublishInv
<1>3. ASSUME Listen PROVE IInv'
  BY <1>3, ListenInv
<1> QED
  BY <1>1, <1>2, <1>3, IdleInv DEF Next

(* The invariant holds in every reachable state.                            *)
THEOREM Invariance == Spec => []IInv
  BY IInvInit, IInvNext, PTL DEF Spec

(* Type correctness of the connection manager.                              *)
THEOREM TypeCorrect == Spec => []TypeOK
  BY Invariance, PTL DEF IInv

(* What is registered, and the seats in rooms, belong to endpoints that run.*)
THEOREM NothingStays == Spec => []NothingLeftBehind
  BY Invariance, PTL DEF IInv

(* Users' lists and the gauge count the running endpoints.                  *)
THEOREM BooksKept == Spec => []BooksBalance
  BY Invariance, PTL DEF IInv

(* Whoever has a client_id of his own stays registered.                     *)
THEOREM OwnIdStays == Spec => []LostOnlyByReuse
  BY Invariance, PTL DEF IInv

(* A room message skips nobody unless somebody leaves meanwhile.            *)
THEOREM RoomIsServed == Spec => []RoomHearsInFull
  BY Invariance, PTL DEF IInv
=============================================================================
