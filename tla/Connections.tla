---------------------------- MODULE Connections ----------------------------
(***************************************************************************)
(* The WebSocket connections: one endpoint per socket (socket_route.py),   *)
(* the handler of its events (socket_handler.py) and the ConnectionManager *)
(* they all share (connection_manager.py), with the listener that fans out *)
(* what was published through Redis.  A client names itself in the URL, so *)
(* several sockets may use one client_id, one after the other or at once.  *)
(*                                                                         *)
(* Between two awaits of an endpoint or of the listener everything else may*)
(* run: an action is what runs from one await to the next.                 *)
(***************************************************************************)
EXTENDS Integers, Sequences, FiniteSets

CONSTANTS Socket,      \* the connections ever opened, one endpoint each
          Client, User, Room,
          RedisConnected,  \* FALSE as main.py starts the program
          MaxPublish,  \* bounds the messages published
          None

ASSUME SocketAssumption == IsFiniteSet(Socket)
ASSUME BoundAssumption == MaxPublish \in Nat
ASSUME RedisAssumption == RedisConnected \in BOOLEAN
ASSUME NoneAssumption == None \notin Socket \union Client \union User \union Room

VARIABLES
  phase, client, user,  \* each endpoint: what it does next, and for whom
  active,    \* active_connections: the socket registered for a client
  entries,   \* user_connections: how often a user's list holds a client
  rooms,     \* rooms: the clients of a room, in the order they joined
  gauge,     \* the Prometheus gauge active_connections
  published, queue,  \* messages published, and those the listener has not read
  current,   \* the message that the listener is fanning out
  at,        \* the next position of the room's list
  start,     \* the sockets registered when a broadcast began
  heard, passed,  \* history: who was sent it, who was not registered then
  shrunk     \* history: somebody left the room since the fan-out began

endpointVars == <<phase, client, user>>
bookVars == <<active, entries, gauge>>
listenerVars == <<current, at, start, heard, passed>>
vars == <<endpointVars, bookVars, rooms, published, queue, listenerVars, shrunk>>

Phase == {"new", "accepting", "open", "replying", "erring", "closed"}
Message == [room : Room \union {None}, exclude : Client \union {None}]

TypeOK ==
  /\ phase \in [Socket -> Phase]
  /\ client \in [Socket -> Client \union {None}]
  /\ user \in [Socket -> User \union {None}]
  /\ active \in [Client -> Socket \union {None}]
  /\ entries \in [User -> [Client -> Nat]]
  /\ rooms \in [Room -> Seq(Client)]
  /\ gauge \in Nat
  /\ published \in 0 .. MaxPublish
  /\ queue \in Seq(Message)
  /\ current \in Message \union {None}
  /\ at \in Nat \ {0}
  /\ start \subseteq Socket
  /\ heard \subseteq Socket
  /\ passed \subseteq Client
  /\ shrunk \in BOOLEAN

Init ==
  /\ phase = [s \in Socket |-> "new"]
  /\ client = [s \in Socket |-> None]
  /\ user = [s \in Socket |-> None]
  /\ active = [c \in Client |-> None]
  /\ entries = [u \in User |-> [c \in Client |-> 0]]
  /\ rooms = [r \in Room |-> <<>>]
  /\ gauge = 0
  /\ published = 0 /\ queue = <<>>
  /\ current = None /\ at = 1 /\ start = {} /\ heard = {} /\ passed = {}
  /\ shrunk = FALSE

(* An endpoint between connect and disconnect.                              *)
Running(s) == phase[s] \in {"open", "replying", "erring"}

Registered == {active[c] : c \in Client} \ {None}

SetPhase(s, p) == phase' = [phase EXCEPT ![s] = p]

-----------------------------------------------------------------------------
(* websocket_endpoint: the token names the user, the URL the client.        *)
Open(s) ==
  /\ phase[s] = "new"
  /\ \E c \in Client, u \in User :
       client' = [client EXCEPT ![s] = c] /\ user' = [user EXCEPT ![s] = u]
  /\ SetPhase(s, "accepting")
  /\ UNCHANGED <<bookVars, rooms, published, queue, listenerVars, shrunk>>

(* The token is invalid, or accept raises: nothing has been registered.     *)
TurnAway(s) ==
  /\ phase[s] \in {"new", "accepting"}
  /\ SetPhase(s, "closed")
  /\ UNCHANGED <<client, user, bookVars, rooms, published, queue, listenerVars, shrunk>>

(* Mutant: a user's clients are kept in a set.                              *)
ConnectInSet(s) ==
  /\ phase[s] = "accepting"
  /\ active' = [active EXCEPT ![client[s]] = s]
  /\ entries' = [entries EXCEPT ![user[s]][client[s]] = 1]
  /\ gauge' = gauge + 1
  /\ SetPhase(s, "open")
  /\ UNCHANGED <<client, user, rooms, published, queue, listenerVars, shrunk>>

(* ConnectionManager.connect after accept.  A socket registered for the same*)
(* client is overwritten.                                                   *)
Connect(s) ==
  /\ phase[s] = "accepting"
  /\ active' = [active EXCEPT ![client[s]] = s]
  /\ entries' = [entries EXCEPT ![user[s]][client[s]] = @ + 1]
  /\ gauge' = gauge + 1
  /\ SetPhase(s, "open")
  /\ UNCHANGED <<client, user, rooms, published, queue, listenerVars, shrunk>>

In(c, list) == \E i \in 1 .. Len(list) : list[i] = c

(* list.remove: the first occurrence goes.                                  *)
Without(list, c) ==
  IF In(c, list)
  THEN LET first == CHOOSE i \in 1 .. Len(list) :
                      list[i] = c /\ \A j \in 1 .. i - 1 : list[j] # c
       IN [i \in 1 .. Len(list) - 1 |-> IF i < first THEN list[i] ELSE list[i + 1]]
  ELSE list

(* Whether taking c out of the rooms of rs moves the list being fanned out. *)
Shrinks(c, rs) == current # None /\ current.room \in rs /\ In(c, rooms[current.room])

(* Mutant: the rooms are not cleaned up.                                    *)
DisconnectSeated(s) ==
  /\ \/ phase[s] = "open"
     \/ phase[s] = "erring" /\ active[client[s]] # None
  /\ active' = [active EXCEPT ![client[s]] = None]
  /\ entries' = [entries EXCEPT ![user[s]][client[s]] = IF @ > 0 THEN @ - 1 ELSE 0]
  /\ gauge' = gauge - 1
  /\ SetPhase(s, "closed")
  /\ UNCHANGED <<client, user, rooms, published, queue, listenerVars, shrunk>>

(* ConnectionManager.disconnect, by client_id: whichever socket is          *)
(* registered for it goes.  The peer is gone, sent no JSON, or the report of*)
(* an error could not be sent.                                              *)
Disconnect(s) ==
  /\ \/ phase[s] = "open"
     \/ phase[s] = "erring" /\ active[client[s]] # None
  /\ active' = [active EXCEPT ![client[s]] = None]
  /\ entries' = [entries EXCEPT ![user[s]][client[s]] = IF @ > 0 THEN @ - 1 ELSE 0]
  /\ rooms' = [r \in Room |-> Without(rooms[r], client[s])]
  /\ shrunk' = (shrunk \/ Shrinks(client[s], Room))
  /\ gauge' = gauge - 1
  /\ SetPhase(s, "closed")
  /\ UNCHANGED <<client, user, published, queue, listenerVars>>

-----------------------------------------------------------------------------
(* SocketHandler.handle_message.  Answers go to the socket registered for   *)
(* the client; an event that asks for nothing but an answer is Ping.        *)
Ping(s) ==
  /\ phase[s] = "open"
  /\ SetPhase(s, "replying")
  /\ UNCHANGED <<client, user, bookVars, rooms, published, queue, listenerVars, shrunk>>

(* Mutant: newcomers are put first.                                         *)
SubscribeFirst(s, r) ==
  /\ phase[s] = "open"
  /\ rooms' = [rooms EXCEPT ![r] = IF In(client[s], @) THEN @ ELSE <<client[s]>> \o @]
  /\ SetPhase(s, "replying")
  /\ UNCHANGED <<client, user, bookVars, published, queue, listenerVars, shrunk>>

Subscribe(s, r) ==
  /\ phase[s] = "open"
  /\ rooms' = [rooms EXCEPT ![r] = IF In(client[s], @) THEN @ ELSE Append(@, client[s])]
  /\ SetPhase(s, "replying")
  /\ UNCHANGED <<client, user, bookVars, published, queue, listenerVars, shrunk>>

Unsubscribe(s, r) ==
  /\ phase[s] = "open"
  /\ rooms' = [rooms EXCEPT ![r] = Without(@, client[s])]
  /\ shrunk' = (shrunk \/ Shrinks(client[s], {r}))
  /\ SetPhase(s, "replying")
  /\ UNCHANGED <<client, user, bookVars, published, queue, listenerVars>>

(* send_to_room and broadcast publish to Redis without an await.            *)
Publish(s) ==
  /\ phase[s] = "open"
  /\ RedisConnected /\ published < MaxPublish
  /\ published' = published + 1
  /\ \/ \E r \in Room : queue' = Append(queue, [room |-> r, exclude |-> client[s]])
     \/ queue' = Append(queue, [room |-> None, exclude |-> None])
  /\ UNCHANGED <<endpointVars, bookVars, rooms, listenerVars, shrunk>>

(* Another instance of the program publishes; its sender is no client here. *)
PublishElsewhere ==
  /\ RedisConnected /\ published < MaxPublish
  /\ published' = published + 1
  /\ \E r \in Room \union {None} : queue' = Append(queue, [room |-> r, exclude |-> None])
  /\ UNCHANGED <<endpointVars, bookVars, rooms, listenerVars, shrunk>>

(* The event is malformed, or publishing raises, as it does while Redis is  *)
(* not connected.                                                           *)
Raise(s) ==
  /\ phase[s] = "open"
  /\ SetPhase(s, "erring")
  /\ UNCHANGED <<client, user, bookVars, rooms, published, queue, listenerVars, shrunk>>

(* Mutant: a send that raises unregisters the client.                       *)
ReplyDropping(s) ==
  /\ phase[s] = "replying"
  /\ \/ SetPhase(s, "open") /\ UNCHANGED active
     \/ /\ active[client[s]] # None
        /\ active' = [active EXCEPT ![client[s]] = None]
        /\ SetPhase(s, "erring")
  /\ UNCHANGED <<client, user, entries, gauge, rooms, published, queue, listenerVars, shrunk>>

(* The answer was sent, or nobody is registered for the client; or sending  *)
(* it raised, and the error is reported next.                               *)
Reply(s) ==
  /\ phase[s] = "replying"
  /\ \/ SetPhase(s, "open")
     \/ active[client[s]] # None /\ SetPhase(s, "erring")
  /\ UNCHANGED <<client, user, bookVars, rooms, published, queue, listenerVars, shrunk>>

ReportError(s) ==
  /\ phase[s] = "erring"
  /\ SetPhase(s, "open")
  /\ UNCHANGED <<client, user, bookVars, rooms, published, queue, listenerVars, shrunk>>

-----------------------------------------------------------------------------
(* _listen_to_redis: one message at a time.                                 *)
Take ==
  /\ current = None /\ queue # <<>>
  /\ current' = Head(queue)
  /\ queue' = Tail(queue)
  /\ at' = 1 /\ start' = Registered /\ heard' = {} /\ passed' = {}
  /\ shrunk' = FALSE
  /\ UNCHANGED <<endpointVars, bookVars, rooms, published>>

(* Redis keeps nothing for a subscriber whose connection is down.           *)
Lose ==
  /\ queue # <<>>
  /\ queue' = Tail(queue)
  /\ UNCHANGED <<endpointVars, bookVars, rooms, published, listenerVars, shrunk>>

(* The fan-out is over, by its end or by an exception, which is logged.     *)
EndFanout ==
  /\ current' = None
  /\ at' = 1 /\ start' = {} /\ heard' = {} /\ passed' = {}
  /\ shrunk' = FALSE
  /\ UNCHANGED <<endpointVars, bookVars, rooms, published, queue>>

Addressed(c) == c # current.exclude /\ active[c] # None

(* _local_send_to_room iterates the list itself, which others change at     *)
(* every await.                                                             *)
SendToRoom ==
  /\ current # None /\ current.room # None
  /\ LET list == rooms[current.room] IN
     \E i \in at .. Len(list) :
       /\ Addressed(list[i])
       /\ \A j \in at .. i - 1 : ~Addressed(list[j])
       /\ at' = i + 1
       /\ heard' = heard \union {active[list[i]]}
       /\ passed' = passed \union {list[j] : j \in at .. i - 1}
  /\ UNCHANGED <<endpointVars, bookVars, rooms, published, queue, current, start, shrunk>>

(* A send to a room raised.                                                 *)
FailRoom ==
  /\ current # None /\ current.room # None
  /\ at > 1
  /\ EndFanout

FinishRoom ==
  /\ current # None /\ current.room # None
  /\ \A j \in at .. Len(rooms[current.room]) : ~Addressed(rooms[current.room][j])
  /\ EndFanout

(* _local_broadcast iterates the dictionary itself: a change of its size    *)
(* raises, other changes leave open which sockets are still visited.  A send*)
(* that raises is caught.                                                   *)
Resized == Cardinality(Registered) # Cardinality(start)

SendToAll ==
  /\ current # None /\ current.room = None
  /\ ~Resized
  /\ \E s \in Registered \ heard : heard' = heard \union {s}
  /\ UNCHANGED <<endpointVars, bookVars, rooms, published, queue, current, at, start,
                 passed, shrunk>>

(* Mutant: the exception of a resized dictionary leaves the listener's loop.*)
FinishBroadcastDying ==
  /\ current # None /\ current.room = None
  /\ ~Resized
  /\ Registered # start \/ start \subseteq heard
  /\ EndFanout

FinishBroadcast ==
  /\ current # None /\ current.room = None
  /\ Registered # start \/ start \subseteq heard
  /\ EndFanout

Listen == Take \/ SendToRoom \/ FailRoom \/ FinishRoom \/ SendToAll \/ FinishBroadcast

Endpoint(s) ==
  \/ Open(s) \/ TurnAway(s) \/ Connect(s) \/ Disconnect(s)
  \/ Ping(s) \/ Publish(s) \/ Raise(s) \/ Reply(s) \/ ReportError(s)
  \/ \E r \in Room : Subscribe(s, r) \/ Unsubscribe(s, r)

Next == (\E s \in Socket : Endpoint(s)) \/ PublishElsewhere \/ Listen \/ Lose

Spec == Init /\ [][Next]_vars

(* The listener is resumed, and the sends it awaits return or raise.        *)
FairSpec == Spec /\ WF_vars(Listen)

-----------------------------------------------------------------------------
(* What is registered for a client, and the client's seats in rooms, belong *)
(* to an endpoint that still runs: nothing is left behind.                  *)
NothingLeftBehind ==
  /\ \A c \in Client : active[c] # None => Running(active[c]) /\ client[active[c]] = c
  /\ \A r \in Room : \A i \in 1 .. Len(rooms[r]) :
       \E s \in Socket : Running(s) /\ client[s] = rooms[r][i]

EndpointsOf(u, c) == {s \in Socket : Running(s) /\ user[s] = u /\ client[s] = c}

(* In spite of clients that reconnect before they have left, each user's    *)
(* list holds a client once per running endpoint, and the gauge counts the  *)
(* endpoints.                                                               *)
BooksBalance ==
  /\ \A u \in User, c \in Client : entries[u][c] = Cardinality(EndpointsOf(u, c))
  /\ gauge = Cardinality({s \in Socket : Running(s)})

(* A running endpoint is only unreachable when another socket has used its  *)
(* client_id: whoever has an id of his own stays registered.                *)
LostOnlyByReuse ==
  \A s \in Socket : Running(s) /\ active[client[s]] # s =>
    \E t \in Socket \ {s} : client[t] = client[s]

(* Unless somebody leaves the room meanwhile, a message skips none of those *)
(* who are in it: whoever is before the listener's position is its sender,  *)
(* was sent it or was not registered.                                       *)
RoomHearsInFull ==
  current # None /\ current.room # None /\ ~shrunk =>
    \A i \in 1 .. at - 1 :
      LET c == rooms[current.room][i] IN
      /\ i <= Len(rooms[current.room])
      /\ \/ c = current.exclude
         \/ c \in passed
         \/ \E s \in heard : client[s] = c

(* The listener comes to an end with every message that was published,      *)
(* whatever connects, leaves and fails meanwhile: a fan-out that raises, as *)
(* one does whose dictionary is resized, does not keep it from the next     *)
(* message.                                                                 *)
Ended == published - Len(queue) - (IF current = None THEN 0 ELSE 1)

PublishedFinish == \A n \in 1 .. MaxPublish : published >= n ~> Ended >= n
=============================================================================
