------------------------------ MODULE Accounts ------------------------------
(***************************************************************************)
(* Registration, login, refresh and logout (auth_service.py), over the     *)
(* table of users, its read replica and the refresh tokens kept in Redis   *)
(* (cache_config.py).                                                      *)
(*                                                                         *)
(* A refresh token says whose it is and in which second it was made, and   *)
(* nothing else: two logins of one account in one second give one token.   *)
(* Redis keeps a token longer than its signature is good for; a token that *)
(* Redis does not give is judged by its signature alone.                   *)
(*                                                                         *)
(* Nothing ever clears is_active, and no client is handed a reset token:   *)
(* the controller answers a request for one with a message only, so that   *)
(* passwords never change here.  A client does one call at a time.         *)
(***************************************************************************)
EXTENDS Naturals

CONSTANTS Client,
          Username, Email,
          Account,    \* the pairs of a user name and an e-mail that are registered
          Connected,  \* whether RedisCache.connect has run; as coded it never has
          Life,       \* how long the signature of a refresh token is good: 7 days
          Kept,       \* how long Redis keeps one: 30 days
          MaxTime,    \* bound on the clock
          None

ASSUME AccountAssumption == Account \subseteq [username: Username, email: Email]
ASSUME ConnectedAssumption == Connected \subseteq BOOLEAN
ASSUME TimeAssumption == Life \in Nat /\ Kept \in Nat /\ Life < Kept /\ MaxTime \in Nat
ASSUME NoneAssumption == None \notin Email \union Account

Token == [email: Email, at: 0 .. MaxTime]
NoToken == [email |-> None, at |-> 0]
Idle == {"idle", "registered", "refused"}  \* and the answer to a registration
Step == Idle \union {"username", "email", "create", "find", "again", "rotate"}

VARIABLES
  now,        \* the clock
  users,      \* the rows of users
  replica,    \* those of them the read replica has
  connected,  \* RedisCache._connected
  store,      \* the refresh tokens Redis has
  step,       \* what the call of each client does next
  asked,      \* the account it registers, or the e-mail its login is for
  token,      \* the refresh token it holds
  shared,     \* history: tokens that were issued more than once
  disturbed   \* history: Redis failed, or a client missed an answer

userVars == <<users, replica>>
tokenVars == <<store, token, shared, disturbed>>
vars == <<now, userVars, connected, tokenVars, step, asked>>

TypeOK ==
  /\ now \in 0 .. MaxTime
  /\ users \subseteq Account /\ replica \subseteq users
  /\ connected \in BOOLEAN
  /\ store \subseteq Token /\ (~ connected => store = {})
  /\ step \in [Client -> Step]
  /\ asked \in [Client -> Account \union Email \union {None}]
  /\ token \in [Client -> Token \union {NoToken}]
  /\ shared \subseteq Token
  /\ disturbed \in BOOLEAN

Init ==
  /\ now = 0
  /\ users = {} /\ replica = {}
  /\ connected \in Connected
  /\ store = {}
  /\ step = [c \in Client |-> "idle"]
  /\ asked = [c \in Client |-> None]
  /\ token = [c \in Client |-> NoToken]
  /\ shared = {} /\ disturbed = FALSE

Goto(c, s) == step' = [step EXCEPT ![c] = s]

\* The call starts; one that takes a token has nothing asked.
Start(c, s, x) == step[c] \in Idle /\ Goto(c, s) /\ asked' = [asked EXCEPT ![c] = x]

End(c) == Goto(c, "idle") /\ asked' = [asked EXCEPT ![c] = None]

\* findByUsername and findByEmail read from the replica.
WithUsername(rows, n) == {a \in rows : a.username = n}
WithEmail(rows, e) == {a \in rows : a.email = e}

-----------------------------------------------------------------------------
(* AuthService.register                                                     *)

Register(c) ==
  /\ \E a \in Account : Start(c, "username", a)
  /\ UNCHANGED <<now, userVars, connected, tokenVars>>

CheckUsername(c) ==
  /\ step[c] = "username"
  /\ Goto(c, IF WithUsername(replica, asked[c].username) # {} THEN "refused" ELSE "email")
  /\ UNCHANGED <<now, userVars, connected, tokenVars, asked>>

CheckEmail(c) ==
  /\ step[c] = "email"
  /\ Goto(c, IF WithEmail(replica, asked[c].email) # {} THEN "refused" ELSE "create")
  /\ UNCHANGED <<now, userVars, connected, tokenVars, asked>>

\* The unique indexes of users.username and users.email.
Taken(a) == WithUsername(users, a.username) \union WithEmail(users, a.email)

\* Mutant: the checks of register are all there is.
CreateUnchecked(c) ==
  /\ step[c] = "create"
  /\ users' = users \union {asked[c]}
  /\ Goto(c, "registered")
  /\ UNCHANGED <<now, replica, connected, tokenVars, asked>>

\* BaseRepository.create commits and then reads the row back: a failure in
\* between is answered 500 with the row stored.
CreateUser(c) ==
  /\ step[c] = "create"
  /\ \/ /\ Taken(asked[c]) = {}
        /\ users' = users \union {asked[c]}
        /\ \/ Goto(c, "registered") /\ UNCHANGED asked
           \/ End(c)
     \/ /\ Taken(asked[c]) # {}  \* IntegrityError, answered 409
        /\ Goto(c, "refused")
        /\ UNCHANGED <<users, asked>>
  /\ UNCHANGED <<now, replica, connected, tokenVars>>

Replicate ==
  /\ \E a \in users \ replica : replica' = replica \union {a}
  /\ UNCHANGED <<now, users, connected, tokenVars, step, asked>>

-----------------------------------------------------------------------------
(* AuthService.login                                                        *)

\* A client logs in when it holds no token.
Login(c) ==
  /\ token[c] = NoToken
  /\ \E e \in Email : Start(c, "find", e)
  /\ UNCHANGED <<now, userVars, connected, tokenVars>>

Made(e) == [email |-> e, at |-> now]

\* The client gets the token made now, unless its answer is lost.
Hand(c, t) ==
  \/ /\ token' = [token EXCEPT ![c] = t]
     /\ shared' = IF \E b \in Client : token[b] = t THEN shared \union {t} ELSE shared
  \/ UNCHANGED <<token, shared>>

\* cache.delete and cache.set answer a failure with False, which nobody looks at.
Stored(kept) == IF connected THEN {kept, store} ELSE {store}

Disturb(t, kept) ==
  disturbed' = (disturbed \/ store' # (IF connected THEN kept ELSE store) \/ token' # t)

IssueTokens(c) ==
  LET t == Made(asked[c]) IN
  /\ store' \in Stored(store \union {t})
  /\ Hand(c, t)
  /\ Disturb([token EXCEPT ![c] = t], store \union {t})

\* Mutant: login reads from the master, refresh from the replica.
FindOnMaster(c) ==
  /\ step[c] \in {"find", "again"}
  /\ WithEmail(users, asked[c]) # {} /\ IssueTokens(c)
  /\ End(c)
  /\ UNCHANGED <<now, userVars, connected>>

\* The user is looked up, by the e-mail twice; the password is the right one.
FindUser(c) ==
  /\ step[c] \in {"find", "again"}
  /\ IF WithEmail(replica, asked[c]) # {}
     THEN IssueTokens(c) /\ End(c)
     ELSE /\ IF step[c] = "find"
             THEN Goto(c, "again") /\ UNCHANGED asked
             ELSE End(c)  \* 401
          /\ UNCHANGED tokenVars
  /\ UNCHANGED <<now, userVars, connected>>

\* A wrong password is answered 401.
WrongPassword(c) ==
  /\ step[c] \in {"find", "again"}
  /\ WithEmail(replica, asked[c]) # {}
  /\ End(c)
  /\ UNCHANGED <<now, userVars, connected, tokenVars>>

-----------------------------------------------------------------------------
(* AuthService.refresh_token and logout                                     *)

\* decode_token: the signature holds until the second it expires in.
Signed(t) == now <= t.at + Life

\* cache.get gives nothing also when Redis fails.
Refresh(c) ==
  /\ token[c] # NoToken
  /\ token[c] \in store \/ Signed(token[c])
  /\ Start(c, "rotate", None)
  /\ UNCHANGED <<now, userVars, connected, tokenVars>>

\* 401: the client drops the token.
RefuseRefresh(c) ==
  /\ token[c] # NoToken
  /\ Start(c, "idle", None)
  /\ ~ Signed(token[c])
  /\ token' = [token EXCEPT ![c] = NoToken]
  /\ disturbed' = (disturbed \/ token[c] \in store)
  /\ UNCHANGED <<now, userVars, connected, store, shared>>

\* Mutant: the old entry is left.
RotateKeeping(c) ==
  /\ step[c] = "rotate"
  /\ LET t == Made(token[c].email)
     IN  /\ store' \in Stored(store \union {t})
         /\ Hand(c, t)
         /\ Disturb([token EXCEPT ![c] = t], store \union {t})
  /\ Goto(c, "idle")
  /\ UNCHANGED <<now, userVars, connected, asked>>

\* Without the user the refresh is refused with 401.  The old entry is deleted,
\* then the new one set, with no await that gives way in between; without Redis
\* there is no new token.
Rotate(c) ==
  LET old == token[c]
      new == Made(old.email)
  IN
  /\ step[c] = "rotate"
  /\ IF WithEmail(replica, old.email) = {}
     THEN token' = [token EXCEPT ![c] = NoToken] /\ UNCHANGED <<store, shared, disturbed>>
     ELSE IF ~ connected THEN UNCHANGED tokenVars
     ELSE /\ \E kept \in {store, store \ {old}} : store' \in {kept, kept \union {new}}
          /\ Hand(c, new)
          /\ Disturb([token EXCEPT ![c] = new], (store \ {old}) \union {new})
  /\ Goto(c, "idle")
  /\ UNCHANGED <<now, userVars, connected, asked>>

\* Logout always succeeds; the entry goes if Redis obeys.
Logout(c) ==
  /\ token[c] # NoToken
  /\ Start(c, "idle", None)
  /\ store' \in Stored(store \ {token[c]})
  /\ token' = [token EXCEPT ![c] = NoToken]
  /\ Disturb(token', store \ {token[c]})
  /\ UNCHANGED <<now, userVars, connected, shared>>

-----------------------------------------------------------------------------
\* A database call raises; the client is answered 500.
Fail(c) ==
  /\ step[c] \notin Idle
  /\ End(c)
  /\ UNCHANGED <<now, userVars, connected, tokenVars>>

\* Time passes, and Redis drops the entries whose time to live is over.
Tick ==
  /\ now < MaxTime
  /\ now' = now + 1
  /\ store' = {t \in store : now' < t.at + Kept}
  /\ UNCHANGED <<userVars, connected, token, shared, disturbed, step, asked>>

Advance(c) ==
  \/ CheckUsername(c) \/ CheckEmail(c) \/ CreateUser(c)
  \/ FindUser(c) \/ WrongPassword(c) \/ Rotate(c) \/ Fail(c)

Next ==
  \/ \E c \in Client :
       Register(c) \/ Login(c) \/ Refresh(c) \/ RefuseRefresh(c) \/ Logout(c) \/ Advance(c)
  \/ Replicate \/ Tick

Spec == Init /\ [][Next]_vars

-----------------------------------------------------------------------------
(* No user name and no e-mail has two rows, whatever the checks of register  *)
(* miss in between and on the replica; who is told that it is registered has *)
(* a row, and who is refused shares a name or an e-mail with a row there is. *)
OneRowPerName ==
  /\ \A a, b \in users : a # b => a.username # b.username /\ a.email # b.email
  /\ \A c \in Client :
       /\ step[c] = "registered" => asked[c] \in users
       /\ step[c] = "refused" => Taken(asked[c]) # {}

(* Registration and login are one step each for their clients, as in         *)
(* Registry, for all that is read in between and on the replica: a created   *)
(* row enrols, a row found on the replica is still there when it refuses,    *)
(* and a token is a session of its e-mail, through every rotation.           *)
Promise == INSTANCE Registry WITH
  answer <- [c \in Client |-> IF step[c] \in {"registered", "refused"}
                              THEN <<step[c], asked[c]>> ELSE None],
  session <- token, NoSession <- NoToken

RegistrySpec == Promise!Spec

(* A refresh never fails for want of the user: every token in a client's     *)
(* hands belongs to a row the replica has, so a token is refused only when   *)
(* its signature has expired (refresh_token, 161-168).                       *)
SessionsHaveUser ==
  \A c \in Client : token[c] # NoToken => WithEmail(replica, token[c].email) # {}

(* While Redis works and no answer is lost, Redis has an entry exactly for   *)
(* the tokens in clients' hands: rotation and logout leave nothing behind,   *)
(* and nobody loses an entry by another's logout or rotation, except where   *)
(* two logins in one second got one token, or the time to live ran out.      *)
StoreMatchesSessions ==
  connected /\ ~ disturbed =>
    LET held == {token[c] : c \in Client} \ {NoToken}
    IN  /\ store \subseteq held
        /\ \A t \in held \ store : t \in shared \/ now >= t.at + Kept
=============================================================================
