--------------------------- MODULE AccountsProofs ---------------------------
(***************************************************************************)
(* What holds of accounts and their sessions for every set of clients,     *)
(* accounts and times, with Redis connected or not.                        *)
(***************************************************************************)
EXTENDS Accounts, TLAPS

(* What a call has asked for fits where it is, and a client logs in without *)
(* a token and refreshes with one.                                          *)
CallsFit ==
  \A c \in Client :
    /\ step[c] \in {"username", "email", "create", "registered", "refused"} =>
         asked[c] \in Account
    /\ step[c] \in {"find", "again"} => asked[c] \in Email /\ token[c] = NoToken
    /\ step[c] = "rotate" => token[c] # NoToken

(* Two clients hold one token only if it was issued twice.                  *)
SharedTokens ==
  \A b, c \in Client : b # c /\ token[b] = token[c] /\ token[c] # NoToken => token[c] \in shared

IInv ==
  /\ TypeOK
  /\ CallsFit
  /\ OneRowPerName
  /\ SharedTokens
  /\ SessionsHaveUser
  /\ StoreMatchesSessions

-----------------------------------------------------------------------------
(* No token is made of nobody's e-mail, and a row's fields have their types.*)
LEMMA TokenFacts ==
  /\ NoToken \notin Token
  /\ \A a \in Account : a.username \in Username /\ a.email \in Email
  BY NoneAssumption, AccountAssumption DEF NoToken, Token

LEMMA MadeTyped ==
  ASSUME TypeOK, NEW e \in Email
  PROVE  Made(e) \in Token
  BY DEF TypeOK, Made, Token

LEMMA IInvInit == Init => IInv
<1> SUFFICES ASSUME Init PROVE IInv
  OBVIOUS
<1>1. connected \in BOOLEAN /\ disturbed \in BOOLEAN
  BY ConnectedAssumption, Zenon DEF Init
<1>2. /\ step \in [Client -> Step]
      /\ asked \in [Client -> Account \union Email \union {None}]
      /\ token \in [Client -> Token \union {NoToken}]
  BY Zenon DEF Init, Step, Idle
<1>3. now \in 0 .. MaxTime
  BY TimeAssumption DEF Init
<1>4. TypeOK
  BY <1>1, <1>2, <1>3 DEF Init, TypeOK
<1> QED
  BY <1>4 DEF Init, IInv, CallsFit, OneRowPerName, SharedTokens, SessionsHaveUser,
              StoreMatchesSessions, NoToken

-----------------------------------------------------------------------------
(* What issuing the token t to c leaves typed.                              *)
LEMMA HandTyped ==
  ASSUME TypeOK, NEW c \in Client, NEW t \in Token, Hand(c, t)
  PROVE  token' \in [Client -> Token \union {NoToken}] /\ shared' \subseteq Token
  BY DEF TypeOK, Hand

LEMMA IssueTyped ==
  ASSUME TypeOK, NEW c \in Client, asked[c] \in Email, IssueTokens(c)
  PROVE  /\ token' \in [Client -> Token \union {NoToken}] /\ shared' \subseteq Token
         /\ store' \subseteq Token /\ (~ connected => store' = {})
         /\ disturbed' \in BOOLEAN
<1>1. Made(asked[c]) \in Token
  BY MadeTyped
<1>2. Hand(c, Made(asked[c]))
  BY DEF IssueTokens
<1>3. disturbed' \in BOOLEAN
  BY DEF IssueTokens, Disturb, TypeOK
<1> QED
  BY <1>1, <1>2, <1>3, HandTyped DEF IssueTokens, Stored, TypeOK

LEMMA TypeStep == IInv /\ [Next]_vars => TypeOK'
<1> SUFFICES ASSUME IInv, [Next]_vars PROVE TypeOK'
  OBVIOUS
<1> USE DEF IInv
<1>1. ASSUME NEW c \in Client, Register(c) \/ Login(c) \/ Refresh(c) PROVE TypeOK'
  BY <1>1, NoneAssumption DEF Register, Login, Refresh, Start, Goto, TypeOK, Step, Idle,
     userVars, tokenVars
<1>2. ASSUME NEW c \in Client, CheckUsername(c) \/ CheckEmail(c) \/ CreateUser(c) \/ Fail(c)
                               \/ WrongPassword(c)
      PROVE  TypeOK'
  <2>1. asked[c] \in Account \/ ~ CreateUser(c)
    BY DEF CreateUser, CallsFit
  <2> QED
    BY <1>2, <2>1 DEF CheckUsername, CheckEmail, CreateUser, Fail, WrongPassword, Goto, End,
       TypeOK, Step, Idle, userVars, tokenVars
<1>3. ASSUME NEW c \in Client, FindUser(c) PROVE TypeOK'
  <2>1. asked[c] \in Email
    BY <1>3 DEF FindUser, CallsFit
  <2>2. /\ step' \in [Client -> Step]
        /\ asked' \in [Client -> Account \union Email \union {None}]
    BY <1>3 DEF FindUser, End, Goto, TypeOK, Step, Idle
  <2>3. CASE IssueTokens(c)
    BY <1>3, <2>1, <2>2, <2>3, IssueTyped DEF FindUser, TypeOK, userVars
  <2>4. CASE UNCHANGED tokenVars
    BY <1>3, <2>2, <2>4 DEF FindUser, TypeOK, userVars, tokenVars
  <2> QED
    BY <1>3, <2>3, <2>4 DEF FindUser
<1>4. ASSUME NEW c \in Client, Rotate(c) PROVE TypeOK'
  <2>1. token[c] \in Token
    BY <1>4 DEF Rotate, CallsFit, TypeOK
  <2>2. token[c].email \in Email
    BY <2>1 DEF Token
  <2>3. Made(token[c].email) \in Token
    BY <2>2, MadeTyped
  <2>4. step' \in [Client -> Step]
    BY <1>4 DEF Rotate, Goto, TypeOK, Step, Idle
  <2>5. CASE UNCHANGED <<store, shared, disturbed>>
             /\ token' = [token EXCEPT ![c] = NoToken]
    BY <1>4, <2>4, <2>5 DEF Rotate, TypeOK, userVars
  <2>6. CASE UNCHANGED tokenVars
    BY <1>4, <2>4, <2>6 DEF Rotate, TypeOK, userVars, tokenVars
  <2>7. CASE connected /\ Hand(c, Made(token[c].email))
             /\ \E kept \in {store, store \ {token[c]}} :
                  store' \in {kept, kept \union {Made(token[c].email)}}
             /\ disturbed' \in BOOLEAN
    BY <1>4, <2>3, <2>4, <2>7, HandTyped DEF Rotate, TypeOK, userVars
  <2> QED
    BY <1>4, <2>5, <2>6, <2>7 DEF Rotate, Disturb, TypeOK
<1>5. ASSUME NEW c \in Client, Logout(c) PROVE TypeOK'
  BY <1>5 DEF Logout, Start, Goto, Stored, Disturb, TypeOK, Step, Idle, userVars
<1>6. ASSUME NEW c \in Client, RefuseRefresh(c) PROVE TypeOK'
  BY <1>6 DEF RefuseRefresh, Start, Goto, TypeOK, Step, Idle, userVars
<1>7. CASE Tick
  BY <1>7, TimeAssumption DEF Tick, TypeOK, userVars
<1>8. CASE Replicate \/ UNCHANGED vars
  BY <1>8 DEF Replicate, TypeOK, vars, userVars, tokenVars
<1> QED
  BY <1>1, <1>2, <1>3, <1>4, <1>5, <1>6, <1>7, <1>8 DEF Next, Advance

-----------------------------------------------------------------------------
(* A call keeps what it has asked for, and its token while it needs it.     *)
LEMMA CallsStep == IInv /\ [Next]_vars => CallsFit'
<1> SUFFICES ASSUME IInv, [Next]_vars PROVE CallsFit'
  OBVIOUS
<1> USE DEF IInv
<1>1. ASSUME NEW c \in Client,
             Register(c) \/ Login(c) \/ Refresh(c) \/ RefuseRefresh(c) \/ Logout(c)
      PROVE  CallsFit'
  BY <1>1 DEF Register, Login, Refresh, RefuseRefresh, Logout, Start, Goto, CallsFit,
     TypeOK, Idle, tokenVars
<1>2. ASSUME NEW c \in Client, CheckUsername(c) \/ CheckEmail(c) \/ CreateUser(c) \/ Fail(c)
                               \/ WrongPassword(c)
      PROVE  CallsFit'
  BY <1>2 DEF CheckUsername, CheckEmail, CreateUser, Fail, WrongPassword, Goto, End,
     CallsFit, TypeOK, tokenVars
<1>3. ASSUME NEW c \in Client, FindUser(c) PROVE CallsFit'
  <2>1. \A b \in Client : b # c => token'[b] = token[b]
    BY <1>3 DEF FindUser, IssueTokens, Hand, TypeOK, tokenVars
  <2>2. /\ step'[c] = "idle" \/ (step'[c] = "again" /\ token' = token /\ asked' = asked)
        /\ \A b \in Client : b # c => step'[b] = step[b] /\ asked'[b] = asked[b]
    BY <1>3 DEF FindUser, End, Goto, TypeOK, tokenVars
  <2>3. step[c] \in {"find", "again"}
    BY <1>3 DEF FindUser
  <2> QED
    BY <2>1, <2>2, <2>3 DEF CallsFit
<1>4. ASSUME NEW c \in Client, Rotate(c) PROVE CallsFit'
  <2>1. \A b \in Client : b # c => token'[b] = token[b]
    BY <1>4 DEF Rotate, Hand, TypeOK, tokenVars
  <2> QED
    BY <1>4, <2>1 DEF Rotate, Goto, CallsFit, TypeOK
<1>5. CASE Tick \/ Replicate \/ UNCHANGED vars
  BY <1>5 DEF Tick, Replicate, CallsFit, vars, tokenVars
<1> QED
  BY <1>1, <1>2, <1>3, <1>4, <1>5 DEF Next, Advance

(* Only a row whose name and e-mail are free is added, and rows stay.       *)
LEMMA NamesStep == IInv /\ [Next]_vars => OneRowPerName'
<1> SUFFICES ASSUME IInv, [Next]_vars PROVE OneRowPerName'
  OBVIOUS
<1> USE DEF IInv
<1>1. ASSUME NEW c \in Client, CreateUser(c) PROVE OneRowPerName'
  <2>1. asked[c] \in Account
    BY <1>1 DEF CreateUser, CallsFit
  <2>2. \A b \in Client : b # c => step'[b] = step[b] /\ asked'[b] = asked[b]
    BY <1>1 DEF CreateUser, Goto, End, TypeOK
  <2>3. CASE Taken(asked[c]) = {} /\ users' = users \union {asked[c]}
    <3>1. \A a \in users : a.username # asked[c].username /\ a.email # asked[c].email
      BY <2>3 DEF Taken, WithUsername, WithEmail
    <3>2. \A a, b \in users' : a # b => a.username # b.username /\ a.email # b.email
      BY <2>3, <3>1 DEF OneRowPerName
    <3>3. step'[c] \in {"registered", "idle"} /\ (step'[c] = "registered" => asked'[c] = asked[c])
      BY <1>1, <2>3 DEF CreateUser, Goto, End, TypeOK
    <3>4. ASSUME NEW b \in Client, asked'[b] = asked[b], Taken(asked[b]) # {}
          PROVE  (Taken(asked[b]) # {})'
      BY <2>3, <3>4 DEF Taken, WithUsername, WithEmail
    <3>5. ASSUME NEW b \in Client
          PROVE  /\ step'[b] = "registered" => asked'[b] \in users'
                 /\ step'[b] = "refused" => (Taken(asked[b]) # {})'
      BY <2>2, <2>3, <3>3, <3>4 DEF OneRowPerName
    <3> QED
      BY <3>2, <3>5 DEF OneRowPerName
  <2>4. CASE Taken(asked[c]) # {} /\ users' = users
    <3>1. step'[c] = "refused" /\ asked'[c] = asked[c]
      BY <1>1, <2>4 DEF CreateUser, Goto, TypeOK
    <3> QED
      BY <2>2, <2>4, <3>1 DEF OneRowPerName, Taken, WithUsername, WithEmail
  <2> QED
    BY <1>1, <2>3, <2>4 DEF CreateUser
<1>2. ASSUME NEW c \in Client, CheckUsername(c) \/ CheckEmail(c) PROVE OneRowPerName'
  <2>1. /\ asked' = asked /\ users' = users
        /\ \A b \in Client : b # c => step'[b] = step[b]
        /\ step'[c] \in {"email", "create", "refused"}
    BY <1>2 DEF CheckUsername, CheckEmail, Goto, TypeOK, userVars
  <2>2. step'[c] = "refused" => Taken(asked[c]) # {}
    BY <1>2 DEF CheckUsername, CheckEmail, Goto, TypeOK, Taken, WithUsername, WithEmail
  <2> QED
    BY <2>1, <2>2 DEF OneRowPerName, Taken, WithUsername, WithEmail
<1>3. ASSUME NEW c \in Client, users' = users,
             \A b \in Client : b # c => step'[b] = step[b] /\ asked'[b] = asked[b],
             step'[c] \notin {"registered", "refused"}
      PROVE  OneRowPerName'
  BY <1>3 DEF OneRowPerName, Taken, WithUsername, WithEmail
<1>4. ASSUME NEW c \in Client,
             Register(c) \/ Login(c) \/ Refresh(c) \/ RefuseRefresh(c) \/ Logout(c)
      PROVE  OneRowPerName'
  BY <1>3, <1>4 DEF Register, Login, Refresh, RefuseRefresh, Logout, Start, Goto, TypeOK, userVars
<1>5. ASSUME NEW c \in Client, WrongPassword(c) \/ FindUser(c) \/ Fail(c) PROVE OneRowPerName'
  BY <1>3, <1>5 DEF WrongPassword, FindUser, Fail, End, Goto, TypeOK, userVars
<1>6. ASSUME NEW c \in Client, Rotate(c) PROVE OneRowPerName'
  BY <1>3, <1>6 DEF Rotate, Goto, TypeOK, userVars
<1>7. CASE Tick \/ Replicate \/ UNCHANGED vars
  BY <1>7 DEF Tick, Replicate, OneRowPerName, Taken, WithUsername, WithEmail, vars, userVars
<1> QED
  BY <1>1, <1>2, <1>4, <1>5, <1>6, <1>7 DEF Next, Advance

-----------------------------------------------------------------------------
(* Handing out a token keeps SharedTokens, as does taking one away.         *)
LEMMA HandShares ==
  ASSUME TypeOK, SharedTokens, NEW c \in Client, NEW t \in Token, Hand(c, t)
  PROVE  SharedTokens'
<1>1. CASE UNCHANGED <<token, shared>>
  BY <1>1 DEF SharedTokens
<1>2. CASE token' = [token EXCEPT ![c] = t]
           /\ shared' = IF \E b \in Client : token[b] = t THEN shared \union {t} ELSE shared
  BY <1>2 DEF SharedTokens, TypeOK
<1> QED
  BY <1>1, <1>2 DEF Hand

LEMMA DropShares ==
  ASSUME TypeOK, SharedTokens, NEW c \in Client,
         token' = [token EXCEPT ![c] = NoToken], shared' = shared
  PROVE  SharedTokens'
  BY DEF SharedTokens, TypeOK

(* What Redis has afterwards when it obeys is what clients hold.            *)
LEMMA HandMatches ==
  ASSUME TypeOK, SharedTokens, StoreMatchesSessions, connected, ~ disturbed,
         NEW c \in Client, NEW t \in Token, t.at = now,
         token' = [token EXCEPT ![c] = t],
         shared \subseteq shared',
         store' = (store \ {token[c]}) \union {t}, now' = now
  PROVE  StoreMatchesSessions'
<1> DEFINE held == {token[b] : b \in Client} \ {NoToken}
<1>1. store \subseteq held
      /\ \A u \in held \ store : u \in shared \/ now >= u.at + Kept
  BY DEF StoreMatchesSessions
<1>2. token'[c] = t /\ t # NoToken /\ \A b \in Client : b # c => token'[b] = token[b]
  BY TokenFacts DEF TypeOK
<1>3. store' \subseteq held'
  BY <1>1, <1>2
<1>4. ASSUME NEW u \in held' \ store' PROVE u \in shared' \/ now' >= u.at + Kept
  <2>1. PICK b \in Client : token'[b] = u
    OBVIOUS
  <2>2. b # c /\ token[b] = u /\ u # NoToken /\ u # t
    BY <1>2, <1>4, <2>1
  <2>3. CASE u \in store
    BY <1>4, <2>2, <2>3 DEF SharedTokens
  <2>4. CASE u \notin store
    BY <1>1, <2>2, <2>4
  <2> QED
    BY <2>3, <2>4
<1> QED
  BY <1>3, <1>4 DEF StoreMatchesSessions

LEMMA DropMatches ==
  ASSUME TypeOK, SharedTokens, StoreMatchesSessions, connected, ~ disturbed,
         NEW c \in Client,
         token' = [token EXCEPT ![c] = NoToken], shared' = shared,
         store' = store \ {token[c]}, now' = now
  PROVE  StoreMatchesSessions'
<1> DEFINE held == {token[b] : b \in Client} \ {NoToken}
<1>1. store \subseteq held
      /\ \A u \in held \ store : u \in shared \/ now >= u.at + Kept
  BY DEF StoreMatchesSessions
<1>2. token'[c] = NoToken /\ \A b \in Client : b # c => token'[b] = token[b]
  BY DEF TypeOK
<1>3. store' \subseteq held'
  BY <1>1, <1>2
<1>4. ASSUME NEW u \in held' \ store' PROVE u \in shared' \/ now' >= u.at + Kept
  <2>1. PICK b \in Client : token'[b] = u
    OBVIOUS
  <2>2. b # c /\ token[b] = u /\ u # NoToken
    BY <1>2, <1>4, <2>1
  <2>3. CASE u \in store
    BY <1>4, <2>2, <2>3 DEF SharedTokens
  <2>4. CASE u \notin store
    BY <1>1, <2>2, <2>4
  <2> QED
    BY <2>3, <2>4
<1> QED
  BY <1>3, <1>4 DEF StoreMatchesSessions

(* Steps that touch neither tokens nor Redis keep what is said of them.     *)
LEMMA QuietStep ==
  ASSUME SharedTokens, SessionsHaveUser, StoreMatchesSessions,
         UNCHANGED tokenVars, UNCHANGED <<now, connected>>, replica \subseteq replica'
  PROVE  SharedTokens' /\ SessionsHaveUser' /\ StoreMatchesSessions'
  BY DEF SharedTokens, SessionsHaveUser, StoreMatchesSessions, tokenVars, WithEmail

LEMMA IssueStep ==
  ASSUME IInv, NEW c \in Client, FindUser(c), IssueTokens(c), WithEmail(replica, asked[c]) # {}
  PROVE  SharedTokens' /\ SessionsHaveUser' /\ StoreMatchesSessions'
<1> DEFINE t == Made(asked[c])
<1>1. t \in Token /\ t.at = now /\ t.email = asked[c] /\ token[c] = NoToken
  BY MadeTyped DEF IInv, CallsFit, FindUser, Made
<1>2. Hand(c, t) /\ UNCHANGED <<now, connected, replica>>
  BY DEF IssueTokens, FindUser, userVars
<1> HIDE DEF t
<1>3. SharedTokens'
  BY <1>1, <1>2, HandShares DEF IInv
<1>4. SessionsHaveUser'
  BY <1>1, <1>2 DEF IInv, SessionsHaveUser, Hand, TypeOK, WithEmail
<1>5. ASSUME connected', ~ disturbed' PROVE StoreMatchesSessions'
  <2>1. connected /\ ~ disturbed
        /\ store' = store \union {t} /\ token' = [token EXCEPT ![c] = t]
    BY <1>2, <1>5 DEF IssueTokens, Disturb, t
  <2>2. store' = (store \ {token[c]}) \union {t}
    BY <1>1, <2>1, TokenFacts DEF IInv, TypeOK
  <2>3. shared \subseteq shared'
    BY <1>2 DEF Hand
  <2> QED
    BY <1>1, <1>2, <2>1, <2>2, <2>3, HandMatches DEF IInv
<1>6. StoreMatchesSessions'
  BY <1>5 DEF StoreMatchesSessions
<1> QED
  BY <1>3, <1>4, <1>6

LEMMA RotateStep ==
  ASSUME IInv, NEW c \in Client, Rotate(c)
  PROVE  SharedTokens' /\ SessionsHaveUser' /\ StoreMatchesSessions'
<1> DEFINE t == Made(token[c].email)
<1>1. token[c] # NoToken /\ token[c] \in Token /\ UNCHANGED <<now, connected, replica>>
  BY DEF Rotate, IInv, CallsFit, TypeOK, userVars
<1>2. WithEmail(replica, token[c].email) # {}
  BY <1>1 DEF IInv, SessionsHaveUser
<1>3. t \in Token /\ t.at = now /\ t.email = token[c].email
  BY <1>1, MadeTyped DEF IInv, Token, Made
<1>4. CASE UNCHANGED tokenVars
  BY <1>1, <1>4, QuietStep DEF IInv
<1>5. CASE connected /\ ~ UNCHANGED tokenVars
  <2>1. Hand(c, t) /\ Disturb([token EXCEPT ![c] = t], (store \ {token[c]}) \union {t})
    BY <1>2, <1>5 DEF Rotate
  <2> HIDE DEF t
  <2>2. SharedTokens'
    BY <1>3, <2>1, HandShares DEF IInv
  <2>3. SessionsHaveUser'
    BY <1>1, <1>2, <1>3, <2>1 DEF IInv, SessionsHaveUser, Hand, TypeOK, WithEmail
  <2>4. ASSUME ~ disturbed' PROVE StoreMatchesSessions'
    <3>1. ~ disturbed /\ token' = [token EXCEPT ![c] = t]
          /\ store' = (store \ {token[c]}) \union {t}
      BY <1>5, <2>1, <2>4 DEF Disturb
    <3>2. shared \subseteq shared'
      BY <2>1 DEF Hand
    <3> QED
      BY <1>1, <1>3, <1>5, <3>1, <3>2, HandMatches DEF IInv
  <2>5. StoreMatchesSessions'
    BY <2>4 DEF StoreMatchesSessions
  <2> QED
    BY <2>2, <2>3, <2>5
<1> QED
  BY <1>2, <1>4, <1>5 DEF Rotate

LEMMA DropStep ==
  ASSUME IInv, NEW c \in Client, Logout(c) \/ RefuseRefresh(c)
  PROVE  SharedTokens' /\ SessionsHaveUser' /\ StoreMatchesSessions'
<1>1. /\ token[c] # NoToken
      /\ token' = [token EXCEPT ![c] = NoToken] /\ shared' = shared
      /\ UNCHANGED <<now, connected, replica>>
  BY DEF Logout, RefuseRefresh, userVars
<1>2. SharedTokens'
  BY <1>1, DropShares DEF IInv
<1>3. SessionsHaveUser'
  BY <1>1 DEF IInv, SessionsHaveUser, TypeOK, WithEmail
<1>4. ASSUME connected', ~ disturbed' PROVE StoreMatchesSessions'
  <2>1. connected /\ ~ disturbed /\ store' = store \ {token[c]}
    BY <1>1, <1>4 DEF Logout, RefuseRefresh, Disturb
  <2> QED
    BY <1>1, <2>1, DropMatches DEF IInv
<1>5. StoreMatchesSessions'
  BY <1>4 DEF StoreMatchesSessions
<1> QED
  BY <1>2, <1>3, <1>5

LEMMA TickStep ==
  ASSUME IInv, Tick
  PROVE  SharedTokens' /\ SessionsHaveUser' /\ StoreMatchesSessions'
<1>1. SharedTokens' /\ SessionsHaveUser'
  BY DEF IInv, Tick, SharedTokens, SessionsHaveUser, WithEmail, userVars
<1>2. ASSUME connected, ~ disturbed,
             NEW u \in {token[b] : b \in Client} \ {NoToken}, u \notin store'
      PROVE  u \in shared \/ now + 1 >= u.at + Kept
  <2>1. u \in Token
    BY DEF IInv, TypeOK
  <2>2. u.at \in Nat /\ now \in Nat /\ Kept \in Nat
    BY <2>1, TimeAssumption DEF Token, IInv, TypeOK
  <2>3. CASE u \in store
    BY <1>2, <2>2, <2>3 DEF Tick
  <2>4. CASE u \notin store
    BY <1>2, <2>2, <2>4 DEF IInv, StoreMatchesSessions
  <2> QED
    BY <2>3, <2>4
<1>3. StoreMatchesSessions'
  BY <1>2 DEF IInv, Tick, StoreMatchesSessions
<1> QED
  BY <1>1, <1>3

LEMMA SessionsStep ==
  IInv /\ [Next]_vars => SharedTokens' /\ SessionsHaveUser' /\ StoreMatchesSessions'
<1> SUFFICES ASSUME IInv, [Next]_vars
             PROVE  SharedTokens' /\ SessionsHaveUser' /\ StoreMatchesSessions'
  OBVIOUS
<1>1. ASSUME NEW c \in Client, Register(c) \/ Login(c) \/ Refresh(c)
      PROVE  SharedTokens' /\ SessionsHaveUser' /\ StoreMatchesSessions'
  BY <1>1, QuietStep DEF Register, Login, Refresh, IInv, userVars
<1>2. ASSUME NEW c \in Client, CheckUsername(c) \/ CheckEmail(c) \/ CreateUser(c) \/ Fail(c)
                               \/ WrongPassword(c)
      PROVE  SharedTokens' /\ SessionsHaveUser' /\ StoreMatchesSessions'
  BY <1>2, QuietStep DEF CheckUsername, CheckEmail, CreateUser, Fail, WrongPassword, IInv,
     userVars
<1>3. ASSUME NEW c \in Client, FindUser(c)
      PROVE  SharedTokens' /\ SessionsHaveUser' /\ StoreMatchesSessions'
  <2>1. CASE WithEmail(replica, asked[c]) # {} /\ IssueTokens(c)
    BY <1>3, <2>1, IssueStep
  <2>2. CASE UNCHANGED tokenVars
    BY <1>3, <2>2, QuietStep DEF FindUser, IInv, userVars
  <2> QED
    BY <1>3, <2>1, <2>2 DEF FindUser
<1>4. CASE Replicate \/ UNCHANGED vars
  BY <1>4, QuietStep DEF Replicate, IInv, vars, userVars
<1> QED
  BY <1>1, <1>2, <1>3, <1>4, RotateStep, DropStep, TickStep DEF Next, Advance

-----------------------------------------------------------------------------
(* The invariant holds in every reachable state.                            *)
THEOREM Invariance == Spec => []IInv
<1>1. IInv /\ [Next]_vars => IInv'
  BY TypeStep, CallsStep, NamesStep, SessionsStep DEF IInv
<1> QED
  BY <1>1, IInvInit, PTL DEF Spec

(* Type correctness of accounts and sessions.                               *)
THEOREM TypeCorrect == Spec => []TypeOK
  BY Invariance, PTL DEF IInv

(* However many registrations of one name overlap, and however far the      *)
(* replica lags behind, one of them gets a row and the others are refused.  *)
THEOREM NamesAreUnique == Spec => []OneRowPerName
  BY Invariance, PTL DEF IInv

(* Every token in a client's hands belongs to a user a refresh will find.   *)
THEOREM RefreshFindsUser == Spec => []SessionsHaveUser
  BY Invariance, PTL DEF IInv

(* While Redis works, it holds the tokens in clients' hands and no others.  *)
THEOREM RedisHoldsSessions == Spec => []StoreMatchesSessions
  BY Invariance, PTL DEF IInv

-----------------------------------------------------------------------------
(* The refinement of Registry.                                              *)

(* What the last registration of each client came to.                       *)
Answers == [c \in Client |-> IF step[c] \in {"registered", "refused"}
                             THEN <<step[c], asked[c]>> ELSE None]

(* The call of one client moves on: its answer is what its step says.       *)
LEMMA AnswersMove ==
  ASSUME NEW c \in Client, \A b \in Client \ {c} : step'[b] = step[b] /\ asked'[b] = asked[b]
  PROVE  Answers' = [Answers EXCEPT ![c] = IF step'[c] \in {"registered", "refused"}
                                           THEN <<step'[c], asked'[c]>> ELSE None]
BY DEF Answers

(* A call starts, or ends without the answer to a registration.             *)
LEMMA CallMoves ==
  ASSUME NEW c \in Client, step'[c] \notin {"registered", "refused"},
         \A b \in Client \ {c} : step'[b] = step[b] /\ asked'[b] = asked[b],
         UNCHANGED <<now, users, token>>
  PROVE  Promise!NextCall(c)
<1>1. Answers' = [Answers EXCEPT ![c] = None]
  BY AnswersMove
<1> QED
  BY <1>1 DEF Answers, Promise!NextCall, Promise!Answer

(* A registration is refused for a row that shares its name or its e-mail.  *)
LEMMA CallRefused ==
  ASSUME IInv, NEW c \in Client, step'[c] = "refused", step[c] \notin {"registered", "refused"},
         asked' = asked, asked[c] \in Account, Taken(asked[c]) # {},
         \A b \in Client \ {c} : step'[b] = step[b],
         UNCHANGED <<now, users, token>>
  PROVE  Promise!Refuse(c, asked[c])
<1>1. Answers' = [Answers EXCEPT ![c] = <<"refused", asked[c]>>] /\ Answers[c] = None
  BY AnswersMove DEF Answers
<1>2. Promise!Taken(asked[c])
  BY DEF Taken, WithUsername, WithEmail, Promise!Taken
<1> QED
  BY <1>1, <1>2 DEF Answers, Promise!Refuse, Promise!Answer

(* The commit of the row enrols it, whether the client hears of it or not.  *)
LEMMA CreateKeepsPromise ==
  ASSUME IInv, NEW c \in Client, CreateUser(c)
  PROVE  asked[c] \in Account /\ (Promise!Enroll(c, asked[c]) \/ Promise!Refuse(c, asked[c]))
<1>1. /\ step[c] = "create" /\ asked[c] \in Account /\ UNCHANGED <<now, token>>
      /\ \A b \in Client \ {c} : step'[b] = step[b] /\ asked'[b] = asked[b]
  BY DEF CreateUser, IInv, CallsFit, TypeOK, Goto, End, tokenVars
<1>2. Answers[c] = None
  BY <1>1 DEF Answers
<1>3. CASE Taken(asked[c]) = {} /\ users' = users \union {asked[c]}
  <2>1. ~ Promise!Taken(asked[c])
    BY <1>1, <1>3, AccountAssumption DEF Taken, WithUsername, WithEmail, Promise!Taken
  <2>2. CASE step'[c] = "registered" /\ asked' = asked
    <3>1. Answers' = [Answers EXCEPT ![c] = <<"registered", asked[c]>>]
      BY <1>1, <2>2, AnswersMove
    <3> QED
      BY <1>1, <1>2, <1>3, <2>1, <3>1 DEF Answers, Promise!Enroll, Promise!Answer
  <2>3. CASE step'[c] = "idle"
    <3>1. Answers' = Answers
      BY <1>1, <2>3 DEF Answers
    <3> QED
      BY <1>1, <1>2, <1>3, <2>1, <3>1 DEF Answers, Promise!Enroll
  <2> QED
    BY <1>1, <1>3, <2>2, <2>3 DEF CreateUser, Goto, End, IInv, TypeOK
<1>4. CASE Taken(asked[c]) # {} /\ users' = users
  <2>1. step'[c] = "refused" /\ asked' = asked
    BY <1>4 DEF CreateUser, Goto, IInv, TypeOK
  <2> QED
    BY <1>1, <1>4, <2>1, CallRefused
<1> QED
  BY <1>1, <1>3, <1>4 DEF CreateUser

(* The token of a login or a rotation, if the client gets it.               *)
LEMMA HandKeepsPromise ==
  ASSUME IInv, NEW c \in Client, FindUser(c) \/ Rotate(c)
  PROVE  Promise!LogIn(c) \/ Promise!Renew(c) \/ Promise!NextCall(c)
<1>1. /\ step[c] \notin {"registered", "refused"} /\ step'[c] \notin {"registered", "refused"}
      /\ \A b \in Client \ {c} : step'[b] = step[b] /\ asked'[b] = asked[b]
      /\ UNCHANGED <<now, users>>
  BY DEF FindUser, Rotate, Goto, End, IInv, TypeOK, userVars
<1>2. Answers' = Answers
  BY <1>1 DEF Answers
<1>3. CASE token' = token
  BY <1>1, <1>3, CallMoves
<1>4. CASE FindUser(c) /\ token' # token
  <2>1. PICK a \in replica : a.email = asked[c]
    BY <1>4 DEF FindUser, WithEmail, tokenVars
  <2>2. a \in users /\ token[c] = NoToken
    BY <1>4, <2>1 DEF FindUser, IInv, TypeOK, CallsFit
  <2>3. token' = [token EXCEPT ![c] = [email |-> a.email, at |-> now]]
    BY <1>4, <2>1 DEF FindUser, IssueTokens, Hand, Made, tokenVars
  <2> QED
    BY <1>1, <1>2, <2>2, <2>3 DEF Answers, Promise!LogIn
<1>5. CASE Rotate(c) /\ token' # token
  <2>1. token[c] \in Token /\ token[c] # NoToken
    BY <1>5 DEF Rotate, IInv, TypeOK, CallsFit
  <2>2. WithEmail(replica, token[c].email) # {}
    BY <2>1 DEF IInv, SessionsHaveUser
  <2>3. token' = [token EXCEPT ![c] = [email |-> token[c].email, at |-> now]]
    BY <1>5, <2>2 DEF Rotate, Hand, Made, tokenVars
  <2>4. [token[c] EXCEPT !.at = now] = [email |-> token[c].email, at |-> now]
    BY <2>1 DEF Token
  <2>5. token' = [token EXCEPT ![c].at = now]
    BY <2>3, <2>4
  <2> QED
    BY <1>1, <1>2, <2>1, <2>5 DEF Answers, Promise!Renew
<1> QED
  BY <1>3, <1>4, <1>5

(* Every step is one of Registry or leaves it alone.                        *)
LEMMA PromiseStep ==
  ASSUME IInv, [Next]_vars
  PROVE  [Promise!Next]_(Promise!vars)
<1>1. ASSUME NEW c \in Client,
             Register(c) \/ Login(c) \/ Refresh(c) \/ WrongPassword(c) \/ Fail(c)
      PROVE  Promise!NextCall(c)
  <2>1. /\ step'[c] \notin {"registered", "refused"} /\ UNCHANGED <<now, users, token>>
        /\ \A b \in Client \ {c} : step'[b] = step[b] /\ asked'[b] = asked[b]
    BY <1>1 DEF Register, Login, Refresh, WrongPassword, Fail, Start, End, Goto, IInv, TypeOK,
                userVars, tokenVars
  <2> QED
    BY <2>1, CallMoves
<1>2. ASSUME NEW c \in Client, CheckUsername(c) \/ CheckEmail(c)
      PROVE  Promise!NextCall(c) \/ \E a \in Account : Promise!Refuse(c, a)
  <2>1. /\ asked' = asked /\ UNCHANGED <<now, users, token>> /\ step[c] \in {"username", "email"}
        /\ \A b \in Client \ {c} : step'[b] = step[b]
        /\ step'[c] \in {"email", "create", "refused"}
    BY <1>2 DEF CheckUsername, CheckEmail, Goto, IInv, TypeOK, userVars, tokenVars
  <2>2. asked[c] \in Account
    BY <2>1 DEF IInv, CallsFit
  <2>3. step'[c] = "refused" => Taken(asked[c]) # {}
    BY <1>2 DEF CheckUsername, CheckEmail, Goto, IInv, TypeOK, Taken, WithUsername, WithEmail
  <2>4. CASE step'[c] = "refused"
    BY <2>1, <2>2, <2>3, <2>4, CallRefused
  <2>5. CASE step'[c] # "refused"
    BY <2>1, <2>5, CallMoves
  <2> QED
    BY <2>4, <2>5
<1>3. ASSUME NEW c \in Client, Logout(c) \/ RefuseRefresh(c)
      PROVE  Promise!LogOut(c)
  <2>1. /\ token[c] # NoToken /\ token' = [token EXCEPT ![c] = NoToken]
        /\ UNCHANGED <<now, users>> /\ step'[c] = "idle"
        /\ \A b \in Client \ {c} : step'[b] = step[b] /\ asked'[b] = asked[b]
    BY <1>3 DEF Logout, RefuseRefresh, Start, Goto, IInv, TypeOK, userVars
  <2>2. Answers' = [Answers EXCEPT ![c] = None]
    BY <2>1, AnswersMove
  <2> QED
    BY <2>1, <2>2 DEF Answers, Promise!LogOut, Promise!Answer
<1>4. CASE Tick
  BY <1>4 DEF Tick, userVars, Promise!Next, Promise!Tick
<1>5. CASE Replicate \/ UNCHANGED vars
  BY <1>5 DEF Replicate, vars, userVars, tokenVars, Promise!vars
<1> QED
  BY <1>1, <1>2, <1>3, <1>4, <1>5, CreateKeepsPromise, HandKeepsPromise
  DEF Next, Advance, Promise!Next

(* Registration and login behave as one step each: what is read in between, *)
(* and on the replica, shows nowhere.                                       *)
THEOREM ImplementsRegistry == Spec => RegistrySpec
<1>1. Init => Promise!Init
  BY DEF Init, Promise!Init
<1>2. IInv /\ [Next]_vars => [Promise!Next]_(Promise!vars)
  BY PromiseStep
<1> QED
  BY <1>1, <1>2, Invariance, PTL DEF Spec, RegistrySpec, Promise!Spec
=============================================================================
