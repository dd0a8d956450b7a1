--------------------------- MODULE AccountsProofs ---------------------------
(***************************************************************************)
(* Proofs about logins, sessions and subscriptions, for any number of      *)
(* wallets, attempts and requests, any lifetime of a session, and whatever *)
(* PostgreSQL and Redis refuse or lose.                                    *)
(***************************************************************************)
EXTENDS Accounts, TLAPS

\* An attempt has its session from the lookup or the insert on, never before.
SessionInv ==
    \A a \in Attempts :
        /\ step[a] # "idle" => wallet[a] \in Wallets
        /\ step[a] \in {"seen", "setex", "ok"} => session[a] # None
        /\ step[a] \in {"idle", "lookup", "create"} => session[a] = None
        /\ until[a] > 0 => session[a] # None /\ step[a] \in Answers

\* A session is dated before it is stored, and Redis counts from then on.
LifetimeInv ==
    \A a \in Attempts :
        /\ step[a] \in {"seen", "setex"} => session[a].expires <= now + Ttl
        /\ step[a] = "ok" => session[a].expires <= until[a]

\* A request has a user only through a session that was stored by then; a session
\* that is stored does not change any more.
RequestInv ==
    \A r \in Requests :
        /\ request[r].state = "unsent" => request[r].user = None
        /\ request[r].user # None =>
              /\ request[r].token \in Attempts
              /\ until[request[r].token] > 0
              /\ request[r].at <= session[request[r].token].expires
              /\ request[r].user = session[request[r].token].user

LEMMA TypeInit == Init => TypeOK
BY SessionsAssumption DEF Init, TypeOK, NewRequest, Steps, Answers, Times, Callers

LEMMA NewSessionType ==
    ASSUME TypeOK, NEW u \in UserIds, NEW w \in Wallets
    PROVE  NewSession(u, w) \in SessionRows
BY SessionsAssumption DEF TypeOK, NewSession, SessionRows, Times

LEMMA TypeStep == TypeOK /\ SessionInv /\ [Next]_vars => TypeOK'
<1> SUFFICES ASSUME TypeOK, SessionInv, [Next]_vars PROVE TypeOK'
  OBVIOUS
<1> USE SessionsAssumption
<1>1. ASSUME NEW a \in Attempts, NEW w \in Wallets, Connect(a, w) PROVE TypeOK'
  BY <1>1 DEF TypeOK, Connect, Goto, Steps
<1>2. ASSUME NEW a \in Attempts, Lookup(a) PROVE TypeOK'
  <2>1. /\ step' \in [Attempts -> Steps]
        /\ UNCHANGED <<now, users, wallet, until, request>>
    BY <1>2 DEF Lookup, Goto, TypeOK, Steps, Answers
  <2>2. session' \in [Attempts -> SessionRows \union {None}]
    <3>1. CASE UNCHANGED session
      BY <3>1 DEF TypeOK
    <3>2. ASSUME NEW u \in Of(wallet[a]),
                 session' = [session EXCEPT ![a] = NewSession(u, wallet[a])]
          PROVE  session' \in [Attempts -> SessionRows \union {None}]
      <4>1. u \in UserIds /\ users[u] \in UserRows /\ users[u].wallet = wallet[a]
        BY <3>2 DEF Of, Rows, TypeOK
      <4>2. wallet[a] \in Wallets
        BY <4>1 DEF UserRows
      <4>3. NewSession(u, wallet[a]) \in SessionRows
        BY <4>1, <4>2, NewSessionType
      <4> QED BY <3>2, <4>3 DEF TypeOK
    <3> QED BY <1>2, <3>1, <3>2 DEF Lookup
  <2> QED BY <2>1, <2>2 DEF TypeOK
<1>3. ASSUME NEW a \in Attempts, TouchUser(a) PROVE TypeOK'
  <2>1. /\ step' \in [Attempts -> Steps]
        /\ UNCHANGED <<now, users, wallet, until, request>>
    BY <1>3 DEF TouchUser, Goto, TypeOK, Steps, Answers
  <2>2. session' \in [Attempts -> SessionRows \union {None}]
    <3>1. session[a] \in SessionRows /\ now + Ttl \in Times \union MaxTime .. MaxTime + Ttl
      BY <1>3 DEF TouchUser, TypeOK, SessionInv, Times
    <3>2. [session[a] EXCEPT !.expires = now + Ttl] \in SessionRows
      BY <3>1 DEF SessionRows
    <3> QED BY <1>3, <3>2 DEF TouchUser, TypeOK
  <2> QED BY <2>1, <2>2 DEF TypeOK
<1>4. ASSUME NEW a \in Attempts, CreateUser(a) PROVE TypeOK'
  <2>1. /\ step' \in [Attempts -> Steps]
        /\ UNCHANGED <<now, wallet, until, request>>
    BY <1>4 DEF CreateUser, Goto, TypeOK, Steps, Answers
  <2>2. CASE UNCHANGED <<users, session>>
    BY <2>1, <2>2 DEF TypeOK
  <2>3. CASE \E u \in UserIds \ Rows :
                /\ users' = [users EXCEPT ![u] = [wallet |-> wallet[a], tier |-> "free",
                                                  stream |-> None]]
                /\ \/ session' = [session EXCEPT ![a] = NewSession(u, wallet[a])]
                   \/ UNCHANGED session
    <3>1. PICK u \in UserIds \ Rows :
                /\ users' = [users EXCEPT ![u] = [wallet |-> wallet[a], tier |-> "free",
                                                  stream |-> None]]
                /\ \/ session' = [session EXCEPT ![a] = NewSession(u, wallet[a])]
                   \/ UNCHANGED session
      BY <2>3
    <3>2. wallet[a] \in Wallets
      BY <1>4 DEF CreateUser, SessionInv
    <3>3. [wallet |-> wallet[a], tier |-> "free", stream |-> None] \in UserRows
      BY <3>2 DEF UserRows, Tiers
    <3>4. NewSession(u, wallet[a]) \in SessionRows
      BY <3>2, NewSessionType
    <3> QED BY <2>1, <3>1, <3>3, <3>4 DEF TypeOK
  <2> QED BY <1>4, <2>2, <2>3 DEF CreateUser
<1>5. ASSUME NEW a \in Attempts, StoreSession(a) PROVE TypeOK'
  <2>1. /\ step' \in [Attempts -> Steps]
        /\ UNCHANGED <<now, users, wallet, session, request>>
    BY <1>5 DEF StoreSession, Goto, TypeOK, Steps, Answers
  <2>2. until' \in [Attempts -> 0 .. MaxTime + Ttl]
    BY <1>5 DEF StoreSession, TypeOK, Times
  <2> QED BY <2>1, <2>2 DEF TypeOK
<1>6. ASSUME NEW r \in Requests, NEW token \in Attempts \union {None}, Verify(r, token)
      PROVE  TypeOK'
  BY <1>6 DEF TypeOK, Verify, login
<1>7. CASE Tick
  BY <1>7 DEF TypeOK, Tick, Times, login
<1>8. ASSUME NEW r \in Requests, NEW t \in Tiers, NEW s \in Requests \union {None}, Operate(r, t, s)
      PROVE  TypeOK'
  <2>1. /\ UNCHANGED <<now, step, wallet, session, until>>
        /\ request' \in [Requests -> [state : {"unsent", "verified", "ok", "error"},
                                      token : Attempts \union {None},
                                      user : Callers, at : Times]]
    BY <1>8 DEF TypeOK, Operate, Answer, login
  <2>2. users' \in [UserIds -> UserRows \union {None}]
    <3>1. CASE UNCHANGED users
      BY <3>1 DEF TypeOK
    <3>2. CASE UpdateUserTier(request[r].user, t, s)
      <4>1. request[r].user \in UserIds
        BY <1>8 DEF Operate, TypeOK, Callers
      <4>2. ASSUME users[request[r].user] # None
            PROVE  [wallet |-> users[request[r].user].wallet, tier |-> t, stream |-> s] \in UserRows
        BY <4>1, <4>2 DEF TypeOK, UserRows
      <4> DEFINE row == IF users[request[r].user] = None THEN None
                        ELSE [wallet |-> users[request[r].user].wallet, tier |-> t, stream |-> s]
      <4>3. row \in UserRows \union {None}
        BY <4>2
      <4>4. users' = [users EXCEPT ![request[r].user] = row]
        BY <3>2 DEF UpdateUserTier
      <4> HIDE DEF row
      <4> QED BY <4>1, <4>3, <4>4 DEF TypeOK
    <3> QED BY <1>8, <3>1, <3>2 DEF Operate
  <2> QED BY <2>1, <2>2 DEF TypeOK
<1>9. ASSUME NEW r \in Requests, RejectAnonymous(r) PROVE TypeOK'
  BY <1>9 DEF TypeOK, RejectAnonymous, Answer, login
<1>10. CASE UNCHANGED vars
  BY <1>10 DEF TypeOK, vars, login
<1> QED
  BY <1>1, <1>2, <1>3, <1>4, <1>5, <1>6, <1>7, <1>8, <1>9, <1>10
     DEF Next, SessionsNext, ConnectStep, StartSubscription, CancelSubscription, Tiers


----------------------------------------------------------------------------
(* Sessions *)

LEMMA SessionStep == TypeOK /\ SessionInv /\ [Next]_vars => SessionInv'
<1> SUFFICES ASSUME TypeOK, SessionInv, [Next]_vars PROVE SessionInv'
  OBVIOUS
<1> USE SessionsAssumption DEF TypeOK, SessionInv, Answers
<1>1. ASSUME NEW a \in Attempts, NEW w \in Wallets, Connect(a, w) PROVE SessionInv'
  BY <1>1 DEF Connect, Goto
<1>2. ASSUME NEW a \in Attempts, Lookup(a) PROVE SessionInv'
  <2>1. \A u \in Of(wallet[a]) : NewSession(u, wallet[a]) # None
    <3>1. \A u \in Of(wallet[a]) : u \in UserIds
      BY DEF Of, Rows
    <3>2. wallet[a] \in Wallets
      BY <1>2 DEF Lookup
    <3> QED BY <3>1, <3>2, NewSessionType
  <2> QED BY <1>2, <2>1 DEF Lookup, Goto
<1>3. ASSUME NEW a \in Attempts, TouchUser(a) PROVE SessionInv'
  <2>1. session[a] \in SessionRows /\ now + Ttl \in Times \union MaxTime .. MaxTime + Ttl
    BY <1>3 DEF TouchUser, Times
  <2>2. [session[a] EXCEPT !.expires = now + Ttl] \in SessionRows
    BY <2>1 DEF SessionRows
  <2>3. session'[a] # None
    BY <1>3, <2>2 DEF TouchUser
  <2> QED BY <1>3, <2>3 DEF TouchUser, Goto
<1>4. ASSUME NEW a \in Attempts, CreateUser(a) PROVE SessionInv'
  <2>1. \A u \in UserIds : NewSession(u, wallet[a]) # None
    BY <1>4, NewSessionType DEF CreateUser
  <2>2. UNCHANGED <<wallet, until>> /\ step[a] = "create"
    BY <1>4 DEF CreateUser
  <2>3. ASSUME NEW u \in UserIds, Goto(a, "setex"),
               session' = [session EXCEPT ![a] = NewSession(u, wallet[a])]
        PROVE  SessionInv'
    <3>1. session'[a] # None /\ step'[a] = "setex"
      BY <2>1, <2>3 DEF Goto
    <3>2. \A b \in Attempts \ {a} : session'[b] = session[b] /\ step'[b] = step[b]
      BY <2>3 DEF Goto
    <3>3. until[a] = 0
      BY <2>2
    <3> QED BY <2>2, <3>1, <3>2, <3>3
  <2>4. CASE Goto(a, "create_failed") /\ UNCHANGED session
    BY <2>2, <2>4 DEF Goto
  <2> QED BY <1>4, <2>3, <2>4 DEF CreateUser
<1>5. ASSUME NEW a \in Attempts, StoreSession(a) PROVE SessionInv'
  BY <1>5 DEF StoreSession, Goto
<1>6. ASSUME UNCHANGED login PROVE SessionInv'
  BY <1>6 DEF login
<1> QED
  BY <1>1, <1>2, <1>3, <1>4, <1>5, <1>6
     DEF Next, SessionsNext, ConnectStep, Verify, Tick, StartSubscription, CancelSubscription,
         Operate, RejectAnonymous, vars

\* Every variable of logins, sessions and accounts keeps its type.
THEOREM TypeCorrect == Spec => []TypeOK
<1>1. Init => TypeOK /\ SessionInv
  BY TypeInit DEF Init, SessionInv
<1>2. TypeOK /\ SessionInv /\ [Next]_vars => (TypeOK /\ SessionInv)'
  BY TypeStep, SessionStep
<1> QED BY <1>1, <1>2, PTL DEF Spec

\* What the operations of requests do to a row: its wallet stays, and no row goes.
LEMMA RowsStay ==
    ASSUME TypeOK, SessionInv, [Next]_vars
    PROVE  /\ Rows \subseteq Rows'
           /\ \A u \in Rows : users'[u].wallet = users[u].wallet
<1> USE SessionsAssumption DEF TypeOK, Rows
<1>1. ASSUME NEW a \in Attempts, CreateUser(a)
      PROVE  Rows \subseteq Rows' /\ \A u \in Rows : users'[u].wallet = users[u].wallet
  BY <1>1 DEF CreateUser
<1>2. ASSUME NEW r \in Requests, NEW t \in Tiers, NEW s \in Requests \union {None}, Operate(r, t, s)
      PROVE  Rows \subseteq Rows' /\ \A u \in Rows : users'[u].wallet = users[u].wallet
  <2>1. CASE UNCHANGED users
    BY <2>1
  <2>2. CASE UpdateUserTier(request[r].user, t, s)
    <3>1. request[r].user \in UserIds
      BY <1>2 DEF Operate, Callers
    <3>2. \A u \in Rows : [wallet |-> users[u].wallet, tier |-> t, stream |-> s] \in UserRows
      BY DEF UserRows
    <3>3. \A u \in UserIds \ {request[r].user} : users'[u] = users[u]
      BY <2>2, <3>1 DEF UpdateUserTier
    <3>4. request[r].user \in Rows =>
            users'[request[r].user] = [wallet |-> users[request[r].user].wallet, tier |-> t, stream |-> s]
      BY <2>2, <3>1 DEF UpdateUserTier
    <3> QED BY <3>1, <3>2, <3>3, <3>4
  <2> QED BY <1>2, <2>1, <2>2 DEF Operate
<1>3. ASSUME UNCHANGED users
      PROVE  Rows \subseteq Rows' /\ \A u \in Rows : users'[u].wallet = users[u].wallet
  BY <1>3
<1> QED
  BY <1>1, <1>2, <1>3
     DEF Next, SessionsNext, ConnectStep, Connect, Lookup, TouchUser, StoreSession, Verify, Tick,
         StartSubscription, CancelSubscription, RejectAnonymous, vars, Tiers

\* A session is its wallet's, and a wallet has one row: the constraint of the table.
LEMMA LoginsStep == TypeOK /\ SessionInv /\ LoginsAgree /\ [Next]_vars => LoginsAgree'
<1> SUFFICES ASSUME TypeOK, SessionInv, LoginsAgree, [Next]_vars PROVE LoginsAgree'
  OBVIOUS
<1> USE SessionsAssumption
<1> DEFINE Unique == \A u, v \in Rows : users[u].wallet = users[v].wallet => u = v
           Owned(a) == /\ session[a].wallet = wallet[a]
                       /\ session[a].user \in Rows
                       /\ users[session[a].user].wallet = wallet[a]
<1>1. Unique'
  <2>1. ASSUME NEW a \in Attempts, CreateUser(a) PROVE Unique'
    <3>1. CASE UNCHANGED users
      BY <3>1 DEF LoginsAgree, Rows
    <3>2. ASSUME NEW u \in UserIds \ Rows, Of(wallet[a]) = {},
                 users' = [users EXCEPT ![u] = [wallet |-> wallet[a], tier |-> "free", stream |-> None]]
          PROVE  Unique'
      <4>1. \A v \in Rows : users[v].wallet # wallet[a]
        BY <3>2 DEF Of
      <4>2. Rows' \subseteq Rows \union {u}
        BY <3>2 DEF TypeOK, Rows
      <4>3. users'[u].wallet = wallet[a] /\ \A v \in Rows : users'[v] = users[v]
        BY <3>2 DEF TypeOK, Rows
      <4> QED BY <4>1, <4>2, <4>3 DEF LoginsAgree
    <3> QED BY <2>1, <3>1, <3>2 DEF CreateUser
  <2>2. CASE Rows' = Rows
    BY <2>2, RowsStay DEF LoginsAgree
  <2>3. ASSUME NEW r \in Requests, NEW t \in Tiers, NEW s \in Requests \union {None}, Operate(r, t, s)
        PROVE  Rows' = Rows
    <3>1. Rows \subseteq Rows'
      BY RowsStay
    <3>2. CASE UpdateUserTier(request[r].user, t, s)
      <4>1. request[r].user \in UserIds
        BY <2>3 DEF Operate, TypeOK, Callers
      <4>2. \A u \in UserIds : users[u] = None => users'[u] = None
        BY <3>2, <4>1 DEF UpdateUserTier, TypeOK
      <4> QED BY <3>1, <4>2 DEF Rows
    <3> QED BY <2>3, <3>2 DEF Operate, Rows
  <2>4. ASSUME UNCHANGED users PROVE Rows' = Rows
    BY <2>4 DEF Rows
  <2> QED
    BY <2>1, <2>2, <2>3, <2>4
       DEF Next, SessionsNext, ConnectStep, Connect, Lookup, TouchUser, StoreSession, Verify, Tick,
           StartSubscription, CancelSubscription, RejectAnonymous, vars, Tiers
<1>2. ASSUME NEW a \in Attempts, session'[a] # None PROVE Owned(a)'
  <2>1. CASE session'[a] = session[a] /\ wallet'[a] = wallet[a]
    <3>1. session[a].user \in Rows
      BY <1>2, <2>1 DEF LoginsAgree
    <3> QED BY <1>2, <2>1, <3>1, RowsStay DEF LoginsAgree
  <2>2. ASSUME NEW b \in Attempts, NEW w \in Wallets, Connect(b, w) PROVE Owned(a)'
    <3>1. a # b
      BY <1>2, <2>2 DEF Connect, SessionInv
    <3> QED BY <2>1, <2>2, <3>1 DEF Connect, TypeOK
  <2>3. ASSUME NEW b \in Attempts, Lookup(b) PROVE Owned(a)'
    <3>1. CASE session'[a] = session[a]
      BY <2>1, <2>3, <3>1 DEF Lookup
    <3>2. ASSUME a = b, NEW u \in Of(wallet[b]),
                 session' = [session EXCEPT ![b] = NewSession(u, wallet[b])]
          PROVE  Owned(a)'
      <4>1. session'[a].user = u /\ session'[a].wallet = wallet[a]
        BY <3>2 DEF NewSession, TypeOK
      <4>2. u \in Rows /\ users[u].wallet = wallet[a] /\ UNCHANGED <<users, wallet>>
        BY <2>3, <3>2 DEF Of, Lookup
      <4> QED BY <4>1, <4>2 DEF Rows
    <3> QED BY <2>3, <3>1, <3>2 DEF Lookup, TypeOK
  <2>4. ASSUME NEW b \in Attempts, TouchUser(b) PROVE Owned(a)'
    <3>1. session'[a].user = session[a].user /\ session'[a].wallet = session[a].wallet
      <4>1. CASE a = b
        <5>1. session[a] \in SessionRows
          BY <2>4, <4>1 DEF TouchUser, SessionInv, TypeOK
        <5> QED BY <2>4, <4>1, <5>1 DEF TouchUser, SessionRows, TypeOK
      <4>2. CASE a # b
        BY <2>4, <4>2 DEF TouchUser, TypeOK
      <4> QED BY <4>1, <4>2
    <3>2. session[a] # None /\ UNCHANGED <<users, wallet>>
      BY <1>2, <2>4 DEF TouchUser, SessionInv, TypeOK
    <3> QED BY <3>1, <3>2 DEF LoginsAgree, Rows
  <2>5. ASSUME NEW b \in Attempts, CreateUser(b) PROVE Owned(a)'
    <3>1. CASE session'[a] = session[a]
      BY <2>1, <2>5, <3>1 DEF CreateUser
    <3>2. ASSUME a = b, NEW u \in UserIds \ Rows,
                 session' = [session EXCEPT ![b] = NewSession(u, wallet[b])],
                 users' = [users EXCEPT ![u] = [wallet |-> wallet[b], tier |-> "free", stream |-> None]]
          PROVE  Owned(a)'
      <4>1. session'[a].user = u /\ session'[a].wallet = wallet[a]
        BY <3>2 DEF NewSession, TypeOK
      <4>2. wallet[a] \in Wallets /\ UNCHANGED wallet
        BY <2>5, <3>2 DEF CreateUser, SessionInv
      <4>3. [wallet |-> wallet[a], tier |-> "free", stream |-> None] \in UserRows
        BY <4>2 DEF UserRows, Tiers
      <4>4. users'[u] = [wallet |-> wallet[a], tier |-> "free", stream |-> None] /\ users'[u] # None
        BY <3>2, <4>3 DEF TypeOK
      <4> QED BY <4>1, <4>2, <4>4 DEF Rows
    <3> QED BY <2>5, <3>1, <3>2 DEF CreateUser, TypeOK
  <2>6. ASSUME UNCHANGED <<session, wallet>> PROVE Owned(a)'
    BY <2>1, <2>6
  <2> QED
    BY <2>2, <2>3, <2>4, <2>5, <2>6
       DEF Next, SessionsNext, ConnectStep, StoreSession, Verify, Tick, StartSubscription,
           CancelSubscription, Operate, RejectAnonymous, login, vars
<1> QED BY <1>1, <1>2 DEF LoginsAgree

\* No wallet has two users and no session another one's, however logins race.
THEOREM Logins == Spec => []LoginsAgree
<1>1. Init => TypeOK /\ SessionInv /\ LoginsAgree
  BY TypeInit DEF Init, SessionInv, LoginsAgree, Rows
<1>2. TypeOK /\ SessionInv /\ LoginsAgree /\ [Next]_vars => (TypeOK /\ SessionInv /\ LoginsAgree)'
  BY TypeStep, SessionStep, LoginsStep
<1> QED BY <1>1, <1>2, PTL DEF Spec

----------------------------------------------------------------------------
(* Lifetimes and requests *)

LEMMA LifetimeStep == TypeOK /\ SessionInv /\ LifetimeInv /\ [Next]_vars => LifetimeInv'
<1> SUFFICES ASSUME TypeOK, SessionInv, LifetimeInv, [Next]_vars,
                    NEW a \in Attempts
             PROVE  /\ step'[a] \in {"seen", "setex"} => session'[a].expires <= now' + Ttl
                    /\ step'[a] = "ok" => session'[a].expires <= until'[a]
  BY DEF LifetimeInv
<1> USE SessionsAssumption
<1> DEFINE Goal == /\ step'[a] \in {"seen", "setex"} => session'[a].expires <= now' + Ttl
                   /\ step'[a] = "ok" => session'[a].expires <= until'[a]
<1>1. session[a] # None => session[a].expires \in Nat
  BY DEF TypeOK, SessionRows, Times
<1>2. now \in Nat
  BY DEF TypeOK, Times
<1>3. ASSUME NEW b \in Attempts, NEW w \in Wallets, Connect(b, w) PROVE Goal
  BY <1>3 DEF Connect, Goto, TypeOK, LifetimeInv
<1>4. ASSUME NEW b \in Attempts, Lookup(b) PROVE Goal
  BY <1>2, <1>4 DEF Lookup, Goto, TypeOK, LifetimeInv, NewSession
<1>5. ASSUME NEW b \in Attempts, TouchUser(b) PROVE Goal
  <2>1. CASE a = b
    <3>1. session[a] \in SessionRows
      BY <1>5, <2>1 DEF TouchUser, SessionInv, TypeOK
    <3>2. session'[a].expires = now + Ttl
      BY <1>5, <2>1, <3>1 DEF TouchUser, SessionRows, TypeOK
    <3> QED BY <1>2, <1>5, <2>1, <3>2 DEF TouchUser, Goto, TypeOK
  <2>2. CASE a # b
    BY <1>5, <2>2 DEF TouchUser, Goto, TypeOK, LifetimeInv
  <2> QED BY <2>1, <2>2
<1>6. ASSUME NEW b \in Attempts, CreateUser(b) PROVE Goal
  <2>1. CASE a # b
    BY <1>6, <2>1 DEF CreateUser, Goto, TypeOK, LifetimeInv
  <2>2. CASE a = b /\ Goto(b, "create_failed")
    BY <2>2 DEF Goto, TypeOK
  <2>3. ASSUME a = b, NEW u \in UserIds, Goto(b, "setex"),
               session' = [session EXCEPT ![b] = NewSession(u, wallet[b])]
        PROVE  Goal
    <3>1. step'[a] = "setex" /\ session'[a].expires = now + Ttl
      BY <2>3 DEF Goto, TypeOK, NewSession
    <3>2. now' = now
      BY <1>6 DEF CreateUser
    <3> QED BY <1>2, <3>1, <3>2
  <2> QED BY <1>6, <2>1, <2>2, <2>3 DEF CreateUser
<1>7. ASSUME NEW b \in Attempts, StoreSession(b) PROVE Goal
  BY <1>1, <1>2, <1>7 DEF StoreSession, Goto, TypeOK, LifetimeInv
<1>8. CASE Tick
  BY <1>1, <1>2, <1>8 DEF Tick, login, LifetimeInv, SessionInv
<1>9. CASE UNCHANGED <<now, login>>
  BY <1>9 DEF login, LifetimeInv
<1> QED
  BY <1>3, <1>4, <1>5, <1>6, <1>7, <1>8, <1>9
     DEF Next, SessionsNext, ConnectStep, Verify, StartSubscription, CancelSubscription, Operate,
         RejectAnonymous, vars

\* What is stored does not change.
LEMMA StoredStays ==
    ASSUME TypeOK, SessionInv, [Next]_vars, NEW a \in Attempts, until[a] > 0
    PROVE  until'[a] = until[a] /\ session'[a] = session[a]
BY DEF SessionInv, TypeOK, Answers, Next, SessionsNext, ConnectStep, Connect, Lookup, TouchUser,
       CreateUser, StoreSession, Verify, Tick, StartSubscription, CancelSubscription, Operate,
       RejectAnonymous, login, vars

LEMMA RequestStep == TypeOK /\ SessionInv /\ RequestInv /\ [Next]_vars => RequestInv'
<1> SUFFICES ASSUME TypeOK, SessionInv, RequestInv, [Next]_vars PROVE RequestInv'
  OBVIOUS
<1> USE SessionsAssumption
<1> DEFINE Kept(r) == /\ request'[r].state = "unsent" => request[r].state = "unsent"
                      /\ request'[r].user = request[r].user
                      /\ request'[r].token = request[r].token
                      /\ request'[r].at = request[r].at
<1>1. ASSUME NEW r \in Requests, Kept(r)
      PROVE  /\ request'[r].state = "unsent" => request'[r].user = None
             /\ request'[r].user # None =>
                  /\ request'[r].token \in Attempts
                  /\ until'[request'[r].token] > 0
                  /\ request'[r].at <= session'[request'[r].token].expires
                  /\ request'[r].user = session'[request'[r].token].user
  BY <1>1, StoredStays DEF RequestInv
<1>2. ASSUME NEW r \in Requests, NEW token \in Attempts \union {None}, Verify(r, token)
      PROVE  RequestInv'
  <2>1. PICK u \in Callers :
          /\ \/ token # None /\ Valid(token) /\ u = session[token].user
             \/ u = None
          /\ request' = [request EXCEPT ![r] = [state |-> "verified", token |-> token,
                                                user |-> u, at |-> now]]
    BY <1>2 DEF Verify
  <2>2. \A q \in Requests \ {r} : Kept(q)
    BY <2>1 DEF TypeOK
  <2>3. request'[r] = [state |-> "verified", token |-> token, user |-> u, at |-> now]
    BY <2>1 DEF TypeOK
  <2>4. ASSUME u # None
        PROVE  token \in Attempts /\ until[token] > 0 /\ now <= session[token].expires
    BY <2>1, <2>4 DEF Valid, Stored, TypeOK, Times
  <2>5. UNCHANGED <<session, until>>
    BY <1>2 DEF Verify, login
  <2> QED BY <1>1, <2>1, <2>2, <2>3, <2>4, <2>5 DEF RequestInv
<1>3. ASSUME NEW r \in Requests, NEW ok \in BOOLEAN, request[r].state = "verified", Answer(r, ok)
      PROVE  \A q \in Requests : Kept(q)
  BY <1>3 DEF Answer, TypeOK
<1>4. ASSUME UNCHANGED request
      PROVE  \A q \in Requests : Kept(q)
  BY <1>4
<1>5. ASSUME \A q \in Requests : Kept(q)
      PROVE  RequestInv'
  BY <1>1, <1>5 DEF RequestInv
<1> HIDE DEF Kept
<1> QED
  BY <1>2, <1>3, <1>4, <1>5
     DEF Next, SessionsNext, ConnectStep, Connect, Lookup, TouchUser, CreateUser, StoreSession, Tick,
         StartSubscription, CancelSubscription, Operate, RejectAnonymous, vars, login

\* A token that was handed out opens its session until the session's date, and no
\* request is accepted past it.
THEOREM Lifetimes == Spec => []SessionLastsItsTime
<1> DEFINE LInv == TypeOK /\ SessionInv /\ LifetimeInv /\ RequestInv
<1>1. Init => LInv
  BY TypeInit DEF Init, SessionInv, LifetimeInv, RequestInv, NewRequest
<1>2. LInv /\ [Next]_vars => LInv'
  BY TypeStep, SessionStep, LifetimeStep, RequestStep
<1>3. LInv => SessionLastsItsTime
  <2> SUFFICES ASSUME LInv PROVE SessionLastsItsTime
    OBVIOUS
  <2>1. ASSUME NEW a \in Attempts, step[a] = "ok", now < session[a].expires PROVE Stored(a)
    <3>1. session[a].expires <= until[a] /\ session[a].expires \in Nat
      BY <2>1, SessionsAssumption DEF LifetimeInv, SessionInv, TypeOK, SessionRows, Times
    <3> QED BY <2>1, <3>1, SessionsAssumption DEF Stored, TypeOK, Times
  <2> QED BY <2>1 DEF SessionLastsItsTime, RequestInv
<1> QED BY <1>1, <1>2, <1>3, PTL DEF Spec

----------------------------------------------------------------------------
(* Subscriptions *)

LEMMA SubscriptionStep ==
    TypeOK /\ SessionInv /\ RequestInv /\ SubscriptionIsWhole /\ [Next]_vars => SubscriptionIsWhole'
<1> SUFFICES ASSUME TypeOK, SessionInv, RequestInv, SubscriptionIsWhole, [Next]_vars
             PROVE  SubscriptionIsWhole'
  OBVIOUS
<1> USE SessionsAssumption
<1> DEFINE Same == \A r \in Requests : request[r].user # None => request'[r].user = request[r].user
<1>1. \A u \in Rows : users[u].stream \in Requests \union {None}
  BY DEF Rows, TypeOK, UserRows
<1>2. ASSUME UNCHANGED users, Same PROVE SubscriptionIsWhole'
  <2>1. Rows' = Rows /\ \A u \in Rows : u \in UserIds
    BY <1>2 DEF Rows
  <2> QED BY <1>1, <1>2, <2>1 DEF SubscriptionIsWhole
<1>3. ASSUME NEW a \in Attempts, CreateUser(a) PROVE SubscriptionIsWhole'
  <2>1. CASE UNCHANGED users
    BY <1>2, <1>3, <2>1 DEF CreateUser
  <2>2. ASSUME NEW u \in UserIds \ Rows,
               users' = [users EXCEPT ![u] = [wallet |-> wallet[a], tier |-> "free", stream |-> None]]
        PROVE  SubscriptionIsWhole'
    <3>1. Rows' \subseteq Rows \union {u}
      BY <2>2 DEF TypeOK, Rows
    <3>2. users'[u] = [wallet |-> wallet[a], tier |-> "free", stream |-> None]
      BY <2>2 DEF TypeOK
    <3>3. \A v \in Rows : users'[v] = users[v]
      BY <2>2 DEF TypeOK, Rows
    <3>4. request' = request
      BY <1>3 DEF CreateUser
    <3> QED BY <3>1, <3>2, <3>3, <3>4 DEF SubscriptionIsWhole
  <2> QED BY <1>3, <2>1, <2>2 DEF CreateUser
<1>4. ASSUME NEW r \in Requests, NEW t \in Tiers, NEW s \in Requests \union {None},
             Operate(r, t, s), (t = "autopilot" /\ s = r) \/ (t = "free" /\ s = None)
      PROVE  SubscriptionIsWhole'
  <2>1. \A q \in Requests : request'[q].user = request[q].user
    BY <1>4 DEF Operate, Answer, TypeOK
  <2>2. CASE UNCHANGED users
    BY <1>2, <2>1, <2>2
  <2>3. CASE UpdateUserTier(request[r].user, t, s)
    <3> DEFINE u == request[r].user
    <3>1. u \in UserIds
      BY <1>4 DEF Operate, TypeOK, Callers
    <3>2. \A v \in UserIds \ {u} : users'[v] = users[v]
      BY <2>3, <3>1 DEF UpdateUserTier, TypeOK
    <3>3. users[u] = None => users'[u] = None
      BY <2>3, <3>1 DEF UpdateUserTier, TypeOK
    <3>4. users[u] # None => users'[u] = [wallet |-> users[u].wallet, tier |-> t, stream |-> s]
      BY <2>3, <3>1 DEF UpdateUserTier, TypeOK
    <3>5. Rows' \subseteq Rows
      BY <3>2, <3>3 DEF Rows
    <3>6. ASSUME NEW v \in Rows', v # u
          PROVE  /\ users'[v].tier = "autopilot" <=> users'[v].stream # None
                 /\ users'[v].stream # None => request'[users'[v].stream].user = v
      BY <1>1, <2>1, <3>2, <3>5, <3>6 DEF SubscriptionIsWhole, Rows
    <3>7. ASSUME u \in Rows'
          PROVE  /\ users'[u].tier = "autopilot" <=> users'[u].stream # None
                 /\ users'[u].stream # None => request'[users'[u].stream].user = u
      BY <1>4, <2>1, <3>3, <3>4, <3>7 DEF Rows
    <3> QED BY <3>6, <3>7 DEF SubscriptionIsWhole
  <2> QED BY <1>4, <2>2, <2>3 DEF Operate
<1>5. ASSUME NEW r \in Requests, NEW token \in Attempts \union {None}, Verify(r, token)
      PROVE  Same /\ UNCHANGED users
  BY <1>5 DEF Verify, TypeOK, RequestInv
<1>6. ASSUME NEW r \in Requests, RejectAnonymous(r) PROVE Same /\ UNCHANGED users
  BY <1>6 DEF RejectAnonymous, Answer, TypeOK
<1>7. ASSUME UNCHANGED <<users, request>> PROVE Same /\ UNCHANGED users
  BY <1>7
<1> HIDE DEF Same
<1> QED
  BY <1>2, <1>3, <1>4, <1>5, <1>6, <1>7
     DEF Next, SessionsNext, ConnectStep, Connect, Lookup, TouchUser, StoreSession, Tick,
         StartSubscription, CancelSubscription, vars, Tiers

\* Whatever answers are lost, a row that pays names the stream it pays by, and that
\* stream was started for its own user.
THEOREM Subscriptions == Spec => []SubscriptionIsWhole
<1> DEFINE SInv == TypeOK /\ SessionInv /\ RequestInv /\ SubscriptionIsWhole
<1>1. Init => SInv
  BY TypeInit DEF Init, SessionInv, RequestInv, NewRequest, SubscriptionIsWhole, Rows
<1>2. SInv /\ [Next]_vars => SInv'
  BY TypeStep, SessionStep, RequestStep, SubscriptionStep
<1> QED BY <1>1, <1>2, PTL DEF Spec

\* A row's subscription changes only by a request that was verified as its user's.
THEOREM Owners == Spec => OnlyOwnersSubscribe
<1> DEFINE Owned == \A u \in Rows : users'[u] # users[u] =>
                      \E r \in Requests : /\ request[r].state = "verified" /\ request[r].user = u
                                          /\ request'[r].state # "verified"
<1>1. TypeOK /\ [Next]_vars => Owned
  <2> SUFFICES ASSUME TypeOK, [Next]_vars, NEW u \in Rows, users'[u] # users[u]
               PROVE  \E r \in Requests : /\ request[r].state = "verified" /\ request[r].user = u
                                          /\ request'[r].state # "verified"
    OBVIOUS
  <2>1. u \in UserIds
    BY DEF Rows
  <2>2. ASSUME NEW a \in Attempts, CreateUser(a) PROVE FALSE
    BY <2>1, <2>2 DEF CreateUser, TypeOK, Rows
  <2>3. ASSUME NEW r \in Requests, NEW t \in Tiers, NEW s \in Requests \union {None}, Operate(r, t, s)
        PROVE  /\ request[r].state = "verified" /\ request[r].user = u
               /\ request'[r].state # "verified"
    <3>1. request'[r].state # "verified"
      BY <2>3 DEF Operate, Answer, TypeOK
    <3>2. UpdateUserTier(request[r].user, t, s)
      BY <2>3 DEF Operate
    <3>3. request[r].user = u
      BY <2>1, <3>2 DEF UpdateUserTier, TypeOK
    <3> QED BY <2>3, <3>1, <3>3 DEF Operate
  <2> QED
    BY <2>2, <2>3
       DEF Next, SessionsNext, ConnectStep, Connect, Lookup, TouchUser, StoreSession, Verify, Tick,
           StartSubscription, CancelSubscription, RejectAnonymous, vars, Tiers
<1>2. OnlyOwnersSubscribe <=> [][Owned]_vars
  BY DEF OnlyOwnersSubscribe
<1> HIDE DEF Owned
<1> QED BY <1>1, <1>2, TypeCorrect, PTL DEF Spec
=============================================================================
