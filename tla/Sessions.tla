------------------------------ MODULE Sessions ------------------------------
(***************************************************************************)
(* Wallet login and sessions: connect_wallet finds or creates the user of  *)
(* a wallet in PostgreSQL and stores a session in Redis, several attempts  *)
(* at once and any of them for the same wallet; requests bring a token,    *)
(* and verify_token looks its session up.                                  *)
(*                                                                         *)
(* One action per await.  An attempt starts with its signature verified.   *)
(* last_seen_at and trial_ends_at are left out: nothing reads them.        *)
(***************************************************************************)
EXTENDS Naturals

CONSTANTS
    Wallets,     \* lower-cased addresses
    UserIds,     \* rows of `users`, allocated as they are inserted
    Attempts,    \* calls of connect_wallet; each makes a token of its own
    Requests,    \* GraphQL requests
    None,        \* no such row, no session, no user: a request without it is anonymous
    Ttl,         \* how long a session lives (7 days in the code)
    MaxTime,     \* bound: the clock
    Faults       \* what may go wrong, a subset of FaultKinds

FaultKinds ==
    {"db_refused",     \* a statement fails and has no effect
     "db_lost",        \* a write takes effect but its acknowledgement is lost
     "redis_refused",  \* a command fails and has no effect
     "redis_lost"}     \* a SETEX takes effect, its answer is lost

Times == 0 .. MaxTime
Tiers == {"free", "autopilot"}
UserRows == [wallet : Wallets, tier : Tiers, stream : Requests \union {None}]
SessionRows == [user : UserIds, wallet : Wallets, expires : Times \union MaxTime .. MaxTime + Ttl]

ASSUME SessionsAssumption ==
    /\ Ttl \in Nat \ {0} /\ MaxTime \in Nat
    /\ None \notin UserIds \union UserRows \union SessionRows \union Requests \union Wallets
    /\ Faults \subseteq FaultKinds

VARIABLES
    now,       \* the clock of the server
    users,     \* users: wallet_address, tier, subscription_stream_id
    step,      \* the await an attempt stands at, or its answer
    wallet,    \* the address an attempt has verified
    session,   \* the Session an attempt made, kept under its token once stored
    until,     \* when Redis drops session:<token>; 0 while it is not stored
    request    \* what a request was found to be: of whom, at which time

login == <<step, wallet, session, until>>
vars == <<now, users, login, request>>

Answers == {"ok", "lookup_failed", "create_failed", "redis_failed"}
Steps == {"idle", "lookup", "create", "seen", "setex"} \union Answers

\* A request: unsent, or verified at a time, or through with its operation.
Callers == UserIds \union {None}
NewRequest == [state |-> "unsent", token |-> None, user |-> None, at |-> 0]

TypeOK ==
    /\ now \in Times
    /\ users \in [UserIds -> UserRows \union {None}]
    /\ step \in [Attempts -> Steps]
    /\ wallet \in [Attempts -> Wallets \union {None}]
    /\ session \in [Attempts -> SessionRows \union {None}]
    /\ until \in [Attempts -> 0 .. MaxTime + Ttl]
    /\ request \in [Requests -> [state : {"unsent", "verified", "ok", "error"},
                                 token : Attempts \union {None},
                                 user : Callers, at : Times]]

Init ==
    /\ now = 0
    /\ users = [u \in UserIds |-> None]
    /\ step = [a \in Attempts |-> "idle"]
    /\ wallet = [a \in Attempts |-> None]
    /\ session = [a \in Attempts |-> None]
    /\ until = [a \in Attempts |-> 0]
    /\ request = [r \in Requests |-> NewRequest]

----------------------------------------------------------------------------
(* connect_wallet *)

Applied(ok) == ok \/ "db_lost" \in Faults
Refused(ok) == ~ok /\ "db_refused" \in Faults
ReadFails == Faults \intersect {"db_refused", "db_lost"} # {}

Goto(a, s) == step' = [step EXCEPT ![a] = s]

Rows == {u \in UserIds : users[u] # None}

\* get_user_by_wallet
Of(w) == {u \in Rows : users[u].wallet = w}

NewSession(u, w) == [user |-> u, wallet |-> w, expires |-> now + Ttl]

Connect(a, w) ==
    /\ step[a] = "idle"
    /\ wallet' = [wallet EXCEPT ![a] = w]
    /\ Goto(a, "lookup")
    /\ UNCHANGED <<now, users, session, until, request>>

\* The session is made in memory from the row that was read; the UPDATE of
\* last_seen_at comes first.
Lookup(a) ==
    /\ step[a] = "lookup"
    /\ \/ Of(wallet[a]) = {} /\ Goto(a, "create") /\ UNCHANGED session
       \/ \E u \in Of(wallet[a]) :
             /\ session' = [session EXCEPT ![a] = NewSession(u, wallet[a])]
             /\ Goto(a, "seen")
       \/ ReadFails /\ Goto(a, "lookup_failed") /\ UNCHANGED session
    /\ UNCHANGED <<now, users, wallet, until, request>>

\* update_user_last_seen(..).await.ok(): the session is dated when it has ended.
TouchUser(a) ==
    /\ step[a] = "seen"
    /\ session' = [session EXCEPT ![a].expires = now + Ttl]
    /\ Goto(a, "setex")
    /\ UNCHANGED <<now, users, wallet, until, request>>

\* Mutant: wallet_address without UNIQUE.
CreateDuplicate(a) ==
    /\ step[a] = "create"
    /\ \E u \in UserIds \ Rows :
          /\ users' = [users EXCEPT ![u] = [wallet |-> wallet[a], tier |-> "free", stream |-> None]]
          /\ session' = [session EXCEPT ![a] = NewSession(u, wallet[a])]
    /\ Goto(a, "setex")
    /\ UNCHANGED <<now, wallet, until, request>>

\* create_user.  wallet_address is UNIQUE: a second row of a wallet is refused.
CreateUser(a) ==
    /\ step[a] = "create"
    /\ \/ \E ok \in BOOLEAN, u \in UserIds \ Rows :
             /\ Of(wallet[a]) = {} /\ Applied(ok)
             /\ users' = [users EXCEPT ![u] = [wallet |-> wallet[a], tier |-> "free", stream |-> None]]
             /\ IF ok THEN /\ session' = [session EXCEPT ![a] = NewSession(u, wallet[a])]
                           /\ Goto(a, "setex")
                      ELSE Goto(a, "create_failed") /\ UNCHANGED session
       \/ /\ Of(wallet[a]) # {} \/ Refused(FALSE)
          /\ Goto(a, "create_failed")
          /\ UNCHANGED <<users, session>>
    /\ UNCHANGED <<now, wallet, until, request>>

\* Mutant: an error of Redis is ignored as the one of last_seen_at is.
StoreBestEffort(a) ==
    /\ step[a] = "setex"
    /\ \/ until' = [until EXCEPT ![a] = now + Ttl]
       \/ Faults \intersect {"redis_refused", "redis_lost"} # {} /\ UNCHANGED until
    /\ Goto(a, "ok")
    /\ UNCHANGED <<now, users, wallet, session, request>>

\* Mutant: SETEX with the time the session expires at for its lifetime.
StoreUntil(a) ==
    /\ step[a] = "setex"
    /\ until' = [until EXCEPT ![a] = now + session[a].expires]
    /\ Goto(a, "ok")
    /\ UNCHANGED <<now, users, wallet, session, request>>

\* SETEX session:<token>: Redis counts the lifetime from now, the session from when
\* it was made.
StoreSession(a) ==
    /\ step[a] = "setex"
    /\ \/ \E ok \in BOOLEAN :
             /\ ok \/ "redis_lost" \in Faults
             /\ until' = [until EXCEPT ![a] = now + Ttl]
             /\ Goto(a, IF ok THEN "ok" ELSE "redis_failed")
       \/ /\ "redis_refused" \in Faults
          /\ Goto(a, "redis_failed")
          /\ UNCHANGED until
    /\ UNCHANGED <<now, users, wallet, session, request>>

ConnectStep(a) == Lookup(a) \/ TouchUser(a) \/ CreateUser(a) \/ StoreSession(a)

----------------------------------------------------------------------------
(* Requests *)

\* Redis still holds session:<token>.
Stored(a) == now < until[a]

\* get_session: the key is there and the session is not past its own date.
Valid(a) == Stored(a) /\ now <= session[a].expires

\* No token, no session to it, or no Redis.
Unverifiable(token) ==
    \/ token = None
    \/ token # None /\ ~Valid(token)
    \/ Faults \intersect {"redis_refused", "redis_lost"} # {}

\* verify_token and graphql_handler: without a token, without a session, or without
\* Redis the request goes on, anonymous.
Verify(r, token) ==
    /\ request[r].state = "unsent"
    /\ \E u \in Callers :
          /\ \/ token # None /\ Valid(token) /\ u = session[token].user
             \/ u = None /\ Unverifiable(token)
          /\ request' = [request EXCEPT ![r] = [state |-> "verified", token |-> token,
                                                user |-> u, at |-> now]]
    /\ UNCHANGED <<now, users, login>>

Tick ==
    /\ now < MaxTime
    /\ now' = now + 1
    /\ UNCHANGED <<users, login, request>>

SessionsNext ==
    \/ \E a \in Attempts, w \in Wallets : Connect(a, w)
    \/ \E a \in Attempts : ConnectStep(a)
    \/ \E r \in Requests, token \in Attempts \union {None} : Verify(r, token)
    \/ Tick

----------------------------------------------------------------------------
(* Properties *)

\* However first logins of a wallet race, it has one user: connect_wallet looks for
\* it and inserts it in two statements, and only the constraint stands between.  And
\* a session, also one that is not stored yet, names a user that is there, the one
\* of the wallet whose signature was verified.
LoginsAgree ==
    /\ \A u, v \in Rows : users[u].wallet = users[v].wallet => u = v
    /\ \A a \in Attempts : session[a] # None =>
          /\ session[a].wallet = wallet[a]
          /\ session[a].user \in Rows
          /\ users[session[a].user].wallet = wallet[a]

\* A token that was handed out opens its session until the session's date: it is
\* handed out only once Redis has acknowledged it, for no shorter a life.  No request
\* is accepted past that date, though Redis may keep the key longer, and an accepted
\* one is its owner's (connect_wallet, get_session, is_expired).
SessionLastsItsTime ==
    /\ \A a \in Attempts : step[a] = "ok" /\ now < session[a].expires => Stored(a)
    /\ \A r \in Requests : request[r].user # None =>
          /\ request[r].at <= session[request[r].token].expires
          /\ request[r].user = session[request[r].token].user
=============================================================================
