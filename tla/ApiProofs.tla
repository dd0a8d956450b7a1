----------------------------- MODULE ApiProofs ------------------------------
(***************************************************************************)
(* Proofs about the two parts of the API that all clients share.           *)
(*                                                                         *)
(* The rate limiter keeps its bound for any limit, window and number of    *)
(* concurrent requests.  The count alone is not inductive: what never      *)
(* exceeds the bound is the count plus the requests allowed but not yet    *)
(* counted.  For the window, the requests admitted in it are compared with *)
(* the count, and those admitted since the key was written with the        *)
(* failures.                                                               *)
(*                                                                         *)
(* No connection is ever cut off from its user's channel, for any number   *)
(* of connections, users and messages.                                     *)
(***************************************************************************)
EXTENDS RateLimiter, WsHub, FiniteSetTheorems, TLAPS

----------------------------------------------------------------------------
(* RateLimiter *)

Bound == MaxRequests + Cardinality(Requests) - 1

CountInv == count + Cardinality(Uncounted) <= Bound + failures

LimiterInv == LimiterTypeOK /\ CountInv

LEMMA UncountedFinite ==
    /\ IsFiniteSet(Uncounted)
    /\ Cardinality(Uncounted) \in Nat
    /\ Cardinality(Uncounted) <= Cardinality(Requests)
    /\ Cardinality(Requests) \in Nat
<1>1. Uncounted \subseteq Requests
  BY DEF Uncounted
<1>2. IsFiniteSet(Requests)
  BY LimiterAssumption
<1> QED BY <1>1, <1>2, FS_Subset, FS_CardinalityType

\* A request that is admitted was not counted among the recent ones before.
LEMMA Admitted ==
    ASSUME NEW r \in Requests, Admit(r)
    PROVE  \E k \in 1 .. Burst : <<0, k>> \notin recent /\ recent' = recent \union {<<0, k>>}
<1> DEFINE k == CHOOSE n \in Free : TRUE
<1>1. k \in Free
  BY DEF Admit
<1>2. k \in 1 .. Burst /\ <<0, k>> \notin recent
  BY <1>1 DEF Free
<1>3. recent' = recent \union {<<0, k>>}
  BY DEF Admit
<1> HIDE DEF k
<1> QED BY <1>2, <1>3

LEMMA LimiterTypeStep == LimiterTypeOK /\ [LimiterNext]_limiterVars => LimiterTypeOK'
<1> SUFFICES ASSUME LimiterTypeOK, [LimiterNext]_limiterVars PROVE LimiterTypeOK'
  OBVIOUS
<1> USE LimiterAssumption DEF LimiterTypeOK, Ages
<1>1. CASE Tick
  <2>1. count' \in Nat /\ ttl' \in 0 .. Window /\ UNCHANGED <<pc, failures>>
    BY <1>1 DEF Tick
  <2>2. recent' \subseteq Ages \X (1 .. Burst)
    BY <1>1 DEF Tick
  <2> QED BY <2>1, <2>2
<1>2. ASSUME NEW r \in Requests, Get(r) PROVE LimiterTypeOK'
  BY <1>2 DEF Get, RedisFails
<1>3. ASSUME NEW r \in Requests, Reject(r) PROVE LimiterTypeOK'
  BY <1>3 DEF Reject, limiterVars
<1>4. ASSUME NEW r \in Requests, Incr(r) PROVE LimiterTypeOK'
  <2>1. recent' \subseteq Ages \X (1 .. Burst) /\ pc' \in [Requests -> {"idle", "incr"}]
    <3>1. 0 \in Ages
      OBVIOUS
    <3>2. PICK k \in 1 .. Burst : recent' = recent \union {<<0, k>>}
      BY <1>4, Admitted DEF Incr
    <3> QED BY <1>4, <3>1, <3>2 DEF Incr, Admit
  <2>2. count' \in Nat /\ ttl' \in 0 .. Window /\ failures' \in 0 .. MaxFailures
    BY <1>4 DEF Incr, RedisFails
  <2> QED BY <2>1, <2>2
<1>5. CASE UNCHANGED limiterVars
  BY <1>5 DEF limiterVars
<1> QED BY <1>1, <1>2, <1>3, <1>4, <1>5 DEF LimiterNext

\* A request allowed to go on adds one to the requests that are not counted yet.
\* Below the limit there is one for every request at most; after a failed read the
\* failure pays for it.
LEMMA GetKeeps ==
    ASSUME LimiterInv, NEW r \in Requests, Get(r)
    PROVE  CountInv'
<1>1. Cardinality(Uncounted') \in Nat /\ Cardinality(Uncounted') <= Cardinality(Requests)
  <2>1. Uncounted' \subseteq Requests
    BY DEF Uncounted
  <2> QED BY <2>1, LimiterAssumption, FS_Subset, FS_CardinalityType
<1>2. count' = count /\ count \in Nat /\ failures \in Nat
  BY LimiterAssumption DEF Get, LimiterInv, LimiterTypeOK
<1>3. CASE count < MaxRequests /\ UNCHANGED failures
  BY <1>1, <1>2, <1>3, UncountedFinite, LimiterAssumption DEF CountInv, Bound
<1>4. CASE RedisFails
  <2>1. Uncounted' = Uncounted \cup {r} /\ r \notin Uncounted
    BY DEF Get, Uncounted, LimiterInv, LimiterTypeOK
  <2>2. Cardinality(Uncounted') = Cardinality(Uncounted) + 1
    BY <2>1, UncountedFinite, FS_AddElement
  <2>3. failures' = failures + 1
    BY <1>4 DEF RedisFails
  <2> QED BY <1>2, <2>2, <2>3, UncountedFinite, LimiterAssumption
          DEF CountInv, Bound, LimiterInv
<1> QED BY <1>3, <1>4 DEF Get

\* Counting a request moves it from one summand to the other.
LEMMA IncrKeeps ==
    ASSUME LimiterInv, NEW r \in Requests, Incr(r)
    PROVE  CountInv'
<1>1. r \in Uncounted
  BY DEF Incr, Admit, Uncounted
<1>2. Uncounted' = Uncounted \ {r}
  BY DEF Incr, Admit, Uncounted, LimiterInv, LimiterTypeOK
<1>3. Cardinality(Uncounted') = Cardinality(Uncounted) - 1
  BY <1>1, <1>2, UncountedFinite, FS_RemoveElement
<1>4. /\ count \in Nat /\ (count' = count + 1 \/ count' = count)
      /\ failures \in Nat /\ (failures' = failures + 1 \/ failures' = failures)
  BY LimiterAssumption DEF Incr, RedisFails, LimiterInv, LimiterTypeOK
<1> QED BY <1>3, <1>4, UncountedFinite, LimiterAssumption DEF CountInv, Bound, LimiterInv

LEMMA LimiterStep == LimiterInv /\ [LimiterNext]_limiterVars => LimiterInv'
<1> SUFFICES ASSUME LimiterInv, [LimiterNext]_limiterVars PROVE CountInv'
  BY LimiterTypeStep DEF LimiterInv
<1>1. CASE Tick
  <2>1. Uncounted' = Uncounted
    BY <1>1 DEF Tick, Uncounted
  <2>2. /\ count \in Nat /\ count' \in Nat /\ count' <= count
        /\ failures \in Nat /\ failures' = failures
    BY <1>1, LimiterAssumption DEF Tick, LimiterInv, LimiterTypeOK
  <2> QED BY <2>1, <2>2, UncountedFinite, LimiterAssumption DEF CountInv, Bound, LimiterInv
<1>2. ASSUME NEW r \in Requests, Get(r) PROVE CountInv'
  BY <1>2, GetKeeps
<1>3. ASSUME NEW r \in Requests, Reject(r) PROVE CountInv'
  BY <1>3 DEF Reject, limiterVars, CountInv, Uncounted, LimiterInv
<1>4. ASSUME NEW r \in Requests, Incr(r) PROVE CountInv'
  BY <1>4, IncrKeeps
<1>5. CASE UNCHANGED limiterVars
  BY <1>5 DEF limiterVars, CountInv, Uncounted, LimiterInv
<1> QED BY <1>1, <1>2, <1>3, <1>4, <1>5 DEF LimiterNext

LEMMA LimiterStart == LimiterInit => LimiterInv
<1> SUFFICES ASSUME LimiterInit PROVE LimiterInv
  OBVIOUS
<1>1. LimiterTypeOK
  BY LimiterAssumption DEF LimiterInit, LimiterTypeOK, Ages
<1>2. Uncounted = {}
  BY DEF LimiterInit, Uncounted
<1>3. Cardinality(Requests) \in Nat /\ Cardinality(Requests) # 0
  BY LimiterAssumption, UncountedFinite, FS_EmptySet
<1>4. Cardinality(Uncounted) = 0
  BY <1>2, FS_EmptySet
<1> QED BY <1>1, <1>3, <1>4, LimiterAssumption DEF LimiterInit, LimiterInv, CountInv, Bound

\* The count, its expiry and the history keep their types, with Redis failing or not.
THEOREM LimiterTypes == LimiterSpec => []LimiterTypeOK
<1>1. LimiterInit => LimiterTypeOK
  BY LimiterAssumption DEF LimiterInit, LimiterTypeOK, Ages
<1> QED BY <1>1, LimiterTypeStep, PTL DEF LimiterSpec

\* N concurrent requests take the count at most N - 1 beyond the limit, and one
\* further for each failed call to Redis, for every limit, window and N.
THEOREM CountBounded == LimiterSpec => []CounterBound
<1>1. LimiterInv => CounterBound
  BY UncountedFinite, LimiterAssumption DEF LimiterInv, LimiterTypeOK, CountInv, Bound, CounterBound
<1> QED BY <1>1, LimiterStart, LimiterStep, PTL DEF LimiterSpec

\* A key always expires: its count and its expiry are written together.
THEOREM KeysExpire == LimiterSpec => []NoImmortalKey
<1>1. LimiterInit => LimiterTypeOK /\ NoImmortalKey
  BY LimiterAssumption DEF LimiterInit, LimiterTypeOK, Ages, NoImmortalKey
<1>2. LimiterTypeOK /\ NoImmortalKey /\ [LimiterNext]_limiterVars => NoImmortalKey'
  BY LimiterAssumption
     DEF LimiterTypeOK, NoImmortalKey, LimiterNext, Tick, Get, Reject, Incr, Admit, limiterVars
<1> QED BY <1>1, <1>2, LimiterTypeStep, PTL DEF LimiterSpec

\* What was admitted since the key was last written, and so was not counted.
Unpaid == {e \in recent : e[1] < Window - ttl}

\* The requests of the window against the bound, the count and the failures.
WindowInv ==
    /\ Cardinality(recent) + Cardinality(Uncounted) <= Bound + failures
    /\ Cardinality(recent) <= count + failures
    /\ Cardinality(Unpaid) <= failures

LEMMA RecentFinite ==
    ASSUME LimiterTypeOK, NEW S, S \subseteq recent
    PROVE  IsFiniteSet(S) /\ Cardinality(S) \in Nat /\ Cardinality(S) <= Cardinality(recent)
<1>1. IsFiniteSet(Ages) /\ IsFiniteSet(1 .. Burst)
  BY LimiterAssumption, FS_Interval DEF Ages
<1>2. IsFiniteSet(Ages \X (1 .. Burst))
  BY <1>1, FS_Product
<1>3. IsFiniteSet(recent)
  BY <1>2, FS_Subset DEF LimiterTypeOK
<1> QED BY <1>3, FS_Subset, FS_CardinalityType

\* As time passes each request gets older by one, so there are not more of them.
LEMMA Aged ==
    ASSUME LimiterTypeOK, NEW S, S \subseteq recent, NEW T, T \subseteq Ages \X (1 .. Burst),
           \A e \in T : <<e[1] - 1, e[2]>> \in S
    PROVE  Cardinality(T) \in Nat /\ Cardinality(T) <= Cardinality(S)
<1> DEFINE f == [e \in T |-> <<e[1] - 1, e[2]>>]
<1>1. \A e \in T : e = <<e[1], e[2]>> /\ e[1] \in Int
  BY LimiterAssumption DEF Ages
<1>2. f \in [T -> S]
  OBVIOUS
<1>3. ASSUME NEW d \in T, NEW e \in T, f[d] = f[e] PROVE d = e
  <2>1. d[1] - 1 = e[1] - 1 /\ d[2] = e[2]
    BY <1>3
  <2> QED BY <1>1, <2>1
<1>4. f \in Injection(T, S)
  <2> HIDE DEF f
  <2> QED BY <1>2, <1>3 DEF Injection, IsInjective
<1>5. IsFiniteSet(S)
  BY RecentFinite
<1> QED BY <1>4, <1>5, FS_Injection, FS_CardinalityType

LEMMA WindowTick == ASSUME LimiterInv, WindowInv, Tick PROVE WindowInv'
<1> USE LimiterAssumption
<1>1. /\ LimiterTypeOK /\ UNCHANGED <<pc, failures>> /\ failures \in Nat
      /\ ttl \in Nat /\ ttl <= Window /\ count \in Nat
  BY DEF LimiterInv, LimiterTypeOK, Tick
<1>2. /\ Unpaid \subseteq recent /\ recent' \subseteq Ages \X (1 .. Burst)
      /\ Unpaid' \subseteq Ages \X (1 .. Burst)
      /\ \A e \in recent' : <<e[1] - 1, e[2]>> \in recent
  BY DEF Tick, Unpaid
<1>3. Cardinality(recent) \in Nat /\ Cardinality(Unpaid) \in Nat
  BY <1>1, <1>2, RecentFinite
<1>4. Cardinality(recent') \in Nat /\ Cardinality(recent') <= Cardinality(recent)
  BY <1>1, <1>2, Aged
<1>5. \A e \in recent' : e[1] \in Int /\ e[1] <= Window - 1
  BY <1>2 DEF Ages
<1>6. ASSUME NEW e \in recent', e[1] - 1 < Window - ttl PROVE <<e[1] - 1, e[2]>> \in Unpaid
  <2>1. <<e[1] - 1, e[2]>>[1] = e[1] - 1
    OBVIOUS
  <2> QED BY <1>2, <1>6, <2>1 DEF Unpaid
<1>7. \A e \in Unpaid' : e \in recent' /\ e[1] - 1 < Window - ttl
  BY <1>1, <1>5 DEF Tick, Unpaid
<1>8. Cardinality(Unpaid') \in Nat /\ Cardinality(Unpaid') <= Cardinality(Unpaid)
  BY <1>1, <1>2, <1>6, <1>7, Aged
<1>9. Uncounted' = Uncounted
  BY <1>1 DEF Uncounted
<1>10. Cardinality(recent') <= count' + failures
  <2>1. CASE ttl > 1
    BY <1>1, <1>3, <1>4, <2>1 DEF Tick, WindowInv
  <2>2. CASE ~(ttl > 1)
    <3>1. \A e \in recent' : e[1] - 1 < Window - ttl
      BY <1>1, <1>5, <2>2
    <3>2. Cardinality(recent') <= Cardinality(Unpaid)
      BY <1>1, <1>2, <1>6, <3>1, Aged
    <3>3. count' = 0
      BY <2>2 DEF Tick
    <3> QED BY <1>1, <1>3, <1>4, <3>2, <3>3 DEF WindowInv
  <2> QED BY <2>1, <2>2
<1>11. Cardinality(recent') + Cardinality(Uncounted') <= Bound + failures'
  <2>1. Cardinality(recent) + Cardinality(Uncounted) <= Bound + failures
    BY DEF WindowInv
  <2>2. Cardinality(Uncounted) \in Nat /\ Bound \in Int
    BY UncountedFinite DEF Bound
  <2> QED BY <1>1, <1>3, <1>4, <1>9, <2>1, <2>2
<1>12. Cardinality(Unpaid') <= failures'
  BY <1>1, <1>3, <1>8 DEF WindowInv
<1> QED BY <1>1, <1>10, <1>11, <1>12 DEF WindowInv

\* A request that is let through finds a count that covers the window.
LEMMA WindowGet == ASSUME LimiterInv, WindowInv, NEW r \in Requests, Get(r) PROVE WindowInv'
<1> USE LimiterAssumption
<1>1. /\ UNCHANGED <<count, ttl, recent>> /\ count \in Nat /\ failures \in Nat
      /\ Cardinality(recent) \in Nat /\ failures' \in Nat /\ failures <= failures'
  BY RecentFinite DEF Get, RedisFails, LimiterInv, LimiterTypeOK
<1>2. Uncounted' = Uncounted \union {r} /\ r \notin Uncounted
  BY DEF Get, Uncounted, LimiterInv, LimiterTypeOK
<1>3. Cardinality(Uncounted') = Cardinality(Uncounted) + 1
  BY <1>2, UncountedFinite, FS_AddElement
<1>4. Uncounted' \subseteq Requests
  BY DEF Uncounted
<1>5. Cardinality(Uncounted') <= Cardinality(Requests)
  BY <1>4, FS_Subset
<1>6. Cardinality(Uncounted) \in Nat /\ Cardinality(Requests) \in Nat
  BY UncountedFinite
<1>7. Cardinality(recent) + Cardinality(Uncounted') <= Bound + failures'
  <2>1. CASE count < MaxRequests /\ UNCHANGED failures
    BY <1>1, <1>3, <1>5, <1>6, <2>1 DEF WindowInv, Bound
  <2>2. CASE failures' = failures + 1
    BY <1>1, <1>3, <1>6, <2>2 DEF WindowInv, Bound
  <2> QED BY <2>1, <2>2 DEF Get, RedisFails
<1>8. Cardinality(Unpaid) \in Nat /\ Unpaid' = Unpaid
  <2>1. Unpaid \subseteq recent
    BY DEF Unpaid
  <2> QED BY <1>1, <2>1, RecentFinite DEF Unpaid, LimiterInv
<1>9. Cardinality(recent') <= count' + failures' /\ Cardinality(Unpaid') <= failures'
  BY <1>1, <1>8 DEF WindowInv
<1> QED BY <1>1, <1>7, <1>9 DEF WindowInv

\* A request that is counted writes the key; one that is not is paid by the failure.
LEMMA WindowIncr == ASSUME LimiterInv, WindowInv, NEW r \in Requests, Incr(r) PROVE WindowInv'
<1> USE LimiterAssumption
<1>1. PICK k \in 1 .. Burst : <<0, k>> \notin recent /\ recent' = recent \union {<<0, k>>}
  BY Admitted DEF Incr
<1>2. IsFiniteSet(recent) /\ Cardinality(recent) \in Nat /\ Cardinality(recent') = Cardinality(recent) + 1
  BY <1>1, RecentFinite, FS_AddElement DEF LimiterInv
<1>3. Cardinality(Uncounted') = Cardinality(Uncounted) - 1
  <2>1. r \in Uncounted /\ Uncounted' = Uncounted \ {r}
    BY DEF Incr, Admit, Uncounted, LimiterInv, LimiterTypeOK
  <2> QED BY <2>1, UncountedFinite, FS_RemoveElement
<1>4. Cardinality(Uncounted) \in Nat /\ count \in Nat /\ failures \in Nat /\ ttl \in 0 .. Window /\ Bound \in Int
  BY UncountedFinite DEF LimiterInv, LimiterTypeOK, Bound
<1>5. IsFiniteSet(Unpaid) /\ Cardinality(Unpaid) \in Nat
  <2>1. Unpaid \subseteq recent
    BY DEF Unpaid
  <2> QED BY <2>1, RecentFinite DEF LimiterInv
<1>6. CASE count' = count + 1 /\ ttl' = Window /\ UNCHANGED failures
  <2>1. Unpaid' = {}
    <3>1. \A e \in recent' : e[1] \in Nat
      BY <1>1 DEF LimiterInv, LimiterTypeOK, Ages
    <3> QED BY <1>6, <3>1 DEF Unpaid
  <2>2. Cardinality(Unpaid') = 0
    BY <2>1, FS_EmptySet
  <2> QED BY <1>2, <1>3, <1>4, <1>6, <2>2 DEF WindowInv
<1>7. CASE failures' = failures + 1 /\ UNCHANGED <<count, ttl>>
  <2> DEFINE new == <<0, k>>
  <2>1. Unpaid' \subseteq Unpaid \union {new}
    BY <1>1, <1>7 DEF Unpaid
  <2> HIDE DEF new
  <2>2. /\ IsFiniteSet(Unpaid \union {new})
        /\ Cardinality(Unpaid \union {new}) = IF new \in Unpaid THEN Cardinality(Unpaid) ELSE Cardinality(Unpaid) + 1
    BY <1>5, FS_AddElement
  <2>3. Cardinality(Unpaid') \in Nat /\ Cardinality(Unpaid') <= Cardinality(Unpaid \union {new})
    BY <2>1, <2>2, FS_Subset, FS_CardinalityType
  <2>4. Cardinality(Unpaid') <= Cardinality(Unpaid) + 1
    BY <1>5, <2>2, <2>3
  <2> QED BY <1>2, <1>3, <1>4, <1>5, <1>7, <2>3, <2>4 DEF WindowInv
<1> QED BY <1>6, <1>7 DEF Incr, RedisFails

LEMMA WindowStep == LimiterInv /\ WindowInv /\ [LimiterNext]_limiterVars => WindowInv'
<1> SUFFICES ASSUME LimiterInv, WindowInv, [LimiterNext]_limiterVars PROVE WindowInv'
  OBVIOUS
<1>1. CASE UNCHANGED limiterVars
  BY <1>1 DEF limiterVars, WindowInv, Unpaid, Uncounted
<1>2. ASSUME NEW r \in Requests, Reject(r) PROVE WindowInv'
  BY <1>1, <1>2 DEF Reject
<1> QED BY <1>1, <1>2, WindowTick, WindowGet, WindowIncr DEF LimiterNext

LEMMA WindowStart == LimiterInit => WindowInv
<1> SUFFICES ASSUME LimiterInit PROVE WindowInv
  OBVIOUS
<1>1. recent = {} /\ Unpaid = {} /\ count = 0 /\ failures = 0
  BY DEF LimiterInit, Unpaid
<1>2. Cardinality(recent) = 0 /\ Cardinality(Unpaid) = 0
  BY <1>1, FS_EmptySet
<1> QED BY <1>1, <1>2, LimiterStart, UncountedFinite, LimiterAssumption DEF WindowInv, LimiterInv, CountInv, Bound

\* In no window are more requests admitted than the limit, the requests in flight beside
\* the first, and the failures, whatever lives the key has had in it.
THEOREM WindowBounded == LimiterSpec => []WindowBound
<1>1. LimiterInv /\ WindowInv => WindowBound
  <2> SUFFICES ASSUME LimiterInv, WindowInv PROVE WindowBound
    OBVIOUS
  <2>1. Cardinality(recent) \in Nat /\ failures \in Nat
    BY RecentFinite, LimiterAssumption DEF LimiterInv, LimiterTypeOK
  <2> QED BY <2>1, UncountedFinite, LimiterAssumption DEF WindowInv, Bound, WindowBound
<1> QED BY <1>1, LimiterStart, LimiterStep, WindowStart, WindowStep, PTL DEF LimiterSpec

----------------------------------------------------------------------------
(* WsHub *)

\* Until it registers, a connection receives from no user channel; so nothing is
\* lost when its user is set.
Unregistered == {"new", "authenticated", "subscribed"}
UnregisteredInv == \A c \in Conns : reader[c] \in Unregistered => rx[c] = NoChannel

HubInv == TypeOK /\ UnregisteredInv /\ ReceiverIsRegistered

LEMMA HubTypeInit == Init => TypeOK
BY HubAssumption DEF Init, TypeOK, ReaderSteps, SendSteps

LEMMA HubTypeStep == TypeOK /\ [Next]_vars => TypeOK'
<1> SUFFICES ASSUME TypeOK, [Next]_vars PROVE TypeOK'
  OBVIOUS
<1> USE HubAssumption DEF TypeOK, ReaderSteps, SendSteps
<1>1. ASSUME NEW c \in Conns, Authenticate(c) PROVE TypeOK'
  BY <1>1 DEF Authenticate
<1>2. ASSUME NEW c \in Conns, Subscribe(c) PROVE TypeOK'
  BY <1>2 DEF Subscribe
<1>3. ASSUME NEW c \in Conns, Register(c) PROVE TypeOK'
  BY <1>3 DEF Register, Fresh
<1>4. ASSUME NEW c \in Conns, Abort(c) PROVE TypeOK'
  BY <1>4 DEF Abort
<1>5. ASSUME NEW c \in Conns, Leave(c) PROVE TypeOK'
  BY <1>5 DEF Leave
<1>6. ASSUME NEW c \in Conns, Forward(c) PROVE TypeOK'
  <2>1. pos' \in [Conns -> 0 .. MaxSent]
    BY <1>6 DEF Forward
  <2>2. sendTask' \in [Conns -> SendSteps]
    BY <1>6 DEF Forward
  <2> QED BY <1>6, <2>1, <2>2 DEF Forward
<1>7. ASSUME NEW c \in Conns, Unregister(c) PROVE TypeOK'
  BY <1>7 DEF Unregister
<1>8. ASSUME NEW c \in Conns, Cancel(c) PROVE TypeOK'
  BY <1>8 DEF Cancel
<1>9. ASSUME NEW c \in Conns, Disconnect(c) PROVE TypeOK'
  BY <1>9 DEF Disconnect
<1>10. CASE Broadcast
  BY <1>10 DEF Broadcast
<1>11. ASSUME NEW u \in Users, SendToUser(u) PROVE TypeOK'
  <2>1. channel[u] \in Channels
    BY <1>11 DEF SendToUser
  <2>2. direct' \in [Channels -> 0 .. MaxDirect]
    BY <1>11, <2>1 DEF SendToUser
  <2> QED BY <1>11, <2>2 DEF SendToUser
<1>12. CASE UNCHANGED vars
  BY <1>12 DEF vars
<1> QED
  BY <1>1, <1>2, <1>3, <1>4, <1>5, <1>6, <1>7, <1>8, <1>9, <1>10, <1>11, <1>12
     DEF Next, Handle, Send

\* Every variable of the hub keeps its type, and no counter passes its bound.
THEOREM HubTypes == Spec => []TypeOK
BY HubTypeInit, HubTypeStep, PTL DEF Spec

LEMMA HubStep == HubInv /\ [Next]_vars => HubInv'
<1> SUFFICES ASSUME HubInv, [Next]_vars PROVE UnregisteredInv' /\ ReceiverIsRegistered'
  BY HubTypeStep DEF HubInv
<1>0. TypeOK
  BY DEF HubInv
<1> USE HubAssumption DEF HubInv, UnregisteredInv, Unregistered, ReceiverIsRegistered
<1>1. ASSUME NEW c \in Conns, Authenticate(c) PROVE UnregisteredInv' /\ ReceiverIsRegistered'
  BY <1>0, <1>1 DEF Authenticate, TypeOK
<1>2. ASSUME NEW c \in Conns, Subscribe(c) PROVE UnregisteredInv' /\ ReceiverIsRegistered'
  BY <1>0, <1>2 DEF Subscribe, TypeOK
<1>3. ASSUME NEW c \in Conns, Register(c) PROVE UnregisteredInv' /\ ReceiverIsRegistered'
  <2>1. CASE user[c] = Anonymous
    BY <1>0, <1>3, <2>1 DEF Register, TypeOK
  <2>2. CASE user[c] \in Users
    <3>1. PICK ch \in Channels :
             /\ channel[user[c]] = NoChannel \/ channel[user[c]] = ch
             /\ channel' = [channel EXCEPT ![user[c]] = ch]
             /\ rx' = [rx EXCEPT ![c] = ch]
             /\ reader' = [reader EXCEPT ![c] = "serving"]
             /\ UNCHANGED user
      BY <1>0, <1>3, <2>2 DEF Register, Fresh, TypeOK
    <3>2. UnregisteredInv'
      BY <1>0, <3>1 DEF TypeOK
    <3>3. ASSUME NEW d \in Conns, rx'[d] # NoChannel
          PROVE  user'[d] \in Users /\ channel'[user'[d]] = rx'[d]
      <4>1. CASE d = c
        BY <1>0, <2>2, <3>1, <4>1 DEF TypeOK
      <4>2. CASE d # c
        <5>1. rx[d] # NoChannel /\ rx'[d] = rx[d]
          BY <1>0, <3>1, <3>3, <4>2 DEF TypeOK
        <5>2. user[d] \in Users /\ channel[user[d]] = rx[d]
          BY <5>1
        <5>3. channel'[user[d]] = channel[user[d]]
          BY <1>0, <2>2, <3>1, <5>1, <5>2 DEF TypeOK
        <5> QED BY <3>1, <5>1, <5>2, <5>3
      <4> QED BY <4>1, <4>2
    <3> QED BY <3>2, <3>3
  <2> QED BY <1>0, <2>1, <2>2 DEF TypeOK
<1>4. ASSUME NEW c \in Conns, Abort(c) PROVE UnregisteredInv' /\ ReceiverIsRegistered'
  BY <1>0, <1>4 DEF Abort, TypeOK
<1>5. ASSUME NEW c \in Conns, Leave(c) PROVE UnregisteredInv' /\ ReceiverIsRegistered'
  BY <1>0, <1>5 DEF Leave, TypeOK
<1>6. ASSUME NEW c \in Conns, Unregister(c) PROVE UnregisteredInv' /\ ReceiverIsRegistered'
  <2>1. UNCHANGED <<user, rx, reader>>
    BY <1>6 DEF Unregister
  <2>2. ASSUME NEW d \in Conns, rx[d] # NoChannel
        PROVE  channel'[user[d]] = channel[user[d]]
    <3>1. user[d] \in Users /\ channel[user[d]] = rx[d] /\ Receives(rx[d])
      BY <2>2 DEF Receives
    <3>2. CASE user[d] = user[c]
      BY <1>6, <3>1, <3>2 DEF Unregister
    <3>3. CASE user[d] # user[c]
      BY <1>0, <1>6, <3>1, <3>3 DEF Unregister, TypeOK
    <3> QED BY <3>2, <3>3
  <2> QED BY <2>1, <2>2
<1>7. ASSUME NEW c \in Conns, Forward(c) \/ Cancel(c) \/ Disconnect(c)
      PROVE  UnregisteredInv' /\ ReceiverIsRegistered'
  BY <1>7 DEF Forward, Cancel, Disconnect
<1>8. CASE Broadcast \/ UNCHANGED vars
  BY <1>8 DEF Broadcast, vars
<1>9. ASSUME NEW u \in Users, SendToUser(u) PROVE UnregisteredInv' /\ ReceiverIsRegistered'
  BY <1>9 DEF SendToUser
<1> QED
  BY <1>1, <1>2, <1>3, <1>4, <1>5, <1>6, <1>7, <1>8, <1>9 DEF Next, Handle, Send

\* However connections of a user come, go and clean up after themselves, each that is
\* there holds a receiver of the very channel the map holds for the user, read or not.
THEOREM ReceiversRegistered == Spec => []ReceiverIsRegistered
<1>1. Init => HubInv
  BY HubTypeInit DEF Init, HubInv, UnregisteredInv, ReceiverIsRegistered
<1>2. HubInv => ReceiverIsRegistered
  BY DEF HubInv
<1> QED BY <1>1, <1>2, HubStep, PTL DEF Spec
=============================================================================
