---------------------------- MODULE RateLimiter ----------------------------
(***************************************************************************)
(* RateLimiter::check (api/rate_limit.rs) for one key, called by           *)
(* concurrent requests: a GET of the count, a decision, and an atomic      *)
(* INCR + EXPIRE -- two round trips to Redis, with other requests between  *)
(* them.  Time is discrete; a window is Window ticks.                      *)
(***************************************************************************)
EXTENDS Integers, FiniteSets

CONSTANTS
    Requests,     \* requests of one client that can be in flight together
    MaxRequests,  \* max_requests
    Window,       \* window_seconds, in ticks
    MaxFailures,  \* bound: calls to Redis that fail
    Burst,        \* bound: requests admitted within a tick
    MaxCount      \* bound: the value of the count

ASSUME LimiterAssumption ==
    /\ IsFiniteSet(Requests) /\ Requests # {}
    /\ MaxRequests \in Nat \ {0}
    /\ Window \in Nat \ {0}
    /\ MaxFailures \in Nat /\ Burst \in Nat /\ MaxCount \in Nat

VARIABLES
    count,   \* the value under rate:<key>, 0 when there is none
    ttl,     \* ticks until the key expires, 0 when there is none
    pc,      \* "idle", or "incr": allowed, about to be counted
    recent,  \* requests admitted within the last Window ticks, as <<age, number>>
    failures \* how many calls to Redis failed so far

limiterVars == <<count, ttl, pc, recent, failures>>

Ages == 0 .. Window - 1
Uncounted == {r \in Requests : pc[r] = "incr"}

LimiterTypeOK ==
    /\ count \in Nat /\ ttl \in 0 .. Window
    /\ pc \in [Requests -> {"idle", "incr"}]
    /\ recent \subseteq Ages \X (1 .. Burst)
    /\ failures \in 0 .. MaxFailures

LimiterInit ==
    /\ count = 0 /\ ttl = 0
    /\ pc = [r \in Requests |-> "idle"]
    /\ recent = {}
    /\ failures = 0

\* A call to Redis fails.
RedisFails == failures < MaxFailures /\ failures' = failures + 1

\* Mutant: the limit itself is let through.
GetInclusive(r) ==
    /\ pc[r] = "idle"
    /\ \/ count <= MaxRequests /\ UNCHANGED failures
       \/ RedisFails
    /\ pc' = [pc EXCEPT ![r] = "incr"]
    /\ UNCHANGED <<count, ttl, recent>>

\* The GET and the decision.  A failed GET reads as 0, and 0 is below the limit.
Get(r) ==
    /\ pc[r] = "idle"
    /\ \/ count < MaxRequests /\ UNCHANGED failures
       \/ RedisFails
    /\ pc' = [pc EXCEPT ![r] = "incr"]
    /\ UNCHANGED <<count, ttl, recent>>

\* Mutant: a rejected request restarts the window.
RejectAndExtend(r) ==
    /\ pc[r] = "idle"
    /\ count >= MaxRequests
    /\ ttl' = Window
    /\ UNCHANGED <<count, pc, recent, failures>>

\* The GET finds the limit reached: 429, and nothing is written.
Reject(r) ==
    /\ pc[r] = "idle"
    /\ count >= MaxRequests
    /\ UNCHANGED limiterVars

\* Numbers of requests not admitted in this tick yet.
Free == {k \in 1 .. Burst : <<0, k>> \notin recent}

Admit(r) == /\ pc[r] = "incr"
            /\ Free # {}
            /\ pc' = [pc EXCEPT ![r] = "idle"]
            /\ recent' = recent \union {<<0, CHOOSE k \in Free : TRUE>>}

\* Mutant: INCR and EXPIRE are two calls, and the second may fail.
IncrThenExpire(r) ==
    /\ Admit(r)
    /\ count < MaxCount /\ count' = count + 1
    /\ \/ ttl' = Window /\ UNCHANGED failures
       \/ RedisFails /\ UNCHANGED ttl

\* Mutant: the expiry is set once, when the key is created: a fixed window.
IncrFixed(r) ==
    /\ Admit(r)
    /\ count' = count + 1
    /\ ttl' = IF count = 0 THEN Window ELSE ttl
    /\ UNCHANGED failures

\* INCR and EXPIRE in one transaction; an error is ignored, and the request
\* admitted without being counted.
Incr(r) ==
    /\ Admit(r)
    /\ \/ count < MaxCount /\ count' = count + 1 /\ ttl' = Window /\ UNCHANGED failures
       \/ RedisFails /\ UNCHANGED <<count, ttl>>

Tick ==
    /\ ttl' = IF ttl > 0 THEN ttl - 1 ELSE 0
    /\ count' = IF ttl > 1 THEN count ELSE 0
    /\ recent' = {e \in Ages \X (1 .. Burst) : <<e[1] - 1, e[2]>> \in recent}
    /\ UNCHANGED <<pc, failures>>

LimiterNext == Tick \/ \E r \in Requests : Get(r) \/ Reject(r) \/ Incr(r)

LimiterSpec == LimiterInit /\ [][LimiterNext]_limiterVars

\* Time passes; a request that got its answer goes on to be counted.
FairLimiterSpec ==
    LimiterSpec /\ WF_limiterVars(Tick) /\ \A r \in Requests : WF_limiterVars(Incr(r))

----------------------------------------------------------------------------
(* Properties *)

\* The count of one life of the key exceeds the limit by less than the number of
\* requests in flight, each of which may have read it before the others were
\* counted, and one for each failed call.
CounterBound == count <= MaxRequests + Cardinality(Requests) - 1 + failures

\* In any window, not only in one life of the key, the requests admitted exceed the
\* limit by less than the number in flight, and one for each failed call of
\* RateLimiter::check: the key outlives the requests it counts.
WindowBound == Cardinality(recent) <= MaxRequests + Cardinality(Requests) - 1 + failures

\* No key without an expiry: a failure between the two commands of the pipeline
\* would lock the client out for good.
NoImmortalKey == count > 0 => ttl > 0

\* A client that hits the limit gets below it again, however often it is refused:
\* refusals do not extend the window.
NeverLockedOut == []<>(count < MaxRequests)
=============================================================================
