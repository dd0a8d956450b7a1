------------------------------ MODULE Accounts ------------------------------
(***************************************************************************)
(* What logged-in users do to their account row, on top of Sessions: the   *)
(* subscription mutations of the GraphQL API, which the verified request   *)
(* carries out some time after its token was looked up.                    *)
(*                                                                         *)
(* start_subscription and cancel_subscription of X402Client run the same   *)
(* statements.  Streams are not looked at again (is_subscription_active    *)
(* answers true), so a subscription only ends when it is cancelled.        *)
(***************************************************************************)
EXTENDS Sessions

----------------------------------------------------------------------------
(* Subscriptions *)

Answer(r, ok) == request' = [request EXCEPT ![r].state = IF ok THEN "ok" ELSE "error"]

\* Mutant: the UPDATE without its WHERE.
UpdateAllTiers(u, t, stream) ==
    users' = [v \in UserIds |-> IF users[v] = None THEN None
                                ELSE [wallet |-> users[v].wallet, tier |-> t, stream |-> stream]]

\* update_user_tier sets both columns; of an unknown user, none.
UpdateUserTier(u, t, stream) ==
    users' = [users EXCEPT ![u] = IF @ = None THEN None
                                  ELSE [wallet |-> @.wallet, tier |-> t, stream |-> stream]]

\* The operation of a verified request.  Each start makes a new stream, named after
\* its request here, whatever stream the row holds.
Operate(r, t, stream) ==
    /\ request[r].state = "verified" /\ request[r].user # None
    /\ \E ok \in BOOLEAN :
          /\ \/ Applied(ok) /\ UpdateUserTier(request[r].user, t, stream)
             \/ Refused(ok) /\ UNCHANGED users
          /\ Answer(r, ok)
    /\ UNCHANGED <<now, login>>

StartSubscription(r) == Operate(r, "autopilot", r)

\* Mutant: the stream is left in the row for the books.
CancelKeepingStream(r) == Operate(r, "free", r)

CancelSubscription(r) == Operate(r, "free", None)

\* ctx.data::<Uuid>()?
RejectAnonymous(r) ==
    /\ request[r].state = "verified" /\ request[r].user = None
    /\ Answer(r, FALSE)
    /\ UNCHANGED <<now, users, login>>

Next ==
    \/ SessionsNext
    \/ \E r \in Requests : StartSubscription(r) \/ CancelSubscription(r) \/ RejectAnonymous(r)

Spec == Init /\ [][Next]_vars

----------------------------------------------------------------------------
(* Properties *)

\* A subscribed user has the stream that pays for it in the same row and a free one
\* has none, whichever answers were lost between start and cancel; and the stream
\* was started by a request whose session was this user's (update_user_tier).
SubscriptionIsWhole ==
    \A u \in Rows :
        /\ users[u].tier = "autopilot" <=> users[u].stream # None
        /\ users[u].stream # None => request[users[u].stream].user = u

\* A row's subscription only ever changes by a request that was verified as its
\* user's, and is answered by the same step.
OnlyOwnersSubscribe ==
    [][\A u \in Rows : users'[u] # users[u] =>
          \E r \in Requests : /\ request[r].state = "verified" /\ request[r].user = u
                              /\ request'[r].state # "verified"]_vars

=============================================================================
