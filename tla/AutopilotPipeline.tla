------------------------- MODULE AutopilotPipeline -------------------------
(***************************************************************************)
(* The autopilot execution pipeline: ExecutorOrchestrator's                *)
(* execute_autopilot_action with everything it awaits -- the simulator,    *)
(* GuardianSigner's authorization checks, TxSubmitter, and the UPDATEs of  *)
(* the `transactions` table -- run by several tasks at once, while users   *)
(* change their settings, signers are created and revoked, the chain       *)
(* decides, statements and calls fail, and the process dies.               *)
(*                                                                         *)
(* One action per await: every await is a point where another task runs.   *)
(* All behaviours lie within one budget day: the daily reset is a database *)
(* function nobody calls (migrations/005_executor_state.sql).              *)
(***************************************************************************)
EXTENDS Naturals

CONSTANTS
    Pipes,        \* calls of execute_autopilot_action
    Users,        \* rows of `users`
    SignerIds,    \* rows of `guardian_signers`, allocated as they are inserted
    NoSigner,     \* "no such row": neither a key nor a row
    Permissions,  \* the SignerPermissions values a signer may be given
    Budgets,      \* the daily budgets a user may set (NULL counts as 0)
    Requests,     \* the AutopilotActions that may be asked for
    NoRequest,    \* a call that has not started: not a member of Requests
    Faults        \* what may go wrong, a subset of FaultKinds

FaultKinds ==
    {"db_refused",   \* a statement fails and has no effect
     "db_lost",      \* a write takes effect but its acknowledgement is lost
     "rpc_refused",  \* the node rejects a call, or it times out
     "rpc_lost",     \* the node accepts the transaction, its answer is lost
     "crash"}        \* the process dies with its tasks

\* A row of guardian_signers.
SignerRows == [owner : Users, perm : Permissions, revoked : BOOLEAN]

ASSUME ConstantsAssumption ==
    /\ NoSigner \notin SignerIds \union SignerRows
    /\ NoRequest \notin Requests
    /\ Budgets \subseteq Nat
    /\ \A r \in Requests : /\ r.user \in Users
                           /\ r.kind \in {"repay", "rebalance"}
                           /\ r.amount \in Nat
    /\ \A perm \in Permissions : perm.maxSingle \in Nat
    /\ Faults \subseteq FaultKinds

VARIABLES
    users,     \* users: autopilot_enabled, autopilot_budget_usd, autopilot_daily_spent_usd
    signers,   \* guardian_signers: owner, permissions, revoked_at
    status,    \* transactions.status, "none" before the INSERT
    hash,      \* transactions.tx_hash: NULL, empty, or the hash the node returned
    chain,     \* what the chain did with the transaction of the call
    pc,        \* the await a call stands at
    job,       \* the AutopilotAction a call was given
    seen,      \* the signer row the last authorization check read
    told,      \* the last transaction status sent to the user's channel
    result     \* what the call returned

db == <<users, signers>>
record == <<status, hash>>
vars == <<users, signers, status, hash, chain, pc, job, seen, told, result>>

Lifecycle == INSTANCE TxLifecycle WITH Txs <- Pipes
Table == INSTANCE TxState

Steps == {"idle", "simulate", "create", "signer1", "budget1", "signer2", "budget2",
          "mark", "send", "hash", "receipt", "confirm", "missing", "fail",
          "returned", "crashed"}
Stopped == {"returned", "crashed"}
Unverified == {"idle", "simulate", "create", "signer1", "budget1", "signer2"}

Hashes == {"null", "empty", "known"}
UserRows == [enabled : BOOLEAN, budget : Budgets \union {0}, spent : {0}]

TypeOK ==
    /\ users \in [Users -> UserRows]
    /\ signers \in [SignerIds -> SignerRows \union {NoSigner}]
    /\ status \in [Pipes -> Lifecycle!Statuses]
    /\ hash \in [Pipes -> Hashes]
    /\ chain \in [Pipes -> Lifecycle!Fates]
    /\ pc \in [Pipes -> Steps]
    /\ job \in [Pipes -> Requests \union {NoRequest}]
    /\ seen \in [Pipes -> SignerIds \union {NoSigner}]
    /\ told \in [Pipes -> {"nothing", "submitted", "confirmed", "failed"}]
    /\ result \in [Pipes -> {"none", "ok", "err"}]

\* Column defaults: autopilot off, no budget, nothing spent, no signer.
Init ==
    /\ users = [u \in Users |-> [enabled |-> FALSE, budget |-> 0, spent |-> 0]]
    /\ signers = [s \in SignerIds |-> NoSigner]
    /\ status = [p \in Pipes |-> "none"]
    /\ hash = [p \in Pipes |-> "null"]
    /\ chain = [p \in Pipes |-> "unsent"]
    /\ pc = [p \in Pipes |-> "idle"]
    /\ job = [p \in Pipes |-> NoRequest]
    /\ seen = [p \in Pipes |-> NoSigner]
    /\ told = [p \in Pipes |-> "nothing"]
    /\ result = [p \in Pipes |-> "none"]

----------------------------------------------------------------------------
(* Steps of a call *)

Goto(p, step) == /\ pc' = [pc EXCEPT ![p] = step]
                 /\ UNCHANGED result

Return(p, r) == /\ pc' = [pc EXCEPT ![p] = "returned"]
                /\ result' = [result EXCEPT ![p] = r]

Tell(p, what) == told' = [told EXCEPT ![p] = what]

ReadFails == Faults \intersect {"db_refused", "db_lost"} # {}

\* A write of the row of p that is acknowledged (ok), refused, or applied with
\* its acknowledgement lost.  The UPDATEs have no condition but the row's id.
Write(p, st, h, ok) ==
    \/ /\ ok \/ "db_lost" \in Faults
       /\ status' = [status EXCEPT ![p] = st]
       /\ hash' = [hash EXCEPT ![p] = h]
    \/ ~ok /\ "db_refused" \in Faults /\ UNCHANGED record

\* Mutant: the query forgets whose signer it looks for.
AnyActive(u) == {s \in SignerIds : signers[s] # NoSigner /\ ~signers[s].revoked}

Active(u) == {s \in SignerIds : /\ signers[s] # NoSigner
                                /\ signers[s].owner = u
                                /\ ~signers[s].revoked}

\* Action type, amount limit, protocol.
Permits(perm, r) == /\ r.kind \in perm.actions
                    /\ r.amount <= perm.maxSingle
                    /\ r.protocol \in perm.protocols

WithinBudget(user, amount) == user.spent + amount <= user.budget

\* build_action_calldata: no await before it, and no rebalance after it.
Start(p, r) ==
    /\ pc[p] = "idle"
    /\ job' = [job EXCEPT ![p] = r]
    /\ IF r.kind = "repay" THEN Goto(p, "simulate") ELSE Return(p, "err")
    /\ UNCHANGED <<db, record, chain, seen, told>>

\* simulate_repay only reads; the position may be missing.
Simulate(p) ==
    /\ pc[p] = "simulate"
    /\ Goto(p, "create") \/ Return(p, "err")
    /\ UNCHANGED <<db, record, chain, job, seen, told>>

\* Mutant: the record starts in the state TxState names after a simulation.
CreateSimulated(p) ==
    /\ pc[p] = "create"
    /\ Write(p, "simulated", "null", TRUE)
    /\ Goto(p, "signer1")
    /\ UNCHANGED <<db, chain, job, seen, told>>

CreateTransaction(p) ==
    /\ pc[p] = "create"
    /\ \E ok \in BOOLEAN : /\ Write(p, "pending", "null", ok)
                           /\ IF ok THEN Goto(p, "signer1") ELSE Return(p, "err")
    /\ UNCHANGED <<db, chain, job, seen, told>>

\* check_authorization is called by the orchestrator (round 1) and again by
\* execute_autopilot (round 2).  An error of the first is returned as it is; all
\* else that is not a yes marks the transaction failed.
Round(p) == IF pc[p] \in {"signer1", "budget1"} THEN 1 ELSE 2

\* Mutant: a call that is not authorized returns without marking its record.
RefuseSilently(p, error) == Return(p, "err")

Refuse(p, error) ==
    IF error /\ Round(p) = 1 THEN Return(p, "err") ELSE Goto(p, "fail")

\* First read of check_authorization.  Nothing orders the rows the query finds.
ReadSigner(p) ==
    /\ pc[p] \in {"signer1", "signer2"}
    /\ \/ \E s \in Active(job[p].user) :
             /\ seen' = [seen EXCEPT ![p] = s]
             /\ IF Permits(signers[s].perm, job[p])
                THEN Goto(p, IF Round(p) = 1 THEN "budget1" ELSE "budget2")
                ELSE Refuse(p, FALSE)
       \/ /\ Active(job[p].user) = {}
          /\ Refuse(p, FALSE)
          /\ UNCHANGED seen
       \/ /\ ReadFails
          /\ Refuse(p, TRUE)
          /\ UNCHANGED seen
    /\ UNCHANGED <<db, record, chain, job, told>>

\* Mutant: the second check of execute_autopilot is left out.
ReadBudgetOnce(p) ==
    /\ pc[p] \in {"budget1", "budget2"}
    /\ IF WithinBudget(users[job[p].user], job[p].amount)
       THEN Goto(p, "mark") ELSE Refuse(p, FALSE)
    /\ UNCHANGED <<db, record, chain, job, seen, told>>

\* Second read: the users row.  autopilot_enabled is not looked at.
ReadBudget(p) ==
    /\ pc[p] \in {"budget1", "budget2"}
    /\ \/ IF WithinBudget(users[job[p].user], job[p].amount)
          THEN Goto(p, IF Round(p) = 1 THEN "signer2" ELSE "mark")
          ELSE Refuse(p, FALSE)
       \/ ReadFails /\ Refuse(p, TRUE)
    /\ UNCHANGED <<db, record, chain, job, seen, told>>

\* Mutant: the record is written only once the hash is known.
MarkLater(p) ==
    /\ pc[p] = "mark"
    /\ Goto(p, "send")
    /\ UNCHANGED <<db, record, chain, job, seen, told>>

\* submit_public: the record first, then the node, then the record again.
MarkSubmitted(p) ==
    /\ pc[p] = "mark"
    /\ \E ok \in BOOLEAN :
          /\ Write(p, "submitted", "empty", ok)
          /\ IF ok THEN Goto(p, "send") /\ Tell(p, "submitted")
                   ELSE Goto(p, "fail") /\ UNCHANGED told
    /\ UNCHANGED <<db, chain, job, seen>>

SendRawTransaction(p) ==
    /\ pc[p] = "send"
    /\ \/ /\ chain' = [chain EXCEPT ![p] = "pooled"]
          /\ Goto(p, "hash") \/ ("rpc_lost" \in Faults /\ Goto(p, "fail"))
       \/ "rpc_refused" \in Faults /\ Goto(p, "fail") /\ UNCHANGED chain
    /\ UNCHANGED <<db, record, job, seen, told>>

StoreHash(p) ==
    /\ pc[p] = "hash"
    /\ \E ok \in BOOLEAN :
          /\ Write(p, "submitted", "known", ok)
          /\ IF ok THEN Goto(p, "receipt") /\ Tell(p, "submitted")
                   ELSE Goto(p, "fail") /\ UNCHANGED told
    /\ UNCHANGED <<db, chain, job, seen>>

\* Mutant: the answer of the node is not looked at.
ReceiptAssumed(p) ==
    /\ pc[p] = "receipt"
    /\ Goto(p, "confirm")
    /\ UNCHANGED <<db, record, chain, job, seen, told>>

\* wait_for_confirmation asks once; a receipt of a reverted transaction is a
\* receipt.
GetReceipt(p) ==
    /\ pc[p] = "receipt"
    /\ \/ Goto(p, IF chain[p] \in Lifecycle!OnChain THEN "confirm" ELSE "missing")
       \/ Faults \intersect {"rpc_refused", "rpc_lost"} # {} /\ Goto(p, "fail")
    /\ UNCHANGED <<db, record, chain, job, seen, told>>

\* Mutant: the user is told of the receipt before it is written down.
ConfirmAfterTelling(p) ==
    /\ pc[p] = "confirm"
    /\ \E ok \in BOOLEAN :
          /\ Write(p, "confirmed", hash[p], ok)
          /\ IF ok THEN Return(p, "ok") ELSE Goto(p, "fail")
    /\ Tell(p, "confirmed")
    /\ UNCHANGED <<db, chain, job, seen>>

ConfirmTransaction(p) ==
    /\ pc[p] = "confirm"
    /\ \E ok \in BOOLEAN :
          /\ Write(p, "confirmed", hash[p], ok)
          /\ IF ok THEN Return(p, "ok") /\ Tell(p, "confirmed")
                   ELSE Goto(p, "fail") /\ UNCHANGED told
    /\ UNCHANGED <<db, chain, job, seen>>

\* No receipt: the record is marked failed, and the wait still returns Ok(()).
ReceiptMissing(p) ==
    /\ pc[p] = "missing"
    /\ \E ok \in BOOLEAN :
          /\ Write(p, "failed", hash[p], ok)
          /\ IF ok THEN Return(p, "ok") /\ Tell(p, "failed")
                   ELSE Goto(p, "fail") /\ UNCHANGED told
    /\ UNCHANGED <<db, chain, job, seen>>

\* Mutant: the user is told before the statement is known to have worked.
MarkFailedAfterTelling(p) ==
    /\ pc[p] = "fail"
    /\ \E ok \in BOOLEAN : Write(p, "failed", hash[p], ok)
    /\ Tell(p, "failed")
    /\ Return(p, "err")
    /\ UNCHANGED <<db, chain, job, seen>>

\* Mutant: a failed attempt puts the record back for another one.
MarkPending(p) ==
    /\ pc[p] = "fail"
    /\ Write(p, "pending", hash[p], TRUE)
    /\ Return(p, "err")
    /\ UNCHANGED <<db, chain, job, seen, told>>

\* update_transaction_failed in the orchestrator's error branches; if the
\* statement itself fails the user is told nothing.
MarkFailed(p) ==
    /\ pc[p] = "fail"
    /\ \E ok \in BOOLEAN : /\ Write(p, "failed", hash[p], ok)
                           /\ IF ok THEN Tell(p, "failed") ELSE UNCHANGED told
    /\ Return(p, "err")
    /\ UNCHANGED <<db, chain, job, seen>>

Step(p) ==
    \/ Simulate(p) \/ CreateTransaction(p) \/ ReadSigner(p) \/ ReadBudget(p)
    \/ MarkSubmitted(p) \/ SendRawTransaction(p) \/ StoreHash(p) \/ GetReceipt(p)
    \/ ConfirmTransaction(p) \/ ReceiptMissing(p) \/ MarkFailed(p)

----------------------------------------------------------------------------
(* What happens around the calls *)

others == <<status, hash, chain, pc, job, seen, told, result>>

SetAutopilot(u, enabled, budget) ==
    /\ users' = [users EXCEPT ![u].enabled = enabled, ![u].budget = budget]
    /\ UNCHANGED <<signers, others>>

\* The INSERT of create_guardian_signer.  The mutation add_guardian_signer panics
\* before it (it slices 20 bytes of a 16-byte UUID), so rows come from its other
\* callers.
CreateSigner(s, u, perm) ==
    /\ signers[s] = NoSigner
    /\ signers' = [signers EXCEPT ![s] = [owner |-> u, perm |-> perm, revoked |-> FALSE]]
    /\ UNCHANGED <<users, others>>

RevokeSigner(s) ==
    /\ signers[s] # NoSigner
    /\ signers' = [signers EXCEPT ![s].revoked = TRUE]
    /\ UNCHANGED <<users, others>>

Settings ==
    \/ \E u \in Users, enabled \in BOOLEAN, budget \in Budgets \union {0} :
          SetAutopilot(u, enabled, budget)
    \/ \E s \in SignerIds, u \in Users, perm \in Permissions : CreateSigner(s, u, perm)
    \/ \E s \in SignerIds : RevokeSigner(s)

Decide(p) ==
    /\ chain[p] = "pooled"
    /\ \E fate \in Lifecycle!OnChain \union {"dropped"} : chain' = [chain EXCEPT ![p] = fate]
    /\ UNCHANGED <<db, record, pc, job, seen, told, result>>

\* Nothing resumes a call: a restarted process starts other calls.
Crash ==
    /\ "crash" \in Faults
    /\ \E p \in Pipes : pc[p] \notin {"idle"} \union Stopped
    /\ pc' = [p \in Pipes |-> IF pc[p] \in {"idle"} \union Stopped THEN pc[p] ELSE "crashed"]
    /\ UNCHANGED <<db, record, chain, job, seen, told, result>>

Next ==
    \/ \E p \in Pipes, r \in Requests : Start(p, r)
    \/ \E p \in Pipes : Step(p) \/ Decide(p)
    \/ Settings
    \/ Crash

Spec == Init /\ [][Next]_vars

\* The runtime polls every task it has started, and every statement and call it
\* makes is answered or times out; nothing obliges users, chain or caller.
FairSpec == Spec /\ \A p \in Pipes : WF_vars(Step(p))

----------------------------------------------------------------------------
(* Properties *)

\* Write-ahead: whatever fails or dies, a transaction that may be on its way is
\* one the table shows as having been submitted (submit_public's first UPDATE).
BroadcastIsRecorded ==
    \A p \in Pipes : chain[p] # "unsent" => status[p] \in {"submitted", "confirmed", "failed"}

\* A confirmed record belongs to a transaction that has a receipt, and holds the
\* hash to find it by (wait_for_confirmation after submit_public).
ConfirmedIsOnChain ==
    \A p \in Pipes : status[p] = "confirmed" => chain[p] \in Lifecycle!OnChain /\ hash[p] = "known"

\* What is broadcast was allowed by a signer row of the same user, for that
\* action, amount and protocol, and by some budget (check_authorization),
\* however rows are inserted and revoked in between.
BroadcastIsAuthorized ==
    \A p \in Pipes : chain[p] # "unsent" =>
        /\ seen[p] \in SignerIds /\ signers[seen[p]] # NoSigner
        /\ signers[seen[p]].owner = job[p].user
        /\ Permits(signers[seen[p]].perm, job[p])
        /\ \E b \in Budgets \union {0} : job[p].amount <= b

\* A user is never told more than the table holds: the notifications follow the
\* acknowledged UPDATEs, and no later write of the call takes them back.
ToldIsRecorded ==
    \A p \in Pipes :
        /\ told[p] = "submitted" => status[p] \in {"submitted", "confirmed", "failed"}
        /\ told[p] \in Lifecycle!Terminal => status[p] = told[p]

\* Revocation is effective up to the second check: while a user has no active
\* signer, no call of theirs gets past it (execute_autopilot's own check).
HeldBack(p) ==
    pc[p] \in Unverified \ {"idle"} /\ Active(job[p].user) = {}
       => pc'[p] \in Unverified \union {"fail"} \union Stopped

RevocationStops == [][\A p \in Pipes : HeldBack(p)]_vars

\* As long as the database answers, each call comes to an end, whatever the node does,
\* and leaves no record pending or submitted (the branches of
\* execute_autopilot_action).
CallsSettle ==
    \A p \in Pipes :
        pc[p] # "idle" ~> pc[p] \in Stopped /\ status[p] \in {"none"} \union Lifecycle!Terminal

\* The pipeline implements the record's life cycle (when no acknowledgement of a
\* write is lost).
ImplementsLifecycle == Lifecycle!Spec

\* What the executor does to a record that TxState's table forbids: it submits one that
\* was never simulated, approved or signed, and it fails one whose confirmation was
\* applied but not acknowledged.  The latter is never announced before and keeps its hash.
Departs(p) ==
    \/ status[p] = "pending" /\ status'[p] = "submitted"
    \/ /\ status[p] = "confirmed" /\ status'[p] = "failed"
       /\ "db_lost" \in Faults
       /\ told[p] \notin Lifecycle!Terminal /\ hash'[p] = hash[p]

\* Whatever fails, no other UPDATE of the executor leaves the table, and what its user is
\* told step by step never does: nobody hears "confirmed" and "failed" of one transaction.
FollowsTable ==
    [][\A p \in Pipes :
          /\ status[p] \notin {"none", status'[p]} =>
                Table!CanTransitionTo(status[p], status'[p]) \/ Departs(p)
          /\ told[p] \notin {"nothing", told'[p]} => Table!CanTransitionTo(told[p], told'[p])]_vars

\* TxResult is the "Result of a successfully executed transaction"
\* (orchestrator.rs:73): the call that returns one has a confirmed record, and a
\* transaction that was not reverted.
OkIsExecuted ==
    \A p \in Pipes : result[p] = "ok" => status[p] = "confirmed" /\ chain[p] = "executed"
=============================================================================
