---------------------- MODULE AutopilotPipelineProofs ----------------------
(***************************************************************************)
(* Proofs about AutopilotPipeline, for any number of calls, users and      *)
(* signers, any permissions, budgets and requests, and any set of faults.  *)
(***************************************************************************)
EXTENDS AutopilotPipeline, TLAPS

\* Where a call stands tells what its record and its transaction can be.
BeforeInsert == {"idle", "simulate", "create"}
Checking == {"signer1", "budget1", "signer2", "budget2"}
Sent == {"hash", "receipt", "confirm", "missing"}

RecordAt(p) ==
    /\ pc[p] \in BeforeInsert => status[p] = "none"
    /\ pc[p] \in Checking \union {"mark"} => status[p] = "pending"
    /\ pc[p] \in {"send"} \union Sent => status[p] = "submitted"
    /\ pc[p] \in {"receipt", "confirm", "missing"} => hash[p] = "known"
    /\ pc[p] = "fail" => status[p] # "none"
    /\ status[p] = "confirmed" => hash[p] = "known"

ChainAt(p) ==
    /\ pc[p] \in BeforeInsert \union Checking \union {"mark", "send"} => chain[p] = "unsent"
    /\ pc[p] \in Sent => chain[p] # "unsent"
    /\ pc[p] = "confirm" => chain[p] \in Lifecycle!OnChain
    /\ status[p] = "confirmed" => chain[p] \in Lifecycle!OnChain
    /\ chain[p] # "unsent" => status[p] \in {"submitted", "confirmed", "failed"}

ToldAt(p) ==
    /\ pc[p] \in BeforeInsert \union Checking \union {"mark"} => told[p] = "nothing"
    /\ pc[p] \notin Stopped => told[p] \notin Lifecycle!Terminal
    /\ told[p] = "submitted" => status[p] \in {"submitted", "confirmed", "failed"}
    /\ told[p] \in Lifecycle!Terminal => status[p] = told[p]

\* The signer row the call holds allows its action: rows are never rewritten.
HasSigner(p) ==
    /\ seen[p] \in SignerIds /\ signers[seen[p]] # NoSigner
    /\ signers[seen[p]].owner = job[p].user
    /\ Permits(signers[seen[p]].perm, job[p])

HasBudget(p) == \E b \in Budgets \union {0} : job[p].amount <= b

AuthorityAt(p) ==
    /\ pc[p] # "idle" => job[p] \in Requests
    /\ pc[p] \in {"budget1", "budget2", "mark", "send"} \union Sent => HasSigner(p)
    /\ pc[p] \in {"mark", "send"} \union Sent => HasBudget(p)
    /\ chain[p] # "unsent" => HasSigner(p) /\ HasBudget(p)

RecordInv == \A p \in Pipes : RecordAt(p)
ChainInv == \A p \in Pipes : ChainAt(p)
ToldInv == \A p \in Pipes : ToldAt(p)
AuthorityInv == \A p \in Pipes : AuthorityAt(p)

\* Without lost acknowledgements an error branch finds the record unfinished.
UnfinishedInv ==
    "db_lost" \notin Faults =>
        \A p \in Pipes : pc[p] = "fail" => status[p] \in {"pending", "submitted"}

IInv == TypeOK /\ RecordInv /\ ChainInv /\ ToldInv /\ AuthorityInv /\ UnfinishedInv

----------------------------------------------------------------------------
(* Types *)

LEMMA TypeInit == Init => TypeOK
BY DEF Init, TypeOK, UserRows, Hashes, Steps, Lifecycle!Statuses, Lifecycle!Fates

\* A write leaves both columns in their types, whatever its outcome.
LEMMA WriteType ==
    ASSUME TypeOK, NEW p \in Pipes, NEW st \in Lifecycle!Statuses, NEW h \in Hashes,
           NEW ok, Write(p, st, h, ok)
    PROVE  /\ status' \in [Pipes -> Lifecycle!Statuses]
           /\ hash' \in [Pipes -> Hashes]
BY DEF TypeOK, Write, record, Hashes

\* Every step of every call, and everything around the calls, keeps the types.
LEMMA TypeStep == TypeOK /\ [Next]_vars => TypeOK'
<1> SUFFICES ASSUME TypeOK, [Next]_vars PROVE TypeOK'
  OBVIOUS
<1> USE ConstantsAssumption
<1> USE DEF Steps, Goto, Return, Tell, Refuse, Round, db, record
<1>1. ASSUME NEW p \in Pipes, NEW r \in Requests, Start(p, r) PROVE TypeOK'
  BY <1>1 DEF TypeOK, Start
<1>2. ASSUME NEW p \in Pipes, Simulate(p) PROVE TypeOK'
  BY <1>2 DEF TypeOK, Simulate
<1>3. ASSUME NEW p \in Pipes, CreateTransaction(p) PROVE TypeOK'
  <2> PICK ok \in BOOLEAN : /\ Write(p, "pending", "null", ok)
                            /\ IF ok THEN Goto(p, "signer1") ELSE Return(p, "err")
    BY <1>3 DEF CreateTransaction
  <2>1. status' \in [Pipes -> Lifecycle!Statuses] /\ hash' \in [Pipes -> Hashes]
    BY WriteType DEF Lifecycle!Statuses, Hashes
  <2> QED BY <1>3, <2>1 DEF TypeOK, CreateTransaction
<1>4. ASSUME NEW p \in Pipes, ReadSigner(p) PROVE TypeOK'
  BY <1>4 DEF TypeOK, ReadSigner, Active
<1>5. ASSUME NEW p \in Pipes, ReadBudget(p) PROVE TypeOK'
  BY <1>5 DEF TypeOK, ReadBudget
<1>6. ASSUME NEW p \in Pipes, MarkSubmitted(p) PROVE TypeOK'
  <2> PICK ok \in BOOLEAN :
          /\ Write(p, "submitted", "empty", ok)
          /\ IF ok THEN Goto(p, "send") /\ Tell(p, "submitted")
                   ELSE Goto(p, "fail") /\ UNCHANGED told
    BY <1>6 DEF MarkSubmitted
  <2>1. status' \in [Pipes -> Lifecycle!Statuses] /\ hash' \in [Pipes -> Hashes]
    BY WriteType DEF Lifecycle!Statuses, Hashes
  <2> QED BY <1>6, <2>1 DEF TypeOK, MarkSubmitted
<1>7. ASSUME NEW p \in Pipes, SendRawTransaction(p) PROVE TypeOK'
  BY <1>7 DEF TypeOK, SendRawTransaction, Lifecycle!Fates
<1>8. ASSUME NEW p \in Pipes, StoreHash(p) PROVE TypeOK'
  <2> PICK ok \in BOOLEAN :
          /\ Write(p, "submitted", "known", ok)
          /\ IF ok THEN Goto(p, "receipt") /\ Tell(p, "submitted")
                   ELSE Goto(p, "fail") /\ UNCHANGED told
    BY <1>8 DEF StoreHash
  <2>1. status' \in [Pipes -> Lifecycle!Statuses] /\ hash' \in [Pipes -> Hashes]
    BY WriteType DEF Lifecycle!Statuses, Hashes
  <2> QED BY <1>8, <2>1 DEF TypeOK, StoreHash
<1>9. ASSUME NEW p \in Pipes, GetReceipt(p) PROVE TypeOK'
  BY <1>9 DEF TypeOK, GetReceipt
<1>10. ASSUME NEW p \in Pipes, ConfirmTransaction(p) PROVE TypeOK'
  <2> PICK ok \in BOOLEAN :
          /\ Write(p, "confirmed", hash[p], ok)
          /\ IF ok THEN Return(p, "ok") /\ Tell(p, "confirmed")
                   ELSE Goto(p, "fail") /\ UNCHANGED told
    BY <1>10 DEF ConfirmTransaction
  <2>1. hash[p] \in Hashes
    BY DEF TypeOK
  <2>2. status' \in [Pipes -> Lifecycle!Statuses] /\ hash' \in [Pipes -> Hashes]
    BY <2>1, WriteType DEF Lifecycle!Statuses
  <2> QED BY <1>10, <2>2 DEF TypeOK, ConfirmTransaction
<1>11. ASSUME NEW p \in Pipes, ReceiptMissing(p) PROVE TypeOK'
  <2> PICK ok \in BOOLEAN :
          /\ Write(p, "failed", hash[p], ok)
          /\ IF ok THEN Return(p, "ok") /\ Tell(p, "failed")
                   ELSE Goto(p, "fail") /\ UNCHANGED told
    BY <1>11 DEF ReceiptMissing
  <2>1. hash[p] \in Hashes
    BY DEF TypeOK
  <2>2. status' \in [Pipes -> Lifecycle!Statuses] /\ hash' \in [Pipes -> Hashes]
    BY <2>1, WriteType DEF Lifecycle!Statuses
  <2> QED BY <1>11, <2>2 DEF TypeOK, ReceiptMissing
<1>12. ASSUME NEW p \in Pipes, MarkFailed(p) PROVE TypeOK'
  <2> PICK ok \in BOOLEAN : /\ Write(p, "failed", hash[p], ok)
                            /\ IF ok THEN Tell(p, "failed") ELSE UNCHANGED told
    BY <1>12 DEF MarkFailed
  <2>1. hash[p] \in Hashes
    BY DEF TypeOK
  <2>2. status' \in [Pipes -> Lifecycle!Statuses] /\ hash' \in [Pipes -> Hashes]
    BY <2>1, WriteType DEF Lifecycle!Statuses
  <2> QED BY <1>12, <2>2 DEF TypeOK, MarkFailed
<1>13. ASSUME NEW p \in Pipes, Decide(p) PROVE TypeOK'
  BY <1>13 DEF TypeOK, Decide, Lifecycle!OnChain, Lifecycle!Fates
<1>14. ASSUME NEW u \in Users, NEW enabled \in BOOLEAN, NEW budget \in Budgets \union {0},
              SetAutopilot(u, enabled, budget)
       PROVE TypeOK'
  <2> DEFINE switched == [users EXCEPT ![u].enabled = enabled]
  <2>1. switched \in [Users -> UserRows]
    BY DEF TypeOK, UserRows
  <2>2. users' = [switched EXCEPT ![u].budget = budget]
    BY <1>14 DEF SetAutopilot
  <2> HIDE DEF switched
  <2>3. users' \in [Users -> UserRows]
    BY <2>1, <2>2 DEF UserRows
  <2> QED BY <1>14, <2>3 DEF TypeOK, SetAutopilot, others
<1>15. ASSUME NEW s \in SignerIds, NEW u \in Users, NEW perm \in Permissions,
              CreateSigner(s, u, perm)
       PROVE TypeOK'
  <2>1. [owner |-> u, perm |-> perm, revoked |-> FALSE] \in SignerRows
    BY DEF SignerRows
  <2>2. signers' \in [SignerIds -> SignerRows \union {NoSigner}]
    BY <1>15, <2>1 DEF TypeOK, CreateSigner
  <2> QED BY <1>15, <2>2 DEF TypeOK, CreateSigner, others
<1>16. ASSUME NEW s \in SignerIds, RevokeSigner(s) PROVE TypeOK'
  BY <1>16 DEF TypeOK, RevokeSigner, others, SignerRows
<1>17. CASE Crash
  BY <1>17 DEF TypeOK, Crash, Stopped
<1>18. CASE UNCHANGED vars
  BY <1>18 DEF TypeOK, vars
<1> QED
  BY <1>1, <1>2, <1>3, <1>4, <1>5, <1>6, <1>7, <1>8, <1>9, <1>10, <1>11, <1>12,
     <1>13, <1>14, <1>15, <1>16, <1>17, <1>18 DEF Next, Step, Settings

\* Every reachable state of the pipeline is well typed.
THEOREM TypeCorrect == Spec => []TypeOK
<1>1. Init => TypeOK BY TypeInit
<1>2. TypeOK /\ [Next]_vars => TypeOK' BY TypeStep
<1> QED BY <1>1, <1>2, PTL DEF Spec

----------------------------------------------------------------------------
(* The inductive invariant *)

LEMMA InvInit == Init => IInv
<1> SUFFICES ASSUME Init PROVE IInv
  OBVIOUS
<1>1. TypeOK
  BY TypeInit
<1>2. RecordInv /\ ChainInv /\ ToldInv /\ UnfinishedInv
  BY DEF Init, RecordInv, RecordAt, ChainInv, ChainAt, ToldInv, ToldAt, UnfinishedInv,
         BeforeInsert, Checking, Sent, Stopped, Lifecycle!Terminal
<1>3. AuthorityInv
  BY DEF Init, AuthorityInv, AuthorityAt, Sent
<1> QED BY <1>1, <1>2, <1>3 DEF IInv

At(p) == RecordAt(p) /\ ChainAt(p) /\ ToldAt(p) /\ AuthorityAt(p)

Acts(p) == (\E r \in Requests : Start(p, r)) \/ Step(p) \/ Decide(p)

\* What a call holds of the tables, and where it stands, is as it was.
Same(q) == /\ pc'[q] = pc[q] /\ status'[q] = status[q] /\ hash'[q] = hash[q]
           /\ chain'[q] = chain[q] /\ job'[q] = job[q]
           /\ seen'[q] = seen[q] /\ told'[q] = told[q]

\* Rows of guardian_signers are inserted and revoked, never deleted or rewritten.
RowsKept == \A s \in SignerIds : signers[s] # NoSigner =>
                /\ signers'[s] # NoSigner
                /\ signers'[s].owner = signers[s].owner
                /\ signers'[s].perm = signers[s].perm

\* A step of one call leaves the others alone.
LEMMA Frame ==
    ASSUME TypeOK, NEW p \in Pipes, Acts(p), NEW q \in Pipes, q # p
    PROVE  Same(q)
<1>1. ASSUME NEW r \in Requests, Start(p, r) PROVE Same(q)
  BY <1>1 DEF TypeOK, Start, Same, Goto, Return, record
<1>2. ASSUME Step(p) PROVE Same(q)
  <2>1. ASSUME Simulate(p) \/ ReadSigner(p) \/ ReadBudget(p) \/ SendRawTransaction(p) \/ GetReceipt(p)
        PROVE Same(q)
    BY <2>1 DEF TypeOK, Simulate, ReadSigner, ReadBudget, SendRawTransaction, GetReceipt,
                Same, Goto, Return, Refuse, record
  <2>2. ASSUME NEW st, NEW h, NEW ok, Write(p, st, h, ok)
        PROVE  status'[q] = status[q] /\ hash'[q] = hash[q]
    BY <2>2 DEF TypeOK, Write, record
  <2>3. ASSUME CreateTransaction(p) \/ MarkSubmitted(p) \/ StoreHash(p) \/ ConfirmTransaction(p)
               \/ ReceiptMissing(p) \/ MarkFailed(p)
        PROVE  Same(q)
    <3>1. status'[q] = status[q] /\ hash'[q] = hash[q]
      BY <2>2, <2>3 DEF CreateTransaction, MarkSubmitted, StoreHash, ConfirmTransaction,
                        ReceiptMissing, MarkFailed
    <3> QED
      BY <2>3, <3>1 DEF TypeOK, CreateTransaction, MarkSubmitted, StoreHash, ConfirmTransaction,
                        ReceiptMissing, MarkFailed, Same, Goto, Return, Tell
  <2> QED BY <1>2, <2>1, <2>3 DEF Step
<1>3. ASSUME Decide(p) PROVE Same(q)
  BY <1>3 DEF TypeOK, Decide, Same, record
<1> QED BY <1>1, <1>2, <1>3 DEF Acts

\* A step of a call changes neither users nor signers.
LEMMA ActsKeepTables == ASSUME NEW p \in Pipes, Acts(p) PROVE UNCHANGED db
BY DEF Acts, Step, Start, Simulate, CreateTransaction, ReadSigner, ReadBudget, MarkSubmitted,
       SendRawTransaction, StoreHash, GetReceipt, ConfirmTransaction, ReceiptMissing,
       MarkFailed, Decide

\* A call that does nothing keeps its part of the invariant.
LEMMA Kept ==
    ASSUME TypeOK, NEW q \in Pipes, At(q), Same(q), RowsKept
    PROVE  At(q)'
<1> USE DEF At, Same
<1>1. RecordAt(q)' /\ ChainAt(q)' /\ ToldAt(q)'
  BY DEF RecordAt, ChainAt, ToldAt
<1>2. HasSigner(q) => HasSigner(q)'
  BY DEF HasSigner, RowsKept, Permits
<1>3. HasBudget(q) => HasBudget(q)'
  BY DEF HasBudget
<1>4. AuthorityAt(q)'
  BY <1>2, <1>3 DEF AuthorityAt
<1> QED BY <1>1, <1>4

\* A write that is acknowledged is applied; one that is not may be, but only when
\* acknowledgements can be lost.
LEMMA WriteEffect ==
    ASSUME TypeOK, NEW p \in Pipes, NEW st, NEW h, NEW ok \in BOOLEAN, Write(p, st, h, ok)
    PROVE  \/ status'[p] = st /\ hash'[p] = h /\ (ok \/ "db_lost" \in Faults)
           \/ status'[p] = status[p] /\ hash'[p] = hash[p] /\ ~ok
BY DEF TypeOK, Write, record, Hashes

LEMMA BudgetsAreNumbers == \A b \in Budgets \union {0} : b \in Nat
BY ConstantsAssumption

\* The call that steps keeps its own part of the invariant, and leaves an
\* unfinished record to its error branch.
Unfinished(p) ==
    "db_lost" \notin Faults /\ pc[p] = "fail" => status[p] \in {"pending", "submitted"}

LEMMA Acting ==
    ASSUME TypeOK, NEW p \in Pipes, At(p), Unfinished(p), Acts(p)
    PROVE  At(p)' /\ Unfinished(p)'
<1> USE ConstantsAssumption
<1> USE DEF At, RecordAt, ChainAt, ToldAt, AuthorityAt, Unfinished, BeforeInsert, Checking, Sent,
            Stopped, Lifecycle!Terminal, Lifecycle!OnChain
<1> DEFINE Held == HasSigner(p) /\ seen'[p] = seen[p] /\ job'[p] = job[p] /\ UNCHANGED signers
<1>1. Held => HasSigner(p)'
  BY DEF HasSigner
<1>2. HasBudget(p) /\ job'[p] = job[p] => HasBudget(p)'
  BY DEF HasBudget
<1>3. UNCHANGED signers
  BY ActsKeepTables DEF db
<1> HIDE DEF Held
<1>4. ASSUME NEW r \in Requests, Start(p, r) PROVE At(p)' /\ Unfinished(p)'
  BY <1>4 DEF Start, Goto, Return, TypeOK, record
<1>5. CASE Simulate(p)
  BY <1>5 DEF Simulate, Goto, Return, TypeOK, record
<1>6. CASE CreateTransaction(p)
  <2> PICK ok \in BOOLEAN : /\ Write(p, "pending", "null", ok)
                            /\ IF ok THEN Goto(p, "signer1") ELSE Return(p, "err")
    BY <1>6 DEF CreateTransaction
  <2>9. \/ status'[p] = "pending" /\ hash'[p] = "null" /\ (ok \/ "db_lost" \in Faults)
        \/ status'[p] = status[p] /\ hash'[p] = hash[p] /\ ~ok
    BY WriteEffect
  <2> QED BY <1>6, <2>9 DEF CreateTransaction, Goto, Return, TypeOK
<1>7. CASE ReadSigner(p)
  <2>1. ASSUME NEW s \in Active(job[p].user), seen' = [seen EXCEPT ![p] = s],
               Permits(signers[s].perm, job[p])
        PROVE  HasSigner(p)'
    BY <1>3, <1>7, <2>1 DEF HasSigner, Active, TypeOK, ReadSigner, Permits
  <2>2. pc'[p] \in {"budget1", "budget2"} => HasSigner(p)'
    BY <1>7, <2>1 DEF ReadSigner, Refuse, Goto, Return, Round, TypeOK
  <2>3. pc'[p] \in {"budget1", "budget2", "fail", "returned"}
    BY <1>7 DEF ReadSigner, Refuse, Goto, Return, Round, TypeOK
  <2>4. pc[p] \in {"signer1", "signer2"} /\ UNCHANGED <<status, hash, chain, job, told>>
    BY <1>7 DEF ReadSigner, record
  <2> QED BY <2>2, <2>3, <2>4
<1>8. CASE ReadBudget(p)
  <2>1. WithinBudget(users[job[p].user], job[p].amount) => HasBudget(p)
    <3>1. job[p] \in Requests
      BY <1>8 DEF ReadBudget
    <3>2. job[p].user \in Users /\ job[p].amount \in Nat
      BY <3>1
    <3>3. PICK user \in UserRows : user = users[job[p].user]
      BY <3>2 DEF TypeOK
    <3>4. user.spent = 0
      BY DEF UserRows
    <3>5. user.budget \in Budgets \union {0}
      BY DEF UserRows
    <3>6. user.budget \in Nat
      BY <3>5, BudgetsAreNumbers
    <3> QED BY <3>2, <3>3, <3>4, <3>5, <3>6 DEF WithinBudget, HasBudget
  <2>2. /\ pc'[p] \in {"signer2", "mark", "fail", "returned"}
        /\ pc'[p] = "mark" => HasBudget(p)
    BY <1>8, <2>1 DEF ReadBudget, Refuse, Goto, Return, Round, TypeOK
  <2>3. HasSigner(p)'
    BY <1>1, <1>3, <1>8 DEF ReadBudget, Held
  <2> QED BY <1>2, <1>8, <2>2, <2>3 DEF ReadBudget, TypeOK, record
<1>9. CASE MarkSubmitted(p)
  <2> PICK ok \in BOOLEAN :
          /\ Write(p, "submitted", "empty", ok)
          /\ IF ok THEN Goto(p, "send") /\ Tell(p, "submitted")
                   ELSE Goto(p, "fail") /\ UNCHANGED told
    BY <1>9 DEF MarkSubmitted
  <2>1. HasSigner(p)' /\ HasBudget(p)'
    BY <1>1, <1>2, <1>3, <1>9 DEF MarkSubmitted, Held
  <2>9. \/ status'[p] = "submitted" /\ hash'[p] = "empty" /\ (ok \/ "db_lost" \in Faults)
        \/ status'[p] = status[p] /\ hash'[p] = hash[p] /\ ~ok
    BY WriteEffect
  <2> QED BY <1>9, <2>1, <2>9 DEF MarkSubmitted, Goto, Tell, TypeOK
<1>10. CASE SendRawTransaction(p)
  <2>1. HasSigner(p)' /\ HasBudget(p)'
    BY <1>1, <1>2, <1>3, <1>10 DEF SendRawTransaction, Held
  <2> QED BY <1>10, <2>1 DEF SendRawTransaction, Goto, TypeOK, record
<1>11. CASE StoreHash(p)
  <2> PICK ok \in BOOLEAN :
          /\ Write(p, "submitted", "known", ok)
          /\ IF ok THEN Goto(p, "receipt") /\ Tell(p, "submitted")
                   ELSE Goto(p, "fail") /\ UNCHANGED told
    BY <1>11 DEF StoreHash
  <2>1. HasSigner(p)' /\ HasBudget(p)'
    BY <1>1, <1>2, <1>3, <1>11 DEF StoreHash, Held
  <2>9. \/ status'[p] = "submitted" /\ hash'[p] = "known" /\ (ok \/ "db_lost" \in Faults)
        \/ status'[p] = status[p] /\ hash'[p] = hash[p] /\ ~ok
    BY WriteEffect
  <2> QED BY <1>11, <2>1, <2>9 DEF StoreHash, Goto, Tell, TypeOK
<1>12. CASE GetReceipt(p)
  <2>1. HasSigner(p)' /\ HasBudget(p)'
    BY <1>1, <1>2, <1>3, <1>12 DEF GetReceipt, Held
  <2> QED BY <1>12, <2>1 DEF GetReceipt, Goto, TypeOK, record
<1>13. CASE ConfirmTransaction(p)
  <2> PICK ok \in BOOLEAN :
          /\ Write(p, "confirmed", hash[p], ok)
          /\ IF ok THEN Return(p, "ok") /\ Tell(p, "confirmed")
                   ELSE Goto(p, "fail") /\ UNCHANGED told
    BY <1>13 DEF ConfirmTransaction
  <2>1. HasSigner(p)' /\ HasBudget(p)'
    BY <1>1, <1>2, <1>3, <1>13 DEF ConfirmTransaction, Held
  <2>9. \/ status'[p] = "confirmed" /\ hash'[p] = hash[p] /\ (ok \/ "db_lost" \in Faults)
        \/ status'[p] = status[p] /\ hash'[p] = hash[p] /\ ~ok
    BY WriteEffect
  <2> QED BY <1>13, <2>1, <2>9 DEF ConfirmTransaction, Goto, Return, Tell, TypeOK
<1>14. CASE ReceiptMissing(p)
  <2> PICK ok \in BOOLEAN :
          /\ Write(p, "failed", hash[p], ok)
          /\ IF ok THEN Return(p, "ok") /\ Tell(p, "failed")
                   ELSE Goto(p, "fail") /\ UNCHANGED told
    BY <1>14 DEF ReceiptMissing
  <2>1. HasSigner(p)' /\ HasBudget(p)'
    BY <1>1, <1>2, <1>3, <1>14 DEF ReceiptMissing, Held
  <2>9. \/ status'[p] = "failed" /\ hash'[p] = hash[p] /\ (ok \/ "db_lost" \in Faults)
        \/ status'[p] = status[p] /\ hash'[p] = hash[p] /\ ~ok
    BY WriteEffect
  <2> QED BY <1>14, <2>1, <2>9 DEF ReceiptMissing, Goto, Return, Tell, TypeOK
<1>15. CASE MarkFailed(p)
  <2> PICK ok \in BOOLEAN : /\ Write(p, "failed", hash[p], ok)
                            /\ IF ok THEN Tell(p, "failed") ELSE UNCHANGED told
    BY <1>15 DEF MarkFailed
  <2>1. chain[p] # "unsent" => HasSigner(p)' /\ HasBudget(p)'
    BY <1>1, <1>2, <1>3, <1>15 DEF MarkFailed, Held
  <2>9. \/ status'[p] = "failed" /\ hash'[p] = hash[p] /\ (ok \/ "db_lost" \in Faults)
        \/ status'[p] = status[p] /\ hash'[p] = hash[p] /\ ~ok
    BY WriteEffect
  <2> QED BY <1>15, <2>1, <2>9 DEF MarkFailed, Return, Tell, TypeOK
<1>16. CASE Decide(p)
  <2>1. HasSigner(p)' /\ HasBudget(p)'
    BY <1>1, <1>2, <1>3, <1>16 DEF Decide, Held
  <2> QED BY <1>16, <2>1 DEF Decide, TypeOK, record
<1> QED
  BY <1>4, <1>5, <1>6, <1>7, <1>8, <1>9, <1>10, <1>11, <1>12, <1>13, <1>14, <1>15, <1>16
     DEF Acts, Step

LEMMA InvSplit == IInv <=> TypeOK /\ \A p \in Pipes : At(p) /\ Unfinished(p)
BY DEF IInv, At, RecordInv, ChainInv, ToldInv, AuthorityInv, UnfinishedInv, Unfinished

\* Changes of the settings reach no call, and keep every signer row.
LEMMA SettingsKeep ==
    ASSUME TypeOK, Settings
    PROVE  RowsKept /\ \A q \in Pipes : Same(q)
<1>1. \A q \in Pipes : Same(q)
  BY DEF Settings, SetAutopilot, CreateSigner, RevokeSigner, others, Same
<1>2. ASSUME NEW u \in Users, NEW enabled \in BOOLEAN, NEW budget \in Budgets \union {0},
             SetAutopilot(u, enabled, budget)
      PROVE  RowsKept
  BY <1>2 DEF SetAutopilot, RowsKept
<1>3. ASSUME NEW s \in SignerIds, NEW u \in Users, NEW perm \in Permissions,
             CreateSigner(s, u, perm)
      PROVE  RowsKept
  BY <1>3 DEF CreateSigner, RowsKept, TypeOK
<1>4. ASSUME NEW s \in SignerIds, RevokeSigner(s) PROVE RowsKept
  <2> SUFFICES ASSUME NEW t \in SignerIds, signers[t] # NoSigner
               PROVE  /\ signers'[t] # NoSigner
                      /\ signers'[t].owner = signers[t].owner
                      /\ signers'[t].perm = signers[t].perm
    BY DEF RowsKept
  <2>1. CASE t # s
    BY <1>4, <2>1 DEF RevokeSigner, TypeOK
  <2>2. CASE t = s
    <3>1. signers' \in [SignerIds -> SignerRows \union {NoSigner}]
      BY TypeStep DEF TypeOK, Next
    <3>2. signers'[s] = [signers[s] EXCEPT !.revoked = TRUE]
      BY <1>4 DEF RevokeSigner, TypeOK
    <3>3. signers[s] \in SignerRows
      BY <1>4 DEF RevokeSigner, TypeOK
    <3>4. signers'[s].owner = signers[s].owner /\ signers'[s].perm = signers[s].perm
      BY <3>2, <3>3 DEF SignerRows
    <3>5. signers'[s] \in SignerRows
      BY <3>2, <3>3 DEF SignerRows
    <3>6. signers'[s] # NoSigner
      BY <3>5, ConstantsAssumption
    <3> QED BY <2>2, <3>4, <3>6
  <2> QED BY <2>1, <2>2
<1> QED BY <1>1, <1>2, <1>3, <1>4 DEF Settings

\* A crash moves calls to a place that asserts nothing of its own.
LEMMA CrashKeeps ==
    ASSUME TypeOK, Crash, NEW q \in Pipes, At(q), Unfinished(q)
    PROVE  At(q)' /\ Unfinished(q)'
<1>1. /\ pc'[q] = pc[q] \/ pc'[q] = "crashed"
      /\ UNCHANGED <<signers, status, hash, chain, job, seen, told>>
      /\ pc[q] = "idle" => pc'[q] = "idle"
      /\ pc[q] \in Stopped => pc'[q] \in Stopped
  BY DEF Crash, TypeOK, db, record, Stopped
<1>2. RecordAt(q)' /\ ChainAt(q)' /\ ToldAt(q)' /\ Unfinished(q)'
  BY <1>1 DEF At, RecordAt, ChainAt, ToldAt, Unfinished, BeforeInsert, Checking, Sent, Stopped
<1>3. (HasSigner(q) => HasSigner(q)') /\ (HasBudget(q) => HasBudget(q)')
  BY <1>1 DEF HasSigner, HasBudget
<1>4. AuthorityAt(q)'
  BY <1>1, <1>3 DEF At, AuthorityAt, Sent, Stopped
<1> QED BY <1>2, <1>4 DEF At

\* IInv is inductive.
LEMMA InvStep == IInv /\ [Next]_vars => IInv'
<1> SUFFICES ASSUME IInv, [Next]_vars PROVE IInv'
  OBVIOUS
<1>1. TypeOK /\ \A p \in Pipes : At(p) /\ Unfinished(p)
  BY InvSplit
<1>2. TypeOK'
  BY <1>1, TypeStep
<1>3. SUFFICES ASSUME NEW q \in Pipes PROVE At(q)' /\ Unfinished(q)'
  BY <1>2 DEF IInv, At, RecordInv, ChainInv, ToldInv, AuthorityInv, UnfinishedInv, Unfinished
<1>4. Same(q) /\ RowsKept => At(q)' /\ Unfinished(q)'
  BY <1>1, Kept DEF Same, Unfinished
<1>5. ASSUME NEW p \in Pipes, Acts(p) PROVE At(q)' /\ Unfinished(q)'
  <2>1. CASE p = q
    BY <1>1, <1>5, <2>1, Acting
  <2>2. CASE p # q
    <3>1. Same(q)
      BY <1>1, <1>5, <2>2, Frame
    <3>2. RowsKept
      BY <1>5, ActsKeepTables DEF db, RowsKept
    <3> QED BY <1>4, <3>1, <3>2
  <2> QED BY <2>1, <2>2
<1>6. CASE Settings
  BY <1>1, <1>4, <1>6, SettingsKeep
<1>7. CASE Crash
  BY <1>1, <1>7, CrashKeeps
<1>8. CASE UNCHANGED vars
  BY <1>4, <1>8 DEF vars, Same, RowsKept
<1> QED BY <1>5, <1>6, <1>7, <1>8 DEF Next, Acts

----------------------------------------------------------------------------
(* Theorems *)

LEMMA Invariance == Spec => []IInv
BY InvInit, InvStep, PTL DEF Spec

\* Nothing is on its way to the chain that the table does not show as having been
\* submitted, whatever fails, whenever the process dies.
THEOREM WriteAhead == Spec => []BroadcastIsRecorded
<1>1. IInv => BroadcastIsRecorded
  BY DEF IInv, ChainInv, ChainAt, BroadcastIsRecorded
<1> QED BY <1>1, Invariance, PTL

\* A confirmed record can be trusted: there is a receipt, and its hash is stored.
THEOREM Confirmation == Spec => []ConfirmedIsOnChain
<1>1. IInv => ConfirmedIsOnChain
  BY DEF IInv, ChainInv, ChainAt, RecordInv, RecordAt, ConfirmedIsOnChain
<1> QED BY <1>1, Invariance, PTL

\* No interleaving of inserts, revocations and budget changes lets a call
\* broadcast what no signer and no budget of its user ever allowed.
THEOREM Authorization == Spec => []BroadcastIsAuthorized
<1>1. IInv => BroadcastIsAuthorized
  BY DEF IInv, AuthorityInv, AuthorityAt, HasSigner, HasBudget, BroadcastIsAuthorized
<1> QED BY <1>1, Invariance, PTL

\* What the user's channel was last told about a transaction is in the table.
THEOREM Notification == Spec => []ToldIsRecorded
<1>1. IInv => ToldIsRecorded
  BY DEF IInv, ToldInv, ToldAt, ToldIsRecorded
<1> QED BY <1>1, Invariance, PTL

\* A user without an active signer holds back every call that has not passed its
\* second check, however many calls and signers there are.
THEOREM Revocation == Spec => RevocationStops
<1>1. TypeOK /\ [Next]_vars => [\A p \in Pipes : HeldBack(p)]_vars
  <2> SUFFICES ASSUME TypeOK, Next, NEW q \in Pipes,
                      pc[q] \in Unverified \ {"idle"}, Active(job[q].user) = {}
               PROVE  pc'[q] \in Unverified \union {"fail"} \union Stopped
    BY DEF HeldBack
  <2> USE DEF Unverified, Stopped
  <2>1. ASSUME NEW p \in Pipes, Acts(p)
        PROVE  pc'[q] \in Unverified \union {"fail"} \union Stopped
    <3>1. CASE p # q
      BY <2>1, <3>1, Frame DEF Same
    <3>2. CASE p = q
      <4>1. CASE pc[q] \in {"simulate", "create"}
        BY <2>1, <3>2, <4>1 DEF TypeOK, Acts, Start, Step, Simulate, CreateTransaction,
           ReadSigner, ReadBudget, MarkSubmitted, SendRawTransaction, StoreHash, GetReceipt,
           ConfirmTransaction, ReceiptMissing, MarkFailed, Decide, Goto, Return
      <4>2. CASE pc[q] \in {"signer1", "signer2"}
        <5>1. ReadSigner(q) \/ Decide(q)
          BY <2>1, <3>2, <4>2 DEF Acts, Start, Step, Simulate, CreateTransaction,
             ReadBudget, MarkSubmitted, SendRawTransaction, StoreHash, GetReceipt,
             ConfirmTransaction, ReceiptMissing, MarkFailed
        <5>2. CASE ReadSigner(q)
          BY <4>2, <5>2 DEF ReadSigner, Refuse, Goto, Return, TypeOK
        <5>3. CASE Decide(q)
          BY <5>3 DEF Decide, TypeOK
        <5> QED BY <5>1, <5>2, <5>3
      <4>3. CASE pc[q] = "budget1"
        <5>1. ReadBudget(q) \/ Decide(q)
          BY <2>1, <3>2, <4>3 DEF Acts, Start, Step, Simulate, CreateTransaction,
             ReadSigner, MarkSubmitted, SendRawTransaction, StoreHash, GetReceipt,
             ConfirmTransaction, ReceiptMissing, MarkFailed
        <5>2. CASE ReadBudget(q)
          BY <4>3, <5>2 DEF ReadBudget, Refuse, Round, Goto, Return, TypeOK
        <5>3. CASE Decide(q)
          BY <5>3 DEF Decide, TypeOK
        <5> QED BY <5>1, <5>2, <5>3
      <4> QED BY <4>1, <4>2, <4>3
    <3> QED BY <3>1, <3>2
  <2>2. CASE Settings
    BY <2>2, SettingsKeep DEF Same
  <2>3. CASE Crash
    BY <2>3 DEF Crash, TypeOK
  <2> QED BY <2>1, <2>2, <2>3 DEF Next, Acts
<1> QED BY <1>1, TypeCorrect, PTL DEF Spec, RevocationStops

----------------------------------------------------------------------------
(* The pipeline implements the life cycle of a record *)

\* A step of a call moves its record and its transaction as the life cycle allows.
LEMMA ActsImplement ==
    ASSUME "db_lost" \notin Faults, TypeOK, NEW p \in Pipes, At(p), Unfinished(p), Acts(p)
    PROVE  [Lifecycle!Next]_(Lifecycle!vars)
<1> USE DEF Lifecycle!vars, Lifecycle!Next, Lifecycle!Record, Lifecycle!Happens
<1> USE DEF At, RecordAt, ChainAt, Unfinished, BeforeInsert, Checking, Sent
<1>1. ASSUME NEW st, NEW h, NEW ok \in BOOLEAN, Write(p, st, h, ok)
      PROVE  UNCHANGED status \/ status' = [status EXCEPT ![p] = st]
  BY <1>1 DEF Write, record
<1>2. ASSUME NEW r \in Requests, Start(p, r) PROVE UNCHANGED Lifecycle!vars
  BY <1>2 DEF Start, record
<1>3. CASE Simulate(p) \/ ReadSigner(p) \/ ReadBudget(p) \/ GetReceipt(p)
  BY <1>3 DEF Simulate, ReadSigner, ReadBudget, GetReceipt, record
<1>4. CASE CreateTransaction(p)
  <2>1. UNCHANGED status \/ status' = [status EXCEPT ![p] = "pending"]
    BY <1>1, <1>4 DEF CreateTransaction
  <2>2. UNCHANGED Lifecycle!vars \/ Lifecycle!Create(p)
    BY <1>4, <2>1 DEF CreateTransaction, Lifecycle!Create
  <2> QED BY <2>2
<1>5. CASE MarkSubmitted(p)
  <2>1. UNCHANGED status \/ status' = [status EXCEPT ![p] = "submitted"]
    BY <1>1, <1>5 DEF MarkSubmitted
  <2>2. UNCHANGED Lifecycle!vars \/ Lifecycle!Submit(p)
    BY <1>5, <2>1 DEF MarkSubmitted, Lifecycle!Submit
  <2> QED BY <2>2
<1>6. CASE SendRawTransaction(p)
  <2>1. UNCHANGED Lifecycle!vars \/ Lifecycle!Broadcast(p)
    BY <1>6 DEF SendRawTransaction, Lifecycle!Broadcast, record
  <2> QED BY <2>1
<1>7. CASE StoreHash(p)
  <2>1. UNCHANGED status \/ status' = [status EXCEPT ![p] = "submitted"]
    BY <1>1, <1>7 DEF StoreHash
  <2>2. UNCHANGED status
    BY <1>7, <2>1 DEF StoreHash, TypeOK
  <2> QED BY <1>7, <2>2 DEF StoreHash
<1>8. CASE ConfirmTransaction(p)
  <2>1. UNCHANGED status \/ status' = [status EXCEPT ![p] = "confirmed"]
    BY <1>1, <1>8 DEF ConfirmTransaction
  <2>2. UNCHANGED Lifecycle!vars \/ Lifecycle!Confirm(p)
    BY <1>8, <2>1 DEF ConfirmTransaction, Lifecycle!Confirm
  <2> QED BY <2>2
<1>9. CASE ReceiptMissing(p)
  <2>1. UNCHANGED status \/ status' = [status EXCEPT ![p] = "failed"]
    BY <1>1, <1>9 DEF ReceiptMissing
  <2>2. UNCHANGED Lifecycle!vars \/ Lifecycle!Fail(p)
    BY <1>9, <2>1 DEF ReceiptMissing, Lifecycle!Fail
  <2> QED BY <2>2
<1>10. CASE MarkFailed(p)
  <2>1. UNCHANGED status \/ status' = [status EXCEPT ![p] = "failed"]
    BY <1>1, <1>10 DEF MarkFailed
  <2>2. UNCHANGED Lifecycle!vars \/ Lifecycle!Fail(p)
    BY <1>10, <2>1 DEF MarkFailed, Lifecycle!Fail
  <2> QED BY <2>2
<1>11. CASE Decide(p)
  <2>1. Lifecycle!Include(p) \/ Lifecycle!Drop(p)
    BY <1>11 DEF Decide, Lifecycle!Include, Lifecycle!Drop, record
  <2> QED BY <2>1
<1> QED
  BY <1>2, <1>3, <1>4, <1>5, <1>6, <1>7, <1>8, <1>9, <1>10, <1>11 DEF Acts, Step

\* When every applied write is acknowledged, the pipeline is an implementation of
\* TxLifecycle: the record never leaves its life cycle, and is final once terminal.
THEOREM Refinement == ASSUME "db_lost" \notin Faults PROVE Spec => ImplementsLifecycle
<1>1. Init => Lifecycle!Init
  BY DEF Init, Lifecycle!Init
<1>2. IInv /\ [Next]_vars => [Lifecycle!Next]_(Lifecycle!vars)
  <2> SUFFICES ASSUME IInv, [Next]_vars PROVE [Lifecycle!Next]_(Lifecycle!vars)
    OBVIOUS
  <2>1. TypeOK /\ \A p \in Pipes : At(p) /\ Unfinished(p)
    BY InvSplit
  <2>2. ASSUME NEW p \in Pipes, Acts(p) PROVE [Lifecycle!Next]_(Lifecycle!vars)
    BY <2>1, <2>2, ActsImplement
  <2>3. CASE Settings \/ Crash \/ UNCHANGED vars
    BY <2>3 DEF Settings, SetAutopilot, CreateSigner, RevokeSigner, others, Crash, record, vars,
                Lifecycle!vars
  <2> QED BY <2>2, <2>3 DEF Next, Acts
<1> QED BY <1>1, <1>2, Invariance, PTL DEF Spec, ImplementsLifecycle, Lifecycle!Spec

----------------------------------------------------------------------------
(* Record and notices follow the table of TxState *)

Follows(p) ==
    /\ status[p] \notin {"none", status'[p]} =>
          Table!CanTransitionTo(status[p], status'[p]) \/ Departs(p)
    /\ told[p] \notin {"nothing", told'[p]} => Table!CanTransitionTo(told[p], told'[p])

\* A call does to its record what the table allows from where it stands, but for the two
\* departures, and has not announced an end before it announces another state.
LEMMA ActsFollow ==
    ASSUME TypeOK, NEW p \in Pipes, At(p), Unfinished(p), Acts(p)
    PROVE  Follows(p)
<1> USE DEF Table!CanTransitionTo
<1>1. ASSUME NEW st, NEW h, NEW ok \in BOOLEAN, Write(p, st, h, ok)
      PROVE  (status'[p] = st /\ hash'[p] = h) \/ status'[p] = status[p]
  BY <1>1 DEF Write, record, TypeOK
<1>2. pc[p] \notin Stopped => told[p] \in {"nothing", "submitted"}
  BY DEF At, ToldAt, TypeOK, Lifecycle!Terminal
<1>3. ASSUME NEW what \in {"submitted", "confirmed", "failed"}, pc[p] \notin Stopped,
             Tell(p, what) \/ UNCHANGED told
      PROVE  told[p] \notin {"nothing", told'[p]} => Table!CanTransitionTo(told[p], told'[p])
  BY <1>2, <1>3 DEF Tell, TypeOK
<1>4. ASSUME UNCHANGED <<status, told>> PROVE Follows(p)
  BY <1>4 DEF Follows
<1>5. ASSUME NEW r \in Requests, Start(p, r) PROVE Follows(p)
  BY <1>4, <1>5 DEF Start, record
<1>6. CASE Simulate(p) \/ ReadSigner(p) \/ ReadBudget(p) \/ SendRawTransaction(p) \/ GetReceipt(p)
           \/ Decide(p)
  BY <1>4, <1>6 DEF Simulate, ReadSigner, ReadBudget, SendRawTransaction, GetReceipt, Decide, record
<1>7. CASE CreateTransaction(p)
  <2>1. status[p] = "none" /\ UNCHANGED told
    BY <1>7 DEF CreateTransaction, At, RecordAt, BeforeInsert
  <2> QED BY <2>1 DEF Follows
<1>8. CASE MarkSubmitted(p)
  <2>1. /\ status[p] = "pending" /\ pc[p] \notin Stopped
        /\ status'[p] = "submitted" \/ status'[p] = status[p]
        /\ Tell(p, "submitted") \/ UNCHANGED told
    BY <1>1, <1>8 DEF MarkSubmitted, At, RecordAt, Stopped
  <2> QED BY <1>3, <2>1 DEF Follows, Departs
<1>9. CASE StoreHash(p)
  <2>1. /\ status[p] = "submitted" /\ pc[p] \notin Stopped
        /\ status'[p] = "submitted" \/ status'[p] = status[p]
        /\ Tell(p, "submitted") \/ UNCHANGED told
    BY <1>1, <1>9 DEF StoreHash, At, RecordAt, Stopped, Sent
  <2> QED BY <1>3, <2>1 DEF Follows
<1>10. CASE ConfirmTransaction(p)
  <2>1. /\ status[p] = "submitted" /\ pc[p] \notin Stopped
        /\ status'[p] = "confirmed" \/ status'[p] = status[p]
        /\ Tell(p, "confirmed") \/ UNCHANGED told
    BY <1>1, <1>10 DEF ConfirmTransaction, At, RecordAt, Stopped, Sent
  <2> QED BY <1>3, <2>1 DEF Follows
<1>11. CASE ReceiptMissing(p)
  <2>1. /\ status[p] = "submitted" /\ pc[p] \notin Stopped
        /\ status'[p] = "failed" \/ status'[p] = status[p]
        /\ Tell(p, "failed") \/ UNCHANGED told
    BY <1>1, <1>11 DEF ReceiptMissing, At, RecordAt, Stopped, Sent
  <2> QED BY <1>3, <2>1 DEF Follows
<1>12. CASE MarkFailed(p)
  <2>1. /\ status[p] # "none" /\ pc[p] = "fail" /\ pc[p] \notin Stopped
        /\ (status'[p] = "failed" /\ hash'[p] = hash[p]) \/ status'[p] = status[p]
        /\ Tell(p, "failed") \/ UNCHANGED told
    BY <1>1, <1>12 DEF MarkFailed, At, RecordAt, Stopped
  <2>2. status[p] \in {"pending", "submitted", "confirmed", "failed"}
    BY <2>1 DEF TypeOK, Lifecycle!Statuses
  <2>3. status[p] = "confirmed" => "db_lost" \in Faults
    BY <2>1 DEF Unfinished
  <2>4. told[p] \notin Lifecycle!Terminal
    BY <1>2, <2>1 DEF Lifecycle!Terminal
  <2> QED BY <1>3, <2>1, <2>2, <2>3, <2>4 DEF Follows, Departs
<1> QED
  BY <1>5, <1>6, <1>7, <1>8, <1>9, <1>10, <1>11, <1>12 DEF Acts, Step

\* Whatever fails and whenever the process dies, the executor departs from the table in no
\* other way than the two, and nobody is told of two ends of one transaction.
THEOREM TableDepartures == Spec => FollowsTable
<1>1. IInv /\ [Next]_vars => [\A p \in Pipes : Follows(p)]_vars
  <2> SUFFICES ASSUME IInv, Next, NEW q \in Pipes PROVE Follows(q)
    OBVIOUS
  <2>1. TypeOK /\ \A p \in Pipes : At(p) /\ Unfinished(p)
    BY InvSplit
  <2>2. Same(q) => Follows(q)
    BY DEF Same, Follows
  <2>3. ASSUME NEW p \in Pipes, Acts(p) PROVE Follows(q)
    BY <2>1, <2>2, <2>3, ActsFollow, Frame
  <2>4. CASE Settings
    BY <2>1, <2>2, <2>4, SettingsKeep
  <2>5. CASE Crash
    BY <2>5 DEF Crash, record, Follows
  <2> QED BY <2>3, <2>4, <2>5 DEF Next, Acts
<1> QED BY <1>1, Invariance, PTL DEF Spec, FollowsTable, Follows
=============================================================================
