---------------------------- MODULE TxLifecycle ----------------------------
(***************************************************************************)
(* What the `transactions` table promises about an autopilot transaction,  *)
(* whoever writes it and however it fails: one record and one on-chain     *)
(* fate per transaction, and the order in which the two may move.          *)
(*                                                                         *)
(*   - nothing is broadcast before the record says 'submitted';            *)
(*   - 'confirmed' is written only for a transaction that is in a block;   *)
(*   - 'confirmed' and 'failed' are final.                                 *)
(*                                                                         *)
(* A 'failed' record promises nothing about the chain: the transaction may *)
(* still be pooled, or even executed.                                      *)
(***************************************************************************)

CONSTANT Txs                     \* one transaction per run of the pipeline

VARIABLES status,                \* transactions.status, "none" before the INSERT
          chain                  \* what happened to the broadcast transaction

vars == <<status, chain>>

Statuses == {"none", "pending", "submitted", "confirmed", "failed"}
Fates == {"unsent", "pooled", "executed", "reverted", "dropped"}

Terminal == {"confirmed", "failed"}
OnChain == {"executed", "reverted"}      \* a receipt exists

TypeOK == /\ status \in [Txs -> Statuses]
          /\ chain \in [Txs -> Fates]

Init == /\ status = [t \in Txs |-> "none"]
        /\ chain = [t \in Txs |-> "unsent"]

----------------------------------------------------------------------------
Record(t, from, to) == /\ status[t] \in from
                       /\ status' = [status EXCEPT ![t] = to]
                       /\ UNCHANGED chain

Happens(t, from, to) == /\ chain[t] \in from
                        /\ chain' = [chain EXCEPT ![t] = to]
                        /\ UNCHANGED status

Create(t) == Record(t, {"none"}, "pending")
Submit(t) == Record(t, {"pending"}, "submitted")
Fail(t) == Record(t, {"pending", "submitted"}, "failed")
Confirm(t) == chain[t] \in OnChain /\ Record(t, {"submitted"}, "confirmed")

Broadcast(t) == status[t] = "submitted" /\ Happens(t, {"unsent"}, "pooled")
Include(t) == \E fate \in OnChain : Happens(t, {"pooled"}, fate)
Drop(t) == Happens(t, {"pooled"}, "dropped")

Next == \E t \in Txs : \/ Create(t) \/ Submit(t) \/ Fail(t) \/ Confirm(t)
                       \/ Broadcast(t) \/ Include(t) \/ Drop(t)

Spec == Init /\ [][Next]_vars
=============================================================================
