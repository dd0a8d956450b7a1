--------------------------- MODULE AlertLifecycle ---------------------------
(***************************************************************************)
(* What the `alerts` table and the clients are promised about an alert,    *)
(* whoever delivers it and whatever fails:                                 *)
(*                                                                         *)
(*   - nothing is shown to the clients that has no row to open;            *)
(*   - the row a client opens no longer gets a simulation;                 *)
(*   - an alert is shown at most once, and only one that was is settled:   *)
(*     until then it stays open;                                           *)
(*   - no row is deleted and none is opened again.                         *)
(*                                                                         *)
(* How often an alert is shown is counted, so that a second time is a step *)
(* of its own.  That it is shown or settled at all is not promised.        *)
(***************************************************************************)
EXTENDS Naturals

CONSTANT Alerts

VARIABLES stored,       \* alerts that have a row
          simulated,    \* alerts whose row holds a simulation
          shown,        \* how often an alert was broadcast
          settled       \* alerts whose resolved_at is set

vars == <<stored, simulated, shown, settled>>

Init == /\ stored = {} /\ simulated = {} /\ settled = {}
        /\ shown = [a \in Alerts |-> 0]

Store(a) == /\ a \notin stored
            /\ stored' = stored \union {a}
            /\ UNCHANGED <<simulated, shown, settled>>

Attach(a) == /\ a \in stored \ simulated /\ shown[a] = 0
             /\ simulated' = simulated \union {a}
             /\ UNCHANGED <<stored, shown, settled>>

Show(a) == /\ a \in stored /\ shown[a] = 0
           /\ shown' = [shown EXCEPT ![a] = @ + 1]
           /\ UNCHANGED <<stored, simulated, settled>>

Settle(a) == /\ shown[a] > 0 /\ a \notin settled
             /\ settled' = settled \union {a}
             /\ UNCHANGED <<stored, simulated, shown>>

Next == \E a \in Alerts : Store(a) \/ Attach(a) \/ Show(a) \/ Settle(a)

Spec == Init /\ [][Next]_vars
=============================================================================
