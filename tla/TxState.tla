------------------------------ MODULE TxState ------------------------------
(***************************************************************************)
(* TxState (executor/tx_state.rs): the states a transaction passes through *)
(* and the steps between them, as its transition table allows them.  The   *)
(* executor never consults the table: it names the states it reports to    *)
(* the user by it, and writes the `transactions` row without it.           *)
(***************************************************************************)

States == {"pending", "simulated", "approved", "signed", "submitted",
           "confirmed", "failed", "cancelled"}

\* Any state under way may fail, the user may cancel until it is signed, and an
\* expired simulation is done again.
CanTransitionTo(s, t) ==
    \/ s \in {"pending", "simulated", "approved", "signed", "submitted"} /\ t = "failed"
    \/ s \in {"pending", "simulated", "approved"} /\ t = "cancelled"
    \/ <<s, t>> \in {<<"pending", "simulated">>, <<"simulated", "pending">>,
                     <<"simulated", "approved">>, <<"approved", "signed">>,
                     <<"signed", "submitted">>, <<"submitted", "confirmed">>}
=============================================================================
