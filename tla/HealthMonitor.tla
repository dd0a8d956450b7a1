--------------------------- MODULE HealthMonitor ---------------------------
(***************************************************************************)
(* BlockSubscriber and HealthMonitor, the loop that watches lending        *)
(* positions: each tick takes a snapshot of the PositionStore, checks all  *)
(* its positions at once (join_all), and waits for every check before the  *)
(* next tick is looked at.  A check of a position below its threshold      *)
(* stores an alert, simulates a repayment, has the AlertService deliver    *)
(* the alert and resolves it, while the store is written and users snooze  *)
(* alerts.                                                                 *)
(*                                                                         *)
(* One action per await that changes something.  Users' channels, mails    *)
(* and bots are best effort, their outcome is not looked at; the broadcast *)
(* is what a delivery always does.  All behaviours are shorter than a      *)
(* snooze.                                                                 *)
(***************************************************************************)
EXTENDS Naturals, FiniteSets

CONSTANTS
    Positions,
    NoRow,         \* a position the store does not hold
    StoreRows,     \* the rows it may be given
    SampleEvery,   \* blocks between two samples of history (10 in the code)
    MaxBlock,      \* bound: blocks processed
    MaxSnoozed,    \* bound: alerts snoozed
    Faults         \* what may go wrong, a subset of FaultKinds

FaultKinds == {"db_refused", "db_lost", "crash"}

Levels == {"unknown", "low", "safe"}     \* hf = 0, 0 < hf < threshold, hf >= threshold
Rows == [active : BOOLEAN, level : Levels]

ASSUME MonitorAssumption ==
    /\ NoRow \notin Rows /\ StoreRows \subseteq Rows
    /\ SampleEvery \in Nat \ {0}
    /\ MaxBlock \in Nat /\ MaxSnoozed \in Nat
    /\ Faults \subseteq FaultKinds

VARIABLES
    store,       \* lending_positions of the PositionStore
    phase,       \* where the loop of BlockSubscriber::run stands
    signal,      \* a shutdown was sent to the receiver of the loop
    block,       \* block_number, and the store's last_block
    snapshot,    \* the rows the checks of this block work on
    check,       \* the await the check of a position stands at
    alerts,      \* alerts: the row a check of that block inserted
    broadcast,   \* how often an alert was broadcast to the clients
    direct,      \* alerts put on the channel of their user
    history      \* health_factor_history

loop == <<phase, signal, block, snapshot>>
sends == <<broadcast, direct>>
vars == <<store, loop, check, alerts, sends, history>>

Keys == Positions \X (1 .. MaxBlock)
Phases == {"starting", "idle", "checking", "stopped", "crashed"}
Ended == {"none", "done", "failed"}
Steps == {"create", "simulate", "attach", "deliver", "resolve", "notify", "history"} \union Ended

AlertRows == [exists : BOOLEAN, simulated : BOOLEAN, resolved : BOOLEAN,
              action : {"none", "notified", "snoozed"},
              snoozed : BOOLEAN]      \* snoozed_until > now
NewAlert == [exists |-> TRUE, simulated |-> FALSE, resolved |-> FALSE,
             action |-> "none", snoozed |-> FALSE]
NoAlert == [exists |-> FALSE, simulated |-> FALSE, resolved |-> FALSE,
            action |-> "none", snoozed |-> FALSE]

\* The alerts the clients have been shown.
Shown == {a \in Keys : broadcast[a] # 0}

\* What of the rows and the broadcasts the life cycle of an alert is about.
Lifecycle == INSTANCE AlertLifecycle WITH
    Alerts <- Keys,
    stored <- {a \in Keys : alerts[a].exists},
    simulated <- {a \in Keys : alerts[a].simulated},
    shown <- broadcast,
    settled <- {a \in Keys : alerts[a].resolved}

TypeOK ==
    /\ store \in [Positions -> Rows \union {NoRow}]
    /\ phase \in Phases
    /\ signal \in BOOLEAN
    /\ block \in 0 .. MaxBlock
    /\ snapshot \in [Positions -> Rows \union {NoRow}]
    /\ check \in [Positions -> Steps]
    /\ alerts \in [Keys -> AlertRows]
    /\ broadcast \in [Keys -> Nat]
    /\ direct \subseteq Keys
    /\ history \subseteq Keys

Init ==
    /\ store = [p \in Positions |-> NoRow]
    /\ phase = "starting"
    /\ signal = FALSE
    /\ block = 0
    /\ snapshot = store
    /\ check = [p \in Positions |-> "none"]
    /\ alerts = [a \in Keys |-> NoAlert]
    /\ broadcast = [a \in Keys |-> 0]
    /\ direct = {} /\ history = {}

----------------------------------------------------------------------------
(* The loop *)

Sampled(b) == b % SampleEvery = 0

\* What is left of a check once its alert is handled, or not needed.
Rest(b) == IF Sampled(b) THEN "history" ELSE "done"

\* get_active_lending_positions clones the active rows.
Active(row) == row # NoRow /\ row.active

FirstStep(row, b) ==
    IF row = NoRow THEN "none" ELSE IF row.level = "low" THEN "create" ELSE Rest(b)

\* A shutdown sent before this finds no receiver and is lost.
Subscribe ==
    /\ phase = "starting"
    /\ phase' = "idle"
    /\ UNCHANGED <<store, signal, block, snapshot, check, alerts, sends, history>>

\* on_new_block starts all checks at once.  Each begins by broadcasting the figures
\* of its position, which no property is about.
OnNewBlock ==
    /\ phase = "idle" /\ block < MaxBlock
    /\ phase' = "checking"
    /\ block' = block + 1
    /\ snapshot' = [p \in Positions |-> IF Active(store[p]) THEN store[p] ELSE NoRow]
    /\ check' = [p \in Positions |-> FirstStep(snapshot'[p], block')]
    /\ UNCHANGED <<store, signal, alerts, sends, history>>

\* Mutant: try_join_all, the first error drops the other checks.
JoinFirstError ==
    /\ phase = "checking"
    /\ \/ \A p \in Positions : check[p] \in Ended
       \/ \E p \in Positions : check[p] = "failed"
    /\ phase' = "idle"
    /\ UNCHANGED <<store, signal, block, snapshot, check, alerts, sends, history>>

\* Mutant: a check that failed is waited for until it succeeds.
JoinSuccesses ==
    /\ phase = "checking"
    /\ \A p \in Positions : check[p] \in {"none", "done"}
    /\ phase' = "idle"
    /\ UNCHANGED <<store, signal, block, snapshot, check, alerts, sends, history>>

\* Mutant: the loop subscribes to the shutdown channel anew on every turn.
JoinResubscribing ==
    /\ phase = "checking"
    /\ \A p \in Positions : check[p] \in Ended
    /\ phase' = "idle"
    /\ signal' = FALSE
    /\ UNCHANGED <<store, block, snapshot, check, alerts, sends, history>>

\* join_all waits for every check, and errors are only logged.
Join ==
    /\ phase = "checking"
    /\ \A p \in Positions : check[p] \in Ended
    /\ phase' = "idle"
    /\ UNCHANGED <<store, signal, block, snapshot, check, alerts, sends, history>>

Stop ==
    /\ phase = "idle" /\ signal
    /\ phase' = "stopped"
    /\ UNCHANGED <<store, signal, block, snapshot, check, alerts, sends, history>>

----------------------------------------------------------------------------
(* The check of a position *)

Key(p) == <<p, block>>

Goto(p, step) == check' = [check EXCEPT ![p] = step]

At(p, step) == phase = "checking" /\ check[p] = step

\* A statement that is acknowledged (ok), refused, or applied with its
\* acknowledgement lost.
Applied(ok) == ok \/ "db_lost" \in Faults
Refused(ok) == ~ok /\ "db_refused" \in Faults

\* create_alert: an error ends the check, and nothing is sent.
CreateAlert(p) ==
    /\ At(p, "create")
    /\ \E ok \in BOOLEAN :
          /\ \/ Applied(ok) /\ alerts' = [alerts EXCEPT ![Key(p)] = NewAlert]
             \/ Refused(ok) /\ UNCHANGED alerts
          /\ Goto(p, IF ok THEN "simulate" ELSE "failed")
    /\ UNCHANGED <<store, loop, sends, history>>

\* simulate_repay only reads; without its result the alert is sent all the same.
SimulateRepay(p) ==
    /\ At(p, "simulate")
    /\ Goto(p, "attach") \/ Goto(p, "deliver")
    /\ UNCHANGED <<store, loop, alerts, sends, history>>

\* update_alert_simulation: an error ends the check before the delivery.
AttachSimulation(p) ==
    /\ At(p, "attach")
    /\ \E ok \in BOOLEAN :
          /\ \/ Applied(ok) /\ alerts' = [alerts EXCEPT ![Key(p)].simulated = TRUE]
             \/ Refused(ok) /\ UNCHANGED alerts
          /\ Goto(p, IF ok THEN "deliver" ELSE "failed")
    /\ UNCHANGED <<store, loop, sends, history>>

\* Mutant: the row is settled before the channels are tried.
DeliverAfterResolving(p) ==
    /\ At(p, "deliver")
    /\ alerts' = [alerts EXCEPT ![Key(p)].resolved = TRUE, ![Key(p)].action = "notified"]
    /\ Goto(p, "resolve")
    /\ UNCHANGED <<store, loop, sends, history>>

\* send_health_factor_alert: the user's own channels, whatever comes of them, then
\* the broadcast.
Deliver(p) ==
    /\ At(p, "deliver")
    /\ broadcast' = [broadcast EXCEPT ![Key(p)] = @ + 1]
    /\ Goto(p, "resolve")
    /\ UNCHANGED <<store, loop, alerts, direct, history>>

\* Mutant: an alert that could not be resolved is delivered again.
ResolveOrRetry(p) ==
    /\ At(p, "resolve")
    /\ \E ok \in BOOLEAN :
          /\ \/ /\ Applied(ok)
                /\ alerts' = [alerts EXCEPT ![Key(p)].resolved = TRUE,
                                            ![Key(p)].action = "notified"]
             \/ Refused(ok) /\ UNCHANGED alerts
          /\ Goto(p, IF ok THEN "notify" ELSE "deliver")
    /\ UNCHANGED <<store, loop, sends, history>>

\* resolve_alert(.., "notified").await.ok().  The UPDATE asks for nothing but the id.
ResolveAlert(p) ==
    /\ At(p, "resolve")
    /\ \E ok \in BOOLEAN :
          \/ /\ Applied(ok)
             /\ alerts' = [alerts EXCEPT ![Key(p)].resolved = TRUE,
                                         ![Key(p)].action = "notified"]
          \/ Refused(ok) /\ UNCHANGED alerts
    /\ Goto(p, "notify")
    /\ UNCHANGED <<store, loop, sends, history>>

SendAlertToUser(p) ==
    /\ At(p, "notify")
    /\ direct' = direct \union {Key(p)}
    /\ Goto(p, Rest(block))
    /\ UNCHANGED <<store, loop, alerts, broadcast, history>>

InsertHealthHistory(p) ==
    /\ At(p, "history")
    /\ \E ok \in BOOLEAN :
          /\ \/ Applied(ok) /\ history' = history \union {Key(p)}
             \/ Refused(ok) /\ UNCHANGED history
          /\ Goto(p, IF ok THEN "done" ELSE "failed")
    /\ UNCHANGED <<store, loop, alerts, sends>>

CheckPosition(p) ==
    \/ CreateAlert(p) \/ SimulateRepay(p) \/ AttachSimulation(p) \/ Deliver(p)
    \/ ResolveAlert(p) \/ SendAlertToUser(p) \/ InsertHealthHistory(p)

----------------------------------------------------------------------------
(* Around the loop *)

\* insert_lending_position replaces the row.
InsertPosition(p, row) ==
    /\ phase # "crashed"
    /\ store' = [store EXCEPT ![p] = row]
    /\ UNCHANGED <<loop, check, alerts, sends, history>>

UpdateHealthFactor(p, level) ==
    /\ phase # "crashed"
    /\ store[p] # NoRow
    /\ store' = [store EXCEPT ![p].level = level]
    /\ UNCHANGED <<loop, check, alerts, sends, history>>

\* The UPDATE asks for nothing but the id.
SnoozeAlert(a) ==
    /\ phase # "crashed"
    /\ alerts[a].exists
    /\ Cardinality({b \in Keys : alerts[b].snoozed} \union {a}) <= MaxSnoozed
    /\ alerts' = [alerts EXCEPT ![a].snoozed = TRUE, ![a].action = "snoozed"]
    /\ UNCHANGED <<store, loop, check, sends, history>>

Shutdown ==
    /\ phase \in {"idle", "checking"}
    /\ signal' = TRUE
    /\ UNCHANGED <<store, phase, block, snapshot, check, alerts, sends, history>>

\* A restarted process begins with an empty store and never looks at old alerts.
Crash ==
    /\ "crash" \in Faults
    /\ phase' = "crashed"
    /\ UNCHANGED <<store, signal, block, snapshot, check, alerts, sends, history>>

Next ==
    \/ Subscribe \/ OnNewBlock \/ Join \/ Stop
    \/ \E p \in Positions : CheckPosition(p)
    \/ \E p \in Positions, row \in StoreRows : InsertPosition(p, row)
    \/ \E p \in Positions, level \in {row.level : row \in StoreRows} : UpdateHealthFactor(p, level)
    \/ \E a \in Keys : SnoozeAlert(a)
    \/ Shutdown
    \/ Crash

Spec == Init /\ [][Next]_vars

\* Ticks come, each statement and call is answered, and tokio's select! picks
\* among the ready branches at random, so a signal is not passed over forever.
FairSpec ==
    /\ Spec
    /\ WF_vars(Subscribe) /\ WF_vars(OnNewBlock) /\ WF_vars(Join) /\ SF_vars(Stop)
    /\ \A p \in Positions : WF_vars(CheckPosition(p))

----------------------------------------------------------------------------
(* Properties *)

\* An alert leaves its user's list (get_pending_alerts: resolved_at IS NULL) only
\* after it went out, whichever statement failed or where the process died.
UndeliveredStaysPending == \A a \in Keys : alerts[a].resolved => a \in Shown

\* When the loop looks at the next tick, every position of the snapshot has been
\* through its check.  A check that did not fail has sent the alert on both ways
\* if the factor was low and stored the sample if one was due, whatever happened
\* to the store or to the other checks meanwhile (check_all_positions); one fails
\* only when a statement does.
Served(p) == /\ snapshot[p].level = "low" => alerts[Key(p)].exists /\ Key(p) \in Shown \intersect direct
             /\ Sampled(block) => Key(p) \in history

BlockIsComplete ==
    phase = "idle" =>
        \A p \in Positions : snapshot[p] # NoRow =>
            \/ check[p] = "done" /\ Served(p)
            \/ check[p] = "failed" /\ Faults \intersect {"db_refused", "db_lost"} # {}

\* The checks implement the life cycle of an alert, also while users snooze it, a block
\* follows another or the process dies: a client is never shown an alert without its
\* row, its simulation comes before, it is broadcast once however its check fails, and
\* no row is opened again.
ImplementsAlertLifecycle == Lifecycle!Spec

\* The loop comes back from every block: no failing check keeps the next waiting.
BlocksEnd == phase = "checking" ~> phase # "checking"

\* A shutdown that found a receiver stops the loop, also between failing checks.
ShutdownStops == signal ~> phase = "stopped"
=============================================================================
