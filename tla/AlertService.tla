---------------------------- MODULE AlertService ----------------------------
(***************************************************************************)
(* AlertService, the delivery of alerts to the channels of their user: one *)
(* send_*_alert call per alert, several at once, while the user changes    *)
(* the settings the call has read and snoozes alerts.                      *)
(*                                                                         *)
(* One action per await.  What a channel's server answers is not looked at *)
(* (the senders return Ok whatever it is), only that it is asked.  Of the  *)
(* requests only the channel and the alert are kept.  A process that ends  *)
(* during a call is HealthMonitor's matter.                                *)
(***************************************************************************)
EXTENDS Naturals, Sequences

CONSTANTS
    Users,
    NoUser,        \* get_user found none to notify
    MaxAlerts,     \* bound: alerts, numbered as they are fired
    Configured,    \* channels main has an API key for
    MaxChanges,    \* bound: changes of settings
    Faults         \* what may go wrong, a subset of FaultKinds

FaultKinds == {"db_refused", "db_lost"}
Channels == {"push", "telegram", "email"}
Kinds == {"health_factor", "out_of_range", "drawdown"}
Settings == [enabled : BOOLEAN, has : SUBSET Channels]

ASSUME AlertAssumption ==
    /\ NoUser \notin Users \union Settings
    /\ MaxAlerts \in Nat /\ MaxChanges \in Nat
    /\ Configured \subseteq Channels
    /\ Faults \subseteq FaultKinds

VARIABLES
    settings,   \* users: notifications_enabled, and which of fcm_token, ... are set
    changes,    \* changes of settings so far
    alerts,     \* the rows of `alerts`, in the order of fired_at
    step,       \* the await the call of an alert stands at
    read,       \* the settings it has read
    todo,       \* the channels it has yet to ask
    asked,      \* the channels it has asked
    shown,      \* history: how often it was broadcast to the clients
    allowed     \* history: what the user had allowed at some time during the call

call == <<step, read, todo, asked>>
vars == <<settings, changes, alerts, call, shown, allowed>>

Ids == 1 .. Len(alerts)
Steps == {"lookup", "channels", "resolve", "done"}
AlertRows == [user : Users, kind : Kinds, resolved : BOOLEAN, snoozed : BOOLEAN]

\* Of the life cycle of an alert, the part that is not the simulation's.
Lifecycle == INSTANCE AlertLifecycle WITH
    Alerts <- 1 .. MaxAlerts,
    stored <- Ids,
    simulated <- {},
    settled <- {a \in Ids : alerts[a].resolved}

Pad(S) == [1 .. MaxAlerts -> S]

TypeOK ==
    /\ settings \in [Users -> Settings]
    /\ changes \in 0 .. MaxChanges
    /\ alerts \in Seq(AlertRows) /\ Len(alerts) <= MaxAlerts
    /\ step \in Pad(Steps)
    /\ read \in Pad(Settings \union {NoUser})
    /\ todo \in Pad(SUBSET Channels)
    /\ asked \in Pad(SUBSET Channels)
    /\ shown \in Pad(Nat)
    /\ allowed \in Pad(SUBSET Channels)

\* Notifications are on by default, and no channel is set.
Init ==
    /\ settings = [u \in Users |-> [enabled |-> TRUE, has |-> {}]]
    /\ changes = 0
    /\ alerts = <<>>
    /\ step = [a \in 1 .. MaxAlerts |-> "lookup"]
    /\ read = [a \in 1 .. MaxAlerts |-> NoUser]
    /\ todo = [a \in 1 .. MaxAlerts |-> {}] /\ asked = todo
    /\ shown = [a \in 1 .. MaxAlerts |-> 0]
    /\ allowed = [a \in 1 .. MaxAlerts |-> {}]

----------------------------------------------------------------------------
(* The delivery of an alert *)

ReadFails == Faults # {}

\* What may be sent to a user with these settings.
Allowed(s) == IF s.enabled THEN s.has \intersect Configured ELSE {}

\* The channels a call asks, and in which order.  Only a health alert is mailed.
Asks(kind) == IF kind = "health_factor" THEN Channels ELSE Channels \ {"email"}
ToAsk(a, s) == IF s = NoUser THEN {} ELSE Asks(alerts[a].kind) \intersect Allowed(s)
Place == [push |-> 1, telegram |-> 2, email |-> 3]

Goto(a, s) == step' = [step EXCEPT ![a] = s]

\* create_alert by a monitor, which calls send_*_alert next.
Fire(u, kind) ==
    /\ Len(alerts) < MaxAlerts
    /\ alerts' = Append(alerts, [user |-> u, kind |-> kind, resolved |-> FALSE, snoozed |-> FALSE])
    /\ allowed' = [allowed EXCEPT ![Len(alerts) + 1] = Allowed(settings[u])]
    /\ UNCHANGED <<settings, changes, call, shown>>

\* Mutant: the settings are not asked whether notifications are on.
GetUserAlways(a) ==
    /\ step[a] = "lookup"
    /\ read' = [read EXCEPT ![a] = settings[alerts[a].user]]
    /\ todo' = [todo EXCEPT ![a] = Asks(alerts[a].kind) \intersect read'[a].has \intersect Configured]
    /\ Goto(a, "channels")
    /\ UNCHANGED <<settings, changes, alerts, asked, shown, allowed>>

\* Mutant: a call that finds nobody to notify returns.
GetUserOrReturn(a) ==
    /\ step[a] = "lookup"
    /\ \/ /\ settings[alerts[a].user].enabled
          /\ read' = [read EXCEPT ![a] = settings[alerts[a].user]]
          /\ todo' = [todo EXCEPT ![a] = ToAsk(a, read'[a])]
          /\ Goto(a, "channels")
       \/ /\ ~settings[alerts[a].user].enabled \/ ReadFails
          /\ Goto(a, "done")
          /\ UNCHANGED <<read, todo>>
    /\ UNCHANGED <<settings, changes, alerts, asked, shown, allowed>>

\* get_user: no row, notifications off, or an error all come to nobody to notify.
GetUser(a) ==
    /\ step[a] = "lookup"
    /\ \/ /\ settings[alerts[a].user].enabled
          /\ read' = [read EXCEPT ![a] = settings[alerts[a].user]]
          /\ todo' = [todo EXCEPT ![a] = ToAsk(a, read'[a])]
       \/ /\ ~settings[alerts[a].user].enabled \/ ReadFails
          /\ UNCHANGED <<read, todo>>
    /\ Goto(a, "channels")
    /\ UNCHANGED <<settings, changes, alerts, asked, shown, allowed>>

\* The channel whose turn it is.
IsNext(a, c) == c \in todo[a] /\ \A d \in todo[a] : Place[c] <= Place[d]

\* Mutant: an error of a channel ends the delivery.
AskOrQuit(a, c) ==
    /\ step[a] = "channels" /\ IsNext(a, c)
    /\ asked' = [asked EXCEPT ![a] = @ \union {c}]
    /\ \/ todo' = [todo EXCEPT ![a] = @ \ {c}] /\ UNCHANGED step
       \/ Goto(a, "done") /\ UNCHANGED todo
    /\ UNCHANGED <<settings, changes, alerts, read, shown, allowed>>

\* The next channel is asked, and its answer dropped: .await.ok()
Ask(a, c) ==
    /\ step[a] = "channels" /\ IsNext(a, c)
    /\ asked' = [asked EXCEPT ![a] = @ \union {c}]
    /\ todo' = [todo EXCEPT ![a] = @ \ {c}]
    /\ UNCHANGED <<settings, changes, alerts, step, read, shown, allowed>>

\* The senders: a request each, whose error is only logged.
SendToToken(a) == Ask(a, "push")
SendToChat(a) == alerts[a].kind # "health_factor" /\ Ask(a, "telegram")
SendAlertWithActions(a) == alerts[a].kind = "health_factor" /\ Ask(a, "telegram")
SendMail(a) == Ask(a, "email")

\* The broadcast has no await; a health alert is settled after it.
BroadcastAlert(a) ==
    /\ step[a] = "channels" /\ todo[a] = {}
    /\ shown' = [shown EXCEPT ![a] = @ + 1]
    /\ Goto(a, IF alerts[a].kind = "health_factor" THEN "resolve" ELSE "done")
    /\ UNCHANGED <<settings, changes, alerts, read, todo, asked, allowed>>

\* Mutant: a settling that fails is tried again from the broadcast on.
ResolveOrRebroadcast(a) ==
    /\ step[a] = "resolve"
    /\ \/ alerts' = [alerts EXCEPT ![a].resolved = TRUE] /\ Goto(a, "done")
       \/ Faults # {} /\ UNCHANGED alerts /\ Goto(a, "channels")
    /\ UNCHANGED <<settings, changes, read, todo, asked, shown, allowed>>

\* resolve_alert(.., "notified").await.ok()
ResolveAlert(a) ==
    /\ step[a] = "resolve"
    /\ \/ alerts' = [alerts EXCEPT ![a].resolved = TRUE]
       \/ Faults # {} /\ UNCHANGED alerts
    /\ Goto(a, "done")
    /\ UNCHANGED <<settings, changes, read, todo, asked, shown, allowed>>

SendAlert(a) ==
    \/ GetUser(a)
    \/ SendToToken(a) \/ SendToChat(a) \/ SendAlertWithActions(a) \/ SendMail(a)
    \/ BroadcastAlert(a) \/ ResolveAlert(a)

----------------------------------------------------------------------------
(* Users *)

InFlight(u) == {a \in Ids : alerts[a].user = u /\ step[a] # "done"}

\* update_fcm_token, update_telegram_chat_id, update_email set or clear a column;
\* update_notifications_enabled the flag.
UpdateSettings(u, s) ==
    /\ changes < MaxChanges
    /\ changes' = changes + 1
    /\ settings' = [settings EXCEPT ![u] = s]
    /\ allowed' = [a \in 1 .. MaxAlerts |->
                      IF a \in InFlight(u) THEN allowed[a] \union Allowed(s) ELSE allowed[a]]
    /\ UNCHANGED <<alerts, call, shown>>

UpdateChannel(u, c) ==
    \/ UpdateSettings(u, [settings[u] EXCEPT !.has = @ \union {c}])
    \/ UpdateSettings(u, [settings[u] EXCEPT !.has = @ \ {c}])

UpdateNotificationsEnabled(u, on) == UpdateSettings(u, [settings[u] EXCEPT !.enabled = on])

\* snooze_alert: the row need not be open, nor the caller's own.
SnoozeAlert(a) ==
    /\ alerts' = [alerts EXCEPT ![a].snoozed = TRUE]
    /\ UNCHANGED <<settings, changes, call, shown, allowed>>

Next ==
    \/ \E u \in Users, kind \in Kinds : Fire(u, kind)
    \/ \E a \in Ids : SendAlert(a) \/ SnoozeAlert(a)
    \/ \E u \in Users, c \in Channels : UpdateChannel(u, c)
    \/ \E u \in Users, on \in BOOLEAN : UpdateNotificationsEnabled(u, on)

Spec == Init /\ [][Next]_vars

\* A call is polled until it has returned.
FairSpec == Spec /\ \A a \in 1 .. MaxAlerts : WF_vars(a \in Ids /\ SendAlert(a))

----------------------------------------------------------------------------
(* Properties *)

\* Nothing is asked to reach a user on a channel that was off all the time the
\* alert was on its way, whatever the call had read, and a drawdown or range alert
\* is never mailed.
OnlyAllowedChannels ==
    \A a \in Ids : asked[a] \subseteq
        IF alerts[a].kind = "health_factor" THEN allowed[a] ELSE allowed[a] \ {"email"}

\* A channel that fails keeps the alert from no other: a call that has ended has asked
\* every channel that an alert of its kind goes to and that the settings it read allow,
\* none if nobody was found to notify, and has shown the alert once; and a health alert
\* is settled by none that has anything left to ask.
DeliveryIsComplete ==
    \A a \in Ids :
        /\ step[a] = "done" => shown[a] = 1 /\ asked[a] = ToAsk(a, read[a])
        /\ alerts[a].resolved => shown[a] = 1 /\ todo[a] = {}

\* Calls that deliver several alerts at once implement the life cycle of each: it is
\* shown at most once, settled only after that, and neither a snooze nor a statement
\* that fails opens it again.
ImplementsAlertLifecycle == Lifecycle!Spec

\* Whatever channel or statement fails, and whatever the user switches off or snoozes
\* meanwhile, an alert that was stored is shown to the clients in the end.
AlertsReachClients == \A a \in 1 .. MaxAlerts : a \in Ids ~> shown[a] > 0
=============================================================================
