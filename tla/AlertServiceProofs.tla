------------------------- MODULE AlertServiceProofs -------------------------
(***************************************************************************)
(* Proofs about the delivery of alerts, for any number of users, alerts    *)
(* and changes of settings, and whichever statements fail.                 *)
(***************************************************************************)
EXTENDS AlertService, TLAPS

\* Where a call stands, what it has read and how often it has shown its alert, of an
\* alert fired or not.
DeliveryInv ==
    \A a \in 1 .. MaxAlerts :
        /\ a > Len(alerts) => step[a] = "lookup"
        /\ step[a] = "lookup" => read[a] = NoUser /\ todo[a] = {} /\ asked[a] = {}
        /\ step[a] \in {"lookup", "channels"} => shown[a] = 0
        /\ step[a] \in {"resolve", "done"} => shown[a] = 1 /\ todo[a] = {}

\* The channels an alert may go to, as it is on its way.
May(a) == IF alerts[a].kind = "health_factor" THEN allowed[a] ELSE allowed[a] \ {"email"}

\* The channels a call has asked or has yet to ask were allowed while it ran, and from the
\* lookup on they are those it is to ask.
RowOf(a) ==
    /\ todo[a] \union asked[a] \subseteq May(a)
    /\ step[a] # "done" => Allowed(settings[alerts[a].user]) \subseteq allowed[a]
    /\ todo[a] \union asked[a] = ToAsk(a, read[a])
    /\ alerts[a].resolved => step[a] = "done"
RowInv == \A a \in Ids : RowOf(a)

AlertInv == TypeOK /\ DeliveryInv /\ RowInv

LEMMA AlertInit == Init => AlertInv
<1> SUFFICES ASSUME Init PROVE AlertInv
  OBVIOUS
<1>1. Len(alerts) = 0 /\ Ids = {}
  BY DEF Init, Ids
<1>2. TypeOK
  BY <1>1, AlertAssumption DEF Init, TypeOK, Settings, Pad, Steps
<1>3. DeliveryInv /\ RowInv
  BY <1>1 DEF Init, DeliveryInv, RowInv
<1> QED BY <1>2, <1>3 DEF AlertInv

LEMMA IdsFit == ASSUME TypeOK PROVE Ids \subseteq 1 .. MaxAlerts /\ Len(alerts) \in Nat
BY AlertAssumption DEF TypeOK, Ids

\* What of a row is replaced by its new form r, nothing else changes.
LEMMA RowSet ==
    ASSUME TypeOK, NEW a \in Ids, NEW r \in AlertRows, alerts' = [alerts EXCEPT ![a] = r]
    PROVE  /\ alerts' \in Seq(AlertRows) /\ Len(alerts') = Len(alerts) /\ Ids' = Ids
           /\ alerts'[a] = r /\ \A b \in Ids \ {a} : alerts'[b] = alerts[b]
BY DEF TypeOK, Ids

LEMMA RowType == ASSUME TypeOK, NEW a \in Ids PROVE alerts[a] \in AlertRows
BY DEF TypeOK, Ids

LEMMA FireStep ==
    ASSUME AlertInv, NEW u \in Users, NEW kind \in Kinds, Fire(u, kind)
    PROVE  AlertInv'
<1> USE AlertAssumption DEF AlertInv
<1> DEFINE row == [user |-> u, kind |-> kind, resolved |-> FALSE, snoozed |-> FALSE]
<1>0. PICK n \in Nat : n = Len(alerts) + 1
  BY IdsFit
<1>1. /\ alerts' = Append(alerts, row) /\ allowed' = [allowed EXCEPT ![n] = Allowed(settings[u])]
      /\ n \in 1 .. MaxAlerts /\ UNCHANGED <<settings, changes, step, read, todo, asked, shown>>
  BY <1>0 DEF Fire, call, TypeOK
<1>2. row \in AlertRows
  BY DEF AlertRows
<1>3. /\ alerts' \in Seq(AlertRows) /\ Len(alerts') = n /\ alerts'[n] = row
      /\ \A a \in Ids : alerts'[a] = alerts[a]
      /\ Ids' = Ids \union {n} /\ n \notin Ids
  BY <1>0, <1>1, <1>2 DEF TypeOK, Ids
<1>4. Allowed(settings[u]) \subseteq Channels
  BY DEF Allowed, TypeOK, Settings
<1>5. TypeOK'
  BY <1>1, <1>3, <1>4 DEF TypeOK, Pad
<1>6. DeliveryInv'
  BY <1>0, <1>1, <1>3 DEF DeliveryInv, TypeOK
<1>7. step[n] = "lookup" /\ read[n] = NoUser /\ todo[n] = {} /\ asked[n] = {}
  BY <1>0, <1>1 DEF DeliveryInv, TypeOK
<1>8. allowed'[n] = Allowed(settings[u]) /\ \A a \in Ids : allowed'[a] = allowed[a]
  BY <1>1, <1>3, IdsFit DEF TypeOK, Pad
<1>9. \A a \in Ids : RowOf(a)'
  <2> SUFFICES ASSUME NEW a \in Ids PROVE RowOf(a)'
    OBVIOUS
  <2>1. /\ alerts'[a] = alerts[a] /\ allowed'[a] = allowed[a]
        /\ UNCHANGED <<settings, step, read, todo, asked>>
    BY <1>1, <1>3, <1>8
  <2>2. RowOf(a)
    BY DEF RowInv
  <2> QED BY <2>1, <2>2 DEF RowOf, May, ToAsk, Allowed
<1>10. alerts'[n].user = u /\ ~alerts'[n].resolved
  BY <1>3
<1>11. RowOf(n)'
  <2> HIDE DEF row
  <2>1. (todo[n] \union asked[n] \subseteq May(n))' /\ read'[n] = NoUser
    BY <1>1, <1>7
  <2>2. (Allowed(settings[alerts[n].user]) \subseteq allowed[n])'
    BY <1>1, <1>8, <1>10 DEF Allowed
  <2>3. (todo[n] \union asked[n] = ToAsk(n, read[n]))'
    BY <1>1, <1>7, <2>1 DEF ToAsk
  <2> QED BY <1>10, <2>1, <2>2, <2>3 DEF RowOf
<1>12. RowInv'
  <2> HIDE DEF row
  <2> QED BY <1>3, <1>9, <1>11 DEF RowInv
<1> QED BY <1>5, <1>6, <1>12

\* What a step of a call leaves as it was for another.
SameFor(b) ==
    /\ step'[b] = step[b] /\ read'[b] = read[b] /\ todo'[b] = todo[b] /\ asked'[b] = asked[b]
    /\ allowed'[b] = allowed[b] /\ shown'[b] = shown[b] /\ (b \in Ids => alerts'[b] = alerts[b])

\* A step of the call of alert a, from what it does to a.
LEMMA CallStep ==
    ASSUME AlertInv, NEW a \in Ids, TypeOK', UNCHANGED settings, Len(alerts') = Len(alerts), Ids' = Ids,
           \A b \in 1 .. MaxAlerts : b # a => SameFor(b),
           (step[a] = "lookup" => read[a] = NoUser /\ todo[a] = {} /\ asked[a] = {})',
           (step[a] \in {"lookup", "channels"} => shown[a] = 0)',
           (step[a] \in {"resolve", "done"} => shown[a] = 1 /\ todo[a] = {})',
           RowOf(a)'
    PROVE  AlertInv'
<1>1. Ids \subseteq 1 .. MaxAlerts /\ a <= Len(alerts) /\ Len(alerts) \in Nat /\ a \in Nat
  BY IdsFit DEF AlertInv, Ids
<1>2. DeliveryInv'
  BY <1>1 DEF AlertInv, DeliveryInv, SameFor
<1>3. RowInv'
  <2>1. ASSUME NEW b \in Ids, b # a PROVE RowOf(b)'
    BY <1>1, <2>1 DEF AlertInv, RowInv, RowOf, May, ToAsk, Allowed, SameFor
  <2> QED BY <2>1 DEF RowInv
<1> QED BY <1>2, <1>3 DEF AlertInv

LEMMA GetUserStep == ASSUME AlertInv, NEW a \in Ids, GetUser(a) PROVE AlertInv'
<1> USE AlertAssumption DEF AlertInv
<1> DEFINE u == alerts[a].user
<1>1. /\ step[a] = "lookup" /\ Goto(a, "channels")
      /\ UNCHANGED <<settings, changes, alerts, asked, shown, allowed>>
  BY DEF GetUser
<1>2. /\ a \in 1 .. MaxAlerts /\ u \in Users /\ alerts[a].resolved \in BOOLEAN
      /\ settings[u] \in Settings /\ read[a] = NoUser /\ todo[a] = {} /\ asked[a] = {}
      /\ shown[a] = 0 /\ Allowed(settings[u]) \subseteq allowed[a] /\ ~alerts[a].resolved
  <2>1. a \in 1 .. MaxAlerts /\ alerts[a] \in AlertRows
    BY IdsFit, RowType
  <2> QED BY <1>1, <2>1 DEF AlertRows, TypeOK, DeliveryInv, RowInv, RowOf
<1>3. step' = [step EXCEPT ![a] = "channels"] /\ step'[a] = "channels"
      /\ \A b \in 1 .. MaxAlerts : b # a => step'[b] = step[b]
  BY <1>1, <1>2 DEF Goto, TypeOK, Pad
<1>4. CASE /\ settings[u].enabled /\ read' = [read EXCEPT ![a] = settings[u]]
           /\ todo' = [todo EXCEPT ![a] = ToAsk(a, read'[a])]
  <2> DEFINE ask == Asks(alerts[a].kind) \intersect Allowed(settings[u])
  <2>9. settings[u] # NoUser
    BY <1>2
  <2>1. /\ read'[a] = settings[u] /\ todo'[a] = ask
        /\ \A b \in 1 .. MaxAlerts : b # a => read'[b] = read[b] /\ todo'[b] = todo[b]
    BY <1>2, <1>4, <2>9 DEF TypeOK, Pad, ToAsk
  <2>2. /\ ask \subseteq Channels /\ ask \subseteq allowed[a]
        /\ alerts[a].kind # "health_factor" => "email" \notin ask
    <3>1. Allowed(settings[u]) \subseteq Channels
      BY <1>2 DEF Allowed, Settings
    <3> QED BY <1>2, <3>1 DEF Asks
  <2>3. todo' = [todo EXCEPT ![a] = ask]
    BY <1>4, <2>1
  <2> HIDE DEF ask
  <2>4. TypeOK'
    <3>1. step' \in Pad(Steps) /\ read' \in Pad(Settings \union {NoUser}) /\ todo' \in Pad(SUBSET Channels)
      BY <1>2, <1>3, <1>4, <2>2, <2>3 DEF TypeOK, Pad, Steps
    <3> QED BY <1>1, <3>1 DEF TypeOK
  <2>5. \A b \in 1 .. MaxAlerts : b # a => SameFor(b)
    BY <1>1, <1>3, <2>1 DEF SameFor
  <2>6. (todo[a] \union asked[a] \subseteq May(a))'
    BY <1>1, <1>2, <2>1, <2>2 DEF May
  <2>7. (todo[a] \union asked[a] = ToAsk(a, read[a]))'
    <3>1. ToAsk(a, read[a])' = ask
      BY <1>1, <1>2, <2>1, <2>9 DEF ToAsk, Allowed, ask
    <3> QED BY <1>1, <1>2, <2>1, <3>1
  <2>8. Ids' = Ids /\ Allowed(settings[alerts[a].user])' = Allowed(settings[u])
    BY <1>1 DEF Ids, Allowed
  <2> HIDE DEF AlertInv
  <2> QED BY <1>1, <1>2, <1>3, <2>4, <2>5, <2>6, <2>7, <2>8, CallStep DEF RowOf
<1>5. CASE UNCHANGED <<read, todo>>
  <2>1. TypeOK'
    BY <1>1, <1>2, <1>3, <1>5 DEF TypeOK, Pad, Steps
  <2>2. \A b \in 1 .. MaxAlerts : b # a => SameFor(b)
    BY <1>1, <1>3, <1>5 DEF SameFor
  <2>3. Ids' = Ids /\ Allowed(settings[alerts[a].user])' = Allowed(settings[u])
    BY <1>1 DEF Ids, Allowed
  <2> HIDE DEF AlertInv
  <2>4. RowOf(a)'
    BY <1>1, <1>2, <1>5, <2>3 DEF May, ToAsk, RowOf
  <2> QED BY <1>1, <1>2, <1>3, <1>5, <2>1, <2>2, <2>3, <2>4, CallStep
<1> QED BY <1>4, <1>5 DEF GetUser

LEMMA AskStep == ASSUME AlertInv, NEW a \in Ids, NEW c \in Channels, Ask(a, c) PROVE AlertInv'
<1> USE AlertAssumption DEF AlertInv
<1>1. /\ step[a] = "channels" /\ c \in todo[a]
      /\ asked' = [asked EXCEPT ![a] = @ \union {c}] /\ todo' = [todo EXCEPT ![a] = @ \ {c}]
      /\ UNCHANGED <<settings, changes, alerts, step, read, shown, allowed>>
  BY DEF Ask, IsNext
<1>2. a \in 1 .. MaxAlerts
  BY IdsFit
<1>3. /\ asked'[a] = asked[a] \union {c} /\ todo'[a] = todo[a] \ {c}
      /\ \A b \in 1 .. MaxAlerts : b # a => asked'[b] = asked[b] /\ todo'[b] = todo[b]
  BY <1>1, <1>2 DEF TypeOK, Pad
<1>4. todo'[a] \union asked'[a] = todo[a] \union asked[a]
  BY <1>1, <1>3
<1>5. TypeOK'
  BY <1>1, <1>2 DEF TypeOK, Pad
<1>6. \A b \in 1 .. MaxAlerts : b # a => SameFor(b)
  BY <1>1, <1>3 DEF SameFor
<1>7. /\ Ids' = Ids /\ May(a)' = May(a) /\ ToAsk(a, read[a])' = ToAsk(a, read[a])
      /\ Allowed(settings[alerts[a].user])' = Allowed(settings[alerts[a].user])
  BY <1>1 DEF Ids, May, ToAsk, Allowed
<1>8. /\ todo[a] \union asked[a] \subseteq May(a) /\ Allowed(settings[alerts[a].user]) \subseteq allowed[a]
      /\ todo[a] \union asked[a] = ToAsk(a, read[a])
      /\ ~alerts[a].resolved /\ shown[a] = 0
  <2>1. alerts[a].resolved \in BOOLEAN
    BY RowType DEF AlertRows
  <2> QED BY <1>1, <1>2, <2>1 DEF RowInv, RowOf, DeliveryInv
<1> HIDE DEF AlertInv
<1> QED BY <1>1, <1>4, <1>5, <1>6, <1>7, <1>8, CallStep DEF RowOf

LEMMA BroadcastStep == ASSUME AlertInv, NEW a \in Ids, BroadcastAlert(a) PROVE AlertInv'
<1> USE AlertAssumption DEF AlertInv
<1>1. /\ step[a] = "channels" /\ todo[a] = {} /\ shown' = [shown EXCEPT ![a] = @ + 1]
      /\ UNCHANGED <<settings, changes, alerts, read, todo, asked, allowed>>
  BY DEF BroadcastAlert
<1>2. PICK s \in {"resolve", "done"} : step' = [step EXCEPT ![a] = s]
  BY DEF BroadcastAlert, Goto
<1>3. a \in 1 .. MaxAlerts
  BY IdsFit
<1>4. /\ step'[a] = s /\ \A b \in 1 .. MaxAlerts : b # a => step'[b] = step[b]
      /\ shown'[a] = 1 /\ \A b \in 1 .. MaxAlerts : b # a => shown'[b] = shown[b]
  BY <1>1, <1>2, <1>3 DEF TypeOK, Pad, DeliveryInv
<1>5. TypeOK'
  BY <1>1, <1>2, <1>3 DEF TypeOK, Pad, Steps
<1>6. \A b \in 1 .. MaxAlerts : b # a => SameFor(b)
  BY <1>1, <1>4 DEF SameFor
<1>7. /\ Ids' = Ids /\ May(a)' = May(a) /\ ToAsk(a, read[a])' = ToAsk(a, read[a])
      /\ Allowed(settings[alerts[a].user])' = Allowed(settings[alerts[a].user])
  BY <1>1 DEF Ids, May, ToAsk, Allowed
<1>8. /\ todo[a] \union asked[a] \subseteq May(a) /\ Allowed(settings[alerts[a].user]) \subseteq allowed[a]
      /\ todo[a] \union asked[a] = ToAsk(a, read[a])
      /\ ~alerts[a].resolved /\ shown[a] = 0
  <2>1. alerts[a].resolved \in BOOLEAN
    BY RowType DEF AlertRows
  <2> QED BY <1>1, <1>3, <2>1 DEF RowInv, RowOf, DeliveryInv
<1> HIDE DEF AlertInv
<1> QED BY <1>1, <1>4, <1>5, <1>6, <1>7, <1>8, CallStep DEF RowOf

\* resolve_alert and snooze_alert change a row, but not whose it is nor of which kind.
LEMMA ResolveStep == ASSUME AlertInv, NEW a \in Ids, ResolveAlert(a) PROVE AlertInv'
<1> USE AlertAssumption DEF AlertInv
<1>1. /\ step[a] = "resolve" /\ step' = [step EXCEPT ![a] = "done"]
      /\ UNCHANGED <<settings, changes, read, todo, asked, shown, allowed>>
  BY DEF ResolveAlert, Goto
<1>2. a \in 1 .. MaxAlerts /\ alerts[a] \in AlertRows
  BY IdsFit, RowType
<1>3. step'[a] = "done" /\ \A b \in 1 .. MaxAlerts : b # a => step'[b] = step[b]
  BY <1>1, <1>2 DEF TypeOK, Pad
<1> DEFINE settled == [alerts[a] EXCEPT !.resolved = TRUE]
<1>4. settled \in AlertRows /\ settled.user = alerts[a].user /\ settled.kind = alerts[a].kind
  BY <1>2 DEF AlertRows
<1>5. PICK r \in AlertRows : /\ r.user = alerts[a].user /\ r.kind = alerts[a].kind
                             /\ alerts' = [alerts EXCEPT ![a] = r]
  <2>1. CASE alerts' = [alerts EXCEPT ![a].resolved = TRUE]
    <3>1. alerts' = [alerts EXCEPT ![a] = settled]
      BY <2>1
    <3> HIDE DEF settled
    <3> QED BY <1>4, <3>1
  <2>2. CASE UNCHANGED alerts
    <3>1. alerts' = [alerts EXCEPT ![a] = alerts[a]]
      BY <2>2 DEF TypeOK
    <3> QED BY <1>2, <3>1
  <2> QED BY <2>1, <2>2 DEF ResolveAlert
<1>6. /\ alerts' \in Seq(AlertRows) /\ Len(alerts') = Len(alerts) /\ Ids' = Ids
      /\ alerts'[a] = r /\ \A b \in Ids \ {a} : alerts'[b] = alerts[b]
  BY <1>5, RowSet
<1>7. TypeOK'
  BY <1>1, <1>2, <1>6 DEF TypeOK, Pad, Steps
<1>8. \A b \in 1 .. MaxAlerts : b # a => SameFor(b)
  BY <1>1, <1>3, <1>6 DEF SameFor
<1>9. RowOf(a)'
  <2>1. RowOf(a)
    BY DEF RowInv
  <2> QED BY <1>1, <1>3, <1>5, <1>6, <2>1 DEF RowOf, May, ToAsk, Allowed
<1>10. shown[a] = 1 /\ todo[a] = {}
  BY <1>1, <1>2 DEF DeliveryInv
<1> HIDE DEF AlertInv
<1> QED BY <1>1, <1>3, <1>6, <1>7, <1>8, <1>9, <1>10, CallStep

LEMMA SnoozeStep == ASSUME AlertInv, NEW a \in Ids, SnoozeAlert(a) PROVE AlertInv'
<1> USE AlertAssumption DEF AlertInv
<1>1. UNCHANGED <<settings, changes, step, read, todo, asked, shown, allowed>>
  BY DEF SnoozeAlert, call
<1>2. a \in 1 .. MaxAlerts /\ alerts[a] \in AlertRows
  BY IdsFit, RowType
<1> DEFINE r == [alerts[a] EXCEPT !.snoozed = TRUE]
<1>3. /\ r \in AlertRows /\ r.user = alerts[a].user /\ r.kind = alerts[a].kind
      /\ r.resolved = alerts[a].resolved
  BY <1>2 DEF AlertRows
<1>4. alerts' = [alerts EXCEPT ![a] = r]
  BY DEF SnoozeAlert
<1> HIDE DEF r
<1>5. /\ alerts' \in Seq(AlertRows) /\ Len(alerts') = Len(alerts) /\ Ids' = Ids
      /\ alerts'[a] = r /\ \A b \in Ids \ {a} : alerts'[b] = alerts[b]
  BY <1>3, <1>4, RowSet
<1>6. TypeOK'
  BY <1>1, <1>5 DEF TypeOK, Pad
<1>7. \A b \in 1 .. MaxAlerts : b # a => SameFor(b)
  BY <1>1, <1>5 DEF SameFor
<1>8. RowOf(a)'
  <2>1. RowOf(a)
    BY DEF RowInv
  <2> QED BY <1>1, <1>3, <1>5, <2>1 DEF RowOf, May, ToAsk, Allowed
<1>9. /\ step[a] = "lookup" => read[a] = NoUser /\ todo[a] = {} /\ asked[a] = {}
      /\ step[a] \in {"lookup", "channels"} => shown[a] = 0
      /\ step[a] \in {"resolve", "done"} => shown[a] = 1 /\ todo[a] = {}
  BY <1>2 DEF DeliveryInv
<1> HIDE DEF AlertInv
<1> QED BY <1>1, <1>5, <1>6, <1>7, <1>8, <1>9, CallStep

\* What the user allows now is remembered for the alerts on their way.
LEMMA SettingsStep ==
    ASSUME AlertInv, NEW u \in Users, NEW s \in Settings, UpdateSettings(u, s)
    PROVE  AlertInv'
<1> USE AlertAssumption DEF AlertInv
<1>1. /\ changes < MaxChanges /\ changes' = changes + 1 /\ settings' = [settings EXCEPT ![u] = s]
      /\ allowed' = [a \in 1 .. MaxAlerts |->
                        IF a \in InFlight(u) THEN allowed[a] \union Allowed(s) ELSE allowed[a]]
      /\ UNCHANGED <<alerts, step, read, todo, asked, shown>>
  BY DEF UpdateSettings, call
<1>2. Allowed(s) \subseteq Channels
  BY DEF Allowed, Settings
<1>3. TypeOK'
  <2>1. changes' \in 0 .. MaxChanges /\ settings' \in [Users -> Settings]
    BY <1>1 DEF TypeOK
  <2>2. allowed' \in Pad(SUBSET Channels)
    BY <1>1, <1>2 DEF TypeOK, Pad
  <2> QED BY <1>1, <2>1, <2>2 DEF TypeOK
<1>4. DeliveryInv'
  BY <1>1 DEF DeliveryInv
<1>5. ASSUME NEW a \in Ids PROVE RowOf(a)'
  <2>1. RowOf(a) /\ a \in 1 .. MaxAlerts /\ alerts[a].user \in Users
    BY IdsFit, RowType DEF RowInv, AlertRows
  <2>2. /\ allowed[a] \subseteq allowed'[a]
        /\ alerts[a].user = u /\ step[a] # "done" => Allowed(s) \subseteq allowed'[a]
    BY <1>1, <2>1 DEF InFlight
  <2>3. /\ settings'[u] = s /\ \A v \in Users \ {u} : settings'[v] = settings[v]
    BY <1>1 DEF TypeOK
  <2>4. (Allowed(settings[alerts[a].user]))' = Allowed(settings'[alerts[a].user])
    BY <1>1 DEF Allowed
  <2>5. step[a] # "done" => Allowed(settings'[alerts[a].user]) \subseteq allowed'[a]
    <3>1. CASE alerts[a].user = u
      BY <2>2, <2>3, <3>1
    <3>2. CASE alerts[a].user # u
      BY <2>1, <2>2, <2>3, <3>2 DEF RowOf
    <3> QED BY <3>1, <3>2
  <2>6. (todo[a] \union asked[a] \subseteq May(a))'
    BY <1>1, <2>1, <2>2 DEF RowOf, May
  <2>7. (todo[a] \union asked[a] = ToAsk(a, read[a]))'
    BY <1>1, <2>1 DEF RowOf, ToAsk, Allowed
  <2> QED BY <1>1, <2>1, <2>4, <2>5, <2>6, <2>7 DEF RowOf
<1>6. Ids' = Ids
  BY <1>1 DEF Ids
<1> QED BY <1>3, <1>4, <1>5, <1>6 DEF RowInv

LEMMA AlertStep == AlertInv /\ [Next]_vars => AlertInv'
<1> SUFFICES ASSUME AlertInv, [Next]_vars PROVE AlertInv'
  OBVIOUS
<1>1. ASSUME NEW u \in Users, NEW kind \in Kinds, Fire(u, kind) PROVE AlertInv'
  BY <1>1, FireStep
<1>2. ASSUME NEW a \in Ids, SendAlert(a) PROVE AlertInv'
  <2>1. ASSUME NEW c \in Channels, Ask(a, c) PROVE AlertInv'
    BY <2>1, AskStep
  <2>2. CASE SendToToken(a) \/ SendToChat(a) \/ SendAlertWithActions(a) \/ SendMail(a)
    <3>1. "push" \in Channels /\ "telegram" \in Channels /\ "email" \in Channels
      BY DEF Channels
    <3> QED BY <2>1, <2>2, <3>1 DEF SendToToken, SendToChat, SendAlertWithActions, SendMail
  <2> QED BY <1>2, <2>2, GetUserStep, BroadcastStep, ResolveStep DEF SendAlert
<1>3. ASSUME NEW u \in Users, NEW c \in Channels, UpdateChannel(u, c) PROVE AlertInv'
  <2>1. settings[u] \in Settings
    BY DEF AlertInv, TypeOK
  <2>2. [settings[u] EXCEPT !.has = @ \union {c}] \in Settings
    BY <2>1 DEF Settings
  <2>3. [settings[u] EXCEPT !.has = @ \ {c}] \in Settings
    BY <2>1 DEF Settings
  <2> QED BY <1>3, <2>2, <2>3, SettingsStep DEF UpdateChannel
<1>4. ASSUME NEW u \in Users, NEW on \in BOOLEAN, UpdateNotificationsEnabled(u, on) PROVE AlertInv'
  <2>1. settings[u] \in Settings
    BY DEF AlertInv, TypeOK
  <2>2. [settings[u] EXCEPT !.enabled = on] \in Settings
    BY <2>1 DEF Settings
  <2> QED BY <1>4, <2>2, SettingsStep DEF UpdateNotificationsEnabled
<1>5. CASE UNCHANGED vars
  <2>1. TypeOK'
    BY <1>5 DEF AlertInv, TypeOK, vars, call, Pad
  <2>2. DeliveryInv'
    BY <1>5 DEF AlertInv, DeliveryInv, vars, call
  <2>3. RowInv'
    BY <1>5 DEF AlertInv, RowInv, RowOf, May, ToAsk, Allowed, vars, call, Ids
  <2> QED BY <2>1, <2>2, <2>3 DEF AlertInv
<1> QED BY <1>1, <1>2, <1>3, <1>4, <1>5, SnoozeStep DEF Next

\* Every variable of the delivery has its type.
THEOREM AlertTypes == Spec => []TypeOK
<1>1. AlertInv => TypeOK
  BY DEF AlertInv
<1> QED BY <1>1, AlertInit, AlertStep, PTL DEF Spec

\* No channel is asked that was off all the time the alert was on its way, whenever the
\* settings were read, and only a health alert is mailed.
THEOREM ChannelsAllowed == Spec => []OnlyAllowedChannels
<1>1. AlertInv => OnlyAllowedChannels
  BY DEF AlertInv, RowInv, RowOf, May, OnlyAllowedChannels
<1> QED BY <1>1, AlertInit, AlertStep, PTL DEF Spec

\* A call that has ended has asked the channels an alert of its kind goes to and its
\* settings allow, all of them, has shown the alert once, and no alert is settled before.
THEOREM Delivered == Spec => []DeliveryIsComplete
<1>1. AlertInv => DeliveryIsComplete
  <2> SUFFICES ASSUME AlertInv, NEW a \in Ids
               PROVE  /\ step[a] = "done" => shown[a] = 1 /\ asked[a] = ToAsk(a, read[a])
                      /\ alerts[a].resolved => shown[a] = 1 /\ todo[a] = {}
    BY DEF DeliveryIsComplete
  <2>1. a \in 1 .. MaxAlerts
    BY IdsFit DEF AlertInv
  <2> QED BY <2>1 DEF AlertInv, DeliveryInv, RowInv, RowOf
<1> QED BY <1>1, AlertInit, AlertStep, PTL DEF Spec

----------------------------------------------------------------------------
(* Deliveries implement the life cycle of an alert *)

Settled == {a \in Ids : alerts[a].resolved}

LEMMA LifeStep == ASSUME AlertInv, [Next]_vars PROVE [Lifecycle!Next]_(Lifecycle!vars)
<1> DEFINE Numbers == 1 .. MaxAlerts
<1>1. /\ step \in [Numbers -> Steps] /\ shown \in [Numbers -> Nat]
      /\ Ids \subseteq Numbers /\ Len(alerts) \in Nat
  BY IdsFit DEF AlertInv, TypeOK, Pad
<1>2. ASSUME UNCHANGED <<Ids, shown, Settled>> PROVE UNCHANGED Lifecycle!vars
  BY <1>2 DEF Lifecycle!vars, Settled
<1>3. ASSUME NEW u \in Users, NEW kind \in Kinds, Fire(u, kind) PROVE Lifecycle!Next
  <2> DEFINE row == [user |-> u, kind |-> kind, resolved |-> FALSE, snoozed |-> FALSE]
  <2>1. PICK n \in Nat : n = Len(alerts) + 1
    BY <1>1
  <2>2. /\ alerts' = Append(alerts, row) /\ alerts \in Seq(AlertRows) /\ n \in Numbers
        /\ UNCHANGED shown
    BY <1>3, <2>1, AlertAssumption DEF Fire, call, AlertInv, TypeOK
  <2>3. /\ Ids' = Ids \union {n} /\ n \notin Ids
        /\ \A a \in Ids : alerts'[a] = alerts[a]
        /\ alerts'[n] = row
    BY <2>1, <2>2 DEF Ids
  <2>4. Settled' = Settled
    BY <2>3 DEF Settled
  <2>5. Lifecycle!Store(n)
    BY <2>2, <2>3, <2>4 DEF Lifecycle!Store, Settled
  <2> QED BY <2>2, <2>5 DEF Lifecycle!Next
<1>4. ASSUME NEW a \in Ids, SendAlert(a) PROVE [Lifecycle!Next]_(Lifecycle!vars)
  <2>0. a \in Numbers
    BY <1>1
  <2>1. CASE \/ GetUser(a) \/ SendToToken(a) \/ SendToChat(a) \/ SendAlertWithActions(a)
             \/ SendMail(a)
    <3>1. UNCHANGED <<alerts, shown>>
      BY <2>1 DEF GetUser, SendToToken, SendToChat, SendAlertWithActions, SendMail, Ask
    <3> QED BY <1>2, <3>1 DEF Ids, Settled
  <2>2. CASE BroadcastAlert(a)
    <3>1. step[a] = "channels" /\ shown' = [shown EXCEPT ![a] = @ + 1] /\ UNCHANGED alerts
      BY <2>2 DEF BroadcastAlert
    <3>2. shown[a] = 0
      BY <2>0, <3>1 DEF AlertInv, DeliveryInv
    <3>3. Lifecycle!Show(a)
      BY <3>1, <3>2 DEF Lifecycle!Show, Ids
    <3> QED BY <2>0, <3>3 DEF Lifecycle!Next
  <2>3. CASE ResolveAlert(a)
    <3>1. /\ step[a] = "resolve" /\ UNCHANGED shown
          /\ alerts' = [alerts EXCEPT ![a].resolved = TRUE] \/ UNCHANGED alerts
      BY <2>3 DEF ResolveAlert
    <3>2. CASE alerts' = [alerts EXCEPT ![a].resolved = TRUE]
      <4>1. shown[a] > 0 /\ ~alerts[a].resolved
        <5>1. alerts[a].resolved \in BOOLEAN
          BY RowType DEF AlertInv, AlertRows
        <5> QED BY <2>0, <3>1, <5>1 DEF AlertInv, DeliveryInv, RowInv, RowOf
      <4>2. Settled' = Settled \union {a} /\ Ids' = Ids
        <5> DEFINE r == [alerts[a] EXCEPT !.resolved = TRUE]
        <5>1. r \in AlertRows /\ r.resolved
          BY RowType DEF AlertInv, AlertRows
        <5>2. alerts' = [alerts EXCEPT ![a] = r]
          BY <3>2
        <5> HIDE DEF r
        <5>3. /\ Ids' = Ids /\ alerts'[a] = r /\ \A b \in Ids \ {a} : alerts'[b] = alerts[b]
          BY <5>1, <5>2, RowSet DEF AlertInv
        <5> QED BY <5>1, <5>3 DEF Settled
      <4>3. Lifecycle!Settle(a)
        BY <3>1, <4>1, <4>2 DEF Lifecycle!Settle, Settled
      <4> QED BY <2>0, <4>3 DEF Lifecycle!Next
    <3>3. CASE UNCHANGED alerts
      BY <1>2, <3>1, <3>3 DEF Ids, Settled
    <3> QED BY <3>1, <3>2, <3>3
  <2> QED BY <1>4, <2>1, <2>2, <2>3 DEF SendAlert
<1>5. ASSUME NEW a \in Ids, SnoozeAlert(a) PROVE UNCHANGED Lifecycle!vars
  <2>1. /\ alerts' = [alerts EXCEPT ![a].snoozed = TRUE] /\ UNCHANGED shown
        /\ alerts \in Seq(AlertRows)
    BY <1>5 DEF SnoozeAlert, AlertInv, TypeOK
  <2>2. /\ Ids' = Ids /\ \A b \in Ids \ {a} : alerts'[b] = alerts[b]
        /\ alerts'[a].resolved = alerts[a].resolved
    <3> DEFINE r == [alerts[a] EXCEPT !.snoozed = TRUE]
    <3>1. r \in AlertRows /\ r.resolved = alerts[a].resolved
      BY RowType DEF AlertInv, AlertRows
    <3>2. alerts' = [alerts EXCEPT ![a] = r]
      BY <2>1
    <3> HIDE DEF r
    <3> QED BY <3>1, <3>2, RowSet DEF AlertInv
  <2>3. Settled' = Settled
    BY <2>2 DEF Settled
  <2> QED BY <1>2, <2>1, <2>2, <2>3
<1>6. ASSUME UNCHANGED <<alerts, shown>> PROVE UNCHANGED Lifecycle!vars
  BY <1>2, <1>6 DEF Ids, Settled
<1>7. CASE \/ \E u \in Users, c \in Channels : UpdateChannel(u, c)
           \/ \E u \in Users, on \in BOOLEAN : UpdateNotificationsEnabled(u, on)
           \/ UNCHANGED vars
  BY <1>6, <1>7 DEF UpdateChannel, UpdateNotificationsEnabled, UpdateSettings, vars
<1> QED BY <1>3, <1>4, <1>5, <1>7 DEF Next

\* However many calls run at once and whatever they fail at, each alert goes the way of
\* AlertLifecycle: shown at most once, which is counted, settled only after it, and never
\* opened again.
THEOREM DeliveryRefinement == Spec => ImplementsAlertLifecycle
<1>1. Spec => []AlertInv
  BY AlertInit, AlertStep, PTL DEF Spec
<1>2. Init => Lifecycle!Init
  BY DEF Init, Lifecycle!Init, Ids
<1>3. AlertInv /\ [Next]_vars => [Lifecycle!Next]_(Lifecycle!vars)
  BY LifeStep
<1> QED BY <1>1, <1>2, <1>3, PTL DEF Spec, ImplementsAlertLifecycle, Lifecycle!Spec
=============================================================================
