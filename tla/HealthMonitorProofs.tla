------------------------ MODULE HealthMonitorProofs ------------------------
(***************************************************************************)
(* What HealthMonitor keeps for every set of positions, sampling rate,     *)
(* number of blocks and kind of fault.                                     *)
(***************************************************************************)
EXTENDS HealthMonitor, TLAPS

\* The actions of the loop, of a check, and of all the rest.
Loop == Subscribe \/ OnNewBlock \/ Join \/ Stop

Around ==
    \/ \E p \in Positions, row \in StoreRows : InsertPosition(p, row)
    \/ \E p \in Positions, level \in {row.level : row \in StoreRows} : UpdateHealthFactor(p, level)
    \/ \E a \in Keys : SnoozeAlert(a)
    \/ Shutdown
    \/ Crash

LEMMA NextCases == Next <=> Loop \/ (\E p \in Positions : CheckPosition(p)) \/ Around
  BY DEF Next, Loop, Around

\* Checks run only once there is a block.
BlockInv == phase = "checking" => block \in 1 .. MaxBlock

LEMMA KeyInKeys ==
  ASSUME TypeOK, BlockInv, phase = "checking", NEW p \in Positions
  PROVE  Key(p) \in Keys
  BY DEF TypeOK, BlockInv, Key, Keys

----------------------------------------------------------------------------
(* Types *)

LEMMA InitType == Init => TypeOK /\ BlockInv
<1> SUFFICES ASSUME Init PROVE TypeOK /\ BlockInv
  OBVIOUS
<1>1. NoAlert \in AlertRows
  BY DEF NoAlert, AlertRows
<1>2. alerts \in [Keys -> AlertRows]
  BY <1>1 DEF Init
<1>3. /\ store \in [Positions -> Rows \union {NoRow}]
      /\ snapshot \in [Positions -> Rows \union {NoRow}]
      /\ check \in [Positions -> Steps]
  BY DEF Init, Steps, Ended
<1>4. block \in 0 .. MaxBlock
  BY MonitorAssumption DEF Init
<1> QED BY <1>2, <1>3, <1>4 DEF Init, TypeOK, BlockInv, Phases

LEMMA StatementType ==
  ASSUME TypeOK, NEW k \in Keys
  PROVE  /\ [alerts EXCEPT ![k] = NewAlert] \in [Keys -> AlertRows]
         /\ [alerts EXCEPT ![k].simulated = TRUE] \in [Keys -> AlertRows]
         /\ [alerts EXCEPT ![k].resolved = TRUE, ![k].action = "notified"] \in [Keys -> AlertRows]
         /\ [alerts EXCEPT ![k].snoozed = TRUE, ![k].action = "snoozed"] \in [Keys -> AlertRows]
<1>1. NewAlert \in AlertRows
  BY DEF NewAlert, AlertRows
<1>2. alerts[k] \in AlertRows /\ alerts \in [Keys -> AlertRows]
  BY DEF TypeOK
<1>3. /\ [alerts[k] EXCEPT !.simulated = TRUE] \in AlertRows
      /\ [alerts[k] EXCEPT !.resolved = TRUE, !.action = "notified"] \in AlertRows
      /\ [alerts[k] EXCEPT !.snoozed = TRUE, !.action = "snoozed"] \in AlertRows
  BY <1>2 DEF AlertRows
<1> QED BY <1>1, <1>2, <1>3

LEMMA NextType == TypeOK /\ BlockInv /\ [Next]_vars => TypeOK' /\ BlockInv'
<1> SUFFICES ASSUME TypeOK, BlockInv, [Next]_vars PROVE TypeOK' /\ BlockInv'
  OBVIOUS
<1>1. CASE Loop
  <2>1. CASE Subscribe
    BY <2>1 DEF Subscribe, TypeOK, BlockInv, Phases, sends
  <2>2. CASE OnNewBlock
    <3>1. block' \in 1 .. MaxBlock
      BY <2>2, MonitorAssumption DEF OnNewBlock, TypeOK
    <3>2. snapshot' \in [Positions -> Rows \union {NoRow}]
      BY <2>2 DEF OnNewBlock, TypeOK, Active
    <3>3. check' \in [Positions -> Steps]
      BY <2>2 DEF OnNewBlock, FirstStep, Rest, Steps, Ended
    <3> QED BY <2>2, <3>1, <3>2, <3>3, MonitorAssumption DEF OnNewBlock, TypeOK, BlockInv, Phases, sends
  <2>3. CASE Join
    BY <2>3 DEF Join, TypeOK, BlockInv, Phases, sends
  <2>4. CASE Stop
    BY <2>4 DEF Stop, TypeOK, BlockInv, Phases, sends
  <2> QED BY <1>1, <2>1, <2>2, <2>3, <2>4 DEF Loop
<1>2. ASSUME NEW p \in Positions, CheckPosition(p)
      PROVE  TypeOK' /\ BlockInv'
  <2>1. /\ phase = "checking" /\ UNCHANGED <<store, loop>>
        /\ \E step \in Steps : Goto(p, step)
    BY <1>2 DEF CheckPosition, CreateAlert, SimulateRepay, AttachSimulation, Deliver,
                ResolveAlert, SendAlertToUser, InsertHealthHistory, At, Steps, Ended, Rest
  <2>2. Key(p) \in Keys
    BY <2>1, KeyInKeys
  <2>3. check' \in [Positions -> Steps]
    BY <2>1 DEF Goto, TypeOK
  <2>4. alerts' \in [Keys -> AlertRows]
    <3>1. CASE CreateAlert(p)
      <4>1. \/ alerts' = [alerts EXCEPT ![Key(p)] = NewAlert]
            \/ UNCHANGED alerts
        BY <3>1 DEF CreateAlert
      <4>2. [alerts EXCEPT ![Key(p)] = NewAlert] \in [Keys -> AlertRows]
        BY <2>2, StatementType
      <4> QED BY <4>1, <4>2 DEF TypeOK
    <3>2. CASE AttachSimulation(p)
      <4>1. \/ alerts' = [alerts EXCEPT ![Key(p)].simulated = TRUE]
            \/ UNCHANGED alerts
        BY <3>2 DEF AttachSimulation
      <4>2. [alerts EXCEPT ![Key(p)].simulated = TRUE] \in [Keys -> AlertRows]
        BY <2>2, StatementType
      <4> QED BY <4>1, <4>2 DEF TypeOK
    <3>3. CASE ResolveAlert(p)
      BY <3>3, <2>2, StatementType DEF ResolveAlert, TypeOK
    <3> QED BY <1>2, <3>1, <3>2, <3>3
          DEF CheckPosition, SimulateRepay, Deliver, SendAlertToUser, InsertHealthHistory, TypeOK
  <2>5. broadcast' \in [Keys -> Nat] /\ direct' \subseteq Keys /\ history' \subseteq Keys
    BY <1>2, <2>2
    DEF CheckPosition, CreateAlert, SimulateRepay, AttachSimulation, Deliver,
        ResolveAlert, SendAlertToUser, InsertHealthHistory, TypeOK, sends
  <2> QED BY <2>1, <2>3, <2>4, <2>5 DEF TypeOK, BlockInv, loop
<1>3. CASE Around
  <2>1. ASSUME NEW p \in Positions, NEW row \in StoreRows, InsertPosition(p, row)
        PROVE  TypeOK' /\ BlockInv'
    BY <2>1, MonitorAssumption DEF InsertPosition, TypeOK, BlockInv, loop, sends
  <2>2. ASSUME NEW p \in Positions, NEW row \in StoreRows, UpdateHealthFactor(p, row.level)
        PROVE  TypeOK' /\ BlockInv'
    <3>1. row.level \in Levels /\ store[p] \in Rows
      BY <2>2, MonitorAssumption DEF UpdateHealthFactor, TypeOK, Rows
    <3>2. [store[p] EXCEPT !.level = row.level] \in Rows
      BY <3>1 DEF Rows
    <3>3. store' = [store EXCEPT ![p] = [store[p] EXCEPT !.level = row.level]]
      BY <2>2 DEF UpdateHealthFactor
    <3> QED BY <2>2, <3>2, <3>3 DEF UpdateHealthFactor, TypeOK, BlockInv, loop, sends
  <2>3. ASSUME NEW a \in Keys, SnoozeAlert(a)
        PROVE  TypeOK' /\ BlockInv'
    <3>1. alerts' \in [Keys -> AlertRows]
      BY <2>3, StatementType DEF SnoozeAlert
    <3> QED BY <2>3, <3>1 DEF SnoozeAlert, TypeOK, BlockInv, loop, sends
  <2>4. CASE Shutdown
    BY <2>4 DEF Shutdown, TypeOK, BlockInv, sends
  <2>5. CASE Crash
    BY <2>5 DEF Crash, TypeOK, BlockInv, Phases, sends
  <2> QED BY <1>3, <2>1, <2>2, <2>3, <2>4, <2>5 DEF Around
<1>4. CASE UNCHANGED vars
  BY <1>4 DEF vars, TypeOK, BlockInv, loop, sends
<1> QED BY <1>1, <1>2, <1>3, <1>4, NextCases

\* Every variable keeps its type.
THEOREM TypeCorrect == Spec => []TypeOK
<1>1. Spec => [](TypeOK /\ BlockInv)
  BY InitType, NextType, PTL DEF Spec
<1> QED BY <1>1, PTL

LEMMA BlocksCounted == Spec => [](TypeOK /\ BlockInv)
  BY InitType, NextType, PTL DEF Spec

\* What a broadcast does to what has been shown.
LEMMA ShownCounts ==
  ASSUME TypeOK
  PROVE  /\ UNCHANGED broadcast => UNCHANGED Shown
         /\ \A k \in Keys : /\ k \in Shown <=> broadcast[k] > 0
                            /\ k \notin Shown <=> broadcast[k] = 0
                            /\ broadcast' = [broadcast EXCEPT ![k] = @ + 1] => Shown' = Shown \union {k}
BY DEF TypeOK, Shown

----------------------------------------------------------------------------
(* An alert is resolved only after its delivery *)

Delivered == \A p \in Positions : check[p] \in {"resolve", "notify"} => Key(p) \in Shown

DeliveredInv == Delivered /\ UndeliveredStaysPending

LEMMA InitDelivered == Init => DeliveredInv
  BY DEF Init, DeliveredInv, Delivered, UndeliveredStaysPending, NoAlert

LEMMA NextDelivered ==
  ASSUME TypeOK, BlockInv, DeliveredInv, [Next]_vars
  PROVE  DeliveredInv'
<1>1. CASE Loop
  <2>1. CASE OnNewBlock
    <3>1. \A p \in Positions : check'[p] \notin {"resolve", "notify"}
      BY <2>1 DEF OnNewBlock, FirstStep, Rest
    <3> QED BY <2>1, <3>1, ShownCounts DEF OnNewBlock, DeliveredInv, Delivered, UndeliveredStaysPending, sends
  <2> QED BY <1>1, <2>1, ShownCounts
        DEF Loop, Subscribe, Join, Stop, DeliveredInv, Delivered, UndeliveredStaysPending, Key, sends
<1>2. ASSUME NEW p \in Positions, CheckPosition(p)
      PROVE  DeliveredInv'
  <2>0. Key(p) \in Keys
    BY <1>2, KeyInKeys DEF CheckPosition, CreateAlert, SimulateRepay, AttachSimulation, Deliver,
                           ResolveAlert, SendAlertToUser, InsertHealthHistory, At
  <2>1. UNCHANGED loop /\ \A q \in Positions : Key(q)' = Key(q)
    BY <1>2 DEF CheckPosition, CreateAlert, SimulateRepay, AttachSimulation, Deliver,
                ResolveAlert, SendAlertToUser, InsertHealthHistory, Key, loop
  <2>2. \A q \in Positions \ {p} : check'[q] = check[q]
    BY <1>2 DEF CheckPosition, CreateAlert, SimulateRepay, AttachSimulation, Deliver,
                ResolveAlert, SendAlertToUser, InsertHealthHistory, Goto, TypeOK
  <2>3. Shown \subseteq Shown'
    BY <1>2, <2>0 DEF CheckPosition, CreateAlert, SimulateRepay, AttachSimulation, Deliver,
                ResolveAlert, SendAlertToUser, InsertHealthHistory, sends, Shown, TypeOK
  <2>4. check'[p] \in {"resolve", "notify"} => Key(p) \in Shown'
    BY <1>2, <2>0, ShownCounts
    DEF CheckPosition, CreateAlert, SimulateRepay, AttachSimulation, Deliver, ResolveAlert,
        SendAlertToUser, InsertHealthHistory, At, Goto, Rest, TypeOK, DeliveredInv, Delivered, sends
  <2>5. Delivered'
    BY <2>1, <2>2, <2>3, <2>4 DEF DeliveredInv, Delivered
  <2>6. \A a \in Keys : alerts'[a].resolved => alerts[a].resolved \/ a \in Shown'
    <3>1. CASE CreateAlert(p)
      BY <3>1, <2>0 DEF CreateAlert, TypeOK, NewAlert
    <3>2. CASE AttachSimulation(p)
      BY <3>2, <2>0 DEF AttachSimulation, TypeOK, AlertRows
    <3>3. CASE ResolveAlert(p)
      BY <3>3, <2>0, <2>3 DEF ResolveAlert, At, DeliveredInv, Delivered, TypeOK, AlertRows, sends
    <3> QED BY <1>2, <3>1, <3>2, <3>3
          DEF CheckPosition, SimulateRepay, Deliver, SendAlertToUser, InsertHealthHistory
  <2> QED BY <2>3, <2>5, <2>6 DEF DeliveredInv, UndeliveredStaysPending
<1>3. CASE Around
  <2>1. UNCHANGED <<block, check, broadcast>>
    BY <1>3 DEF Around, InsertPosition, UpdateHealthFactor, SnoozeAlert, Shutdown, Crash, loop, sends
  <2>2. \A a \in Keys : alerts'[a].resolved = alerts[a].resolved
    <3>1. ASSUME NEW b \in Keys, SnoozeAlert(b)
          PROVE  \A a \in Keys : alerts'[a].resolved = alerts[a].resolved
      BY <3>1 DEF SnoozeAlert, TypeOK, AlertRows
    <3>2. UNCHANGED alerts \/ \E b \in Keys : SnoozeAlert(b)
      BY <1>3 DEF Around, InsertPosition, UpdateHealthFactor, Shutdown, Crash
    <3> QED BY <3>1, <3>2
  <2> QED BY <2>1, <2>2, ShownCounts DEF DeliveredInv, Delivered, UndeliveredStaysPending, Key
<1>4. CASE UNCHANGED vars
  BY <1>4, ShownCounts DEF vars, DeliveredInv, Delivered, UndeliveredStaysPending, Key, loop, sends
<1> QED BY <1>1, <1>2, <1>3, <1>4, NextCases

\* Whatever fails, an alert nobody was sent stays in its user's list.
THEOREM Delivery == Spec => []UndeliveredStaysPending
<1>1. Spec => []DeliveredInv
  BY BlocksCounted, InitDelivered, NextDelivered, PTL DEF Spec
<1> QED BY <1>1, PTL DEF DeliveredInv

----------------------------------------------------------------------------
(* A block serves every position it looked at *)

\* How far the check of a low position has got.
Created == {"simulate", "attach", "deliver", "resolve", "notify", "history", "done"}
Announced == {"resolve", "notify", "history", "done"}

\* What the check of p has done by the step it stands at.
Progress(p) ==
    /\ check[p] = "none" => snapshot[p] = NoRow
    /\ snapshot[p] # NoRow => block # 0
    /\ snapshot[p] # NoRow /\ snapshot[p].level = "low" =>
          /\ check[p] \in Created => alerts[Key(p)].exists
          /\ check[p] \in Announced => Key(p) \in Shown
          /\ check[p] \in {"history", "done"} => Key(p) \in direct
    /\ check[p] = "done" /\ Sampled(block) => Key(p) \in history
    /\ check[p] = "failed" => Faults \intersect {"db_refused", "db_lost"} # {}

JoinedInv == phase \in {"starting", "idle"} => \A p \in Positions : check[p] \in Ended

ProgressInv == JoinedInv /\ \A p \in Positions : Progress(p)

LEMMA InitProgress == Init => ProgressInv
  BY DEF Init, ProgressInv, JoinedInv, Progress, Ended, Created, Announced

\* A check that does not move loses nothing.
LEMMA ProgressKept ==
  ASSUME NEW p \in Positions, Progress(p), UNCHANGED <<block, snapshot>>, check'[p] = check[p],
         snapshot[p] # NoRow /\ alerts[Key(p)].exists => alerts'[Key(p)].exists,
         Shown \subseteq Shown', direct \subseteq direct', history \subseteq history'
  PROVE  Progress(p)'
  BY DEF Progress, Key

LEMMA NextProgress ==
  ASSUME TypeOK, BlockInv, ProgressInv, [Next]_vars
  PROVE  ProgressInv'
<1>1. CASE Loop
  <2>1. CASE OnNewBlock
    <3>1. ASSUME NEW p \in Positions PROVE Progress(p)'
      <4>1. check'[p] = FirstStep(snapshot'[p], block')
        BY <2>1 DEF OnNewBlock
      <4>0. block' # 0
        BY <2>1 DEF OnNewBlock, TypeOK
      <4>2. CASE snapshot'[p] = NoRow
        BY <4>1, <4>2 DEF FirstStep, Progress
      <4>3. CASE snapshot'[p] # NoRow /\ snapshot'[p].level = "low"
        BY <4>0, <4>1, <4>3 DEF FirstStep, Progress, Created, Announced
      <4>4. CASE snapshot'[p] # NoRow /\ snapshot'[p].level # "low"
        BY <4>0, <4>1, <4>4 DEF FirstStep, Rest, Progress
      <4> QED BY <4>2, <4>3, <4>4
    <3>2. phase' = "checking"
      BY <2>1 DEF OnNewBlock
    <3> QED BY <3>1, <3>2 DEF ProgressInv, JoinedInv
  <2>2. CASE Subscribe \/ Join \/ Stop
    <3>1. UNCHANGED <<block, snapshot, check, alerts, broadcast, direct, history>>
      BY <2>2 DEF Subscribe, Join, Stop, sends
    <3>2. \A p \in Positions : Progress(p)'
      BY <3>1, ShownCounts DEF ProgressInv, Progress, Key
    <3>3. JoinedInv'
      <4>1. CASE Subscribe
        BY <4>1 DEF Subscribe, ProgressInv, JoinedInv
      <4>2. CASE Join \/ Stop
        BY <4>2 DEF Join, Stop, JoinedInv
      <4> QED BY <2>2, <4>1, <4>2
    <3> QED BY <3>2, <3>3 DEF ProgressInv
  <2> QED BY <1>1, <2>1, <2>2 DEF Loop
<1>2. ASSUME NEW p \in Positions, CheckPosition(p)
      PROVE  ProgressInv'
  <2> DEFINE k == Key(p)
  <2>0. k \in Keys
    BY <1>2, KeyInKeys DEF CheckPosition, CreateAlert, SimulateRepay, AttachSimulation, Deliver,
                           ResolveAlert, SendAlertToUser, InsertHealthHistory, At
  <2>1. UNCHANGED <<phase, block, snapshot>> /\ phase = "checking" /\ k' = k
    BY <1>2 DEF CheckPosition, CreateAlert, SimulateRepay, AttachSimulation, Deliver,
                ResolveAlert, SendAlertToUser, InsertHealthHistory, At, Key, loop
  <2>2. /\ Shown \subseteq Shown' /\ direct \subseteq direct' /\ history \subseteq history'
        /\ \A q \in Positions \ {p} : check'[q] = check[q]
    BY <1>2, <2>0, ShownCounts
    DEF CheckPosition, CreateAlert, SimulateRepay, AttachSimulation, Deliver,
        ResolveAlert, SendAlertToUser, InsertHealthHistory, Goto, TypeOK, sends
  <2>3. \A a \in Keys : alerts[a].exists => alerts'[a].exists
    <3>1. CASE CreateAlert(p)
      BY <3>1, <2>0 DEF CreateAlert, TypeOK, NewAlert
    <3>2. CASE AttachSimulation(p)
      BY <3>2, <2>0 DEF AttachSimulation, TypeOK, AlertRows
    <3>3. CASE ResolveAlert(p)
      BY <3>3, <2>0 DEF ResolveAlert, TypeOK, AlertRows
    <3> QED BY <1>2, <3>1, <3>2, <3>3
          DEF CheckPosition, SimulateRepay, Deliver, SendAlertToUser, InsertHealthHistory
  <2>4. ASSUME NEW q \in Positions \ {p} PROVE Progress(q)'
    <3>1. Key(q) \in Keys
      BY <2>1, KeyInKeys
    <3> QED BY <2>1, <2>2, <2>3, <3>1, ProgressKept DEF ProgressInv
  <2>5. Progress(p)'
    <3> USE DEF ProgressInv, Progress, At, Goto, TypeOK, Created, Announced
    <3>1. CASE CreateAlert(p)
      BY <2>0, <2>1, <3>1 DEF CreateAlert, NewAlert, Applied, Refused
    <3>2. CASE SimulateRepay(p)
      BY <2>1, <3>2 DEF SimulateRepay
    <3>3. CASE AttachSimulation(p)
      BY <2>0, <2>1, <2>2, <2>3, <3>3 DEF AttachSimulation, Applied, Refused, sends
    <3>4. CASE Deliver(p)
      BY <2>0, <2>1, <3>4, ShownCounts DEF Deliver
    <3>5. CASE ResolveAlert(p)
      BY <2>0, <2>1, <2>2, <2>3, <3>5 DEF ResolveAlert, sends
    <3>6. CASE SendAlertToUser(p)
      BY <2>1, <2>2, <3>6 DEF SendAlertToUser, Rest
    <3>7. CASE InsertHealthHistory(p)
      BY <2>1, <2>2, <3>7 DEF InsertHealthHistory, Applied, Refused, sends
    <3> QED BY <1>2, <3>1, <3>2, <3>3, <3>4, <3>5, <3>6, <3>7 DEF CheckPosition
  <2> QED BY <2>1, <2>4, <2>5 DEF ProgressInv, JoinedInv
<1>3. CASE Around
  <2>1. /\ UNCHANGED <<block, snapshot, check, broadcast, direct, history>>
        /\ phase' \in {"starting", "idle"} => phase \in {"starting", "idle"}
    BY <1>3 DEF Around, InsertPosition, UpdateHealthFactor, SnoozeAlert, Shutdown, Crash, loop, sends
  <2>2. \A a \in Keys : alerts'[a].exists = alerts[a].exists
    <3>1. ASSUME NEW b \in Keys, SnoozeAlert(b)
          PROVE  \A a \in Keys : alerts'[a].exists = alerts[a].exists
      BY <3>1 DEF SnoozeAlert, TypeOK, AlertRows
    <3>2. UNCHANGED alerts \/ \E b \in Keys : SnoozeAlert(b)
      BY <1>3 DEF Around, InsertPosition, UpdateHealthFactor, Shutdown, Crash
    <3> QED BY <3>1, <3>2
  <2>3. ASSUME NEW p \in Positions PROVE Progress(p)'
    <3>1. snapshot[p] # NoRow => Key(p) \in Keys
      BY DEF ProgressInv, Progress, TypeOK, Key, Keys
    <3> QED BY <2>1, <2>2, <3>1, ProgressKept, ShownCounts DEF ProgressInv
  <2> QED BY <2>1, <2>3 DEF ProgressInv, JoinedInv
<1>4. CASE UNCHANGED vars
  BY <1>4, ShownCounts DEF vars, ProgressInv, JoinedInv, Progress, Key, loop, sends
<1> QED BY <1>1, <1>2, <1>3, <1>4, NextCases

LEMMA Joined == ASSUME ProgressInv PROVE BlockIsComplete
  BY DEF ProgressInv, JoinedInv, Progress, BlockIsComplete, Served, Ended, Created, Announced

\* Between two blocks every position of the last one has been served, unless one of
\* its statements failed.
THEOREM Completeness == Spec => []BlockIsComplete
<1>1. Spec => []ProgressInv
  BY BlocksCounted, InitProgress, NextProgress, PTL DEF Spec
<1> QED BY <1>1, Joined, PTL

----------------------------------------------------------------------------
(* The checks implement the life cycle of an alert *)

Stored == {a \in Keys : alerts[a].exists}
Simulated == {a \in Keys : alerts[a].simulated}
Settled == {a \in Keys : alerts[a].resolved}

\* What the check of p finds of its alert: each of its steps is the first of its kind.
LifeAt(p) ==
    /\ check[p] = "create" => Key(p) \notin Stored
    /\ check[p] \in {"simulate", "attach", "deliver"} => Key(p) \in Stored \ Shown
    /\ check[p] \in {"simulate", "attach"} => Key(p) \notin Simulated
    /\ check[p] = "resolve" => Key(p) \in Shown \ Settled

\* No block but those so far has alerts.
LifeInv ==
    /\ Simulated \subseteq Stored /\ Shown \subseteq Stored /\ Settled \subseteq Shown
    /\ \A a \in Stored : a[2] <= block
    /\ phase = "checking" => \A p \in Positions : LifeAt(p)

LEMMA InitLife == Init => LifeInv /\ Lifecycle!Init
BY DEF Init, LifeInv, Lifecycle!Init, Stored, Simulated, Shown, Settled, NoAlert

\* What the statements of a check, and a snooze, do to the three sets.
LEMMA StatementLife ==
  ASSUME TypeOK, NEW k \in Keys
  PROVE  /\ alerts' = [alerts EXCEPT ![k] = NewAlert] =>
               /\ Stored' = Stored \union {k}
               /\ Simulated' = Simulated \ {k} /\ Settled' = Settled \ {k}
         /\ alerts' = [alerts EXCEPT ![k].simulated = TRUE] =>
               Stored' = Stored /\ Simulated' = Simulated \union {k} /\ Settled' = Settled
         /\ alerts' = [alerts EXCEPT ![k].resolved = TRUE, ![k].action = "notified"] =>
               Stored' = Stored /\ Simulated' = Simulated /\ Settled' = Settled \union {k}
         /\ alerts' = [alerts EXCEPT ![k].snoozed = TRUE, ![k].action = "snoozed"] =>
               Stored' = Stored /\ Simulated' = Simulated /\ Settled' = Settled
         /\ alerts' = alerts => Stored' = Stored /\ Simulated' = Simulated /\ Settled' = Settled
<1>1. alerts \in [Keys -> AlertRows]
  BY DEF TypeOK
<1>2. ASSUME alerts' = [alerts EXCEPT ![k] = NewAlert]
      PROVE  /\ Stored' = Stored \union {k}
             /\ Simulated' = Simulated \ {k} /\ Settled' = Settled \ {k}
  BY <1>1, <1>2 DEF AlertRows, NewAlert, Stored, Simulated, Settled
<1>3. ASSUME alerts' = [alerts EXCEPT ![k].simulated = TRUE]
      PROVE  Stored' = Stored /\ Simulated' = Simulated \union {k} /\ Settled' = Settled
  BY <1>1, <1>3 DEF AlertRows, Stored, Simulated, Settled
<1>4. ASSUME alerts' = [alerts EXCEPT ![k].resolved = TRUE, ![k].action = "notified"]
      PROVE  Stored' = Stored /\ Simulated' = Simulated /\ Settled' = Settled \union {k}
  BY <1>1, <1>4 DEF AlertRows, Stored, Simulated, Settled
<1>5. ASSUME alerts' = [alerts EXCEPT ![k].snoozed = TRUE, ![k].action = "snoozed"]
      PROVE  Stored' = Stored /\ Simulated' = Simulated /\ Settled' = Settled
  BY <1>1, <1>5 DEF AlertRows, Stored, Simulated, Settled
<1>6. alerts' = alerts => Stored' = Stored /\ Simulated' = Simulated /\ Settled' = Settled
  BY DEF Stored, Simulated, Settled
<1> QED BY <1>2, <1>3, <1>4, <1>5, <1>6

\* A step of the check of p concerns the alert of p and no other.
Own(p) ==
    /\ Stored' \ {Key(p)} = Stored \ {Key(p)} /\ Simulated' \ {Key(p)} = Simulated \ {Key(p)}
    /\ Shown' \ {Key(p)} = Shown \ {Key(p)} /\ Settled' \ {Key(p)} = Settled \ {Key(p)}

\* The five ways in which a check can change what its alert is about.
Moves(p) ==
    \/ UNCHANGED <<Stored, Simulated, broadcast, Settled>>
    \/ Lifecycle!Store(Key(p)) \/ Lifecycle!Attach(Key(p)) \/ Lifecycle!Show(Key(p))
    \/ Lifecycle!Settle(Key(p))

LEMMA CheckLife ==
  ASSUME TypeOK, BlockInv, LifeInv, NEW p \in Positions, CheckPosition(p)
  PROVE  LifeAt(p)' /\ Moves(p)
<1> DEFINE k == Key(p)
<1>1. phase = "checking" /\ k \in Keys /\ k' = k
  BY KeyInKeys DEF CheckPosition, CreateAlert, SimulateRepay, AttachSimulation, Deliver,
                   ResolveAlert, SendAlertToUser, InsertHealthHistory, At, Key, loop
<1>2. /\ Simulated \subseteq Stored /\ Shown \subseteq Stored /\ Settled \subseteq Shown
      /\ LifeAt(p)
  BY <1>1 DEF LifeInv
<1>3. \A step : Goto(p, step) => check'[p] = step
  BY DEF Goto, TypeOK
<1> USE DEF At
<1>4. CASE CreateAlert(p)
  <2>1. /\ check[p] = "create" /\ UNCHANGED <<broadcast, Shown>>
        /\ check'[p] \in {"simulate", "failed"}
        /\ \/ alerts' = [alerts EXCEPT ![k] = NewAlert]
           \/ UNCHANGED alerts /\ check'[p] = "failed"
    BY <1>3, <1>4, ShownCounts DEF CreateAlert, Refused, sends
  <2>2. k \notin Stored /\ k \notin Simulated /\ k \notin Settled /\ k \notin Shown
    BY <1>2, <2>1 DEF LifeAt
  <2>3. CASE alerts' = [alerts EXCEPT ![k] = NewAlert]
    <3>0. /\ Stored' = Stored \union {k}
          /\ Simulated' = Simulated \ {k} /\ Settled' = Settled \ {k}
      BY <1>1, <2>3, StatementLife
    <3>1. Stored' = Stored \union {k} /\ Simulated' = Simulated /\ Settled' = Settled
      BY <2>2, <3>0
    <3>2. LifeAt(p)'
      BY <1>1, <2>1, <2>2, <3>1 DEF LifeAt
    <3>3. Lifecycle!Store(k)
      BY <2>1, <2>2, <3>1 DEF Lifecycle!Store, Stored, Simulated, Settled
    <3> QED BY <3>2, <3>3 DEF Moves
  <2>4. CASE UNCHANGED alerts /\ check'[p] = "failed"
    <3>1. UNCHANGED <<Stored, Simulated, broadcast, Settled>>
      BY <2>1, <2>4 DEF Stored, Simulated, Settled
    <3> QED BY <2>4, <3>1 DEF LifeAt, Moves
  <2> QED BY <2>1, <2>3, <2>4
<1>5. CASE SimulateRepay(p)
  <2>1. UNCHANGED <<Stored, Simulated, broadcast, Shown, Settled>>
    BY <1>5, ShownCounts DEF SimulateRepay, Stored, Simulated, Settled, sends
  <2>2. check[p] = "simulate" /\ check'[p] \in {"attach", "deliver"}
    BY <1>3, <1>5 DEF SimulateRepay
  <2> QED BY <1>1, <1>2, <2>1, <2>2 DEF LifeAt, Moves
<1>6. CASE AttachSimulation(p)
  <2>1. /\ check[p] = "attach" /\ UNCHANGED <<broadcast, Shown>>
        /\ check'[p] \in {"deliver", "failed"}
        /\ \/ alerts' = [alerts EXCEPT ![k].simulated = TRUE]
           \/ UNCHANGED alerts
    BY <1>3, <1>6, ShownCounts DEF AttachSimulation, sends
  <2>2. k \in Stored /\ k \notin Simulated /\ k \notin Shown /\ broadcast[k] = 0
    BY <1>1, <1>2, <2>1, ShownCounts DEF LifeAt
  <2>3. CASE alerts' = [alerts EXCEPT ![k].simulated = TRUE]
    <3>1. Stored' = Stored /\ Simulated' = Simulated \union {k} /\ Settled' = Settled
      BY <1>1, <2>3, StatementLife
    <3>2. LifeAt(p)'
      BY <1>1, <2>1, <2>2, <3>1 DEF LifeAt
    <3>3. Lifecycle!Attach(k)
      BY <2>1, <2>2, <3>1 DEF Lifecycle!Attach, Stored, Simulated, Settled
    <3> QED BY <3>2, <3>3 DEF Moves
  <2>4. CASE UNCHANGED alerts
    <3>1. UNCHANGED <<Stored, Simulated, broadcast, Settled>>
      BY <2>1, <2>4 DEF Stored, Simulated, Settled
    <3> QED BY <1>1, <2>1, <2>2, <3>1 DEF LifeAt, Moves
  <2> QED BY <2>1, <2>3, <2>4
<1>7. CASE Deliver(p)
  <2>1. /\ check[p] = "deliver" /\ check'[p] = "resolve" /\ broadcast' = [broadcast EXCEPT ![k] = @ + 1]
        /\ Shown' = Shown \union {k} /\ UNCHANGED <<Stored, Simulated, Settled>>
    BY <1>1, <1>3, <1>7, ShownCounts DEF Deliver, Stored, Simulated, Settled
  <2>2. k \in Stored \ Shown /\ broadcast[k] = 0 /\ k \notin Settled
    BY <1>1, <1>2, <2>1, ShownCounts DEF LifeAt
  <2>3. Lifecycle!Show(k)
    BY <2>1, <2>2 DEF Lifecycle!Show, Stored, Simulated, Settled
  <2> QED BY <1>1, <2>1, <2>2, <2>3 DEF LifeAt, Moves
<1>8. CASE ResolveAlert(p)
  <2>1. /\ check[p] = "resolve" /\ check'[p] = "notify" /\ UNCHANGED <<broadcast, Shown>>
        /\ \/ alerts' = [alerts EXCEPT ![k].resolved = TRUE, ![k].action = "notified"]
           \/ UNCHANGED alerts
    BY <1>3, <1>8, ShownCounts DEF ResolveAlert, sends
  <2>2. k \in Shown \ Settled /\ broadcast[k] > 0
    BY <1>1, <1>2, <2>1, ShownCounts DEF LifeAt
  <2>3. CASE alerts' = [alerts EXCEPT ![k].resolved = TRUE, ![k].action = "notified"]
    <3>1. Stored' = Stored /\ Simulated' = Simulated /\ Settled' = Settled \union {k}
      BY <1>1, <2>3, StatementLife
    <3>2. Lifecycle!Settle(k)
      BY <2>1, <2>2, <3>1 DEF Lifecycle!Settle, Stored, Simulated, Settled
    <3> QED BY <2>1, <3>2 DEF LifeAt, Moves
  <2>4. CASE UNCHANGED alerts
    <3>1. UNCHANGED <<Stored, Simulated, broadcast, Settled>>
      BY <2>1, <2>4 DEF Stored, Simulated, Settled
    <3> QED BY <2>1, <3>1 DEF LifeAt, Moves
  <2> QED BY <2>1, <2>3, <2>4
<1>9. CASE SendAlertToUser(p) \/ InsertHealthHistory(p)
  <2>1. UNCHANGED <<Stored, Simulated, broadcast, Shown, Settled>>
    BY <1>9, ShownCounts DEF SendAlertToUser, InsertHealthHistory, Stored, Simulated, Settled, sends
  <2>2. check'[p] \in {"history", "done", "failed"}
    BY <1>3, <1>9 DEF SendAlertToUser, InsertHealthHistory, Rest
  <2> QED BY <2>1, <2>2 DEF LifeAt, Moves
<1> QED BY <1>4, <1>5, <1>6, <1>7, <1>8, <1>9 DEF CheckPosition

LEMMA NextLife ==
  ASSUME TypeOK, BlockInv, LifeInv, [Next]_vars
  PROVE  LifeInv' /\ [Lifecycle!Next]_(Lifecycle!vars)
<1>1. ASSUME UNCHANGED <<alerts, broadcast>>
      PROVE  UNCHANGED <<Stored, Simulated, broadcast, Shown, Settled>> /\ UNCHANGED Lifecycle!vars
  BY <1>1, ShownCounts DEF Stored, Simulated, Settled, Lifecycle!vars
<1>2. CASE Loop
  <2>1. UNCHANGED <<Stored, Simulated, broadcast, Shown, Settled>> /\ UNCHANGED Lifecycle!vars
    BY <1>1, <1>2 DEF Loop, Subscribe, OnNewBlock, Join, Stop, sends
  <2>2. CASE OnNewBlock
    <3>1. block \in Nat /\ block' = block + 1
      BY <2>2 DEF OnNewBlock, TypeOK
    <3>2. \A a \in Stored' : a[2] <= block'
      <4> SUFFICES ASSUME NEW a \in Stored PROVE a[2] <= block + 1
        BY <2>1, <3>1
      <4>1. a[2] \in Nat
        BY DEF Stored, Keys
      <4> QED BY <3>1, <4>1 DEF LifeInv
    <3>3. ASSUME NEW p \in Positions PROVE LifeAt(p)'
      <4>1. check'[p] \in {"none", "create", "history", "done"}
        BY <2>2 DEF OnNewBlock, FirstStep, Rest
      <4>2. Key(p)' \notin Stored
        BY <3>1 DEF LifeInv, Key
      <4> QED BY <2>1, <4>1, <4>2 DEF LifeAt
    <3> QED BY <2>1, <3>2, <3>3 DEF LifeInv
  <2>3. CASE Subscribe \/ Join \/ Stop
    BY <2>1, <2>3 DEF Subscribe, Join, Stop, LifeInv
  <2> QED BY <1>2, <2>1, <2>2, <2>3 DEF Loop
<1>3. ASSUME NEW p \in Positions, CheckPosition(p)
      PROVE  LifeInv' /\ [Lifecycle!Next]_(Lifecycle!vars)
  <2>1. LifeAt(p)' /\ Moves(p)
    BY <1>3, CheckLife
  <2>2. /\ phase = "checking" /\ UNCHANGED <<phase, block>> /\ Key(p) \in Keys
        /\ \A q \in Positions : Key(q)' = Key(q)
        /\ \A q \in Positions \ {p} : check'[q] = check[q]
    BY <1>3, KeyInKeys DEF CheckPosition, CreateAlert, SimulateRepay, AttachSimulation, Deliver,
                ResolveAlert, SendAlertToUser, InsertHealthHistory, At, Goto, Key, loop, TypeOK
  <2>3. [Lifecycle!Next]_(Lifecycle!vars)
    <3>1. UNCHANGED <<Stored, Simulated, broadcast, Settled>> => UNCHANGED Lifecycle!vars
      BY DEF Stored, Simulated, Settled, Lifecycle!vars
    <3>2. CASE UNCHANGED <<Stored, Simulated, broadcast, Settled>>
      BY <3>1, <3>2
    <3>3. CASE ~UNCHANGED <<Stored, Simulated, broadcast, Settled>>
      <4>1. \/ Lifecycle!Store(Key(p)) \/ Lifecycle!Attach(Key(p)) \/ Lifecycle!Show(Key(p))
            \/ Lifecycle!Settle(Key(p))
        BY <2>1, <3>3 DEF Moves
      <4>2. Lifecycle!Next
        BY <2>2, <4>1 DEF Lifecycle!Next, Lifecycle!Store, Lifecycle!Attach, Lifecycle!Show, Lifecycle!Settle
      <4> QED BY <4>2
    <3> QED BY <3>2, <3>3
  <2>4. /\ Own(p)
        /\ Simulated' \subseteq Stored' /\ Shown' \subseteq Stored' /\ Settled' \subseteq Shown'
    <3>1. Simulated \subseteq Stored /\ Shown \subseteq Stored /\ Settled \subseteq Shown
      BY DEF LifeInv
    <3>2. CASE UNCHANGED <<Stored, Simulated, broadcast, Settled>>
      BY <3>1, <3>2, ShownCounts DEF Own
    <3>3. CASE Lifecycle!Store(Key(p))
      <4>1. Stored' = Stored \union {Key(p)} /\ UNCHANGED <<Simulated, Shown, Settled>>
        BY <3>3, ShownCounts DEF Lifecycle!Store, Stored, Simulated, Settled
      <4> QED BY <3>1, <4>1 DEF Own
    <3>4. CASE Lifecycle!Attach(Key(p))
      <4>1. /\ Simulated' = Simulated \union {Key(p)} /\ Key(p) \in Stored
            /\ UNCHANGED <<Stored, Shown, Settled>>
        BY <3>4, ShownCounts DEF Lifecycle!Attach, Stored, Simulated, Settled
      <4> QED BY <3>1, <4>1 DEF Own
    <3>5. CASE Lifecycle!Show(Key(p))
      <4>1. /\ Shown' = Shown \union {Key(p)} /\ Key(p) \in Stored
            /\ UNCHANGED <<Stored, Simulated, Settled>>
        BY <2>2, <3>5, ShownCounts DEF Lifecycle!Show, Stored, Simulated, Settled
      <4> QED BY <3>1, <4>1 DEF Own
    <3>6. CASE Lifecycle!Settle(Key(p))
      <4>1. /\ Settled' = Settled \union {Key(p)} /\ Key(p) \in Shown
            /\ UNCHANGED <<Stored, Simulated, Shown>>
        BY <2>2, <3>6, ShownCounts DEF Lifecycle!Settle, Stored, Simulated, Settled
      <4> QED BY <3>1, <4>1 DEF Own
    <3> QED BY <2>1, <3>2, <3>3, <3>4, <3>5, <3>6 DEF Moves
  <2>5. ASSUME NEW q \in Positions PROVE LifeAt(q)'
    <3>1. CASE q = p
      BY <2>1, <3>1
    <3>2. CASE q # p
      <4>1. Key(q) # Key(p)
        BY <3>2 DEF Key
      <4>2. LifeAt(q)
        BY <2>2 DEF LifeInv
      <4> QED BY <2>2, <2>4, <3>2, <4>1, <4>2 DEF LifeAt, Own
    <3> QED BY <3>1, <3>2
  <2>6. \A a \in Stored' : a[2] <= block'
    <3>1. block \in Nat /\ Key(p)[2] = block
      BY DEF TypeOK, Key
    <3>2. \A a \in Stored : a[2] <= block
      BY DEF LifeInv
    <3> QED BY <2>2, <2>4, <3>1, <3>2 DEF Own
  <2> QED BY <2>2, <2>3, <2>4, <2>5, <2>6 DEF LifeInv
<1>4. CASE Around
  <2>1. UNCHANGED <<block, check, broadcast>> /\ (phase' = "checking" => phase = "checking")
    BY <1>4 DEF Around, InsertPosition, UpdateHealthFactor, SnoozeAlert, Shutdown, Crash, loop, sends
  <2>2. UNCHANGED <<Stored, Simulated, Shown, Settled>>
    <3>0. UNCHANGED Shown
      BY <2>1, ShownCounts
    <3>1. ASSUME NEW b \in Keys, SnoozeAlert(b) PROVE UNCHANGED <<Stored, Simulated, Settled>>
      BY <3>1, StatementLife DEF SnoozeAlert
    <3>2. CASE UNCHANGED alerts
      BY <3>0, <3>2 DEF Stored, Simulated, Settled
    <3>3. UNCHANGED alerts \/ \E b \in Keys : SnoozeAlert(b)
      BY <1>4 DEF Around, InsertPosition, UpdateHealthFactor, Shutdown, Crash
    <3> QED BY <3>0, <3>1, <3>2, <3>3
  <2>3. UNCHANGED Lifecycle!vars
    BY <2>1, <2>2 DEF Stored, Simulated, Settled, Lifecycle!vars
  <2>4. \A p \in Positions : LifeAt(p) => LifeAt(p)'
    BY <2>1, <2>2 DEF LifeAt, Key
  <2> QED BY <2>1, <2>2, <2>3, <2>4 DEF LifeInv
<1>5. CASE UNCHANGED vars
  <2>1. UNCHANGED <<Stored, Simulated, broadcast, Shown, Settled>> /\ UNCHANGED Lifecycle!vars
    BY <1>1, <1>5 DEF vars, sends
  <2> QED BY <1>5, <2>1 DEF vars, loop, sends, LifeInv, LifeAt, Key
<1> QED BY <1>2, <1>3, <1>4, <1>5, NextCases

\* Whatever fails, whenever it dies and however users snooze, the monitor is an
\* implementation of AlertLifecycle.
THEOREM AlertRefinement == Spec => ImplementsAlertLifecycle
<1>1. Spec => []LifeInv
  BY BlocksCounted, InitLife, NextLife, PTL DEF Spec
<1>2. TypeOK /\ BlockInv /\ LifeInv /\ [Next]_vars => [Lifecycle!Next]_(Lifecycle!vars)
  BY NextLife
<1>3. Init => Lifecycle!Init
  BY InitLife
<1> QED BY <1>1, <1>2, <1>3, BlocksCounted, PTL DEF Spec, ImplementsAlertLifecycle, Lifecycle!Spec
=============================================================================
