-------------------------- MODULE LpMonitorProofs ---------------------------
(***************************************************************************)
(* Proofs that a round of the LP monitor tells the clients of every        *)
(* position it could have read, and that a position is listed as often as  *)
(* it was inserted, for any number of positions and writers.               *)
(***************************************************************************)
EXTENDS LpMonitor, FiniteSetTheorems, TLAPS

\* The part of TypeOK the rounds need.
RoundTypes ==
    /\ store \in [Positions -> Ranges \union {None}]
    /\ phase \in [Rounds -> {"idle", "collect", "check"}]
    /\ todo \in [Rounds -> SUBSET Positions]
    /\ snap \in [Rounds -> [Positions -> Ranges \union {None}]]
    /\ told \in [Rounds -> [Positions -> {"in", "out", None}]]
    /\ held \in [Rounds -> [Positions -> SUBSET (Ranges \union {None})]]

\* How the clients are told of what was read.
Telling(v) == IF v = "out" THEN "out" ELSE "in"

\* While a round runs, held has what the store holds, and what was read of it.
SnapInv(r) ==
    phase[r] # "idle" => \A p \in Positions :
        /\ store[p] \in held[r][p]
        /\ phase[r] = "check" \/ p \notin todo[r] => snap[r][p] \in held[r][p]

\* The positions no longer to be told of have been told of.
ToldInv(r) ==
    phase[r] = "check" => \A p \in Positions \ todo[r] :
        snap[r][p] # None => told[r][p] = Telling(snap[r][p])

\* RoundTellsAll, of one round.
TellsAll(r) ==
    phase[r] = "idle" => \A p \in Positions : None \notin held[r][p] /\ held[r][p] # {} =>
        \E v \in held[r][p] : told[r][p] = Telling(v)

OneRound(r) == SnapInv(r) /\ ToldInv(r) /\ TellsAll(r)

RoundInv == RoundTypes /\ \A r \in Rounds : OneRound(r)

LEMMA RoundInit == Init => RoundInv
<1> SUFFICES ASSUME Init PROVE RoundInv
  OBVIOUS
<1>1. RoundTypes
  BY DEF Init, RoundTypes, Ranges, Nothing
<1>2. \A r \in Rounds : phase[r] = "idle" /\ \A p \in Positions : held[r][p] = {}
  BY DEF Init
<1> QED BY <1>1, <1>2 DEF RoundInv, OneRound, SnapInv, ToldInv, TellsAll

\* What a step of another round leaves as it was.
SameRound(r) ==
    /\ phase'[r] = phase[r] /\ todo'[r] = todo[r] /\ snap'[r] = snap[r]
    /\ told'[r] = told[r] /\ held'[r] = held[r]

LEMMA OtherRound ==
    ASSUME NEW r, OneRound(r), SameRound(r), UNCHANGED store
    PROVE  OneRound(r)'
BY DEF OneRound, SnapInv, ToldInv, TellsAll, SameRound

\* A write of the store takes no part in a round but by what it stores.
LEMMA WriteStep ==
    ASSUME RoundInv, NEW p \in Positions, NEW v \in Ranges,
           Store(p, v), UNCHANGED rounds
    PROVE  RoundInv'
<1> USE DEF RoundInv, rounds
<1>1. /\ store' = [store EXCEPT ![p] = v]
      /\ held' = [r \in Rounds |->
                    IF phase[r] = "idle" THEN held[r] ELSE [held[r] EXCEPT ![p] = @ \union {v}]]
  BY DEF Store
<1>2. RoundTypes'
  <2>1. held' \in [Rounds -> [Positions -> SUBSET (Ranges \union {None})]]
    <3>1. ASSUME NEW r \in Rounds
          PROVE  /\ held[r] \in [Positions -> SUBSET (Ranges \union {None})]
                 /\ [held[r] EXCEPT ![p] = @ \union {v}] \in [Positions -> SUBSET (Ranges \union {None})]
      BY DEF RoundTypes
    <3> QED BY <1>1, <3>1
  <2> QED BY <1>1, <2>1 DEF RoundTypes
<1>3. ASSUME NEW r \in Rounds PROVE OneRound(r)'
  <2>1. CASE phase[r] = "idle"
    <3>1. held'[r] = held[r]
      BY <1>1, <2>1
    <3> QED BY <2>1, <3>1 DEF OneRound, SnapInv, ToldInv, TellsAll
  <2>2. CASE phase[r] # "idle"
    <3>1. /\ held'[r][p] = held[r][p] \union {v}
          /\ \A q \in Positions \ {p} : held'[r][q] = held[r][q]
          /\ store'[p] = v /\ \A q \in Positions \ {p} : store'[q] = store[q]
      BY <1>1, <2>2 DEF RoundTypes
    <3>2. \A q \in Positions : held[r][q] \subseteq held'[r][q] /\ store'[q] \in held'[r][q]
      BY <2>2, <3>1 DEF OneRound, SnapInv
    <3> QED BY <2>2, <3>2 DEF OneRound, SnapInv, ToldInv, TellsAll
  <2> QED BY <2>1, <2>2
<1> QED BY <1>2, <1>3

LEMMA BeginStep == ASSUME RoundInv, NEW r \in Rounds, BeginRound(r) PROVE RoundInv'
<1> USE DEF RoundInv
<1>1. /\ phase' = [phase EXCEPT ![r] = "collect"] /\ todo' = [todo EXCEPT ![r] = Positions]
      /\ snap' = [snap EXCEPT ![r] = Nothing] /\ told' = [told EXCEPT ![r] = Nothing]
      /\ held' = [held EXCEPT ![r] = [p \in Positions |-> {store[p]}]] /\ UNCHANGED store
  BY DEF BeginRound
<1>2. /\ Nothing \in [Positions -> Ranges \union {None}] /\ Nothing \in [Positions -> {"in", "out", None}]
      /\ [p \in Positions |-> {store[p]}] \in [Positions -> SUBSET (Ranges \union {None})]
  BY DEF Nothing, RoundTypes
<1>3. RoundTypes'
  BY <1>1, <1>2 DEF RoundTypes
<1>4. /\ phase'[r] = "collect" /\ todo'[r] = Positions
      /\ held'[r] = [p \in Positions |-> {store[p]}]
      /\ \A t \in Rounds \ {r} : SameRound(t)
  BY <1>1 DEF RoundTypes, SameRound
<1>5. OneRound(r)'
  BY <1>1, <1>4 DEF OneRound, SnapInv, ToldInv, TellsAll
<1> QED BY <1>1, <1>3, <1>4, <1>5, OtherRound

LEMMA CollectStep == ASSUME RoundInv, NEW r \in Rounds, NEW p \in Positions, Collect(r, p) PROVE RoundInv'
<1> USE DEF RoundInv
<1>1. /\ phase[r] = "collect" /\ p \in todo[r]
      /\ snap' = [snap EXCEPT ![r][p] = store[p]]
      /\ todo' = [todo EXCEPT ![r] = IF @ = {p} THEN Present(snap'[r]) ELSE @ \ {p}]
      /\ phase' = [phase EXCEPT ![r] = IF todo[r] = {p} THEN "check" ELSE @]
      /\ UNCHANGED <<store, told, held>>
  BY DEF Collect
<1>2. /\ snap'[r][p] = store[p] /\ \A q \in Positions \ {p} : snap'[r][q] = snap[r][q]
      /\ snap' \in [Rounds -> [Positions -> Ranges \union {None}]]
      /\ \A t \in Rounds \ {r} : snap'[t] = snap[t]
  BY <1>1 DEF RoundTypes
<1>3. Present(snap'[r]) \subseteq Positions
  BY DEF Present
<1>4. RoundTypes'
  BY <1>1, <1>2, <1>3 DEF RoundTypes
<1>5. /\ todo'[r] = (IF todo[r] = {p} THEN Present(snap'[r]) ELSE todo[r] \ {p})
      /\ phase'[r] = (IF todo[r] = {p} THEN "check" ELSE "collect")
      /\ \A t \in Rounds \ {r} : SameRound(t)
  BY <1>1, <1>2 DEF RoundTypes, SameRound
<1>6. SnapInv(r) /\ store[p] \in held[r][p]
  BY <1>1 DEF OneRound, SnapInv
<1>7. SnapInv(r)'
  <2>1. \A q \in Positions : q = p \/ q \notin todo[r] => snap'[r][q] \in held[r][q]
    BY <1>1, <1>2, <1>6 DEF SnapInv
  <2>2. ASSUME NEW q \in Positions, phase'[r] = "check" \/ q \notin todo'[r] PROVE q = p \/ q \notin todo[r]
    BY <1>5, <2>2
  <2> QED BY <1>1, <1>6, <2>1, <2>2 DEF SnapInv
<1>8. ToldInv(r)' /\ TellsAll(r)'
  BY <1>5 DEF ToldInv, TellsAll, Present
<1> QED BY <1>1, <1>4, <1>5, <1>7, <1>8, OtherRound DEF OneRound

LEMMA CheckStep == ASSUME RoundInv, NEW r \in Rounds, NEW p \in Positions, Check(r, p) PROVE RoundInv'
<1> USE DEF RoundInv
<1>1. /\ phase[r] = "check" /\ todo' = [todo EXCEPT ![r] = @ \ {p}]
      /\ told' = [told EXCEPT ![r][p] = Telling(snap[r][p])]
      /\ UNCHANGED <<store, phase, snap, held>>
  BY DEF Check, Telling
<1>2. RoundTypes'
  <2>1. told' \in [Rounds -> [Positions -> {"in", "out", None}]]
    BY <1>1 DEF RoundTypes, Telling
  <2> QED BY <1>1, <2>1 DEF RoundTypes
<1>3. /\ told'[r][p] = Telling(snap[r][p]) /\ \A q \in Positions \ {p} : told'[r][q] = told[r][q]
      /\ todo'[r] = todo[r] \ {p}
      /\ \A t \in Rounds \ {r} : SameRound(t)
  BY <1>1 DEF RoundTypes, SameRound
<1>4. OneRound(r)'
  BY <1>1, <1>3 DEF OneRound, SnapInv, ToldInv, TellsAll, Telling
<1> QED BY <1>1, <1>2, <1>3, <1>4, OtherRound

LEMMA EndStep == ASSUME RoundInv, NEW r \in Rounds, EndRound(r) PROVE RoundInv'
<1> USE DEF RoundInv
<1>1. /\ phase[r] = "check" /\ todo[r] = {} /\ phase' = [phase EXCEPT ![r] = "idle"]
      /\ UNCHANGED <<store, todo, snap, told, held>>
  BY DEF EndRound
<1>2. RoundTypes' /\ phase'[r] = "idle" /\ \A t \in Rounds \ {r} : SameRound(t)
  BY <1>1 DEF RoundTypes, SameRound
<1>3. \A p \in Positions : snap[r][p] \in held[r][p] /\ (snap[r][p] # None => told[r][p] = Telling(snap[r][p]))
  BY <1>1 DEF OneRound, SnapInv, ToldInv
<1>4. TellsAll(r)'
  <2>1. ASSUME NEW p \in Positions, None \notin held[r][p] PROVE \E v \in held[r][p] : told[r][p] = Telling(v)
    BY <1>3, <2>1
  <2> QED BY <1>1, <2>1 DEF TellsAll, Telling
<1>5. OneRound(r)'
  BY <1>2, <1>4 DEF OneRound, SnapInv, ToldInv
<1> QED BY <1>1, <1>2, <1>5, OtherRound

LEMMA RoundStep == RoundInv /\ [Next]_vars => RoundInv'
<1> SUFFICES ASSUME RoundInv, [Next]_vars PROVE RoundInv'
  OBVIOUS
<1>1. ASSUME NEW p \in Positions, Insert(p) PROVE RoundInv'
  BY <1>1, WriteStep DEF Insert, Ranges
<1>2. ASSUME NEW p \in Positions, NEW tick \in Ticks, UpdateRange(p, tick) PROVE RoundInv'
  BY <1>2, WriteStep DEF UpdateRange, Ranges
<1>3. ASSUME UNCHANGED <<store, rounds, held>> PROVE RoundInv'
  <2>1. RoundTypes' /\ \A r \in Rounds : SameRound(r)
    BY <1>3 DEF rounds, RoundInv, RoundTypes, SameRound
  <2> QED BY <1>3, <2>1, OtherRound DEF RoundInv
<1>4. ASSUME NEW p \in Positions, Push(p) PROVE RoundInv'
  BY <1>3, <1>4 DEF Push
<1>5. CASE UNCHANGED vars
  BY <1>3, <1>5 DEF vars
<1> QED BY <1>1, <1>2, <1>4, <1>5, BeginStep, CollectStep, CheckStep, EndStep DEF Next

\* Whatever rounds run beside it, when a round ends it has told the clients of every
\* position that was stored the whole time, and only what the store said of it meanwhile.
THEOREM RoundsTell == Spec => []RoundTellsAll
<1>1. RoundInv => RoundTellsAll
  BY DEF RoundInv, OneRound, TellsAll, Telling, RoundTellsAll
<1> QED BY <1>1, RoundInit, RoundStep, PTL DEF Spec

----------------------------------------------------------------------------
(* The list of a user *)

\* Every insert is one write: it is under way or has returned.
StoreTypes ==
    /\ index \in [Users -> Seq(Positions)]
    /\ pushing \in [Positions -> Nat] /\ inserted \in [Positions -> Nat]
    /\ writes \in 0 .. MaxWrites
    /\ \A p \in Positions : inserted[p] + pushing[p] <= writes

\* Where a position stands on the list of a user.
Entries(u, p) == {i \in 1 .. Len(index[u]) : index[u][i] = p}

\* The lists, whatever the map holds.
IndexInv ==
    \A p \in Positions :
        /\ \A u \in Users : Cardinality(Entries(u, p)) = IF u = Owner[p] THEN inserted[p] ELSE 0
        /\ p \in Present(store) <=> inserted[p] + pushing[p] > 0

StoreInv == RoundTypes /\ StoreTypes /\ IndexInv

LEMMA StoreInit == Init => StoreInv
<1> SUFFICES ASSUME Init PROVE StoreInv
  OBVIOUS
<1>1. RoundTypes
  BY RoundInit DEF RoundInv
<1>2. StoreTypes
  BY LpAssumption DEF Init, StoreTypes
<1>3. \A u \in Users, p \in Positions : Entries(u, p) = {}
  BY DEF Init, Entries
<1>4. \A u \in Users, p \in Positions : Cardinality(Entries(u, p)) = 0
  BY <1>3, FS_EmptySet
<1>5. \A p \in Positions : inserted[p] = 0 /\ pushing[p] = 0 /\ p \notin Present(store)
  BY DEF Init, Present, Nothing
<1>6. IndexInv
  BY <1>4, <1>5 DEF IndexInv
<1> QED BY <1>1, <1>2, <1>6 DEF StoreInv

\* The lists do not change, and one insert or none begins.
LEMMA StoredStep ==
    ASSUME StoreInv, NEW p \in Positions, NEW v \in Ranges, NEW n \in {0, 1}, Store(p, v), RoundTypes',
           pushing' = [pushing EXCEPT ![p] = @ + n], UNCHANGED <<index, inserted>>,
           n = 1 \/ p \in Present(store)
    PROVE  StoreInv'
<1> USE LpAssumption DEF StoreInv
<1>1. /\ pushing'[p] = pushing[p] + n /\ \A q \in Positions \ {p} : pushing'[q] = pushing[q]
      /\ writes' = writes + 1 /\ writes' \in 0 .. MaxWrites
      /\ store'[p] = v /\ \A q \in Positions \ {p} : store'[q] = store[q]
  BY DEF Store, StoreTypes, RoundTypes
<1>2. StoreTypes'
  <2>1. pushing' \in [Positions -> Nat]
    BY DEF StoreTypes
  <2>2. ASSUME NEW q \in Positions PROVE inserted'[q] + pushing'[q] <= writes'
    <3>1. /\ inserted[q] \in Nat /\ pushing[q] \in Nat /\ writes \in Nat
          /\ inserted[q] + pushing[q] <= writes /\ inserted'[q] = inserted[q]
      BY DEF StoreTypes
    <3>2. pushing'[q] = pushing[q] + n \/ pushing'[q] = pushing[q]
      BY <1>1
    <3> QED BY <1>1, <3>1, <3>2
  <2> QED BY <1>1, <2>1, <2>2 DEF StoreTypes
<1>3. \A q \in Positions : inserted[q] \in Nat /\ pushing[q] \in Nat
  BY DEF StoreTypes
<1>4. \A q \in Positions : q \in Present(store)' <=> inserted'[q] + pushing'[q] > 0
  BY <1>1, <1>3 DEF Present, Ranges, IndexInv
<1>5. IndexInv'
  BY <1>4 DEF IndexInv, Entries
<1> QED BY <1>2, <1>5

LEMMA OneMore == ASSUME NEW n \in Nat PROVE 1 .. n + 1 = 1 .. n \union {n + 1} /\ n + 1 \notin 1 .. n
OBVIOUS

LEMMA PushStep == ASSUME StoreInv, NEW p \in Positions, Push(p), RoundTypes' PROVE StoreInv'
<1> USE LpAssumption DEF StoreInv
<1> DEFINE o == Owner[p]
<1>1. /\ pushing[p] > 0 /\ pushing' = [pushing EXCEPT ![p] = @ - 1]
      /\ index' = [index EXCEPT ![o] = Append(@, p)] /\ inserted' = [inserted EXCEPT ![p] = @ + 1]
      /\ UNCHANGED <<store, writes>>
  BY DEF Push
<1>2. o \in Users /\ index[o] \in Seq(Positions) /\ inserted[p] \in Nat /\ pushing[p] \in Nat
  BY DEF StoreTypes
<1>3. /\ pushing'[p] = pushing[p] - 1 /\ inserted'[p] = inserted[p] + 1
      /\ \A q \in Positions \ {p} : pushing'[q] = pushing[q] /\ inserted'[q] = inserted[q]
      /\ index'[o] = Append(index[o], p) /\ \A u \in Users \ {o} : index'[u] = index[u]
  BY <1>1, <1>2 DEF StoreTypes
<1>4. StoreTypes'
  <2>1. /\ pushing' \in [Positions -> Nat] /\ inserted' \in [Positions -> Nat]
        /\ index' \in [Users -> Seq(Positions)]
    BY <1>1, <1>2 DEF StoreTypes
  <2>2. \A q \in Positions : inserted'[q] + pushing'[q] = inserted[q] + pushing[q]
    <3>1. \A q \in Positions : inserted[q] \in Nat /\ pushing[q] \in Nat
      BY DEF StoreTypes
    <3>2. inserted'[p] + pushing'[p] = inserted[p] + pushing[p]
      <4>1. pushing'[p] = pushing[p] - 1 /\ inserted'[p] = inserted[p] + 1
        BY <1>3
      <4>2. \A a, b \in Int : (a + 1) + (b - 1) = a + b
        OBVIOUS
      <4>3. pushing[p] \in Int /\ inserted[p] \in Int
        BY <1>2
      <4> QED BY <4>1, <4>2, <4>3
    <3>3. \A q \in Positions \ {p} : inserted'[q] + pushing'[q] = inserted[q] + pushing[q]
      BY <1>3
    <3> QED BY <3>2, <3>3
  <2> QED BY <1>1, <2>1, <2>2 DEF StoreTypes
<1> DEFINE n == Len(index[o])
<1>5. /\ n \in Nat /\ Len(index'[o]) = n + 1 /\ index'[o][n + 1] = p
      /\ \A i \in 1 .. n : index'[o][i] = index[o][i]
  BY <1>2, <1>3
<1>6. Entries(o, p)' = Entries(o, p) \union {n + 1} /\ n + 1 \notin Entries(o, p)
  <2>1. 1 .. n + 1 = 1 .. n \union {n + 1} /\ n + 1 \notin 1 .. n
    BY <1>5, OneMore
  <2> QED BY <1>5, <2>1 DEF Entries
<1>7. Cardinality(Entries(o, p)') = Cardinality(Entries(o, p)) + 1
  <2>1. IsFiniteSet(1 .. n)
    BY <1>5, FS_Interval
  <2>2. IsFiniteSet(Entries(o, p))
    BY <2>1, FS_Subset DEF Entries
  <2> QED BY <1>6, <2>2, FS_AddElement
<1>8. \A u \in Users, q \in Positions : u # o \/ q # p => Entries(u, q)' = Entries(u, q)
  <2> TAKE u \in Users, q \in Positions
  <2>1. CASE u # o
    BY <1>3, <2>1 DEF Entries
  <2>2. CASE u = o /\ q # p
    <3>1. 1 .. n + 1 = 1 .. n \union {n + 1}
      BY <1>5, OneMore
    <3> QED BY <1>5, <2>2, <3>1 DEF Entries
  <2> QED BY <2>1, <2>2
<1>9. \A q \in Positions : q \in Present(store)' <=> inserted'[q] + pushing'[q] > 0
  BY <1>1, <1>2, <1>3 DEF Present, IndexInv
<1>10. \A q \in Positions, u \in Users :
          Cardinality(Entries(u, q)') = IF u = Owner[q] THEN inserted'[q] ELSE 0
  <2> TAKE q \in Positions, u \in Users
  <2>1. Cardinality(Entries(u, q)) = IF u = Owner[q] THEN inserted[q] ELSE 0
    BY DEF IndexInv
  <2>2. CASE u = o /\ q = p
    BY <1>3, <1>7, <2>1, <2>2
  <2>3. CASE u # o \/ q # p
    <3>1. Entries(u, q)' = Entries(u, q)
      BY <1>8, <2>3
    <3>2. u = Owner[q] => inserted'[q] = inserted[q]
      BY <1>3, <2>3
    <3> QED BY <2>1, <3>1, <3>2
  <2> QED BY <2>2, <2>3
<1>11. IndexInv'
  BY <1>9, <1>10 DEF IndexInv
<1> QED BY <1>4, <1>11

LEMMA StoreStep == RoundInv /\ StoreInv /\ [Next]_vars => StoreInv'
<1> SUFFICES ASSUME RoundInv, StoreInv, [Next]_vars PROVE StoreInv'
  OBVIOUS
<1>1. RoundTypes'
  BY RoundStep DEF RoundInv
<1>2. ASSUME UNCHANGED <<store, index, pushing, inserted, writes>> PROVE StoreInv'
  BY <1>1, <1>2 DEF StoreInv, StoreTypes, IndexInv, Entries, Present
<1>3. ASSUME NEW p \in Positions, Insert(p) PROVE StoreInv'
  <2>1. "unknown" \in Ranges
    BY DEF Ranges
  <2> QED BY <1>1, <1>3, <2>1, StoredStep DEF Insert
<1>4. ASSUME NEW p \in Positions, NEW tick \in Ticks, UpdateRange(p, tick) PROVE StoreInv'
  <2>1. PICK v \in Ranges : Store(p, v) /\ p \in Present(store) /\ UNCHANGED <<index, pushing, inserted>>
    BY <1>4 DEF UpdateRange, Ranges, lists
  <2>2. pushing' = [pushing EXCEPT ![p] = @ + 0]
    BY <2>1 DEF StoreInv, StoreTypes
  <2> QED BY <1>1, <2>1, <2>2, StoredStep
<1>5. ASSUME NEW r \in Rounds, NEW p \in Positions, Collect(r, p) \/ Check(r, p) PROVE StoreInv'
  BY <1>2, <1>5 DEF Collect, Check, lists
<1>6. ASSUME NEW r \in Rounds, BeginRound(r) \/ EndRound(r) PROVE StoreInv'
  BY <1>2, <1>6 DEF BeginRound, EndRound, lists
<1>7. CASE UNCHANGED vars
  BY <1>2, <1>7 DEF vars, lists
<1> QED BY <1>1, <1>3, <1>4, <1>5, <1>6, <1>7, PushStep DEF Next

\* A position is on its owner's list once for each insert that has returned, on no other
\* list, and in the map as soon as an insert has begun.
THEOREM Listed == Spec => []ListedAsInserted
<1>1. StoreInv => ListedAsInserted
  <2> SUFFICES ASSUME StoreInv, NEW p \in Positions, NEW u \in Users
               PROVE  Cardinality({i \in ListOf(u) : index[u][i] = p}) = IF u = Owner[p] THEN inserted[p] ELSE 0
    BY DEF StoreInv, IndexInv, ListedAsInserted
  <2>1. DOMAIN index[u] = 1 .. Len(index[u])
    BY DEF StoreInv, StoreTypes
  <2>2. CASE p \in Present(store)
    <3>1. {i \in ListOf(u) : index[u][i] = p} = Entries(u, p)
      BY <2>1, <2>2 DEF ListOf, Entries
    <3> QED BY <3>1 DEF StoreInv, IndexInv
  <2>3. CASE p \notin Present(store)
    <3>1. {i \in ListOf(u) : index[u][i] = p} = {}
      BY <2>3 DEF ListOf
    <3>2. inserted[p] = 0
      BY <2>3 DEF StoreInv, StoreTypes, IndexInv
    <3> QED BY <3>1, <3>2, FS_EmptySet
  <2> QED BY <2>2, <2>3
<1> QED BY <1>1, RoundInit, RoundStep, StoreInit, StoreStep, PTL DEF Spec

\* Every variable of the LP monitor has its type; an insert under way or returned is one
\* of the writes.
THEOREM LpTypes == Spec => []TypeOK
<1>1. StoreInv => TypeOK
  BY LpAssumption DEF StoreInv, RoundTypes, StoreTypes, TypeOK
<1> QED BY <1>1, RoundInit, RoundStep, StoreInit, StoreStep, PTL DEF Spec
=============================================================================
