----------------------------- MODULE LpMonitor -----------------------------
(***************************************************************************)
(* Liquidity positions in the PositionStore -- the map, the list of each   *)
(* user, and the range a position was last found in -- and the rounds in   *)
(* which LpMonitor::check_all_positions tells the clients about it.        *)
(*                                                                         *)
(* The callers of the store and of the rounds are not part of the          *)
(* repository: they may come at any time, and rounds may overlap.  A check *)
(* has no await, since handle_out_of_range is never called, but other      *)
(* threads run beside it.                                                  *)
(* Rows are loaded with in_range NULL: index_user does not store it.       *)
(***************************************************************************)
EXTENDS Integers, Sequences, FiniteSets

CONSTANTS
    Positions,
    Users,
    Owner,        \* whose position it is
    Bounds,       \* lower and upper tick of a position
    Ticks,        \* ticks a pool may be at
    Rounds,       \* tasks that call check_all_positions, again and again
    None,         \* no position, nothing told
    MaxWrites     \* bound: inserts and updates of the store

ASSUME LpAssumption ==
    /\ Owner \in [Positions -> Users]
    /\ Bounds \in [Positions -> [lower : Int, upper : Int]]
    /\ Ticks \subseteq Int
    /\ None \notin {"unknown", "in", "out"}
    /\ MaxWrites \in Nat

VARIABLES
    store,      \* in_range of a stored position
    index,      \* user_lp_positions
    pushing,    \* inserts that have stored the position, and not yet its id
    inserted,   \* history: inserts that have returned
    writes,     \* inserts and updates so far
    phase,      \* of a round
    todo,       \* positions it has still to read, or to tell of
    snap,       \* what it has read of them
    told,       \* what it has told the clients of them
    held        \* history: what the store held since it began, while it ran

lists == <<index, pushing, inserted>>
rounds == <<phase, todo, snap, told>>
vars == <<store, lists, writes, rounds, held>>

Ranges == {"unknown", "in", "out"}

TypeOK ==
    /\ store \in [Positions -> Ranges \union {None}]
    /\ index \in [Users -> Seq(Positions)]
    /\ pushing \in [Positions -> 0 .. MaxWrites]
    /\ inserted \in [Positions -> 0 .. MaxWrites]
    /\ writes \in 0 .. MaxWrites
    /\ phase \in [Rounds -> {"idle", "collect", "check"}]
    /\ todo \in [Rounds -> SUBSET Positions]
    /\ snap \in [Rounds -> [Positions -> Ranges \union {None}]]
    /\ told \in [Rounds -> [Positions -> {"in", "out", None}]]
    /\ held \in [Rounds -> [Positions -> SUBSET (Ranges \union {None})]]

Nothing == [p \in Positions |-> None]

Init ==
    /\ store = Nothing
    /\ index = [u \in Users |-> <<>>]
    /\ pushing = [p \in Positions |-> 0] /\ inserted = pushing
    /\ writes = 0
    /\ phase = [r \in Rounds |-> "idle"]
    /\ todo = [r \in Rounds |-> {}]
    /\ snap = [r \in Rounds |-> Nothing] /\ told = snap
    /\ held = [r \in Rounds |-> [p \in Positions |-> {}]]

----------------------------------------------------------------------------
(* The store *)

Present(m) == {p \in Positions : m[p] # None}

Store(p, v) ==
    /\ writes < MaxWrites
    /\ writes' = writes + 1
    /\ store' = [store EXCEPT ![p] = v]
    /\ held' = [r \in Rounds |->
                   IF phase[r] = "idle" THEN held[r] ELSE [held[r] EXCEPT ![p] = @ \union {v}]]

\* insert_lp_position: the map first, then the list of the user.  What was known of
\* the range of a position that is inserted again is lost.
Insert(p) ==
    /\ Store(p, "unknown")
    /\ pushing' = [pushing EXCEPT ![p] = @ + 1]
    /\ UNCHANGED <<index, inserted, rounds>>

\* Mutant: the list of the user is set instead of appended to.
PushOnly(p) ==
    /\ pushing[p] > 0
    /\ pushing' = [pushing EXCEPT ![p] = @ - 1]
    /\ index' = [index EXCEPT ![Owner[p]] = <<p>>]
    /\ inserted' = [inserted EXCEPT ![p] = @ + 1]
    /\ UNCHANGED <<store, writes, rounds, held>>

Push(p) ==
    /\ pushing[p] > 0
    /\ pushing' = [pushing EXCEPT ![p] = @ - 1]
    /\ index' = [index EXCEPT ![Owner[p]] = Append(@, p)]
    /\ inserted' = [inserted EXCEPT ![p] = @ + 1]
    /\ UNCHANGED <<store, writes, rounds, held>>

\* UniswapV3Adapter::is_in_range, both ends included.
IsInRange(p, tick) == Bounds[p].lower <= tick /\ tick <= Bounds[p].upper

\* update_lp_range_status with what the adapter has found.
UpdateRange(p, tick) ==
    /\ p \in Present(store)
    /\ Store(p, IF IsInRange(p, tick) THEN "in" ELSE "out")
    /\ UNCHANGED <<lists, rounds>>

\* get_user_lp_positions: the entries of the user's list that the map has.
ListOf(u) == {i \in DOMAIN index[u] : index[u][i] \in Present(store)}

----------------------------------------------------------------------------
(* check_all_positions *)

BeginRound(r) ==
    /\ phase[r] = "idle"
    /\ phase' = [phase EXCEPT ![r] = "collect"]
    /\ todo' = [todo EXCEPT ![r] = Positions]
    /\ snap' = [snap EXCEPT ![r] = Nothing] /\ told' = [told EXCEPT ![r] = Nothing]
    /\ held' = [held EXCEPT ![r] = [p \in Positions |-> {store[p]}]]
    /\ UNCHANGED <<store, lists, writes>>

\* Mutant: positions whose range is not known are left out of the round.
CollectKnown(r, p) ==
    /\ phase[r] = "collect" /\ p \in todo[r]
    /\ snap' = [snap EXCEPT ![r][p] = IF store[p] = "unknown" THEN None ELSE store[p]]
    /\ todo' = [todo EXCEPT ![r] = IF @ = {p} THEN Present(snap'[r]) ELSE @ \ {p}]
    /\ phase' = [phase EXCEPT ![r] = IF todo[r] = {p} THEN "check" ELSE @]
    /\ UNCHANGED <<store, lists, writes, told, held>>

\* get_active_lp_positions copies one entry after the other.
Collect(r, p) ==
    /\ phase[r] = "collect" /\ p \in todo[r]
    /\ snap' = [snap EXCEPT ![r][p] = store[p]]
    /\ todo' = [todo EXCEPT ![r] = IF @ = {p} THEN Present(snap'[r]) ELSE @ \ {p}]
    /\ phase' = [phase EXCEPT ![r] = IF todo[r] = {p} THEN "check" ELSE @]
    /\ UNCHANGED <<store, lists, writes, told, held>>

\* check_position: in_range.unwrap_or(true) is told.  It is then compared with itself,
\* so handle_out_of_range is not reached and nobody is alerted.
Check(r, p) ==
    /\ phase[r] = "check" /\ p \in todo[r]
    /\ todo' = [todo EXCEPT ![r] = @ \ {p}]
    /\ told' = [told EXCEPT ![r][p] = IF snap[r][p] = "out" THEN "out" ELSE "in"]
    /\ UNCHANGED <<store, lists, writes, phase, snap, held>>

EndRound(r) ==
    /\ phase[r] = "check" /\ todo[r] = {}
    /\ phase' = [phase EXCEPT ![r] = "idle"]
    /\ UNCHANGED <<store, lists, writes, todo, snap, told, held>>

Next ==
    \/ \E p \in Positions : Insert(p) \/ Push(p)
    \/ \E p \in Positions, tick \in Ticks : UpdateRange(p, tick)
    \/ \E r \in Rounds : BeginRound(r) \/ EndRound(r)
    \/ \E r \in Rounds, p \in Positions : Collect(r, p) \/ Check(r, p)

Spec == Init /\ [][Next]_vars

----------------------------------------------------------------------------
(* Properties *)

\* A position is on its user's list, and on no other, as often as it was inserted: never
\* missing once its insert has returned, and once more for each time it is inserted again.
ListedAsInserted ==
    \A p \in Positions :
        /\ \A u \in Users : Cardinality({i \in ListOf(u) : index[u][i] = p}) =
                               IF u = Owner[p] THEN inserted[p] ELSE 0
        /\ p \in Present(store) <=> inserted[p] + pushing[p] > 0

\* A round has told the clients, when it ends, of every position it could have read: of a
\* range that was stored while it ran, whatever a round beside it told, or that it is in
\* range where nobody had looked.
RoundTellsAll ==
    \A r \in Rounds : phase[r] = "idle" =>
        \A p \in Positions : None \notin held[r][p] /\ held[r][p] # {} =>
            \E v \in held[r][p] : told[r][p] = IF v = "out" THEN "out" ELSE "in"
=============================================================================
