----------------------------- MODULE Watchlist -----------------------------
(***************************************************************************)
(* Token watches: the table token_watchlist with the mutations of the API, *)
(* the watches the PositionStore holds, the price feed                     *)
(* (DrawdownMonitor::update_price), and the rounds of the DrawdownMonitor  *)
(* that compare prices, write them back and fire drawdown alerts.          *)
(*                                                                         *)
(* One action per await or access to the map.  Nothing in the repository   *)
(* calls update_price, the rounds, or the store's insert and remove: their *)
(* callers are any, and rounds and feeds may overlap.  Prices are whole    *)
(* numbers, changes whole percents.                                        *)
(***************************************************************************)
EXTENDS Integers, FiniteSets

CONSTANTS
    Watches,      \* ids of watches, each used once
    None,         \* no row, no price yet; as a fed price: not a number
    Prices,       \* prices that are fed
    References,   \* reference prices; the API always stores 0
    Thresholds,   \* alert_threshold_pct, -20 unless the user says otherwise
    Rounds,       \* tasks that call check_all_tokens, again and again
    Feeders,      \* tasks that call update_price
    MaxEdits,     \* bound: changes of the table and of the set of stored watches
    MaxFeeds,     \* bound: calls of update_price
    Faults        \* what may go wrong, a subset of FaultKinds

FaultKinds == {"db_refused", "db_lost"}

ASSUME WatchlistAssumption ==
    /\ Prices \subseteq Nat /\ References \subseteq Nat /\ Thresholds \subseteq Int
    /\ MaxEdits \in Nat /\ MaxFeeds \in Nat
    /\ Faults \subseteq FaultKinds

Percent(price, ref) == IF ref = 0 THEN 0 ELSE ((price - ref) * 100) \div ref

Rows == [ref : References, threshold : Thresholds, price : Prices \union {0, None}, change : Int \union {None}]

ASSUME NoneAssumption == None \notin Rows /\ None \notin Int /\ None \notin Watches

VARIABLES
    table,    \* token_watchlist
    used,     \* ids that were given out
    store,    \* the rows token_watchlist of the PositionStore holds
    edits,    \* changes of table and store so far
    feeds,    \* calls of update_price so far
    feed,     \* the update_price a feeder is in
    phase,    \* of a round: none, the snapshot is taken, or the await of a check
    todo,     \* watches it has still to read, or to check
    snap,     \* the watches of the round, as they were read
    at,       \* the watch it is checking
    result,   \* how the check of each watch of the round ended
    told,     \* watches whose alert it has sent
    touched   \* history: watches somebody else has written since the round began

tables == <<table, used, store, edits>>
feeding == <<feeds, feed>>
rounds == <<phase, todo, snap, at, result, told>>
vars == <<tables, feeding, rounds, touched>>

Results == {"none", "skipped", "quiet", "alerted", "failed"}
NoFeed == [step |-> "none", watch |-> None, price |-> 0, change |-> 0]

TypeOK ==
    /\ table \in [Watches -> Rows \union {None}]
    /\ used \subseteq Watches
    /\ store \in [Watches -> Rows \union {None}]
    /\ edits \in 0 .. MaxEdits /\ feeds \in 0 .. MaxFeeds
    /\ feed \in [Feeders -> [step : {"none", "store", "table"}, watch : Watches \union {None},
                              price : Prices \union {0}, change : Int]]
    /\ phase \in [Rounds -> {"idle", "collect", "next", "update", "create", "deliver"}]
    /\ todo \in [Rounds -> SUBSET Watches]
    /\ snap \in [Rounds -> [Watches -> Rows \union {None}]]
    /\ at \in [Rounds -> Watches \union {None}]
    /\ result \in [Rounds -> [Watches -> Results]]
    /\ told \in [Rounds -> SUBSET Watches]
    /\ touched \in [Rounds -> SUBSET Watches]

Empty == [w \in Watches |-> None]
NoResult == [w \in Watches |-> "none"]

Init ==
    /\ table = Empty /\ used = {} /\ store = Empty /\ edits = 0
    /\ feeds = 0 /\ feed = [f \in Feeders |-> NoFeed]
    /\ phase = [r \in Rounds |-> "idle"]
    /\ todo = [r \in Rounds |-> {}] /\ told = todo /\ touched = todo
    /\ snap = [r \in Rounds |-> Empty]
    /\ at = [r \in Rounds |-> None]
    /\ result = [r \in Rounds |-> NoResult]

----------------------------------------------------------------------------
(* Statements and accesses to the map *)

Applied(ok) == ok \/ "db_lost" \in Faults
Refused(ok) == ~ok /\ "db_refused" \in Faults

\* A row of w is written, by the round r or by somebody who is no round.
TouchedByRound(r, w) ==
    touched' = [q \in Rounds |-> IF q = r THEN touched[q] ELSE touched[q] \union {w}]
Touched(w) == touched' = [q \in Rounds |-> touched[q] \union {w}]

Present(m) == {w \in Watches : m[w] # None}

Priced(row, price, change) ==
    [ref |-> row.ref, threshold |-> row.threshold, price |-> price, change |-> change]

\* Mutant: the price is stored under its id whether or not there is a row.
UpsertPrice(m, w, price, change) ==
    IF w \in Present(m) THEN [m EXCEPT ![w] = Priced(@, price, change)]
    ELSE [m EXCEPT ![w] = [ref |-> 0, threshold |-> -20, price |-> price, change |-> change]]

\* update_token_price of the store (get_mut) and of the table (WHERE id = ..): the
\* other columns stay, and a row that is gone stays gone.
UpdateTokenPrice(m, w, price, change) ==
    IF w \in Present(m) THEN [m EXCEPT ![w] = Priced(@, price, change)] ELSE m

\* current_change_pct is a DECIMAL(5, 2).
FitsColumn(change) == -1000 < change /\ change < 1000

\* The UPDATE fails for a change too large, if there is a row to change.
UpdateTable(w, price, change, ok) ==
    \/ /\ FitsColumn(change) \/ w \notin Present(table)
       /\ Applied(ok)
       /\ table' = UpdateTokenPrice(table, w, price, change)
    \/ /\ Refused(ok) \/ (~ok /\ ~FitsColumn(change) /\ w \in Present(table))
       /\ UNCHANGED table

----------------------------------------------------------------------------
(* Users and the loader of the store *)

Edit(w) ==
    /\ edits < MaxEdits
    /\ edits' = edits + 1
    /\ Touched(w)
    /\ UNCHANGED <<feeding, rounds>>

\* add_token_watch: a token that is watched already gets a new reference price and
\* threshold, and keeps the price and the change that went with the old one.
AddTokenWatch(w, ref, threshold) ==
    /\ Edit(w)
    /\ w \in Present(table) \/ w \notin used
    /\ table' = [table EXCEPT ![w] =
                    [ref |-> ref, threshold |-> threshold,
                     price |-> IF @ = None THEN None ELSE @.price,
                     change |-> IF @ = None THEN None ELSE @.change]]
    /\ used' = used \union {w}
    /\ UNCHANGED store

\* remove_from_watchlist deletes the row and leaves the store alone.
RemoveTokenWatch(w) ==
    /\ Edit(w)
    /\ w \in Present(table)
    /\ table' = [table EXCEPT ![w] = None]
    /\ UNCHANGED <<used, store>>

\* insert_token_watch and remove_token_watch of the store.  A TokenWatch is only
\* ever made from a row of the table.
LoadWatch(w) ==
    /\ Edit(w)
    /\ w \in Present(table)
    /\ store' = [store EXCEPT ![w] = table[w]]
    /\ UNCHANGED <<table, used>>

DropWatch(w) ==
    /\ Edit(w)
    /\ w \in Present(store)
    /\ store' = [store EXCEPT ![w] = None]
    /\ UNCHANGED <<table, used>>

----------------------------------------------------------------------------
(* update_price *)

\* Mutant: what is not a number is stored as it is.
FeedUnchecked(f, w, price) ==
    /\ feed[f] = NoFeed /\ feeds < MaxFeeds
    /\ w \in Present(store)
    /\ feeds' = feeds + 1
    /\ feed' = [feed EXCEPT ![f] = [step |-> "store", watch |-> w, price |-> price, change |-> 0]]
    /\ UNCHANGED <<tables, rounds, touched>>

\* The change is computed from a copy.  What is not a number, or not finite, is
\* stored as 0.
FeedRead(f, w, price) ==
    /\ feed[f] = NoFeed /\ feeds < MaxFeeds
    /\ w \in Present(store)
    /\ feeds' = feeds + 1
    /\ feed' = [feed EXCEPT ![f] =
                   [step |-> "store", watch |-> w,
                    price |-> IF price = None THEN 0 ELSE price,
                    change |-> IF price = None THEN 0 ELSE Percent(price, store[w].ref)]]
    /\ UNCHANGED <<tables, rounds, touched>>

FeedStore(f) ==
    /\ feed[f].step = "store"
    /\ store' = UpdateTokenPrice(store, feed[f].watch, feed[f].price, feed[f].change)
    /\ feed' = [feed EXCEPT ![f].step = "table"]
    /\ Touched(feed[f].watch)
    /\ UNCHANGED <<table, used, edits, feeds, rounds>>

FeedTable(f) ==
    /\ feed[f].step = "table"
    /\ \E ok \in BOOLEAN : UpdateTable(feed[f].watch, feed[f].price, feed[f].change, ok)
    /\ feed' = [feed EXCEPT ![f] = NoFeed]
    /\ Touched(feed[f].watch)
    /\ UNCHANGED <<used, store, edits, feeds, rounds>>

----------------------------------------------------------------------------
(* check_all_tokens *)

BeginRound(r) ==
    /\ phase[r] = "idle"
    /\ phase' = [phase EXCEPT ![r] = "collect"]
    /\ todo' = [todo EXCEPT ![r] = Watches]
    /\ snap' = [snap EXCEPT ![r] = Empty]
    /\ result' = [result EXCEPT ![r] = NoResult]
    /\ told' = [told EXCEPT ![r] = {}]
    /\ touched' = [touched EXCEPT ![r] = {}]
    /\ UNCHANGED <<tables, feeding, at>>

\* get_all_token_watches copies one entry after the other, while others write.
Collect(r, w) ==
    /\ phase[r] = "collect" /\ w \in todo[r]
    /\ snap' = [snap EXCEPT ![r][w] = store[w]]
    /\ todo' = [todo EXCEPT ![r] = IF @ = {w} THEN Present(snap'[r]) ELSE @ \ {w}]
    /\ phase' = [phase EXCEPT ![r] = IF todo[r] = {w} THEN "next" ELSE @]
    /\ UNCHANGED <<tables, feeding, at, result, told, touched>>

\* A price of 0 is no price, in the reference too.
HasPrices(row) == row.ref # 0 /\ row.price \notin {0, None}

Change(row) == Percent(row.price, row.ref)
Due(row) == HasPrices(row) /\ Change(row) <= row.threshold

Goto(r, step) == phase' = [phase EXCEPT ![r] = step]

EndCheck(r, w, res) ==
    /\ result' = [result EXCEPT ![r][w] = res]
    /\ at' = [at EXCEPT ![r] = None]
    /\ Goto(r, "next")

\* A watch without prices is passed over.
Skip(r, w) ==
    /\ phase[r] = "next" /\ w \in todo[r]
    /\ todo' = [todo EXCEPT ![r] = @ \ {w}]
    /\ ~HasPrices(snap[r][w])
    /\ EndCheck(r, w, "skipped")
    /\ UNCHANGED <<tables, feeding, snap, told, touched>>

\* check_token up to its first await: the price that was read is stored again.
Check(r, w) ==
    /\ phase[r] = "next" /\ w \in todo[r]
    /\ todo' = [todo EXCEPT ![r] = @ \ {w}]
    /\ HasPrices(snap[r][w])
    /\ store' = UpdateTokenPrice(store, w, snap[r][w].price, Change(snap[r][w]))
    /\ TouchedByRound(r, w)
    /\ at' = [at EXCEPT ![r] = w]
    /\ Goto(r, "update")
    /\ UNCHANGED <<table, used, edits, feeding, snap, result, told>>

\* Mutant: the row is written for the watches that fire only.
UpdateDue(r, w) ==
    /\ phase[r] = "update" /\ w = at[r]
    /\ IF Due(snap[r][w])
       THEN /\ UpdateTable(w, snap[r][w].price, Change(snap[r][w]), TRUE)
            /\ Goto(r, "create")
            /\ UNCHANGED <<result, at>>
       ELSE EndCheck(r, w, "quiet") /\ UNCHANGED table
    /\ TouchedByRound(r, w)
    /\ UNCHANGED <<used, store, edits, feeding, todo, snap, told>>

Update(r, w) ==
    /\ phase[r] = "update" /\ w = at[r]
    /\ \E ok \in BOOLEAN :
          /\ UpdateTable(w, snap[r][w].price, Change(snap[r][w]), ok)
          /\ IF ok /\ Due(snap[r][w]) THEN Goto(r, "create") /\ UNCHANGED <<result, at>>
             ELSE EndCheck(r, w, IF ok THEN "quiet" ELSE "failed")
    /\ TouchedByRound(r, w)
    /\ UNCHANGED <<used, store, edits, feeding, todo, snap, told>>

\* create_alert
Create(r, w) ==
    /\ phase[r] = "create" /\ w = at[r]
    /\ \/ Goto(r, "deliver") /\ UNCHANGED <<result, at>>
       \/ Faults # {} /\ EndCheck(r, w, "failed")
    /\ UNCHANGED <<tables, feeding, todo, snap, told, touched>>

\* Mutant: a failing check ends the round.
EndAtFailure(r) ==
    /\ phase[r] = "next"
    /\ todo[r] = {} \/ \E w \in Watches : result[r][w] = "failed"
    /\ Goto(r, "idle")
    /\ todo' = [todo EXCEPT ![r] = {}]
    /\ UNCHANGED <<tables, feeding, snap, at, result, told, touched>>

\* send_drawdown_alert returns Ok whatever the channels do.
Deliver(r, w) ==
    /\ phase[r] = "deliver" /\ w = at[r]
    /\ told' = [told EXCEPT ![r] = @ \union {w}]
    /\ EndCheck(r, w, "alerted")
    /\ UNCHANGED <<tables, feeding, todo, snap, touched>>

EndRound(r) ==
    /\ phase[r] = "next" /\ todo[r] = {}
    /\ Goto(r, "idle")
    /\ UNCHANGED <<tables, feeding, todo, snap, at, result, told, touched>>

Next ==
    \/ \E w \in Watches, ref \in References, t \in Thresholds : AddTokenWatch(w, ref, t)
    \/ \E w \in Watches : RemoveTokenWatch(w) \/ LoadWatch(w) \/ DropWatch(w)
    \/ \E f \in Feeders, w \in Watches, price \in Prices \union {None} : FeedRead(f, w, price)
    \/ \E f \in Feeders : FeedStore(f) \/ FeedTable(f)
    \/ \E r \in Rounds : BeginRound(r) \/ EndRound(r)
    \/ \E r \in Rounds, w \in Watches :
          Collect(r, w) \/ Skip(r, w) \/ Check(r, w) \/ Update(r, w) \/ Create(r, w) \/ Deliver(r, w)

Spec == Init /\ [][Next]_vars

----------------------------------------------------------------------------
(* Properties *)

\* A round serves each watch it found: whatever another check met, and whatever other
\* rounds do, one that is due has its alert sent by this round unless one of its own
\* statements failed.  And no other alert goes out: a price that is missing is not one
\* that fell to nothing.
RoundAlertsTheDue ==
    \A r \in Rounds :
       /\ phase[r] = "idle" => \A w \in Present(snap[r]) :
             /\ result[r][w] # "none"
             /\ Due(snap[r][w]) => w \in told[r] \/ result[r][w] = "failed"
       /\ \A w \in told[r] :
             /\ w \in Present(snap[r])
             /\ snap[r][w].ref > 0 /\ snap[r][w].price \in Nat \ {0}
             /\ Percent(snap[r][w].price, snap[r][w].ref) <= snap[r][w].threshold

\* When a round has ended, the store, the table and what it found are the same price
\* and change for a watch nobody else wrote since the round began -- no user, no feed,
\* no other round -- unless the statement failed.
RoundAligns ==
    \A r \in Rounds : phase[r] = "idle" =>
       \A w \in (Present(store) \intersect Present(table)) \ touched[r] :
          result[r][w] \in {"quiet", "alerted"} =>
             /\ store[w].price = snap[r][w].price /\ table[w].price = snap[r][w].price
             /\ store[w].change = table[w].change

\* A watch that was removed while a round or a feed still holds its copy is not
\* brought back by their writes, in the store or in the table.
RemovedStaysRemoved ==
    [][edits' = edits => Present(store') \subseteq Present(store)
                      /\ Present(table') \subseteq Present(table)]_vars
=============================================================================
