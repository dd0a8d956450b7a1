-------------------------- MODULE WatchlistProofs ---------------------------
(***************************************************************************)
(* Proofs about token watches and the rounds of the drawdown monitor, for  *)
(* any number of watches, feeds and overlapping rounds, any prices,        *)
(* references and thresholds, and any order of edits and failures.         *)
(***************************************************************************)
EXTENDS Watchlist, TLAPS

\* TypeOK in two parts: what everybody writes, and the rounds.
TableTypes ==
    /\ table \in [Watches -> Rows \union {None}]
    /\ used \subseteq Watches
    /\ store \in [Watches -> Rows \union {None}]
    /\ edits \in 0 .. MaxEdits /\ feeds \in 0 .. MaxFeeds
    /\ feed \in [Feeders -> [step : {"none", "store", "table"}, watch : Watches \union {None},
                              price : Prices \union {0}, change : Int]]
    /\ touched \in [Rounds -> SUBSET Watches]

Steps == {"idle", "collect", "next", "update", "create", "deliver"}

RoundTypes ==
    /\ phase \in [Rounds -> Steps]
    /\ todo \in [Rounds -> SUBSET Watches]
    /\ snap \in [Rounds -> [Watches -> Rows \union {None}]]
    /\ at \in [Rounds -> Watches \union {None}]
    /\ result \in [Rounds -> [Watches -> Results]]
    /\ told \in [Rounds -> SUBSET Watches]

\* A feed on its way is one of a watch.
FeedInv == \A f \in Feeders : feed[f].step # "none" => feed[f].watch \in Watches

\* A check is under way, or none is; the watches it and those to come are about were
\* found by the round.  Only prices that are there are compared and written back, and
\* only a fall past the threshold makes an alert.
AtInv(r) ==
    /\ phase[r] \in {"idle", "collect", "next"} => at[r] = None
    /\ phase[r] \in {"update", "create", "deliver"} => at[r] \in Present(snap[r])
    /\ phase[r] # "collect" => todo[r] \subseteq Present(snap[r])
    /\ phase[r] = "update" => HasPrices(snap[r][at[r]])
    /\ phase[r] \in {"create", "deliver"} => Due(snap[r][at[r]])

\* Each watch the round found is to come, being checked, or served.
ServedInv(r) ==
    /\ phase[r] = "collect" => told[r] = {}
    /\ \A w \in told[r] : w \in Present(snap[r]) /\ Due(snap[r][w])
    /\ phase[r] # "collect" => \A w \in Present(snap[r]) :
          \/ w \in todo[r] \/ at[r] = w
          \/ /\ result[r][w] # "none"
             /\ Due(snap[r][w]) => w \in told[r] \/ result[r][w] = "failed"
    /\ phase[r] = "idle" => todo[r] = {}

OneRound(r) == AtInv(r) /\ ServedInv(r)

Inv == TableTypes /\ RoundTypes /\ FeedInv /\ \A r \in Rounds : OneRound(r)

LEMMA PercentType ==
    ASSUME NEW price \in Nat, NEW ref \in Nat
    PROVE  Percent(price, ref) \in Int
BY DEF Percent

LEMMA PricedType ==
    ASSUME NEW row \in Rows, NEW price \in Prices \union {0}, NEW change \in Int
    PROVE  /\ Priced(row, price, change) \in Rows
           /\ Priced(row, price, change) # None
           /\ Priced(row, price, change).price = price
           /\ Priced(row, price, change).change = change
BY NoneAssumption DEF Priced, Rows

LEMMA UpdateTokenPriceType ==
    ASSUME NEW m \in [Watches -> Rows \union {None}], NEW w \in Watches,
           NEW price \in Prices \union {0}, NEW change \in Int
    PROVE  /\ UpdateTokenPrice(m, w, price, change) \in [Watches -> Rows \union {None}]
           /\ Present(UpdateTokenPrice(m, w, price, change)) = Present(m)
           /\ \A v \in Watches \ {w} : UpdateTokenPrice(m, w, price, change)[v] = m[v]
           /\ w \in Present(m) =>
                /\ UpdateTokenPrice(m, w, price, change)[w].price = price
                /\ UpdateTokenPrice(m, w, price, change)[w].change = change
<1>1. CASE w \in Present(m)
  <2>1. m[w] \in Rows
    BY <1>1 DEF Present
  <2>2. UpdateTokenPrice(m, w, price, change) = [m EXCEPT ![w] = Priced(m[w], price, change)]
    BY <1>1 DEF UpdateTokenPrice
  <2> DEFINE row == Priced(m[w], price, change)
  <2>3. row \in Rows /\ row # None /\ row.price = price /\ row.change = change
    BY <2>1, PricedType
  <2> HIDE DEF row
  <2> DEFINE n == [m EXCEPT ![w] = row]
  <2>4. n \in [Watches -> Rows \union {None}] /\ n[w] = row /\ \A v \in Watches \ {w} : n[v] = m[v]
    BY <2>3
  <2>5. UpdateTokenPrice(m, w, price, change) = n
    BY <2>2 DEF row
  <2> HIDE DEF n
  <2>6. Present(n) = Present(m)
    BY <1>1, <2>3, <2>4 DEF Present
  <2> QED BY <2>3, <2>4, <2>5, <2>6
<1>2. CASE w \notin Present(m)
  BY <1>2 DEF UpdateTokenPrice
<1> QED BY <1>1, <1>2

\* A row that is found has a reference and a price that are numbers.
LEMMA RowFields ==
    ASSUME NEW m \in [Watches -> Rows \union {None}], NEW w \in Present(m)
    PROVE  /\ m[w] \in Rows /\ m[w].ref \in Nat
           /\ HasPrices(m[w]) => /\ m[w].price \in Prices /\ m[w].price \in Nat
                                 /\ Change(m[w]) \in Int
<1>1. m[w] \in Rows /\ m[w].ref \in Nat
  BY WatchlistAssumption DEF Present, Rows
<1>2. ASSUME HasPrices(m[w]) PROVE m[w].price \in Prices /\ m[w].price \in Nat
  BY <1>1, <1>2, WatchlistAssumption DEF HasPrices, Rows
<1>3. ASSUME HasPrices(m[w]) PROVE Change(m[w]) \in Int
  BY <1>1, <1>2, <1>3, PercentType DEF Change
<1> QED BY <1>1, <1>2, <1>3

\* A statement on the table changes the price of the row it names, if there is one.
LEMMA UpdateTableType ==
    ASSUME table \in [Watches -> Rows \union {None}], NEW w \in Watches,
           NEW price \in Prices \union {0}, NEW change \in Int, NEW ok \in BOOLEAN,
           UpdateTable(w, price, change, ok)
    PROVE  /\ table' \in [Watches -> Rows \union {None}]
           /\ Present(table') = Present(table)
           /\ \A v \in Watches \ {w} : table'[v] = table[v]
           /\ ok /\ w \in Present(table) => table'[w].price = price /\ table'[w].change = change
BY UpdateTokenPriceType DEF UpdateTable, Refused

LEMMA TypeInit == Init => Inv
<1> SUFFICES ASSUME Init PROVE Inv
  OBVIOUS
<1> USE DEF Init
<1>1. TableTypes
  BY WatchlistAssumption DEF TableTypes, Empty, NoFeed
<1>2. RoundTypes
  BY DEF RoundTypes, Steps, Empty, Results, NoResult
<1>3. FeedInv
  BY DEF FeedInv, NoFeed
<1>4. ASSUME NEW r \in Rounds PROVE OneRound(r)
  BY DEF OneRound, AtInv, ServedInv, Present, Empty
<1> QED BY <1>1, <1>2, <1>3, <1>4 DEF Inv

----------------------------------------------------------------------------
(* What everybody writes *)

LEMMA TouchedType ==
    ASSUME TableTypes, NEW w \in Watches, Touched(w) \/ \E r \in Rounds : TouchedByRound(r, w)
    PROVE  touched' \in [Rounds -> SUBSET Watches]
BY DEF TableTypes, Touched, TouchedByRound

\* A check writes the price and the change that were read, which are numbers.
LEMMA CheckedNumbers ==
    ASSUME Inv, NEW r \in Rounds, NEW w \in Present(snap[r]), HasPrices(snap[r][w])
    PROVE  snap[r][w].price \in Prices \union {0} /\ Change(snap[r][w]) \in Int
<1>1. snap[r] \in [Watches -> Rows \union {None}]
  BY DEF Inv, RoundTypes
<1>2. PICK m \in [Watches -> Rows \union {None}] : m = snap[r]
  BY <1>1
<1>3. w \in Present(m) /\ HasPrices(m[w])
  BY <1>2
<1>4. m[w].price \in Prices /\ Change(m[w]) \in Int
  BY ONLY <1>3, RowFields
<1> QED BY <1>2, <1>4

LEMMA CheckStored ==
    ASSUME Inv, NEW r \in Rounds, NEW w \in Watches, Check(r, w)
    PROVE  /\ store' \in [Watches -> Rows \union {None}]
           /\ Present(store') = Present(store)
           /\ \A v \in Watches \ {w} : store'[v] = store[v]
           /\ w \in Present(store) => /\ store'[w].price = snap[r][w].price
                                      /\ store'[w].change = Change(snap[r][w])
<1>1. w \in Present(snap[r]) /\ HasPrices(snap[r][w])
  BY DEF Check, Inv, OneRound, AtInv
<1>2. PICK price \in Prices \union {0}, change \in Int :
        price = snap[r][w].price /\ change = Change(snap[r][w])
  BY <1>1, CheckedNumbers
<1>3. store' = UpdateTokenPrice(store, w, price, change)
  BY <1>2 DEF Check
<1>4. PICK m \in [Watches -> Rows \union {None}] : m = store
  BY DEF Inv, TableTypes
<1>5. PICK n : n = UpdateTokenPrice(m, w, price, change)
  OBVIOUS
<1>6. /\ n \in [Watches -> Rows \union {None}] /\ Present(n) = Present(m)
      /\ \A v \in Watches \ {w} : n[v] = m[v]
      /\ w \in Present(m) => n[w].price = price /\ n[w].change = change
  BY ONLY <1>5, UpdateTokenPriceType
<1> QED BY <1>2, <1>3, <1>4, <1>5, <1>6

LEMMA UpdateStored ==
    ASSUME Inv, NEW r \in Rounds, NEW w \in Watches, Update(r, w)
    PROVE  /\ table' \in [Watches -> Rows \union {None}]
           /\ Present(table') = Present(table)
           /\ \A v \in Watches \ {w} : table'[v] = table[v]
           /\ \E ok \in BOOLEAN :
                 /\ ok /\ w \in Present(table) => /\ table'[w].price = snap[r][w].price
                                                  /\ table'[w].change = Change(snap[r][w])
                 /\ IF ok /\ Due(snap[r][w]) THEN Goto(r, "create") /\ UNCHANGED <<result, at>>
                    ELSE EndCheck(r, w, IF ok THEN "quiet" ELSE "failed")
<1>1. w \in Present(snap[r]) /\ HasPrices(snap[r][w])
  BY DEF Update, Inv, OneRound, AtInv
<1>2. PICK price \in Prices \union {0}, change \in Int :
        price = snap[r][w].price /\ change = Change(snap[r][w])
  BY <1>1, CheckedNumbers
<1>3. PICK ok \in BOOLEAN :
        /\ UpdateTable(w, snap[r][w].price, Change(snap[r][w]), ok)
        /\ IF ok /\ Due(snap[r][w]) THEN Goto(r, "create") /\ UNCHANGED <<result, at>>
           ELSE EndCheck(r, w, IF ok THEN "quiet" ELSE "failed")
  BY DEF Update
<1>4. UpdateTable(w, price, change, ok)
  BY <1>2, <1>3
<1>5. table \in [Watches -> Rows \union {None}]
  BY DEF Inv, TableTypes
<1>6. /\ table' \in [Watches -> Rows \union {None}]
      /\ Present(table') = Present(table)
      /\ \A v \in Watches \ {w} : table'[v] = table[v]
      /\ ok /\ w \in Present(table) => table'[w].price = price /\ table'[w].change = change
  BY ONLY <1>4, <1>5, UpdateTableType
<1> QED BY <1>2, <1>3, <1>6

LEMMA FeedFields ==
    ASSUME Inv, NEW f \in Feeders, feed[f].step # "none"
    PROVE  feed[f].watch \in Watches /\ feed[f].price \in Prices \union {0} /\ feed[f].change \in Int
BY DEF Inv, TableTypes, FeedInv

LEMMA FeedStored ==
    ASSUME Inv, NEW f \in Feeders, FeedStore(f)
    PROVE  /\ store' \in [Watches -> Rows \union {None}]
           /\ Present(store') = Present(store)
           /\ \A v \in Watches \ {feed[f].watch} : store'[v] = store[v]
<1>1. PICK w \in Watches, price \in Prices \union {0}, change \in Int :
        w = feed[f].watch /\ price = feed[f].price /\ change = feed[f].change
  BY FeedFields DEF FeedStore
<1>2. store' = UpdateTokenPrice(store, w, price, change)
  BY <1>1 DEF FeedStore
<1>3. PICK m \in [Watches -> Rows \union {None}] : m = store
  BY DEF Inv, TableTypes
<1>4. PICK n : n = UpdateTokenPrice(m, w, price, change)
  OBVIOUS
<1>5. /\ n \in [Watches -> Rows \union {None}] /\ Present(n) = Present(m)
      /\ \A v \in Watches \ {w} : n[v] = m[v]
      /\ w \in Present(m) => n[w].price = price /\ n[w].change = change
  BY ONLY <1>4, UpdateTokenPriceType
<1> QED BY <1>1, <1>2, <1>3, <1>4, <1>5

LEMMA FeedTabled ==
    ASSUME Inv, NEW f \in Feeders, FeedTable(f)
    PROVE  /\ table' \in [Watches -> Rows \union {None}]
           /\ Present(table') = Present(table)
           /\ \A v \in Watches \ {feed[f].watch} : table'[v] = table[v]
<1>1. PICK w \in Watches, price \in Prices \union {0}, change \in Int :
        w = feed[f].watch /\ price = feed[f].price /\ change = feed[f].change
  BY FeedFields DEF FeedTable
<1>2. PICK ok \in BOOLEAN : UpdateTable(w, price, change, ok)
  BY <1>1 DEF FeedTable
<1>3. table \in [Watches -> Rows \union {None}]
  BY DEF Inv, TableTypes
<1>4. /\ table' \in [Watches -> Rows \union {None}]
      /\ Present(table') = Present(table)
      /\ \A v \in Watches \ {w} : table'[v] = table[v]
  BY ONLY <1>2, <1>3, UpdateTableType
<1> QED BY <1>1, <1>4

LEMMA TablesStep == Inv /\ [Next]_vars => TableTypes' /\ FeedInv'
<1> SUFFICES ASSUME Inv, [Next]_vars PROVE TableTypes' /\ FeedInv'
  OBVIOUS
<1> USE WatchlistAssumption, NoneAssumption
<1>0. TableTypes /\ FeedInv
  BY DEF Inv
<1>1. ASSUME NEW w \in Watches, NEW ref \in References, NEW t \in Thresholds, AddTokenWatch(w, ref, t)
      PROVE  TableTypes' /\ FeedInv'
  <2> DEFINE row == [ref |-> ref, threshold |-> t,
                     price |-> IF table[w] = None THEN None ELSE table[w].price,
                     change |-> IF table[w] = None THEN None ELSE table[w].change]
  <2>1. row \in Rows
    BY <1>0 DEF Rows, TableTypes
  <2>2. table' = [table EXCEPT ![w] = row]
    BY <1>1 DEF AddTokenWatch
  <2> HIDE DEF row
  <2>3. table' \in [Watches -> Rows \union {None}]
    BY <1>0, <2>1, <2>2 DEF TableTypes
  <2>4. touched' \in [Rounds -> SUBSET Watches]
    BY <1>0, <1>1, TouchedType DEF AddTokenWatch, Edit
  <2>5. used' \subseteq Watches /\ edits' \in 0 .. MaxEdits /\ UNCHANGED <<store, feeds, feed>>
    BY <1>0, <1>1 DEF AddTokenWatch, Edit, feeding, TableTypes
  <2> QED BY <1>0, <2>3, <2>4, <2>5 DEF TableTypes, FeedInv
<1>2. ASSUME NEW w \in Watches, RemoveTokenWatch(w) \/ LoadWatch(w) \/ DropWatch(w)
      PROVE  TableTypes' /\ FeedInv'
  <2>1. touched' \in [Rounds -> SUBSET Watches]
    BY <1>0, <1>2, TouchedType DEF RemoveTokenWatch, LoadWatch, DropWatch, Edit
  <2>2. edits' \in 0 .. MaxEdits /\ UNCHANGED <<used, feeds, feed>>
    BY <1>0, <1>2 DEF RemoveTokenWatch, LoadWatch, DropWatch, Edit, feeding, TableTypes
  <2>3. table' \in [Watches -> Rows \union {None}] /\ store' \in [Watches -> Rows \union {None}]
    BY <1>0, <1>2 DEF RemoveTokenWatch, LoadWatch, DropWatch, TableTypes
  <2> QED BY <1>0, <2>1, <2>2, <2>3 DEF TableTypes, FeedInv
<1>3. ASSUME NEW f \in Feeders, NEW w \in Watches, NEW price \in Prices \union {None}, FeedRead(f, w, price)
      PROVE  TableTypes' /\ FeedInv'
  <2>1. store[w] \in Rows /\ store[w].ref \in Nat
    BY <1>0, <1>3 DEF FeedRead, TableTypes, Present, Rows
  <2>2. price # None => Percent(price, store[w].ref) \in Int
    BY <2>1, PercentType
  <2>3. PICK p, c : /\ p = (IF price = None THEN 0 ELSE price)
                    /\ c = (IF price = None THEN 0 ELSE Percent(price, store[w].ref))
    OBVIOUS
  <2>4. p \in Prices \union {0} /\ c \in Int
    BY <2>2, <2>3
  <2>5. PICK row : row = [step |-> "store", watch |-> w, price |-> p, change |-> c]
    OBVIOUS
  <2>6. /\ row \in [step : {"none", "store", "table"}, watch : Watches \union {None},
                    price : Prices \union {0}, change : Int]
        /\ row.watch = w
    BY <2>4, <2>5
  <2>7. feed' = [feed EXCEPT ![f] = row]
    BY <1>3, <2>3, <2>5 DEF FeedRead
  <2>8. feeds' \in 0 .. MaxFeeds /\ UNCHANGED <<table, used, store, edits, touched>>
    BY <1>0, <1>3 DEF FeedRead, tables, TableTypes
  <2> QED BY <1>0, <2>6, <2>7, <2>8 DEF TableTypes, FeedInv
<1>4. ASSUME NEW f \in Feeders, FeedStore(f) PROVE TableTypes' /\ FeedInv'
  <2>1. feed[f].watch \in Watches /\ store' \in [Watches -> Rows \union {None}]
    BY <1>4, FeedFields, FeedStored DEF FeedStore
  <2>2. touched' \in [Rounds -> SUBSET Watches]
    BY <1>0, <1>4, <2>1, TouchedType DEF FeedStore
  <2>3. feed' = [feed EXCEPT ![f].step = "table"] /\ UNCHANGED <<table, used, edits, feeds>>
    BY <1>4 DEF FeedStore
  <2> QED BY <1>0, <2>1, <2>2, <2>3 DEF TableTypes, FeedInv
<1>5. ASSUME NEW f \in Feeders, FeedTable(f) PROVE TableTypes' /\ FeedInv'
  <2>1. feed[f].watch \in Watches /\ table' \in [Watches -> Rows \union {None}]
    BY <1>5, FeedFields, FeedTabled DEF FeedTable
  <2>2. touched' \in [Rounds -> SUBSET Watches]
    BY <1>0, <1>5, <2>1, TouchedType DEF FeedTable
  <2>3. /\ NoFeed.step = "none"
        /\ NoFeed \in [step : {"none", "store", "table"}, watch : Watches \union {None},
                       price : Prices \union {0}, change : Int]
    BY DEF NoFeed
  <2>4. feed' = [feed EXCEPT ![f] = NoFeed] /\ UNCHANGED <<used, store, edits, feeds>>
    BY <1>5 DEF FeedTable
  <2> QED BY <1>0, <2>1, <2>2, <2>3, <2>4 DEF TableTypes, FeedInv
<1>6. ASSUME NEW r \in Rounds, NEW w \in Watches, Check(r, w) PROVE TableTypes' /\ FeedInv'
  <2>1. touched' \in [Rounds -> SUBSET Watches]
    BY <1>0, <1>6, TouchedType DEF Check
  <2>2. UNCHANGED <<table, used, edits, feeds, feed>>
    BY <1>6 DEF Check, feeding
  <2> QED BY <1>0, <1>6, <2>1, <2>2, CheckStored DEF TableTypes, FeedInv
<1>7. ASSUME NEW r \in Rounds, NEW w \in Watches, Update(r, w) PROVE TableTypes' /\ FeedInv'
  <2>1. touched' \in [Rounds -> SUBSET Watches]
    BY <1>0, <1>7, TouchedType DEF Update
  <2>2. UNCHANGED <<store, used, edits, feeds, feed>>
    BY <1>7 DEF Update, feeding
  <2> QED BY <1>0, <1>7, <2>1, <2>2, UpdateStored DEF TableTypes, FeedInv
<1>8. ASSUME UNCHANGED <<tables, feeding>>, touched' \in [Rounds -> SUBSET Watches]
      PROVE  TableTypes' /\ FeedInv'
  BY <1>0, <1>8 DEF tables, feeding, TableTypes, FeedInv
<1>9. ASSUME NEW r \in Rounds, BeginRound(r) \/ EndRound(r) PROVE TableTypes' /\ FeedInv'
  BY <1>0, <1>8, <1>9 DEF BeginRound, EndRound, TableTypes
<1>10. ASSUME NEW r \in Rounds, NEW w \in Watches,
              Collect(r, w) \/ Skip(r, w) \/ Create(r, w) \/ Deliver(r, w)
       PROVE  TableTypes' /\ FeedInv'
  BY <1>0, <1>8, <1>10 DEF Collect, Skip, Create, Deliver, TableTypes
<1>11. CASE UNCHANGED vars
  BY <1>0, <1>8, <1>11 DEF vars, TableTypes
<1> HIDE WatchlistAssumption, NoneAssumption
<1> QED
  BY <1>1, <1>2, <1>3, <1>4, <1>5, <1>6, <1>7, <1>9, <1>10, <1>11 DEF Next

----------------------------------------------------------------------------
(* Rounds *)

\* What a step that is not of this round leaves as it was.
SameRound(r) ==
    /\ phase'[r] = phase[r] /\ todo'[r] = todo[r] /\ snap'[r] = snap[r]
    /\ at'[r] = at[r] /\ result'[r] = result[r] /\ told'[r] = told[r]

LEMMA OtherRound ==
    ASSUME NEW r, OneRound(r), SameRound(r)
    PROVE  OneRound(r)'
BY DEF OneRound, AtInv, ServedInv, SameRound

LEMMA Went ==
    ASSUME RoundTypes, NEW r \in Rounds, NEW step \in Steps, Goto(r, step)
    PROVE  /\ phase' \in [Rounds -> Steps] /\ phase'[r] = step
           /\ \A q \in Rounds \ {r} : phase'[q] = phase[q]
BY DEF RoundTypes, Goto

LEMMA Ended ==
    ASSUME RoundTypes, NEW r \in Rounds, NEW w \in Watches, NEW res \in Results, EndCheck(r, w, res)
    PROVE  /\ phase' \in [Rounds -> Steps] /\ phase'[r] = "next"
           /\ at' \in [Rounds -> Watches \union {None}] /\ at'[r] = None
           /\ result' \in [Rounds -> [Watches -> Results]] /\ result'[r][w] = res
           /\ \A v \in Watches \ {w} : result'[r][v] = result[r][v]
           /\ \A q \in Rounds \ {r} : phase'[q] = phase[q] /\ at'[q] = at[q] /\ result'[q] = result[q]
<1>1. "next" \in Steps /\ Goto(r, "next")
  BY DEF Steps, EndCheck
<1>2. result' = [result EXCEPT ![r][w] = res] /\ at' = [at EXCEPT ![r] = None]
  BY DEF EndCheck
<1> QED BY <1>1, <1>2, Went DEF RoundTypes

\* A round takes the watches one by one, and a check takes its steps.
RoundStepOf(r, w) ==
    \/ BeginRound(r) \/ EndRound(r)
    \/ Collect(r, w) \/ Skip(r, w) \/ Check(r, w) \/ Update(r, w) \/ Create(r, w) \/ Deliver(r, w)

LEMMA BeginStep ==
    ASSUME Inv, NEW r \in Rounds, BeginRound(r)
    PROVE  RoundTypes' /\ OneRound(r)' /\ \A q \in Rounds \ {r} : SameRound(q)
<1>0. RoundTypes /\ OneRound(r)
  BY DEF Inv
<1>1. /\ phase[r] = "idle"
      /\ phase' = [phase EXCEPT ![r] = "collect"] /\ todo' = [todo EXCEPT ![r] = Watches]
      /\ snap' = [snap EXCEPT ![r] = Empty] /\ result' = [result EXCEPT ![r] = NoResult]
      /\ told' = [told EXCEPT ![r] = {}] /\ at' = at
  BY DEF BeginRound
<1>2. Empty \in [Watches -> Rows \union {None}] /\ NoResult \in [Watches -> Results] /\ "collect" \in Steps
  BY DEF Empty, NoResult, Results, Steps
<1>3. RoundTypes'
  BY <1>0, <1>1, <1>2 DEF RoundTypes
<1>4. phase'[r] = "collect" /\ told'[r] = {} /\ at'[r] = None
  BY <1>0, <1>1 DEF RoundTypes, OneRound, AtInv
<1>5. \A q \in Rounds \ {r} : SameRound(q)
  BY <1>0, <1>1 DEF RoundTypes, SameRound
<1> QED BY <1>3, <1>4, <1>5 DEF OneRound, AtInv, ServedInv

LEMMA EndStep ==
    ASSUME Inv, NEW r \in Rounds, EndRound(r)
    PROVE  RoundTypes' /\ OneRound(r)' /\ \A q \in Rounds \ {r} : SameRound(q)
<1>0. RoundTypes /\ OneRound(r)
  BY DEF Inv
<1>1. /\ phase[r] = "next" /\ todo[r] = {} /\ Goto(r, "idle") /\ "idle" \in Steps
      /\ UNCHANGED <<todo, snap, at, result, told>>
  BY DEF EndRound, Steps
<1>2. /\ phase' \in [Rounds -> Steps] /\ phase'[r] = "idle"
      /\ \A q \in Rounds \ {r} : phase'[q] = phase[q]
  BY <1>0, <1>1, Went
<1>3. RoundTypes' /\ \A q \in Rounds \ {r} : SameRound(q)
  BY <1>0, <1>1, <1>2 DEF RoundTypes, SameRound
<1> QED BY <1>0, <1>1, <1>2, <1>3 DEF OneRound, AtInv, ServedInv

LEMMA CollectStep ==
    ASSUME Inv, NEW r \in Rounds, NEW w \in Watches, Collect(r, w)
    PROVE  RoundTypes' /\ OneRound(r)' /\ \A q \in Rounds \ {r} : SameRound(q)
<1>0. RoundTypes /\ OneRound(r) /\ store[w] \in Rows \union {None}
  BY DEF Inv, TableTypes
<1>1. /\ phase[r] = "collect" /\ w \in todo[r]
      /\ snap' = [snap EXCEPT ![r][w] = store[w]]
      /\ todo' = [todo EXCEPT ![r] = IF @ = {w} THEN Present(snap'[r]) ELSE @ \ {w}]
      /\ phase' = [phase EXCEPT ![r] = IF todo[r] = {w} THEN "next" ELSE @]
      /\ UNCHANGED <<at, result, told>>
  BY DEF Collect
<1>2. snap' \in [Rounds -> [Watches -> Rows \union {None}]]
  BY <1>0, <1>1 DEF RoundTypes
<1>3. Present(snap'[r]) \subseteq Watches /\ "next" \in Steps
  BY DEF Present, Steps
<1>4. RoundTypes'
  BY <1>0, <1>1, <1>2, <1>3 DEF RoundTypes
<1>5. \A q \in Rounds \ {r} : SameRound(q)
  BY <1>0, <1>1 DEF RoundTypes, SameRound
<1>6. /\ todo'[r] = (IF todo[r] = {w} THEN Present(snap'[r]) ELSE todo[r] \ {w})
      /\ phase'[r] = (IF todo[r] = {w} THEN "next" ELSE "collect")
  BY <1>0, <1>1 DEF RoundTypes
<1>7. at'[r] = None /\ told'[r] = {}
  BY <1>0, <1>1 DEF OneRound, AtInv, ServedInv
<1>8. AtInv(r)'
  BY <1>6, <1>7 DEF AtInv
<1>9. ServedInv(r)'
  BY <1>6, <1>7 DEF ServedInv
<1> QED BY <1>4, <1>5, <1>8, <1>9 DEF OneRound

LEMMA SkipStep ==
    ASSUME Inv, NEW r \in Rounds, NEW w \in Watches, Skip(r, w)
    PROVE  RoundTypes' /\ OneRound(r)' /\ \A q \in Rounds \ {r} : SameRound(q)
<1>0. RoundTypes /\ OneRound(r)
  BY DEF Inv
<1>1. /\ phase[r] = "next" /\ w \in todo[r] /\ todo' = [todo EXCEPT ![r] = @ \ {w}]
      /\ ~Due(snap[r][w]) /\ EndCheck(r, w, "skipped") /\ "skipped" \in Results
      /\ UNCHANGED <<snap, told>>
  BY DEF Skip, Due, Results
<1>2. /\ phase' \in [Rounds -> Steps] /\ phase'[r] = "next"
      /\ at' \in [Rounds -> Watches \union {None}] /\ at'[r] = None
      /\ result' \in [Rounds -> [Watches -> Results]] /\ result'[r][w] = "skipped"
      /\ \A v \in Watches \ {w} : result'[r][v] = result[r][v]
      /\ \A q \in Rounds \ {r} : phase'[q] = phase[q] /\ at'[q] = at[q] /\ result'[q] = result[q]
  BY <1>0, <1>1, Ended
<1>3. /\ todo' \in [Rounds -> SUBSET Watches] /\ todo'[r] = todo[r] \ {w}
      /\ \A q \in Rounds \ {r} : todo'[q] = todo[q]
  BY <1>0, <1>1 DEF RoundTypes
<1>4. RoundTypes' /\ \A q \in Rounds \ {r} : SameRound(q)
  BY <1>0, <1>1, <1>2, <1>3 DEF RoundTypes, SameRound
<1>5. Present(snap[r]) \subseteq Watches /\ None \notin Present(snap[r])
  BY NoneAssumption DEF Present
<1>6. AtInv(r)'
  BY <1>0, <1>1, <1>2, <1>3 DEF OneRound, AtInv
<1>7. ServedInv(r)'
  BY <1>0, <1>1, <1>2, <1>3, <1>5 DEF OneRound, AtInv, ServedInv
<1> QED BY <1>4, <1>6, <1>7 DEF OneRound

LEMMA CheckStep ==
    ASSUME Inv, NEW r \in Rounds, NEW w \in Watches, Check(r, w)
    PROVE  RoundTypes' /\ OneRound(r)' /\ \A q \in Rounds \ {r} : SameRound(q)
<1>0. RoundTypes /\ OneRound(r)
  BY DEF Inv
<1>1. /\ phase[r] = "next" /\ w \in todo[r] /\ todo' = [todo EXCEPT ![r] = @ \ {w}]
      /\ HasPrices(snap[r][w]) /\ at' = [at EXCEPT ![r] = w]
      /\ Goto(r, "update") /\ "update" \in Steps
      /\ UNCHANGED <<snap, result, told>>
  BY DEF Check, Steps
<1>2. /\ phase' \in [Rounds -> Steps] /\ phase'[r] = "update"
      /\ \A q \in Rounds \ {r} : phase'[q] = phase[q]
  BY <1>0, <1>1, Went
<1>3. /\ todo' \in [Rounds -> SUBSET Watches] /\ todo'[r] = todo[r] \ {w}
      /\ at' \in [Rounds -> Watches \union {None}] /\ at'[r] = w
      /\ \A q \in Rounds \ {r} : todo'[q] = todo[q] /\ at'[q] = at[q]
  BY <1>0, <1>1 DEF RoundTypes
<1>4. RoundTypes' /\ \A q \in Rounds \ {r} : SameRound(q)
  BY <1>0, <1>1, <1>2, <1>3 DEF RoundTypes, SameRound
<1>5. w \in Present(snap[r]) /\ at[r] = None /\ None \notin Present(snap[r])
  BY <1>0, <1>1, NoneAssumption DEF OneRound, AtInv, Present
<1>6. AtInv(r)'
  BY <1>0, <1>1, <1>2, <1>3, <1>5 DEF OneRound, AtInv
<1>7. ServedInv(r)'
  BY <1>0, <1>1, <1>2, <1>3, <1>5 DEF OneRound, ServedInv
<1> QED BY <1>4, <1>6, <1>7 DEF OneRound

\* A check that ends serves its watch.
LEMMA EndedStep ==
    ASSUME Inv, NEW r \in Rounds, NEW w \in Watches, NEW res \in {"quiet", "failed", "alerted"},
           phase[r] \in {"update", "create", "deliver"}, w = at[r], EndCheck(r, w, res),
           UNCHANGED <<todo, snap>>,
           told' = [told EXCEPT ![r] = IF res = "alerted" THEN @ \union {w} ELSE @],
           Due(snap[r][w]) => res \in {"failed", "alerted"}, res = "alerted" => Due(snap[r][w])
    PROVE  RoundTypes' /\ OneRound(r)' /\ \A q \in Rounds \ {r} : SameRound(q)
<1>0. RoundTypes /\ OneRound(r) /\ res \in Results
  BY DEF Inv, Results
<1>1. /\ phase' \in [Rounds -> Steps] /\ phase'[r] = "next"
      /\ at' \in [Rounds -> Watches \union {None}] /\ at'[r] = None
      /\ result' \in [Rounds -> [Watches -> Results]] /\ result'[r][w] = res
      /\ \A v \in Watches \ {w} : result'[r][v] = result[r][v]
      /\ \A q \in Rounds \ {r} : phase'[q] = phase[q] /\ at'[q] = at[q] /\ result'[q] = result[q]
  BY <1>0, Ended
<1>2. /\ told' \in [Rounds -> SUBSET Watches]
      /\ told'[r] = IF res = "alerted" THEN told[r] \union {w} ELSE told[r]
      /\ \A q \in Rounds \ {r} : told'[q] = told[q]
  BY <1>0 DEF RoundTypes
<1>3. RoundTypes' /\ \A q \in Rounds \ {r} : SameRound(q)
  BY <1>0, <1>1, <1>2 DEF RoundTypes, SameRound
<1>4. w \in Present(snap[r]) /\ Present(snap[r]) \subseteq Watches
  BY <1>0 DEF OneRound, AtInv, Present
<1>5. AtInv(r)'
  BY <1>0, <1>1 DEF OneRound, AtInv
<1>6. ServedInv(r)'
  <2>1. ASSUME NEW v \in told'[r] PROVE v \in Present(snap[r]) /\ Due(snap[r][v])
    BY <1>0, <1>2, <1>4, <2>1 DEF OneRound, ServedInv
  <2>2. ASSUME NEW v \in Present(snap[r]), v # w
        PROVE  \/ v \in todo[r]
               \/ /\ result'[r][v] # "none"
                  /\ Due(snap[r][v]) => v \in told'[r] \/ result'[r][v] = "failed"
    BY <1>0, <1>1, <1>2, <1>4, <2>2 DEF OneRound, ServedInv
  <2>3. /\ result'[r][w] # "none"
        /\ Due(snap[r][w]) => w \in told'[r] \/ result'[r][w] = "failed"
    BY <1>1, <1>2
  <2> QED BY <1>1, <2>1, <2>2, <2>3 DEF ServedInv
<1> QED BY <1>3, <1>5, <1>6 DEF OneRound

\* A check that goes on stays with its watch.
LEMMA GoneOnStep ==
    ASSUME Inv, NEW r \in Rounds, NEW step \in {"create", "deliver"},
           phase[r] \in {"update", "create"}, Due(snap[r][at[r]]), Goto(r, step),
           UNCHANGED <<todo, snap, at, result, told>>
    PROVE  RoundTypes' /\ OneRound(r)' /\ \A q \in Rounds \ {r} : SameRound(q)
<1>0. RoundTypes /\ OneRound(r) /\ step \in Steps
  BY DEF Inv, Steps
<1>1. /\ phase' \in [Rounds -> Steps] /\ phase'[r] = step
      /\ \A q \in Rounds \ {r} : phase'[q] = phase[q]
  BY <1>0, Went
<1>2. RoundTypes' /\ \A q \in Rounds \ {r} : SameRound(q)
  BY <1>0, <1>1 DEF RoundTypes, SameRound
<1>3. AtInv(r)'
  BY <1>0, <1>1 DEF OneRound, AtInv
<1>4. ServedInv(r)'
  BY <1>0, <1>1 DEF OneRound, ServedInv
<1> QED BY <1>2, <1>3, <1>4 DEF OneRound

LEMMA UpdateStep ==
    ASSUME Inv, NEW r \in Rounds, NEW w \in Watches, Update(r, w)
    PROVE  RoundTypes' /\ OneRound(r)' /\ \A q \in Rounds \ {r} : SameRound(q)
<1>0. RoundTypes
  BY DEF Inv
<1>1. phase[r] = "update" /\ w = at[r] /\ UNCHANGED <<todo, snap, told>>
  BY DEF Update
<1>2. PICK ok \in BOOLEAN :
        IF ok /\ Due(snap[r][w]) THEN Goto(r, "create") /\ UNCHANGED <<result, at>>
        ELSE EndCheck(r, w, IF ok THEN "quiet" ELSE "failed")
  BY UpdateStored
<1>3. CASE ok /\ Due(snap[r][w])
  BY <1>1, <1>2, <1>3, GoneOnStep
<1>4. CASE ~(ok /\ Due(snap[r][w]))
  <2>1. PICK res \in {"quiet", "failed"} : res = (IF ok THEN "quiet" ELSE "failed")
    OBVIOUS
  <2>2. EndCheck(r, w, res) /\ (Due(snap[r][w]) => res \in {"failed", "alerted"}) /\ res # "alerted"
    BY <1>2, <1>4, <2>1
  <2>3. told' = [told EXCEPT ![r] = IF res = "alerted" THEN @ \union {w} ELSE @]
    BY <1>0, <1>1, <2>2 DEF RoundTypes
  <2> QED BY <1>1, <2>2, <2>3, EndedStep
<1> QED BY <1>3, <1>4

LEMMA CreateStep ==
    ASSUME Inv, NEW r \in Rounds, NEW w \in Watches, Create(r, w)
    PROVE  RoundTypes' /\ OneRound(r)' /\ \A q \in Rounds \ {r} : SameRound(q)
<1>0. RoundTypes /\ OneRound(r)
  BY DEF Inv
<1>1. phase[r] = "create" /\ w = at[r] /\ UNCHANGED <<todo, snap, told>>
  BY DEF Create
<1>2. Due(snap[r][w])
  BY <1>0, <1>1 DEF OneRound, AtInv
<1>3. CASE Goto(r, "deliver") /\ UNCHANGED <<result, at>>
  BY <1>1, <1>2, <1>3, GoneOnStep
<1>4. CASE EndCheck(r, w, "failed")
  <2>1. PICK res \in {"failed"} : res = "failed" /\ EndCheck(r, w, res)
    BY <1>4
  <2>2. told' = [told EXCEPT ![r] = IF res = "alerted" THEN @ \union {w} ELSE @]
    BY <1>0, <1>1, <2>1 DEF RoundTypes
  <2> QED BY <1>1, <2>1, <2>2, EndedStep
<1> QED BY <1>3, <1>4 DEF Create

LEMMA DeliverStep ==
    ASSUME Inv, NEW r \in Rounds, NEW w \in Watches, Deliver(r, w)
    PROVE  RoundTypes' /\ OneRound(r)' /\ \A q \in Rounds \ {r} : SameRound(q)
<1>0. RoundTypes /\ OneRound(r)
  BY DEF Inv
<1>1. phase[r] = "deliver" /\ w = at[r] /\ UNCHANGED <<todo, snap>>
  BY DEF Deliver
<1>2. PICK res \in {"alerted"} : res = "alerted" /\ EndCheck(r, w, res)
  BY DEF Deliver
<1>3. told' = [told EXCEPT ![r] = IF res = "alerted" THEN @ \union {w} ELSE @]
  BY <1>0, <1>2 DEF Deliver, RoundTypes
<1>4. Due(snap[r][w])
  BY <1>0, <1>1 DEF OneRound, AtInv
<1> QED BY <1>1, <1>2, <1>3, <1>4, EndedStep

LEMMA RoundStep ==
    ASSUME Inv, NEW r \in Rounds, NEW w \in Watches, RoundStepOf(r, w)
    PROVE  RoundTypes' /\ OneRound(r)' /\ \A q \in Rounds \ {r} : SameRound(q)
BY BeginStep, EndStep, CollectStep, SkipStep, CheckStep, UpdateStep, CreateStep, DeliverStep DEF RoundStepOf

\* Users and feeds leave the rounds alone.
LEMMA NextSplit ==
    ASSUME [Next]_vars
    PROVE  \/ UNCHANGED rounds
           \/ \E r \in Rounds : BeginRound(r) \/ EndRound(r)
           \/ \E r \in Rounds, w \in Watches : RoundStepOf(r, w)
BY DEF Next, AddTokenWatch, RemoveTokenWatch, LoadWatch, DropWatch, Edit, FeedRead, FeedStore, FeedTable,
       vars, RoundStepOf

LEMMA RoundsStep == Inv /\ [Next]_vars => RoundTypes' /\ \A r \in Rounds : OneRound(r)'
<1> SUFFICES ASSUME Inv, [Next]_vars PROVE RoundTypes' /\ \A r \in Rounds : OneRound(r)'
  OBVIOUS
<1>0. RoundTypes /\ \A r \in Rounds : OneRound(r)
  BY DEF Inv
<1>1. CASE UNCHANGED rounds
  <2>1. RoundTypes' /\ \A r \in Rounds : SameRound(r)
    BY <1>0, <1>1 DEF rounds, RoundTypes, SameRound
  <2> QED BY <1>0, <2>1, OtherRound
<1>2. ASSUME NEW r \in Rounds, RoundTypes' /\ OneRound(r)' /\ \A q \in Rounds \ {r} : SameRound(q)
      PROVE  RoundTypes' /\ \A q \in Rounds : OneRound(q)'
  BY <1>0, <1>2, OtherRound
<1>3. ASSUME NEW r \in Rounds, BeginRound(r) \/ EndRound(r)
      PROVE  RoundTypes' /\ \A q \in Rounds : OneRound(q)'
  BY <1>2, <1>3, BeginStep, EndStep
<1>4. ASSUME NEW r \in Rounds, NEW w \in Watches, RoundStepOf(r, w)
      PROVE  RoundTypes' /\ \A q \in Rounds : OneRound(q)'
  BY <1>2, <1>4, RoundStep
<1> QED BY <1>1, <1>3, <1>4, NextSplit

LEMMA InvStep == Inv /\ [Next]_vars => Inv'
BY TablesStep, RoundsStep DEF Inv

\* Every variable of the watches and the rounds keeps its type.
THEOREM TypeCorrect == Spec => []TypeOK
<1>1. Inv => TypeOK
  BY DEF Inv, TableTypes, RoundTypes, Steps, TypeOK
<1> QED BY <1>1, TypeInit, InvStep, PTL DEF Spec

\* A round serves every watch it found, whatever the other checks and the other rounds
\* met, and alerts for no other.
THEOREM RoundsServe == Spec => []RoundAlertsTheDue
<1>1. Inv => RoundAlertsTheDue
  <2> SUFFICES ASSUME Inv, NEW r \in Rounds
               PROVE  /\ phase[r] = "idle" => \A w \in Present(snap[r]) :
                            /\ result[r][w] # "none"
                            /\ Due(snap[r][w]) => w \in told[r] \/ result[r][w] = "failed"
                      /\ \A w \in told[r] :
                            /\ w \in Present(snap[r])
                            /\ snap[r][w].ref > 0 /\ snap[r][w].price \in Nat \ {0}
                            /\ Percent(snap[r][w].price, snap[r][w].ref) <= snap[r][w].threshold
    BY DEF RoundAlertsTheDue
  <2>0. OneRound(r) /\ snap[r] \in [Watches -> Rows \union {None}]
    BY DEF Inv, RoundTypes
  <2>1. ASSUME NEW w \in told[r]
        PROVE  /\ w \in Present(snap[r])
               /\ snap[r][w].ref > 0 /\ snap[r][w].price \in Nat \ {0}
               /\ Percent(snap[r][w].price, snap[r][w].ref) <= snap[r][w].threshold
    <3>1. w \in Present(snap[r]) /\ Due(snap[r][w])
      BY <2>0, <2>1 DEF OneRound, ServedInv
    <3>2. PICK m \in [Watches -> Rows \union {None}] : m = snap[r]
      BY <2>0
    <3>3. m[w].ref \in Nat /\ m[w].price \in Nat
      BY <3>1, <3>2, RowFields DEF Due
    <3> QED BY <3>1, <3>2, <3>3 DEF Due, HasPrices, Change
  <2>2. ASSUME phase[r] = "idle", NEW w \in Present(snap[r])
        PROVE  result[r][w] # "none" /\ (Due(snap[r][w]) => w \in told[r] \/ result[r][w] = "failed")
    <3>1. at[r] # w /\ w \notin todo[r]
      BY <2>0, <2>2, NoneAssumption DEF OneRound, AtInv, ServedInv, Present
    <3> QED BY <2>0, <2>2, <3>1 DEF OneRound, ServedInv
  <2> QED BY <2>1, <2>2
<1> QED BY <1>1, TypeInit, InvStep, PTL DEF Spec

\* No write of a round or a feed, however late, brings back a watch that is gone.
THEOREM Removal == Spec => RemovedStaysRemoved
<1> DEFINE Gone == edits' = edits => Present(store') \subseteq Present(store)
                                  /\ Present(table') \subseteq Present(table)
<1>1. Inv /\ [Next]_vars => Gone
  <2> SUFFICES ASSUME Inv, [Next]_vars, edits' = edits
               PROVE  Present(store') \subseteq Present(store) /\ Present(table') \subseteq Present(table)
    OBVIOUS
  <2>1. ASSUME NEW w \in Watches, Edit(w) PROVE FALSE
    BY <2>1, WatchlistAssumption DEF Edit, Inv, TableTypes
  <2>2. ASSUME NEW f \in Feeders, FeedStore(f) PROVE Present(store') = Present(store) /\ table' = table
    BY <2>2, FeedStored DEF FeedStore
  <2>3. ASSUME NEW f \in Feeders, FeedTable(f) PROVE Present(table') = Present(table) /\ store' = store
    BY <2>3, FeedTabled DEF FeedTable
  <2>4. ASSUME NEW r \in Rounds, NEW w \in Watches, Check(r, w)
        PROVE  Present(store') = Present(store) /\ table' = table
    BY <2>4, CheckStored DEF Check
  <2>5. ASSUME NEW r \in Rounds, NEW w \in Watches, Update(r, w)
        PROVE  Present(table') = Present(table) /\ store' = store
    BY <2>5, UpdateStored DEF Update
  <2>6. ASSUME UNCHANGED <<store, table>>
        PROVE  Present(store') \subseteq Present(store) /\ Present(table') \subseteq Present(table)
    BY <2>6
  <2> QED
    BY <2>1, <2>2, <2>3, <2>4, <2>5, <2>6
       DEF Next, AddTokenWatch, RemoveTokenWatch, LoadWatch, DropWatch, FeedRead, BeginRound, EndRound,
           Collect, Skip, Create, Deliver, vars, tables
<1>2. RemovedStaysRemoved <=> [][Gone]_vars
  BY DEF RemovedStaysRemoved
<1> HIDE DEF Gone
<1> QED BY <1>1, <1>2, TypeInit, InvStep, PTL DEF Spec

----------------------------------------------------------------------------
(* Store and table *)

\* Where there is still a row of w, it holds what the round found and computed.
Aligned(m, r, w) ==
    w \in Present(m) => m[w].price = snap[r][w].price /\ m[w].change = Change(snap[r][w])

Served(r, w) == result[r][w] \in {"quiet", "alerted"}

\* Of what nobody else writes, the store is aligned from the start of a check on, the
\* table from its statement on.
AlignInv(r) ==
    /\ phase[r] = "collect" => \A w \in Watches : ~Served(r, w)
    /\ \A w \in Watches \ touched[r] :
          /\ at[r] = w \/ Served(r, w) => Aligned(store, r, w)
          /\ (at[r] = w /\ phase[r] # "update") \/ Served(r, w) => Aligned(table, r, w)

\* Somebody else's write of a watch is none of the round's any more.
LEMMA Disturbed ==
    ASSUME NEW q \in Rounds, AlignInv(q), SameRound(q), NEW v \in Watches, v \in touched'[q],
           touched[q] \subseteq touched'[q],
           \A w \in Watches \ {v} : store'[w] = store[w] /\ table'[w] = table[w]
    PROVE  AlignInv(q)'
<1>1. phase'[q] = "collect" => \A w \in Watches : ~Served(q, w)'
  BY DEF SameRound, AlignInv, Served
<1>2. ASSUME NEW w \in Watches \ touched'[q]
      PROVE  /\ at'[q] = w \/ Served(q, w)' => Aligned(store, q, w)'
             /\ (at'[q] = w /\ phase'[q] # "update") \/ Served(q, w)' => Aligned(table, q, w)'
  <2>1. w \in Watches \ touched[q] /\ store'[w] = store[w] /\ table'[w] = table[w]
    BY <1>2
  <2>2. Served(q, w)' => Served(q, w)
    BY DEF SameRound, Served
  <2> QED BY <2>1, <2>2 DEF SameRound, AlignInv, Aligned, Present, Change
<1> QED BY <1>1, <1>2 DEF AlignInv

LEMMA Undisturbed ==
    ASSUME NEW q \in Rounds, AlignInv(q), SameRound(q), touched'[q] = touched[q],
           UNCHANGED <<store, table>>
    PROVE  AlignInv(q)'
BY DEF SameRound, AlignInv, Served, Aligned, Present, Change

\* A step of a round that writes neither.
LEMMA Unwritten ==
    ASSUME NEW r \in Rounds, AlignInv(r), UNCHANGED <<store, table, touched>>,
           snap'[r] = snap[r], phase'[r] # "collect",
           \A w \in Watches : /\ Served(r, w)' => Served(r, w) \/ (at[r] = w /\ phase[r] # "update")
                              /\ at'[r] = w => at[r] = w /\ phase[r] # "update"
    PROVE  AlignInv(r)'
<1>1. ASSUME NEW w \in Watches \ touched'[r]
      PROVE  /\ at'[r] = w \/ Served(r, w)' => Aligned(store, r, w)'
             /\ (at'[r] = w /\ phase'[r] # "update") \/ Served(r, w)' => Aligned(table, r, w)'
  <2>1. w \in Watches \ touched[r] /\ UNCHANGED <<store, table>>
    BY <1>1
  <2>2. at'[r] = w \/ Served(r, w)' => Served(r, w) \/ (at[r] = w /\ phase[r] # "update")
    BY <2>1
  <2> QED BY <2>1, <2>2 DEF AlignInv, Aligned, Present, Change
<1> QED BY <1>1 DEF AlignInv

LEMMA EnvAlign ==
    ASSUME Inv, \A q \in Rounds : AlignInv(q), NEW w \in Watches, Touched(w), UNCHANGED rounds,
           \A v \in Watches \ {w} : store'[v] = store[v] /\ table'[v] = table[v]
    PROVE  \A q \in Rounds : AlignInv(q)'
<1> SUFFICES ASSUME NEW q \in Rounds PROVE AlignInv(q)'
  OBVIOUS
<1>1. SameRound(q) /\ touched'[q] = touched[q] \union {w}
  BY DEF rounds, SameRound, Touched
<1> QED BY <1>1, Disturbed

LEMMA CheckAlign ==
    ASSUME Inv, \A q \in Rounds : AlignInv(q), NEW r \in Rounds, NEW w \in Watches, Check(r, w)
    PROVE  \A q \in Rounds : AlignInv(q)'
<1>1. RoundTypes /\ AtInv(r) /\ AlignInv(r) /\ touched \in [Rounds -> SUBSET Watches]
  BY DEF Inv, OneRound, TableTypes
<1>2. /\ phase[r] = "next" /\ w \in todo[r] /\ TouchedByRound(r, w)
      /\ at' = [at EXCEPT ![r] = w] /\ Goto(r, "update") /\ UNCHANGED <<table, snap, result>>
  BY DEF Check
<1>3. /\ at'[r] = w /\ phase'[r] = "update" /\ touched'[r] = touched[r] /\ at[r] = None
      /\ None \notin Watches
  BY <1>1, <1>2, NoneAssumption DEF RoundTypes, Goto, TouchedByRound, AtInv
<1>4. /\ Present(store') = Present(store)
      /\ \A v \in Watches \ {w} : store'[v] = store[v]
      /\ w \in Present(store) => store'[w].price = snap[r][w].price /\ store'[w].change = Change(snap[r][w])
  BY CheckStored
<1>5. AlignInv(r)'
  <2>1. ASSUME NEW v \in Watches \ touched[r], v # w
        PROVE  /\ at'[r] = v \/ Served(r, v)' => Aligned(store, r, v)'
               /\ (at'[r] = v /\ phase'[r] # "update") \/ Served(r, v)' => Aligned(table, r, v)'
    <3>1. Served(r, v)' => Served(r, v)
      BY <1>2 DEF Served
    <3>2. store'[v] = store[v] /\ UNCHANGED <<table, snap>> /\ at'[r] # v
      BY <1>2, <1>3, <1>4, <2>1
    <3> QED BY <1>1, <2>1, <3>1, <3>2 DEF AlignInv, Aligned, Present, Change
  <2>2. Aligned(store, r, w)'
    BY <1>2, <1>4 DEF Aligned, Change
  <2>3. w \notin touched[r] /\ Served(r, w)' => Aligned(table, r, w)'
    <3>1. Served(r, w)' => Served(r, w)
      BY <1>2 DEF Served
    <3>2. UNCHANGED <<table, snap>>
      BY <1>2
    <3> QED BY <1>1, <3>1, <3>2 DEF AlignInv, Aligned, Present, Change
  <2> QED BY <1>3, <2>1, <2>2, <2>3 DEF AlignInv
<1>6. ASSUME NEW q \in Rounds \ {r} PROVE AlignInv(q)'
  <2>1. SameRound(q)
    BY CheckStep
  <2>2. w \in touched'[q] /\ touched[q] \subseteq touched'[q]
    BY <1>2, <1>6 DEF TouchedByRound
  <2> QED BY <1>2, <1>4, <2>1, <2>2, Disturbed
<1> QED BY <1>5, <1>6

LEMMA UpdateAlign ==
    ASSUME Inv, \A q \in Rounds : AlignInv(q), NEW r \in Rounds, NEW w \in Watches, Update(r, w)
    PROVE  \A q \in Rounds : AlignInv(q)'
<1>1. RoundTypes /\ AlignInv(r) /\ touched \in [Rounds -> SUBSET Watches]
  BY DEF Inv, TableTypes
<1>2. phase[r] = "update" /\ w = at[r] /\ TouchedByRound(r, w) /\ UNCHANGED <<store, snap>>
  BY DEF Update
<1>3. touched'[r] = touched[r]
  BY <1>2 DEF TouchedByRound
<1>4. PICK ok \in BOOLEAN :
        /\ Present(table') = Present(table)
        /\ \A v \in Watches \ {w} : table'[v] = table[v]
        /\ ok /\ w \in Present(table) => /\ table'[w].price = snap[r][w].price
                                         /\ table'[w].change = Change(snap[r][w])
        /\ IF ok /\ Due(snap[r][w]) THEN Goto(r, "create") /\ UNCHANGED <<result, at>>
           ELSE EndCheck(r, w, IF ok THEN "quiet" ELSE "failed")
  BY UpdateStored
<1>5. /\ phase'[r] # "collect"
      /\ \A v \in Watches \ {w} : result'[r][v] = result[r][v] /\ at'[r] # v
      /\ ~ok => at'[r] # w /\ result'[r][w] = "failed"
  <2>1. CASE ok /\ Due(snap[r][w])
    BY <1>1, <1>2, <1>4, <2>1, Went DEF Steps
  <2>2. CASE ~(ok /\ Due(snap[r][w]))
    <3>1. PICK res \in Results : res = (IF ok THEN "quiet" ELSE "failed") /\ EndCheck(r, w, res)
      BY <1>4, <2>2 DEF Results
    <3> QED BY <1>1, <3>1, Ended, NoneAssumption
  <2> QED BY <2>1, <2>2
<1>6. AlignInv(r)'
  <2>1. ASSUME NEW v \in Watches \ touched[r], v # w
        PROVE  /\ at'[r] = v \/ Served(r, v)' => Aligned(store, r, v)'
               /\ (at'[r] = v /\ phase'[r] # "update") \/ Served(r, v)' => Aligned(table, r, v)'
    <3>1. at'[r] # v /\ (Served(r, v)' => Served(r, v))
      BY <1>5, <2>1 DEF Served
    <3>2. table'[v] = table[v] /\ UNCHANGED <<store, snap>>
      BY <1>2, <1>4, <2>1
    <3> QED BY <1>1, <2>1, <3>1, <3>2 DEF AlignInv, Aligned, Present, Change
  <2>2. w \notin touched[r] => Aligned(store, r, w)'
    BY <1>1, <1>2 DEF AlignInv, Aligned, Present, Change
  <2>3. at'[r] = w \/ Served(r, w)' => Aligned(table, r, w)'
    <3>1. CASE ok
      BY <1>2, <1>4, <3>1 DEF Aligned, Change
    <3>2. CASE ~ok
      BY <1>5, <3>2 DEF Served
    <3> QED BY <3>1, <3>2
  <2> QED BY <1>3, <1>5, <2>1, <2>2, <2>3 DEF AlignInv
<1>7. ASSUME NEW q \in Rounds \ {r} PROVE AlignInv(q)'
  <2>1. SameRound(q)
    BY UpdateStep
  <2>2. w \in touched'[q] /\ touched[q] \subseteq touched'[q]
    BY <1>2, <1>7 DEF TouchedByRound
  <2> QED BY <1>2, <1>4, <2>1, <2>2, Disturbed
<1> QED BY <1>6, <1>7

\* The steps of a round that write neither the store nor the table.
LEMMA QuietAlign ==
    ASSUME Inv, \A q \in Rounds : AlignInv(q), NEW r \in Rounds, NEW w \in Watches,
           EndRound(r) \/ Collect(r, w) \/ Skip(r, w) \/ Create(r, w) \/ Deliver(r, w)
    PROVE  \A q \in Rounds : AlignInv(q)'
<1>0. RoundTypes /\ AtInv(r) /\ AlignInv(r) /\ None \notin Watches
  BY NoneAssumption DEF Inv, OneRound
<1>1. UNCHANGED <<store, table, touched>>
  BY DEF EndRound, Collect, Skip, Create, Deliver, tables
<1>2. ASSUME NEW q \in Rounds \ {r} PROVE AlignInv(q)'
  <2>1. SameRound(q)
    BY RoundStep DEF RoundStepOf
  <2> QED BY <1>1, <2>1, Undisturbed
<1>3. CASE EndRound(r)
  <2>1. "idle" \in Steps /\ Goto(r, "idle") /\ UNCHANGED <<snap, at, result>> /\ phase[r] = "next"
    BY <1>3 DEF EndRound, Steps
  <2>2. phase'[r] = "idle"
    BY <1>0, <2>1, Went
  <2>3. \A v \in Watches : Served(r, v)' => Served(r, v)
    BY <2>1 DEF Served
  <2> QED BY <1>0, <1>1, <1>2, <2>1, <2>2, <2>3, Unwritten
<1>4. CASE Collect(r, w)
  <2>1. /\ phase[r] = "collect" /\ UNCHANGED <<at, result>> /\ at'[r] = None
        /\ \A v \in Watches : ~Served(r, v)
    BY <1>0, <1>4 DEF Collect, AlignInv, AtInv
  <2>2. \A v \in Watches : ~Served(r, v)'
    BY <2>1 DEF Served
  <2>3. AlignInv(r)'
    BY <1>0, <2>1, <2>2 DEF AlignInv
  <2> QED BY <1>2, <2>3
<1>5. ASSUME NEW res \in {"skipped", "failed", "alerted"}, EndCheck(r, w, res), snap' = snap,
             res = "alerted" => at[r] = w /\ phase[r] # "update"
      PROVE  AlignInv(r)'
  <2>1. res \in Results
    BY DEF Results
  <2>2. /\ phase'[r] = "next" /\ at'[r] = None /\ result'[r][w] = res
        /\ \A v \in Watches \ {w} : result'[r][v] = result[r][v]
    BY <1>0, <1>5, <2>1, Ended
  <2>3. \A v \in Watches : Served(r, v)' => Served(r, v) \/ (at[r] = v /\ phase[r] # "update")
    BY <1>5, <2>2 DEF Served
  <2> QED BY <1>0, <1>1, <1>5, <2>2, <2>3, Unwritten
<1>6. CASE Skip(r, w)
  BY <1>2, <1>5, <1>6 DEF Skip
<1>7. CASE Deliver(r, w)
  BY <1>2, <1>5, <1>7 DEF Deliver
<1>8. CASE Create(r, w)
  <2>1. phase[r] = "create" /\ w = at[r] /\ snap' = snap
    BY <1>8 DEF Create
  <2>2. CASE EndCheck(r, w, "failed")
    BY <1>2, <1>5, <2>1, <2>2
  <2>3. CASE Goto(r, "deliver") /\ UNCHANGED <<result, at>>
    <3>1. phase'[r] = "deliver" /\ "deliver" \in Steps
      BY <1>0, <2>3, Went DEF Steps
    <3>2. \A v \in Watches : Served(r, v)' => Served(r, v)
      BY <2>3 DEF Served
    <3> QED BY <1>0, <1>1, <1>2, <2>1, <2>3, <3>1, <3>2, Unwritten
  <2> QED BY <1>8, <2>2, <2>3 DEF Create
<1> QED BY <1>3, <1>4, <1>6, <1>7, <1>8

LEMMA AlignStep ==
    Inv /\ (\A q \in Rounds : AlignInv(q)) /\ [Next]_vars => \A q \in Rounds : AlignInv(q)'
<1> SUFFICES ASSUME Inv, \A q \in Rounds : AlignInv(q), [Next]_vars
             PROVE  \A q \in Rounds : AlignInv(q)'
  OBVIOUS
<1>1. ASSUME NEW w \in Watches, Edit(w),
             \A v \in Watches \ {w} : store'[v] = store[v] /\ table'[v] = table[v]
      PROVE  \A q \in Rounds : AlignInv(q)'
  BY <1>1, EnvAlign DEF Edit
<1>2. ASSUME NEW w \in Watches, NEW ref \in References, NEW t \in Thresholds, AddTokenWatch(w, ref, t)
      PROVE  \A q \in Rounds : AlignInv(q)'
  BY <1>1, <1>2 DEF AddTokenWatch, Inv, TableTypes
<1>3. ASSUME NEW w \in Watches, RemoveTokenWatch(w) \/ LoadWatch(w) \/ DropWatch(w)
      PROVE  \A q \in Rounds : AlignInv(q)'
  BY <1>1, <1>3 DEF RemoveTokenWatch, LoadWatch, DropWatch, Inv, TableTypes
<1>4. ASSUME UNCHANGED <<store, table, touched, rounds>> PROVE \A q \in Rounds : AlignInv(q)'
  BY <1>4, Undisturbed DEF rounds, SameRound
<1>5. ASSUME NEW f \in Feeders, NEW w \in Watches, NEW price \in Prices \union {None}, FeedRead(f, w, price)
      PROVE  \A q \in Rounds : AlignInv(q)'
  BY <1>4, <1>5 DEF FeedRead, tables
<1>6. ASSUME NEW f \in Feeders, FeedStore(f) PROVE \A q \in Rounds : AlignInv(q)'
  <2>1. PICK w \in Watches : w = feed[f].watch
    BY <1>6, FeedFields DEF FeedStore
  <2>2. /\ \A v \in Watches \ {w} : store'[v] = store[v] /\ table'[v] = table[v]
        /\ Touched(w) /\ UNCHANGED rounds
    BY <1>6, <2>1, FeedStored DEF FeedStore
  <2> QED BY <2>2, EnvAlign
<1>7. ASSUME NEW f \in Feeders, FeedTable(f) PROVE \A q \in Rounds : AlignInv(q)'
  <2>1. PICK w \in Watches : w = feed[f].watch
    BY <1>7, FeedFields DEF FeedTable
  <2>2. /\ \A v \in Watches \ {w} : store'[v] = store[v] /\ table'[v] = table[v]
        /\ Touched(w) /\ UNCHANGED rounds
    BY <1>7, <2>1, FeedTabled DEF FeedTable
  <2> QED BY <2>2, EnvAlign
<1>8. ASSUME NEW r \in Rounds, BeginRound(r) PROVE \A q \in Rounds : AlignInv(q)'
  <2>1. AlignInv(r)'
    <3>1. /\ RoundTypes /\ AtInv(r) /\ at' = at /\ phase[r] = "idle" /\ None \notin Watches
          /\ result' = [result EXCEPT ![r] = NoResult]
      BY <1>8, NoneAssumption DEF BeginRound, Inv, OneRound
    <3>2. result'[r] = NoResult /\ at'[r] = None
      BY <3>1 DEF RoundTypes, AtInv
    <3>3. \A w \in Watches : ~Served(r, w)'
      BY <3>2 DEF Served, NoResult
    <3> QED BY <3>1, <3>2, <3>3 DEF AlignInv
  <2>2. ASSUME NEW q \in Rounds \ {r} PROVE AlignInv(q)'
    <3>1. SameRound(q)
      BY <1>8, BeginStep
    <3>2. touched'[q] = touched[q] /\ UNCHANGED <<store, table>>
      BY <1>8 DEF BeginRound, tables, Inv, TableTypes
    <3> QED BY <3>1, <3>2, Undisturbed
  <2> QED BY <2>1, <2>2
<1>9. ASSUME NEW r \in Rounds, EndRound(r) PROVE \A q \in Rounds : AlignInv(q)'
  <2>1. CASE Watches = {}
    BY <2>1 DEF AlignInv
  <2>2. ASSUME NEW w \in Watches PROVE \A q \in Rounds : AlignInv(q)'
    BY <1>9, QuietAlign
  <2> QED BY <2>1, <2>2
<1>10. CASE UNCHANGED vars
  BY <1>4, <1>10 DEF vars, tables
<1> QED
  BY <1>2, <1>3, <1>5, <1>6, <1>7, <1>8, <1>9, <1>10, CheckAlign, UpdateAlign, QuietAlign DEF Next

\* When a round has ended, what nobody else wrote is the same in the store, the table
\* and the round, unless its statement failed.
THEOREM Alignment == Spec => []RoundAligns
<1> DEFINE Align == \A q \in Rounds : AlignInv(q)
<1>1. Init => Align
  BY NoneAssumption DEF Init, AlignInv, Served, NoResult
<1>2. Inv /\ Align => RoundAligns
  <2> SUFFICES ASSUME Inv, Align, NEW r \in Rounds, phase[r] = "idle",
                      NEW w \in (Present(store) \intersect Present(table)) \ touched[r],
                      result[r][w] \in {"quiet", "alerted"}
               PROVE  /\ store[w].price = snap[r][w].price /\ table[w].price = snap[r][w].price
                      /\ store[w].change = table[w].change
    BY DEF RoundAligns
  <2>1. w \in Watches \ touched[r]
    BY DEF Present
  <2> QED BY <2>1 DEF AlignInv, Served, Aligned
<1>3. Inv /\ Align /\ [Next]_vars => Align'
  BY AlignStep
<1> HIDE DEF Align
<1> QED BY <1>1, <1>2, <1>3, TypeInit, InvStep, PTL DEF Spec
=============================================================================
