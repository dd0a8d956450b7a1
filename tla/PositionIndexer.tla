-------------------------- MODULE PositionIndexer --------------------------
(***************************************************************************)
(* PositionIndexer::index_user with the two adapters it reads the chain    *)
(* through, the upserts of lending_positions and lp_positions, and the     *)
(* list of active wallets of the PositionStore.  Calls run at once, for    *)
(* the same user too, while the chain goes on.                             *)
(*                                                                         *)
(* One action per await.  Every read is of the latest block, whatever      *)
(* block_number the call was given.  An account is its health factor; of a *)
(* liquidity position only the token id is kept.  Ticks and the range are  *)
(* read too, but not stored by index_user.  The list of active wallets is  *)
(* a set: it is looked at and pushed to under one lock.                    *)
(***************************************************************************)
EXTENDS Naturals, Sequences, SequencesExt, FiniteSets

CONSTANTS
    Users,        \* each with one wallet
    Tokens,       \* NFTs of the position manager
    Calls,        \* calls of index_user
    Factors,      \* health factors a Decimal and the column can hold
    None,         \* no account, no row, no token
    NoDebt,       \* the health factor of a user without debt: 2^256 - 1, no Decimal
    TooLarge,     \* one of a dust debt: a Decimal, but too large for the column
    MaxEvents,    \* bound: things that happen on the chain
    Faults        \* what may go wrong, a subset of FaultKinds

FaultKinds == {"db_refused", "db_lost", "rpc"}

ASSUME IndexerAssumption ==
    /\ None \notin Factors \union Tokens \union {NoDebt, TooLarge}
    /\ NoDebt \notin Factors \union {TooLarge} /\ TooLarge \notin Factors
    /\ IsFiniteSet(Tokens) /\ MaxEvents \in Nat
    /\ Faults \subseteq FaultKinds

Accounts == Factors \union {None, NoDebt, TooLarge}

VARIABLES
    account,    \* chain: the Aave account of a user
    held,       \* chain: tokens of a user in the order of tokenOfOwnerByIndex
    liquid,     \* chain: tokens with liquidity
    events,     \* things that happened on the chain so far
    lending,    \* lending_positions: health factor and the call that wrote it
    lp,         \* lp_positions: tokens of a user, all of them active for good
    wallets,    \* active_wallets
    step,       \* the await a call stands at, or its answer
    user,       \* whom it indexes
    factor,     \* the account it has read
    count,      \* the balance it has read
    token,      \* the token it has read
    found,      \* positions(), in order; then those still to be stored
    next,       \* the index to be read
    seen,       \* history: what the account was since the call began
    kept,       \* history: tokens held, with liquidity, ever since the balance was read
    moved,      \* history: a token has left the wallet since
    before,     \* history: calls for the user that had ended when this one began
    erred       \* history: statements of the call that failed, reads that failed

chain == <<account, held, liquid, events>>
tables == <<lending, lp, wallets>>
call == <<step, user, factor, count, token, found, next>>
history == <<seen, kept, moved, before, erred>>
vars == <<chain, tables, call, history>>

Ended == {"ok", "failed"}
Steps == {"idle", "account", "lending", "balance", "token", "position", "lp", "wallet"} \union Ended
LendingRows == [factor : Factors, by : Calls]

ASSUME NoneAssumption == None \notin LendingRows

TypeOK ==
    /\ account \in [Users -> Accounts]
    /\ \A u \in Users : ToSet(held[u]) \subseteq Tokens /\ IsInjective(held[u])
    /\ liquid \subseteq Tokens /\ events \in 0 .. MaxEvents
    /\ lending \in [Users -> LendingRows \union {None}]
    /\ lp \in [Users -> SUBSET Tokens]
    /\ wallets \subseteq Users
    /\ step \in [Calls -> Steps]
    /\ user \in [Calls -> Users \union {None}]
    /\ factor \in [Calls -> Accounts]
    /\ token \in [Calls -> Tokens \union {None}]
    /\ \A c \in Calls : /\ ToSet(found[c]) \subseteq Tokens
                        /\ next[c] <= count[c] /\ count[c] <= Cardinality(Tokens)
    /\ seen \in [Calls -> SUBSET Accounts]
    /\ kept \in [Calls -> SUBSET Tokens]
    /\ moved \in [Calls -> BOOLEAN]
    /\ before \in [Calls -> SUBSET Calls]
    /\ erred \in [Calls -> SUBSET {"db", "rpc"}]

Init ==
    /\ account = [u \in Users |-> None]
    /\ held = [u \in Users |-> <<>>]
    /\ liquid = Tokens /\ events = 0
    /\ lending = [u \in Users |-> None]
    /\ lp = [u \in Users |-> {}]
    /\ wallets = {}
    /\ step = [c \in Calls |-> "idle"]
    /\ user = [c \in Calls |-> None]
    /\ factor = user /\ token = user
    /\ count = [c \in Calls |-> 0] /\ next = count
    /\ found = [c \in Calls |-> <<>>]
    /\ seen = [c \in Calls |-> {}]
    /\ kept = seen /\ before = seen /\ erred = seen
    /\ moved = [c \in Calls |-> FALSE]

----------------------------------------------------------------------------
(* The chain *)

CallsOf(u) == {c \in Calls : user[c] = u}

Event == events < MaxEvents /\ events' = events + 1 /\ UNCHANGED <<tables, call, before, erred>>

ChangeAccount(u, a) ==
    /\ Event
    /\ account' = [account EXCEPT ![u] = a]
    /\ seen' = [c \in Calls |-> IF user[c] = u THEN seen[c] \union {a} ELSE seen[c]]
    /\ UNCHANGED <<held, liquid, kept, moved>>

ReceiveToken(u, t) ==
    /\ Event
    /\ \A v \in Users : t \notin ToSet(held[v])
    /\ held' = [held EXCEPT ![u] = Append(@, t)]
    /\ UNCHANGED <<account, liquid, seen, kept, moved>>

\* The last token of the wallet takes the place of the one that leaves.
SendToken(u, i) ==
    /\ Event
    /\ held' = [held EXCEPT ![u] = Front([@ EXCEPT ![i] = Last(held[u])])]
    /\ kept' = [c \in Calls |-> IF user[c] = u THEN kept[c] \ {held[u][i]} ELSE kept[c]]
    /\ moved' = [c \in Calls |-> moved[c] \/ user[c] = u]
    /\ UNCHANGED <<account, liquid, seen>>

Withdraw(t) ==
    /\ Event
    /\ t \in liquid
    /\ liquid' = liquid \ {t}
    /\ kept' = [c \in Calls |-> kept[c] \ {t}]
    /\ UNCHANGED <<account, held, seen, moved>>

ChainEvent ==
    \/ \E u \in Users :
          \/ \E a \in Accounts \ {account[u]} : ChangeAccount(u, a)
          \/ \E t \in Tokens : ReceiveToken(u, t)
          \/ \E i \in DOMAIN held[u] : SendToken(u, i)
    \/ \E t \in Tokens : Withdraw(t)

----------------------------------------------------------------------------
(* index_user *)

Applied(ok) == ok \/ "db_lost" \in Faults
Refused(ok) == ~ok /\ "db_refused" \in Faults

Goto(c, s) == step' = [step EXCEPT ![c] = s]
Errs(c, kind) == erred' = [erred EXCEPT ![c] = @ \union {kind}]

\* A failing read is logged, and the call goes on at s.
ReadFails(c, s) ==
    /\ "rpc" \in Faults
    /\ Goto(c, s) /\ Errs(c, "rpc")
    /\ UNCHANGED <<factor, count, token, found, next, kept, moved>>

\* s = "account", or "wallet" for index_user_stub, which does no more than that.
Begin(c, u, s) ==
    /\ step[c] = "idle"
    /\ user' = [user EXCEPT ![c] = u]
    /\ Goto(c, s)
    /\ seen' = [seen EXCEPT ![c] = {account[u]}]
    /\ before' = [before EXCEPT ![c] = {d \in CallsOf(u) : step[d] \in Ended}]
    /\ UNCHANGED <<chain, tables, factor, count, token, found, next, kept, moved, erred>>

\* Mutant: the adapter keeps what it has read for a user.
ReadAccountCached(c) ==
    /\ step[c] = "account"
    /\ LET row == lending[user[c]]
           f == IF row = None THEN account[user[c]] ELSE row.factor
       IN  /\ factor' = [factor EXCEPT ![c] = f]
           /\ Goto(c, IF f = None THEN "balance" ELSE IF f = NoDebt THEN "failed" ELSE "lending")
    /\ UNCHANGED <<chain, tables, user, count, token, found, next, history>>

\* Mutant: a failing read ends the call.
ReadAccountOrFail(c) ==
    /\ step[c] = "account"
    /\ \/ Goto(c, "balance") /\ UNCHANGED erred
       \/ "rpc" \in Faults /\ Goto(c, "failed") /\ Errs(c, "rpc")
    /\ UNCHANGED <<chain, tables, user, factor, count, token, found, next, seen, kept, moved, before>>

\* Mutant: a health factor without end is stored as it is.
ReadAccountUnbounded(c) ==
    /\ step[c] = "account"
    /\ factor' = [factor EXCEPT ![c] = account[user[c]]]
    /\ Goto(c, IF account[user[c]] = None THEN "balance" ELSE "lending")
    /\ UNCHANGED <<chain, tables, user, count, token, found, next, history>>

\* get_user_account_data.  No account is no error.  Decimal::from_str refuses the
\* health factor of a user without debt, and the call ends there.
ReadAccount(c) ==
    /\ step[c] = "account"
    /\ \/ /\ factor' = [factor EXCEPT ![c] = account[user[c]]]
          /\ Goto(c, CASE account[user[c]] = None -> "balance"
                       [] account[user[c]] = NoDebt -> "failed"
                       [] OTHER -> "lending")
          /\ UNCHANGED <<count, token, found, next, kept, moved, erred>>
       \/ ReadFails(c, "balance")
    /\ UNCHANGED <<chain, tables, user, seen, before>>

\* The statement of upsert_lending_position: the last writer wins, whatever the blocks.
StoreFactor(c) ==
    /\ factor[c] # TooLarge
    /\ \E ok \in BOOLEAN :
          /\ \/ Applied(ok) /\ lending' = [lending EXCEPT ![user[c]] = [factor |-> factor[c], by |-> c]]
             \/ Refused(ok) /\ UNCHANGED lending
          /\ IF ok THEN Goto(c, "balance") /\ UNCHANGED erred
                   ELSE Goto(c, "failed") /\ Errs(c, "db")

\* A health factor beyond DECIMAL(10, 4) is refused by the column.
OverflowColumn(c) ==
    /\ factor[c] = TooLarge
    /\ Goto(c, "failed")
    /\ UNCHANGED <<lending, erred>>

UpsertLending(c) ==
    /\ step[c] = "lending"
    /\ StoreFactor(c) \/ OverflowColumn(c)
    /\ UNCHANGED <<chain, lp, wallets, user, factor, count, token, found, next, seen, kept, moved, before>>

\* get_user_positions: balanceOf, then tokenOfOwnerByIndex and positions() for each
\* index below it.  An index that is past the end by now reverts.
ReadBalance(c) ==
    /\ step[c] = "balance"
    /\ \/ /\ count' = [count EXCEPT ![c] = Len(held[user[c]])]
          /\ kept' = [kept EXCEPT ![c] = ToSet(held[user[c]]) \intersect liquid]
          /\ moved' = [moved EXCEPT ![c] = FALSE]
          /\ Goto(c, IF held[user[c]] = <<>> THEN "wallet" ELSE "token")
          /\ UNCHANGED <<factor, token, found, next, erred>>
       \/ ReadFails(c, "wallet")
    /\ UNCHANGED <<chain, tables, user, seen, before>>

ReadToken(c) ==
    /\ step[c] = "token"
    /\ \/ /\ next[c] < Len(held[user[c]])
          /\ token' = [token EXCEPT ![c] = held[user[c]][next[c] + 1]]
          /\ next' = [next EXCEPT ![c] = @ + 1]
          /\ Goto(c, "position")
          /\ UNCHANGED <<factor, count, found, kept, moved, erred>>
       \/ /\ next[c] >= Len(held[user[c]])
          /\ Goto(c, "wallet") /\ Errs(c, "rpc")
          /\ UNCHANGED <<factor, count, token, found, next, kept, moved>>
       \/ ReadFails(c, "wallet")
    /\ UNCHANGED <<chain, tables, user, seen, before>>

\* Mutant: a position without liquidity ends the list.
ReadPositionOrStop(c) ==
    /\ step[c] = "position"
    /\ found' = [found EXCEPT ![c] = IF token[c] \in liquid THEN Append(@, token[c]) ELSE @]
    /\ Goto(c, IF next[c] < count[c] /\ token[c] \in liquid THEN "token"
               ELSE IF found'[c] = <<>> THEN "wallet" ELSE "lp")
    /\ UNCHANGED <<chain, tables, user, factor, count, token, next, history>>

\* positions(), getPool and slot0.  A position without liquidity is skipped.
ReadPosition(c) ==
    /\ step[c] = "position"
    /\ \/ /\ found' = [found EXCEPT ![c] = IF token[c] \in liquid THEN Append(@, token[c]) ELSE @]
          /\ Goto(c, IF next[c] < count[c] THEN "token" ELSE IF found'[c] = <<>> THEN "wallet" ELSE "lp")
          /\ UNCHANGED <<factor, count, token, next, kept, moved, erred>>
       \/ ReadFails(c, "wallet")
    /\ UNCHANGED <<chain, tables, user, seen, before>>

\* upsert_lp_position, one by one.
UpsertLp(c) ==
    /\ step[c] = "lp"
    /\ found' = [found EXCEPT ![c] = Tail(@)]
    /\ \E ok \in BOOLEAN :
          /\ \/ Applied(ok) /\ lp' = [lp EXCEPT ![user[c]] = @ \union {Head(found[c])}]
             \/ Refused(ok) /\ UNCHANGED lp
          /\ IF ok THEN Goto(c, IF found'[c] = <<>> THEN "wallet" ELSE "lp") /\ UNCHANGED erred
                   ELSE Goto(c, "failed") /\ Errs(c, "db")
    /\ UNCHANGED <<chain, lending, wallets, user, factor, count, token, next, seen, kept, moved, before>>

\* add_active_wallet, whether or not the reads went well.
AddWallet(c) ==
    /\ step[c] = "wallet"
    /\ wallets' = wallets \union {user[c]}
    /\ Goto(c, "ok")
    /\ UNCHANGED <<chain, lending, lp, user, factor, count, token, found, next, history>>

\* remove_active_wallet does not wait for the calls that run.
RemoveWallet(u) ==
    /\ u \in wallets
    /\ wallets' = wallets \ {u}
    /\ UNCHANGED <<chain, lending, lp, call, history>>

IndexUser(c) ==
    \/ ReadAccount(c) \/ UpsertLending(c)
    \/ ReadBalance(c) \/ ReadToken(c) \/ ReadPosition(c) \/ UpsertLp(c)
    \/ AddWallet(c)

Next ==
    \/ \E c \in Calls, u \in Users, s \in {"account", "wallet"} : Begin(c, u, s)
    \/ \E c \in Calls : IndexUser(c)
    \/ \E u \in Users : RemoveWallet(u)
    \/ ChainEvent

Spec == Init /\ [][Next]_vars

----------------------------------------------------------------------------
(* Properties *)

\* What the table says of an account was true at some time while the call that wrote
\* it ran, however late it was written.  And a late result overwrites a newer one only
\* if the two calls overlapped: what a call has stored is never that of one which had
\* ended before it began (upsert_lending_position compares no block numbers).
RowIsOfItsTime ==
    /\ \A u \in Users : lending[u] # None => lending[u].factor \in seen[lending[u].by]
    /\ \A c \in Calls, u \in Users :
          user[c] = u /\ step[c] \notin {"idle", "account", "lending"}
             /\ factor[c] \in Factors /\ erred[c] = {}
          => lending[u] # None /\ lending[u].by \notin before[c]

\* The list is read index by index, while tokens come and go: a call that read it
\* through has stored all positions the wallet held the whole time, unless a token
\* left it meanwhile and another took its index.
ListIsComplete ==
    \A c \in Calls : step[c] = "ok" /\ erred[c] = {} /\ ~moved[c] => kept[c] \subseteq lp[user[c]]

\* Reads may fail or revert half-way and the call goes on to the wallet: it fails only by
\* a statement that failed, or by an account as it was at some time during the call, of
\* which the health factor is beyond what a Decimal or the column can hold (no debt, or
\* next to none).
ReadErrorsAreSurvived ==
    \A c \in Calls : step[c] = "failed" =>
        "db" \in erred[c] \/ factor[c] \in {NoDebt, TooLarge} \intersect seen[c]
=============================================================================
