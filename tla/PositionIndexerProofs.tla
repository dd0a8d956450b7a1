----------------------- MODULE PositionIndexerProofs ------------------------
(***************************************************************************)
(* Proofs about overlapping calls of index_user, for any number of users,  *)
(* tokens and calls, whatever happens on the chain meanwhile and whichever *)
(* reads and statements fail.                                              *)
(***************************************************************************)
EXTENDS PositionIndexer, FiniteSetTheorems, TLAPS

\* The part of TypeOK that the account, its row and the calls need.
CallTypes ==
    /\ account \in [Users -> Accounts]
    /\ lending \in [Users -> LendingRows \union {None}]
    /\ step \in [Calls -> Steps]
    /\ user \in [Calls -> Users \union {None}]
    /\ factor \in [Calls -> Accounts]
    /\ seen \in [Calls -> SUBSET Accounts]
    /\ before \in [Calls -> SUBSET Calls]
    /\ erred \in [Calls -> SUBSET {"db", "rpc"}]

\* What a call knows: it begins with nothing, sees what its user's account is, and
\* what it is about to store it has seen.
CallInv ==
    \A c \in Calls :
        /\ step[c] \in {"idle", "account"} => factor[c] = None /\ erred[c] = {}
        /\ step[c] # "idle" => user[c] \in Users /\ account[user[c]] \in seen[c]
        /\ step[c] = "lending" => factor[c] \in Factors \union {TooLarge} /\ factor[c] \in seen[c]
        /\ \A d \in before[c] : step[d] \in Ended

\* The call that wrote a row is its user's and past its statement.
WriterInv ==
    \A u \in Users : lending[u] # None =>
        /\ user[lending[u].by] = u
        /\ step[lending[u].by] \notin {"idle", "account"}
        /\ lending[u].factor \in seen[lending[u].by]

\* A call that has stored its result is not followed by one that had ended before.
LaterInv ==
    \A c \in Calls :
        step[c] \notin {"idle", "account", "lending"} /\ factor[c] \in Factors /\ erred[c] = {}
            => lending[user[c]] # None /\ lending[user[c]].by \notin before[c]

Inv == CallTypes /\ CallInv /\ WriterInv /\ LaterInv

LEMMA InvInit == Init => Inv
BY IndexerAssumption DEF Init, Inv, CallTypes, CallInv, WriterInv, LaterInv, Accounts, Steps

\* The reads after the account's, and what is done with the liquidity positions, only
\* move the call on and add to its errors.
Later(c) ==
    /\ step[c] \in {"balance", "token", "position", "lp", "wallet"}
    /\ \E s \in {"balance", "token", "position", "lp", "wallet", "ok", "failed"} :
          step' = [step EXCEPT ![c] = s]
    /\ \E e \in SUBSET {"db", "rpc"} : erred' = [erred EXCEPT ![c] = @ \union e]
    /\ UNCHANGED <<account, lending, user, factor, seen, before>>

LEMMA LaterSteps ==
    ASSUME CallTypes, NEW c \in Calls,
           ReadBalance(c) \/ ReadToken(c) \/ ReadPosition(c) \/ UpsertLp(c) \/ AddWallet(c)
    PROVE  Later(c)
<1> USE DEF Later, Goto, Errs, chain, tables, history
<1>0. ASSUME UNCHANGED erred PROVE \E e \in SUBSET {"db", "rpc"} : erred' = [erred EXCEPT ![c] = @ \union e]
  BY <1>0 DEF CallTypes
<1>1. CASE ReadBalance(c)
  BY <1>0, <1>1 DEF ReadBalance, ReadFails
<1>2. CASE ReadToken(c)
  BY <1>0, <1>2 DEF ReadToken, ReadFails
<1>3. CASE ReadPosition(c)
  BY <1>0, <1>3 DEF ReadPosition, ReadFails
<1>4. CASE UpsertLp(c)
  BY <1>0, <1>4 DEF UpsertLp
<1>5. CASE AddWallet(c)
  BY <1>0, <1>5 DEF AddWallet
<1> QED BY <1>1, <1>2, <1>3, <1>4, <1>5

LEMMA LaterStep == ASSUME Inv, NEW c \in Calls, Later(c) PROVE Inv'
<1> USE DEF Inv
<1>1. PICK s \in {"balance", "token", "position", "lp", "wallet", "ok", "failed"}, e \in SUBSET {"db", "rpc"} :
        /\ step' = [step EXCEPT ![c] = s]
        /\ erred' = [erred EXCEPT ![c] = @ \union e]
  BY DEF Later
<1>2. step[c] \in {"balance", "token", "position", "lp", "wallet"}
      /\ UNCHANGED <<account, lending, user, factor, seen, before>>
  BY DEF Later
<1>3. /\ step'[c] = s /\ \A d \in Calls \ {c} : step'[d] = step[d]
      /\ erred'[c] = erred[c] \union e /\ \A d \in Calls \ {c} : erred'[d] = erred[d]
  BY <1>1 DEF CallTypes
<1>4. CallTypes'
  BY <1>1, <1>2 DEF CallTypes, Steps, Ended
<1>5. CallInv'
  BY <1>2, <1>3 DEF CallInv, CallTypes, Ended
<1>6. WriterInv'
  BY <1>2, <1>3 DEF WriterInv, CallTypes, LendingRows
<1>7. LaterInv'
  BY <1>2, <1>3 DEF LaterInv
<1> QED BY <1>4, <1>5, <1>6, <1>7

LEMMA AccountStep == ASSUME Inv, NEW c \in Calls, ReadAccount(c) PROVE Inv'
<1> USE IndexerAssumption DEF Inv
<1>1. step[c] = "account" /\ UNCHANGED <<account, lending, user, seen, before>>
  BY DEF ReadAccount, chain, tables
<1>2. user[c] \in Users /\ account[user[c]] \in Accounts /\ account[user[c]] \in seen[c]
      /\ factor[c] = None /\ erred[c] = {}
  BY <1>1 DEF CallInv, CallTypes
<1>3. WriterInv /\ c \notin {d \in Calls : \E u \in Users : lending[u] # None /\ lending[u].by = d}
  BY <1>1 DEF WriterInv
<1>4. CASE /\ factor' = [factor EXCEPT ![c] = account[user[c]]]
           /\ Goto(c, CASE account[user[c]] = None -> "balance"
                        [] account[user[c]] = NoDebt -> "failed"
                        [] OTHER -> "lending")
           /\ UNCHANGED erred
  <2>1. PICK s \in {"balance", "failed", "lending"} :
          /\ step' = [step EXCEPT ![c] = s]
          /\ s = "lending" <=> account[user[c]] \in Factors \union {TooLarge}
    BY <1>2, <1>4 DEF Goto, Accounts
  <2>2. /\ step'[c] = s /\ \A d \in Calls \ {c} : step'[d] = step[d]
        /\ factor'[c] = account[user[c]] /\ \A d \in Calls \ {c} : factor'[d] = factor[d]
    BY <1>4, <2>1 DEF CallTypes
  <2>3. CallTypes'
    BY <1>1, <1>2, <1>4, <2>1 DEF CallTypes, Steps, Ended
  <2>4. CallInv'
    BY <1>1, <1>2, <1>4, <2>1, <2>2 DEF CallInv, CallTypes, Ended
  <2>5. WriterInv'
    BY <1>1, <2>1, <2>2 DEF WriterInv, CallTypes, LendingRows
  <2>6. LaterInv'
    BY <1>1, <1>4, <2>1, <2>2 DEF LaterInv
  <2> QED BY <2>3, <2>4, <2>5, <2>6
<1>5. CASE Goto(c, "balance") /\ Errs(c, "rpc") /\ UNCHANGED factor
  <2>1. /\ step'[c] = "balance" /\ \A d \in Calls \ {c} : step'[d] = step[d]
        /\ erred'[c] = {"rpc"} /\ \A d \in Calls \ {c} : erred'[d] = erred[d]
    BY <1>2, <1>5 DEF CallTypes, Goto, Errs
  <2>2. CallTypes'
    BY <1>1, <1>5 DEF CallTypes, Steps, Ended, Goto, Errs
  <2>3. CallInv'
    BY <1>1, <1>2, <1>5, <2>1 DEF CallInv, CallTypes, Ended
  <2>4. WriterInv'
    BY <1>1, <2>1 DEF WriterInv, CallTypes, LendingRows
  <2>5. LaterInv'
    BY <1>1, <1>5, <2>1 DEF LaterInv
  <2> QED BY <2>2, <2>3, <2>4, <2>5
<1> QED BY <1>4, <1>5 DEF ReadAccount, ReadFails

LEMMA UpsertStep == ASSUME Inv, NEW c \in Calls, UpsertLending(c) PROVE Inv'
<1> USE IndexerAssumption, NoneAssumption DEF Inv
<1>1. step[c] = "lending" /\ UNCHANGED <<account, user, factor, seen, before>>
  BY DEF UpsertLending, chain
<1>2. user[c] \in Users /\ factor[c] \in Factors \union {TooLarge} /\ factor[c] \in seen[c]
  BY <1>1 DEF CallInv
<1>0. CASE OverflowColumn(c)
  <2>1. /\ step'[c] = "failed" /\ \A d \in Calls \ {c} : step'[d] = step[d]
        /\ factor[c] \notin Factors /\ UNCHANGED <<lending, erred>>
    BY <1>0 DEF OverflowColumn, Goto, CallTypes
  <2>2. CallTypes'
    BY <1>0, <1>1, <2>1 DEF OverflowColumn, Goto, CallTypes, Steps, Ended
  <2>3. CallInv'
    BY <1>1, <2>1 DEF CallInv, CallTypes, Ended
  <2>4. WriterInv'
    BY <1>1, <2>1 DEF WriterInv, CallTypes, LendingRows
  <2>5. LaterInv'
    BY <1>1, <2>1 DEF LaterInv
  <2> QED BY <2>2, <2>3, <2>4, <2>5
<1>20. SUFFICES ASSUME StoreFactor(c) PROVE Inv'
  BY <1>0 DEF UpsertLending
<1>21. factor[c] \in Factors
  BY <1>2, <1>20 DEF StoreFactor
<1> DEFINE new == [factor |-> factor[c], by |-> c]
           Writes(s, e) == /\ step' = [step EXCEPT ![c] = s]
                           /\ erred' = [erred EXCEPT ![c] = @ \union e]
                           /\ \/ lending' = [lending EXCEPT ![user[c]] = new]
                              \/ s = "failed" /\ "db" \in e /\ UNCHANGED lending
                           /\ s = "failed" => "db" \in e
<1>3. \E s \in {"balance", "failed"}, e \in SUBSET {"db", "rpc"} : Writes(s, e)
  <2>1. PICK ok \in BOOLEAN :
          /\ \/ lending' = [lending EXCEPT ![user[c]] = new]
             \/ ~ok /\ UNCHANGED lending
          /\ IF ok THEN Goto(c, "balance") /\ UNCHANGED erred ELSE Goto(c, "failed") /\ Errs(c, "db")
    BY <1>20 DEF StoreFactor, Refused
  <2>2. CASE ok
    <3>1. UNCHANGED erred => erred' = [erred EXCEPT ![c] = @ \union {}]
      BY DEF CallTypes
    <3>2. Writes("balance", {})
      BY <2>1, <2>2, <3>1 DEF Goto
    <3> HIDE DEF Writes
    <3> QED BY <3>2
  <2>3. CASE ~ok
    <3>1. Writes("failed", {"db"})
      BY <2>1, <2>3 DEF Goto, Errs
    <3> HIDE DEF Writes
    <3> QED BY <3>1
  <2> QED BY <2>2, <2>3
<1>4. PICK s \in {"balance", "failed"}, e \in SUBSET {"db", "rpc"} : Writes(s, e)
  BY <1>3
<1>5. /\ step'[c] = s /\ \A d \in Calls \ {c} : step'[d] = step[d]
      /\ erred'[c] = erred[c] \union e /\ \A d \in Calls \ {c} : erred'[d] = erred[d]
  BY <1>4 DEF CallTypes
<1>6. CallTypes'
  <2>1. [factor |-> factor[c], by |-> c] \in LendingRows
    BY <1>21 DEF LendingRows
  <2>2. lending' \in [Users -> LendingRows \union {None}]
    BY <1>2, <1>4, <2>1 DEF CallTypes
  <2> QED BY <1>1, <1>4, <2>2 DEF CallTypes, Steps, Ended
<1>7. CallInv'
  BY <1>1, <1>5 DEF CallInv, CallTypes, Ended
<1>8. \A u \in Users \ {user[c]} : lending'[u] = lending[u]
  BY <1>2, <1>4 DEF CallTypes
<1>9. \/ lending'[user[c]] = [factor |-> factor[c], by |-> c]
      \/ lending'[user[c]] = lending[user[c]] /\ s = "failed"
  BY <1>2, <1>4 DEF CallTypes
<1>10. [factor |-> factor[c], by |-> c] # None
  BY <1>21 DEF LendingRows
<1>11. WriterInv'
  <2>1. ASSUME NEW u \in Users, lending'[u] # None
        PROVE  /\ user'[lending'[u].by] = u
               /\ step'[lending'[u].by] \notin {"idle", "account"}
               /\ lending'[u].factor \in seen'[lending'[u].by]
    <3>1. CASE lending'[u] = lending[u]
      <4>1. lending[u].by \in Calls
        BY <2>1, <3>1 DEF CallTypes, LendingRows
      <4> QED BY <1>1, <1>5, <2>1, <3>1, <4>1 DEF WriterInv
    <3>2. CASE u = user[c] /\ lending'[u] = [factor |-> factor[c], by |-> c]
      BY <1>1, <1>2, <1>5, <3>2
    <3> QED BY <1>8, <1>9, <3>1, <3>2
  <2> QED BY <2>1 DEF WriterInv
<1>12. LaterInv'
  <2>1. \A d \in Calls : c \notin before[d]
    BY <1>1 DEF CallInv, Ended
  <2>2. ASSUME NEW d \in Calls, step'[d] \notin {"idle", "account", "lending"}, factor'[d] \in Factors,
               erred'[d] = {}
        PROVE  lending'[user'[d]] # None /\ lending'[user'[d]].by \notin before'[d]
    <3>1. CASE d = c
      BY <1>1, <1>4, <1>5, <1>9, <1>10, <2>1, <2>2, <3>1
    <3>2. CASE d # c
      <4>1. /\ user[d] \in Users
            /\ lending[user[d]] # None /\ lending[user[d]].by \notin before[d]
        BY <1>1, <1>5, <2>2, <3>2 DEF LaterInv, CallInv
      <4> QED BY <1>1, <1>8, <1>9, <1>10, <2>1, <4>1
    <3> QED BY <3>1, <3>2
  <2> QED BY <2>2 DEF LaterInv
<1> QED BY <1>6, <1>7, <1>11, <1>12

LEMMA BeginStep ==
    ASSUME Inv, NEW c \in Calls, NEW u \in Users, NEW s \in {"account", "wallet"}, Begin(c, u, s)
    PROVE  Inv'
<1> USE IndexerAssumption DEF Inv
<1>1. step[c] = "idle" /\ UNCHANGED <<account, lending, factor, erred>>
  BY DEF Begin, chain, tables
<1>2. /\ user'[c] = u /\ step'[c] = s /\ seen'[c] = {account[u]}
      /\ before'[c] \subseteq {d \in Calls \ {c} : step[d] \in Ended}
  BY <1>1 DEF Begin, Goto, CallTypes, CallsOf, Ended
<1>3. \A d \in Calls \ {c} : user'[d] = user[d] /\ step'[d] = step[d] /\ seen'[d] = seen[d]
                           /\ before'[d] = before[d]
  BY DEF Begin, Goto, CallTypes
<1>4. CallTypes'
  BY <1>1 DEF Begin, Goto, CallTypes, CallsOf, Steps
<1>5. CallInv'
  BY <1>1, <1>2, <1>3 DEF CallInv, CallTypes, Ended
<1>6. WriterInv'
  BY <1>1, <1>3 DEF WriterInv, CallTypes, LendingRows
<1>7. LaterInv'
  BY <1>1, <1>2, <1>3 DEF LaterInv, CallInv
<1> QED BY <1>4, <1>5, <1>6, <1>7

LEMMA ChainStep == ASSUME Inv, ChainEvent PROVE Inv'
<1> USE DEF Inv
<1>1. UNCHANGED <<lending, step, user, factor, before, erred>>
  BY DEF ChainEvent, ChangeAccount, ReceiveToken, SendToken, Withdraw, Event, tables, call
<1>2. CASE UNCHANGED <<account, seen>>
  BY <1>1, <1>2 DEF CallTypes, CallInv, WriterInv, LaterInv
<1>3. ASSUME NEW u \in Users, NEW a \in Accounts, ChangeAccount(u, a) PROVE Inv'
  <2>1. account' \in [Users -> Accounts] /\ seen' \in [Calls -> SUBSET Accounts]
    BY <1>3 DEF ChangeAccount, CallTypes
  <2>2. /\ \A c \in Calls : seen[c] \subseteq seen'[c]
        /\ \A c \in Calls : user[c] = u => a \in seen'[c]
        /\ account'[u] = a /\ \A v \in Users \ {u} : account'[v] = account[v]
    BY <1>3 DEF ChangeAccount, CallTypes
  <2>3. CallTypes'
    BY <1>1, <2>1 DEF CallTypes
  <2>4. CallInv'
    BY <1>1, <2>2 DEF CallInv
  <2>5. WriterInv' /\ LaterInv'
    BY <1>1, <2>2 DEF WriterInv, LaterInv, CallTypes, LendingRows
  <2> QED BY <2>3, <2>4, <2>5
<1> QED BY <1>2, <1>3 DEF ChainEvent, ReceiveToken, SendToken, Withdraw

LEMMA InvStep == Inv /\ [Next]_vars => Inv'
<1> SUFFICES ASSUME Inv, [Next]_vars PROVE Inv'
  OBVIOUS
<1>1. ASSUME NEW c \in Calls, IndexUser(c) PROVE Inv'
  <2>1. CASE ReadAccount(c)
    BY <2>1, AccountStep
  <2>2. CASE UpsertLending(c)
    BY <2>2, UpsertStep
  <2>3. CASE ReadBalance(c) \/ ReadToken(c) \/ ReadPosition(c) \/ UpsertLp(c) \/ AddWallet(c)
    BY <2>3, LaterSteps, LaterStep DEF Inv
  <2> QED BY <1>1, <2>1, <2>2, <2>3 DEF IndexUser
<1>2. CASE \E u \in Users : RemoveWallet(u)
  BY <1>2 DEF RemoveWallet, chain, call, history, Inv, CallTypes, CallInv, WriterInv, LaterInv
<1>3. CASE UNCHANGED vars
  BY <1>3 DEF vars, chain, tables, call, history, Inv, CallTypes, CallInv, WriterInv, LaterInv
<1> QED BY <1>1, <1>2, <1>3, BeginStep, ChainStep DEF Next

\* A row was true while the call that wrote it ran, and a call never finds its result
\* replaced by that of one which had ended before it began.
THEOREM Rows == Spec => []RowIsOfItsTime
<1>1. Inv => RowIsOfItsTime
  BY DEF Inv, WriterInv, LaterInv, RowIsOfItsTime
<1> QED BY <1>1, InvInit, InvStep, PTL DEF Spec

----------------------------------------------------------------------------
(* Errors *)

\* A call fails for one of two reasons.
ErrorInv == wallets \subseteq Users /\ ReadErrorsAreSurvived

LEMMA ContainsIt == ASSUME NEW S, NEW u \in S, NEW s \in Seq(S)
                    PROVE  Contains(s, u) <=> \E i \in 1 .. Len(s) : s[i] = u
BY DEF Contains

LEMMA InjectiveIt == ASSUME NEW S, NEW s \in Seq(S)
                     PROVE  IsInjective(s) <=> \A i, j \in 1 .. Len(s) : s[i] = s[j] => i = j
BY DEF IsInjective

\* A wallet receives what nobody has.
LEMMA Pushed ==
    ASSUME NEW S, NEW s \in Seq(S), NEW u \in S, IsInjective(s), ~Contains(s, u)
    PROVE  /\ Append(s, u) \in Seq(S)
           /\ IsInjective(Append(s, u)) /\ Contains(Append(s, u), u)
           /\ \A v \in S : Contains(s, v) => Contains(Append(s, u), v)
<1>1. /\ Append(s, u) \in Seq(S) /\ Len(Append(s, u)) = Len(s) + 1
      /\ \A i \in 1 .. Len(s) : Append(s, u)[i] = s[i]
      /\ Append(s, u)[Len(s) + 1] = u /\ Len(s) \in Nat
  OBVIOUS
<1>2. \A i \in 1 .. Len(s) : s[i] # u
  BY ContainsIt
<1>3. \A i, j \in 1 .. Len(s) + 1 : Append(s, u)[i] = Append(s, u)[j] => i = j
  <2>1. \A i, j \in 1 .. Len(s) : s[i] = s[j] => i = j
    BY InjectiveIt
  <2>2. \A i \in 1 .. Len(s) + 1 : i \in 1 .. Len(s) \/ i = Len(s) + 1
    BY <1>1
  <2> QED BY <1>1, <1>2, <2>1, <2>2
<1>4. IsInjective(Append(s, u))
  BY <1>1, <1>3, InjectiveIt
<1>5. \A v \in S : Contains(Append(s, u), v) <=> \E i \in 1 .. Len(s) + 1 : Append(s, u)[i] = v
  BY <1>1, ContainsIt
<1>6. \A v \in S : Contains(s, v) => Contains(Append(s, u), v)
  <2>1. 1 .. Len(s) \subseteq 1 .. Len(s) + 1
    BY <1>1
  <2> QED BY <1>1, <1>5, <2>1, ContainsIt
<1>7. Contains(Append(s, u), u)
  <2>1. Len(s) + 1 \in 1 .. Len(s) + 1
    BY <1>1
  <2> QED BY <1>1, <1>5, <2>1
<1> QED BY <1>1, <1>4, <1>6, <1>7

LEMMA ErrorInit == Init => ErrorInv
BY DEF Init, ErrorInv, ReadErrorsAreSurvived

LEMMA ErrsGrow ==
    ASSUME CallTypes, NEW c \in Calls, NEW kind, Errs(c, kind) \/ UNCHANGED erred
    PROVE  /\ \A d \in Calls : erred[d] \subseteq erred'[d]
           /\ Errs(c, kind) => kind \in erred'[c]
BY DEF CallTypes, Errs

\* What was read of an account is one that it was during the call.
SeenFactor(c) == factor[c] \in {NoDebt, TooLarge} \intersect seen[c]

\* A step that does not end a call badly leaves the errors as they are.
LEMMA ErrorStep == Inv /\ ErrorInv /\ [Next]_vars => ErrorInv'
<1> SUFFICES ASSUME Inv, ErrorInv, [Next]_vars PROVE ErrorInv'
  OBVIOUS
<1> USE DEF Inv
<1>2. ASSUME NEW c \in Calls, NEW s \in Steps,
             step[c] \notin Ended,
             step' = [step EXCEPT ![c] = s], wallets' \subseteq Users,
             \A d \in Calls \ {c} : factor'[d] = factor[d] /\ seen'[d] = seen[d],
             \A d \in Calls : erred[d] \subseteq erred'[d],
             s = "failed" => "db" \in erred'[c] \/ SeenFactor(c)'
      PROVE  ErrorInv'
  <2>1. step'[c] = s /\ \A d \in Calls \ {c} : step'[d] = step[d]
    BY <1>2 DEF CallTypes
  <2> QED BY <1>2, <2>1 DEF ErrorInv, ReadErrorsAreSurvived, SeenFactor
<1>1. ASSUME NEW c \in Calls, AddWallet(c) PROVE ErrorInv'
  <2>1. /\ step[c] \notin Ended /\ user[c] \in Users /\ UNCHANGED <<factor, seen, erred>>
        /\ step' = [step EXCEPT ![c] = "ok"]
    BY <1>1 DEF AddWallet, Goto, CallInv, Ended, history
  <2>2. wallets' \subseteq Users /\ "ok" \in Steps
    BY <1>1, <2>1 DEF AddWallet, ErrorInv, Steps, Ended
  <2> QED BY <1>2, <2>1, <2>2
<1>3. ASSUME NEW c \in Calls, NEW u \in Users, NEW s \in {"account", "wallet"}, Begin(c, u, s)
      PROVE  ErrorInv'
  BY <1>2, <1>3 DEF Begin, Goto, tables, Steps, Ended, CallTypes, ErrorInv
<1>4. ASSUME NEW c \in Calls, IndexUser(c), ~AddWallet(c) PROVE ErrorInv'
  <2>1. step[c] \notin Ended /\ UNCHANGED <<wallets, user, seen>>
    BY <1>4 DEF IndexUser, ReadAccount, UpsertLending, ReadBalance, ReadToken, ReadPosition, UpsertLp,
                ReadFails, Ended, chain, tables, history
  <2>2. /\ \A d \in Calls \ {c} : factor'[d] = factor[d]
        /\ \A d \in Calls : erred[d] \subseteq erred'[d]
        /\ \E s \in Steps :
              /\ step' = [step EXCEPT ![c] = s]
              /\ s = "failed" => "db" \in erred'[c] \/ SeenFactor(c)'
    <3>1. CASE ReadAccount(c)
      <4>1. user[c] \in Users /\ account[user[c]] \in seen[c]
        BY <3>1 DEF ReadAccount, CallInv
      <4>2. CASE Goto(c, "balance") /\ Errs(c, "rpc") /\ UNCHANGED factor
        <5>1. \A d \in Calls : erred[d] \subseteq erred'[d]
          BY <4>2, ErrsGrow
        <5>2. "balance" \in Steps /\ step' = [step EXCEPT ![c] = "balance"]
          BY <4>2 DEF Goto, Steps
        <5> QED BY <4>2, <5>1, <5>2
      <4>3. CASE /\ UNCHANGED erred /\ factor' = [factor EXCEPT ![c] = account[user[c]]]
                 /\ Goto(c, CASE account[user[c]] = None -> "balance"
                              [] account[user[c]] = NoDebt -> "failed"
                              [] OTHER -> "lending")
        <5>1. PICK s \in {"balance", "failed", "lending"} :
                /\ step' = [step EXCEPT ![c] = s]
                /\ s = "failed" => account[user[c]] = NoDebt
          BY <4>3, IndexerAssumption DEF Goto
        <5>2. s \in Steps
          BY DEF Steps, Ended
        <5>3. factor'[c] = account[user[c]] /\ \A d \in Calls \ {c} : factor'[d] = factor[d]
          BY <4>3 DEF CallTypes
        <5>4. s = "failed" => SeenFactor(c)'
          BY <2>1, <4>1, <5>1, <5>3 DEF SeenFactor
        <5> QED BY <4>3, <5>1, <5>2, <5>3, <5>4
      <4> QED BY <3>1, <4>2, <4>3 DEF ReadAccount, ReadFails
    <3>2. CASE UpsertLp(c) \/ (UpsertLending(c) /\ StoreFactor(c))
      <4>1. PICK s \in {"balance", "wallet", "lp", "failed"} :
              /\ Goto(c, s) /\ UNCHANGED factor
              /\ IF s = "failed" THEN Errs(c, "db") ELSE UNCHANGED erred
        BY <3>2 DEF UpsertLending, StoreFactor, UpsertLp, Goto
      <4>2. s \in Steps
        BY DEF Steps, Ended
      <4> QED BY <4>1, <4>2, ErrsGrow DEF Goto
    <3>3. CASE UpsertLending(c) /\ OverflowColumn(c)
      <4>1. step' = [step EXCEPT ![c] = "failed"] /\ "failed" \in Steps /\ UNCHANGED <<factor, erred>>
        BY <3>3 DEF UpsertLending, OverflowColumn, Goto, Steps, Ended
      <4>2. SeenFactor(c)'
        BY <2>1, <3>3, <4>1 DEF UpsertLending, OverflowColumn, CallInv, SeenFactor
      <4> QED BY <4>1, <4>2
    <3>4. CASE ReadBalance(c) \/ ReadToken(c) \/ ReadPosition(c)
      <4>1. PICK s \in {"token", "position", "lp", "wallet"} :
              Goto(c, s) /\ UNCHANGED factor /\ (UNCHANGED erred \/ Errs(c, "rpc"))
        BY <3>4 DEF ReadBalance, ReadToken, ReadPosition, ReadFails, Goto
      <4>2. s \in Steps /\ s # "failed"
        BY DEF Steps, Ended
      <4> QED BY <4>1, <4>2, ErrsGrow DEF Goto
    <3> QED BY <1>4, <3>1, <3>2, <3>3, <3>4 DEF IndexUser, UpsertLending
  <2> QED BY <1>2, <2>1, <2>2 DEF ErrorInv
<1>5. CASE ChainEvent
  <2>1. /\ UNCHANGED <<wallets, step, factor, erred>>
        /\ \A c \in Calls : seen[c] \subseteq seen'[c]
    <3>1. UNCHANGED <<wallets, step, factor, erred>>
      BY <1>5 DEF ChainEvent, ChangeAccount, ReceiveToken, SendToken, Withdraw, Event, tables, call
    <3>2. CASE UNCHANGED seen
      BY <3>1, <3>2
    <3>3. ASSUME NEW u \in Users, NEW a \in Accounts, ChangeAccount(u, a)
          PROVE  \A c \in Calls : seen[c] \subseteq seen'[c]
      BY <3>3 DEF ChangeAccount
    <3> QED BY <1>5, <3>1, <3>2, <3>3 DEF ChainEvent, ReceiveToken, SendToken, Withdraw
  <2> QED BY <2>1 DEF ErrorInv, ReadErrorsAreSurvived
<1>6. CASE UNCHANGED vars
  BY <1>6 DEF vars, tables, call, history, ErrorInv, ReadErrorsAreSurvived
<1>7. CASE \E u \in Users : RemoveWallet(u)
  BY <1>7 DEF RemoveWallet, call, history, ErrorInv, ReadErrorsAreSurvived
<1> QED BY <1>1, <1>3, <1>4, <1>5, <1>6, <1>7 DEF Next

\* Only a failed statement, or an account it has read whose health factor no Decimal or
\* not the column can hold, fails a call.
THEOREM Errors == Spec => []ReadErrorsAreSurvived
<1>1. ErrorInv => ReadErrorsAreSurvived
  BY DEF ErrorInv
<1> QED BY <1>1, InvInit, InvStep, ErrorInit, ErrorStep, PTL DEF Spec

----------------------------------------------------------------------------
(* The list of liquidity positions, and the types of everything *)

LEMMA ToSetIt == ASSUME NEW S, NEW s \in Seq(S)
                 PROVE  ToSet(s) = {s[i] : i \in 1 .. Len(s)} /\ ToSet(s) \subseteq S
BY DEF ToSet

LEMMA EmptyIt == ToSet(<<>>) = {}
BY DEF ToSet

\* A wallet holds no token twice, so never more than there are.
LEMMA InjectiveLen == ASSUME NEW s \in Seq(Tokens), IsInjective(s) PROVE Len(s) <= Cardinality(Tokens)
<1>1. s \in Injection(1 .. Len(s), Tokens)
  BY InjectiveIt DEF Injection, IsInjective
<1>2. IsFiniteSet(1 .. Len(s)) /\ Cardinality(1 .. Len(s)) = Len(s)
  <2>1. Len(s) \in Nat
    BY SMTT(30)
  <2> QED BY <2>1, FS_Interval
<1> QED BY <1>1, <1>2, FS_Injection, IndexerAssumption

\* What remains of a wallet when its i-th token has left.
LEMMA Sent ==
    ASSUME NEW s \in Seq(Tokens), NEW i \in 1 .. Len(s), IsInjective(s)
    PROVE  LET rest == Front([s EXCEPT ![i] = Last(s)])
           IN  rest \in Seq(Tokens) /\ IsInjective(rest)
<1> DEFINE n == Len(s)
           w == [s EXCEPT ![i] = s[n]]
           rest == Front(w)
<1>1. /\ n \in Nat \ {0} /\ s \in [1 .. n -> Tokens] /\ w \in Seq(Tokens) /\ Len(w) = n /\ s[n] \in Tokens
  OBVIOUS
<1>2. rest \in Seq(Tokens) /\ Len(rest) = n - 1
  BY <1>1 DEF Front
<1>3. \A k \in 1 .. n - 1 : rest[k] = IF k = i THEN s[n] ELSE s[k]
  BY <1>1 DEF Front
<1>4. \A k, l \in 1 .. n : s[k] = s[l] => k = l
  BY InjectiveIt
<1>5. \A k, l \in 1 .. n - 1 : rest[k] = rest[l] => k = l
  <2> HIDE DEF rest, w
  <2> TAKE k, l \in 1 .. n - 1
  <2>1. k \in 1 .. n /\ l \in 1 .. n /\ n \in 1 .. n /\ k # n /\ l # n
    BY <1>1
  <2> QED BY <2>1, <1>3, <1>4
<1>6. IsInjective(rest)
  <2> HIDE DEF rest
  <2> QED BY <1>1, <1>2, <1>5, InjectiveIt
<1> QED BY <1>2, <1>6 DEF Last

\* The part of TypeOK that the list of liquidity positions needs.
ScanTypes ==
    /\ held \in [Users -> Seq(Tokens)] /\ \A u \in Users : IsInjective(held[u])
    /\ liquid \subseteq Tokens /\ events \in 0 .. MaxEvents
    /\ lp \in [Users -> SUBSET Tokens]
    /\ count \in [Calls -> 0 .. Cardinality(Tokens)] /\ next \in [Calls -> Nat]
    /\ token \in [Calls -> Tokens \union {None}]
    /\ found \in [Calls -> Seq(Tokens)]
    /\ kept \in [Calls -> SUBSET Tokens]
    /\ moved \in [Calls -> BOOLEAN]

\* Where a call stands in the list it reads.
Begun == {"idle", "account", "lending", "balance"}
CursorOf(c) ==
    /\ next[c] <= count[c]
    /\ step[c] \in Begun => next[c] = 0 /\ kept[c] = {}
    /\ step[c] = "token" => next[c] < count[c]
    /\ step[c] = "position" => token[c] \in Tokens
    /\ step[c] = "lp" => found[c] # <<>>
    /\ kept[c] \subseteq liquid

\* While no token has left the wallet, those the call has to store stand at the indexes
\* it reads; and those it has passed it has found, or holds in its hand.
Scanned(c, t) ==
    \E i \in 1 .. count[c] :
        /\ i <= Len(held[user[c]]) /\ held[user[c]][i] = t
        /\ i <= next[c] => t \in ToSet(found[c]) \/ (step[c] = "position" /\ t = token[c])
ScanOf(c) ==
    erred[c] = {} /\ ~moved[c] =>
        /\ step[c] \in {"token", "position"} =>
              count[c] <= Len(held[user[c]]) /\ \A t \in kept[c] : Scanned(c, t)
        /\ step[c] = "lp" => kept[c] \subseteq ToSet(found[c]) \union lp[user[c]]
        /\ step[c] \in {"wallet", "ok"} => kept[c] \subseteq lp[user[c]]

ListInv == Inv /\ ScanTypes /\ \A c \in Calls : CursorOf(c) /\ ScanOf(c)

LEMMA ListInit == Init => ListInv
<1> SUFFICES ASSUME Init PROVE ListInv
  OBVIOUS
<1>1. IsFiniteSet(Tokens) /\ Cardinality(Tokens) \in Nat
  BY IndexerAssumption, FS_CardinalityType
<1>2. \A u \in Users : IsInjective(held[u])
  <2>1. \A u \in Users : held[u] = <<>>
    BY DEF Init
  <2>2. <<>> \in Seq(Tokens) /\ Len(<<>>) = 0 /\ 1 .. 0 = {}
    OBVIOUS
  <2>3. IsInjective(<<>>)
    BY <2>2, InjectiveIt
  <2> QED BY <2>1, <2>3
<1>3. ScanTypes
  BY <1>1, <1>2, IndexerAssumption DEF Init, ScanTypes
<1>4. \A c \in Calls : CursorOf(c) /\ ScanOf(c)
  BY DEF Init, CursorOf, ScanOf, Begun
<1> QED BY <1>3, <1>4, InvInit DEF ListInv

\* What is left as it was for a call, but for what others add to lp_positions.
SameFor(d) ==
    /\ step'[d] = step[d] /\ user'[d] = user[d] /\ erred'[d] = erred[d]
    /\ next'[d] = next[d] /\ count'[d] = count[d] /\ token'[d] = token[d] /\ found'[d] = found[d]
    /\ kept'[d] = kept[d] /\ moved'[d] = moved[d]

LEMMA OtherCall ==
    ASSUME ListInv, NEW d \in Calls, SameFor(d), UNCHANGED <<held, liquid>>,
           \A u \in Users : lp[u] \subseteq lp'[u]
    PROVE  CursorOf(d)' /\ ScanOf(d)'
<1>1. CursorOf(d) /\ ScanOf(d) /\ (step[d] # "idle" => user[d] \in Users)
  BY DEF ListInv, Inv, CallInv
<1>2. CursorOf(d)'
  BY <1>1 DEF CursorOf, SameFor
<1>3. \A t : Scanned(d, t)' <=> Scanned(d, t)
  BY DEF Scanned, SameFor
<1>4. ScanOf(d)'
  BY <1>1, <1>3 DEF ScanOf, SameFor
<1> QED BY <1>2, <1>4

\* A step of call c, from what it does to c.
LEMMA CallStep ==
    ASSUME ListInv, NEW c \in Calls, Inv', ScanTypes', UNCHANGED <<held, liquid>>,
           \A u \in Users : lp[u] \subseteq lp'[u],
           \A d \in Calls \ {c} : SameFor(d),
           CursorOf(c)', ScanOf(c)'
    PROVE  ListInv'
<1>1. \A d \in Calls : CursorOf(d)' /\ ScanOf(d)'
  BY OtherCall
<1> QED BY <1>1 DEF ListInv

LEMMA HeadTail ==
    ASSUME NEW S, NEW s \in Seq(S), s # <<>>
    PROVE  Head(s) \in S /\ Tail(s) \in Seq(S) /\ ToSet(s) \subseteq {Head(s)} \union ToSet(Tail(s))
<1>1. /\ Len(s) \in Nat \ {0} /\ Tail(s) \in Seq(S) /\ Len(Tail(s)) = Len(s) - 1 /\ Head(s) = s[1]
      /\ \A i \in 1 .. Len(s) - 1 : Tail(s)[i] = s[i + 1]
  OBVIOUS
<1>2. ASSUME NEW i \in 1 .. Len(s) PROVE s[i] \in {Head(s)} \union ToSet(Tail(s))
  <2>1. CASE i # 1
    <3>1. i - 1 \in 1 .. Len(s) - 1 /\ Tail(s)[i - 1] = s[i]
      BY <1>1, <2>1
    <3>2. ToSet(Tail(s)) = {Tail(s)[k] : k \in 1 .. Len(s) - 1}
      BY <1>1, ToSetIt
    <3> QED BY <3>1, <3>2
  <2> QED BY <1>1, <2>1
<1>3. ToSet(s) = {s[i] : i \in 1 .. Len(s)}
  BY ToSetIt
<1> QED BY <1>1, <1>2, <1>3

LEMMA Appended ==
    ASSUME NEW S, NEW s \in Seq(S), NEW t \in S
    PROVE  Append(s, t) \in Seq(S) /\ Append(s, t) # <<>> /\ ToSet(s) \union {t} \subseteq ToSet(Append(s, t))
<1>1. /\ Append(s, t) \in Seq(S) /\ Len(Append(s, t)) = Len(s) + 1 /\ Len(s) \in Nat
      /\ Append(s, t)[Len(s) + 1] = t /\ \A i \in 1 .. Len(s) : Append(s, t)[i] = s[i]
  OBVIOUS
<1>2. 1 .. Len(s) \subseteq 1 .. Len(s) + 1 /\ Len(s) + 1 \in 1 .. Len(s) + 1
  BY <1>1
<1>3. ToSet(s) = {s[i] : i \in 1 .. Len(s)}
  BY ToSetIt
<1>4. ToSet(Append(s, t)) = {Append(s, t)[i] : i \in 1 .. Len(s) + 1}
  BY <1>1, ToSetIt
<1>5. ToSet(s) \subseteq ToSet(Append(s, t))
  BY <1>1, <1>2, <1>3, <1>4
<1>6. t \in ToSet(Append(s, t))
  BY <1>1, <1>2, <1>4
<1>7. Append(s, t) # <<>>
  BY <1>1
<1> QED BY <1>1, <1>5, <1>6, <1>7

\* The steps before the balance is read do not touch the list.
LEMMA EarlyStep ==
    ASSUME ListInv, NEW c \in Calls, ReadAccount(c) \/ UpsertLending(c), Inv'
    PROVE  ListInv'
<1> USE DEF ListInv, Inv
<1>1. /\ step[c] \in {"account", "lending"}
      /\ UNCHANGED <<held, liquid, events, lp, user, count, token, found, next, kept, moved>>
  BY DEF ReadAccount, UpsertLending, StoreFactor, OverflowColumn, ReadFails, chain, tables
<1>2. PICK s \in {"lending", "balance", "failed"} : Goto(c, s)
  BY DEF ReadAccount, UpsertLending, StoreFactor, OverflowColumn, ReadFails, Goto
<1>3. step'[c] = s /\ \A d \in Calls \ {c} : step'[d] = step[d]
  BY <1>2 DEF Goto, CallTypes
<1>4. \A d \in Calls \ {c} : erred'[d] = erred[d]
  BY DEF ReadAccount, UpsertLending, StoreFactor, OverflowColumn, ReadFails, Errs, CallTypes
<1>5. ScanTypes'
  BY <1>1 DEF ScanTypes
<1>6. CursorOf(c)' /\ ScanOf(c)'
  <2>1. CursorOf(c)
    OBVIOUS
  <2> QED BY <1>1, <1>3, <2>1 DEF CursorOf, ScanOf, Begun
<1>7. \A d \in Calls \ {c} : SameFor(d)
  BY <1>1, <1>3, <1>4 DEF SameFor
<1> HIDE DEF ListInv, Inv
<1> QED BY <1>1, <1>5, <1>6, <1>7, CallStep

\* A read that fails leaves the list as it is, and is remembered.
LEMMA FailedRead ==
    ASSUME ListInv, NEW c \in Calls, step[c] \in {"balance", "token", "position"},
           Goto(c, "wallet"), Errs(c, "rpc"), Inv',
           UNCHANGED <<held, liquid, events, lp, user, count, token, found, next, kept, moved>>
    PROVE  ListInv'
<1> USE DEF ListInv, Inv
<1>1. /\ step'[c] = "wallet" /\ \A d \in Calls \ {c} : step'[d] = step[d]
      /\ erred'[c] # {} /\ \A d \in Calls \ {c} : erred'[d] = erred[d]
  BY DEF Goto, Errs, CallTypes
<1>2. ScanTypes'
  BY DEF ScanTypes
<1>3. CursorOf(c)' /\ ScanOf(c)'
  <2>1. CursorOf(c)
    OBVIOUS
  <2> QED BY <1>1, <2>1 DEF CursorOf, ScanOf, Begun
<1>4. \A d \in Calls \ {c} : SameFor(d)
  BY <1>1 DEF SameFor
<1> HIDE DEF ListInv, Inv
<1> QED BY <1>2, <1>3, <1>4, CallStep

LEMMA BalanceStep == ASSUME ListInv, NEW c \in Calls, ReadBalance(c), Inv' PROVE ListInv'
<1> USE DEF ListInv, Inv
<1>1. step[c] = "balance" /\ UNCHANGED <<held, liquid, events, lp, user>> /\ user[c] \in Users
  BY DEF ReadBalance, chain, tables, CallInv
<1>2. CASE ReadFails(c, "wallet")
  <2>1. /\ Goto(c, "wallet") /\ Errs(c, "rpc")
        /\ UNCHANGED <<held, liquid, events, lp, user, count, token, found, next, kept, moved>>
    BY <1>1, <1>2 DEF ReadFails
  <2> HIDE DEF ListInv, Inv
  <2> QED BY <1>1, <2>1, FailedRead
<1>3. CASE /\ count' = [count EXCEPT ![c] = Len(held[user[c]])]
           /\ kept' = [kept EXCEPT ![c] = ToSet(held[user[c]]) \intersect liquid]
           /\ moved' = [moved EXCEPT ![c] = FALSE]
           /\ Goto(c, IF held[user[c]] = <<>> THEN "wallet" ELSE "token")
           /\ UNCHANGED <<factor, token, found, next, erred>>
  <2> DEFINE w == held[user[c]]
  <2>1. /\ w \in Seq(Tokens) /\ IsInjective(w) /\ Len(w) \in Nat
        /\ ToSet(w) = {w[i] : i \in 1 .. Len(w)} /\ ToSet(w) \subseteq Tokens
    <3>1. w \in Seq(Tokens) /\ IsInjective(w)
      BY <1>1 DEF ScanTypes
    <3>2. Len(w) \in Nat
      BY <3>1
    <3>3. ToSet(w) = {w[i] : i \in 1 .. Len(w)} /\ ToSet(w) \subseteq Tokens
      BY <3>1, ToSetIt
    <3> QED BY <3>1, <3>2, <3>3
  <2>2. Len(w) \in 0 .. Cardinality(Tokens)
    <3>1. Cardinality(Tokens) \in Nat
      BY IndexerAssumption, FS_CardinalityType
    <3> QED BY <2>1, <3>1, InjectiveLen
  <2>3. ScanTypes'
    BY <1>1, <1>3, <2>1, <2>2 DEF ScanTypes
  <2>4. /\ step'[c] = (IF w = <<>> THEN "wallet" ELSE "token")
        /\ count'[c] = Len(w) /\ kept'[c] = ToSet(w) \intersect liquid /\ moved'[c] = FALSE
        /\ \A d \in Calls \ {c} : /\ step'[d] = step[d] /\ count'[d] = count[d]
                                  /\ kept'[d] = kept[d] /\ moved'[d] = moved[d]
    BY <1>3 DEF Goto, CallTypes, ScanTypes
  <2>5. next[c] = 0 /\ next'[c] = 0
    BY <1>1, <1>3 DEF CursorOf, Begun
  <2>6. w # <<>> => Len(w) > 0
    BY <2>1
  <2>7. w = <<>> => Len(w) = 0
    OBVIOUS
  <2>8. CursorOf(c)'
    BY <1>1, <2>1, <2>4, <2>5, <2>6 DEF CursorOf, Begun
  <2>9. ScanOf(c)'
    <3>1. CASE w = <<>>
      <4>1. kept'[c] = {} /\ step'[c] = "wallet"
        BY <2>1, <2>4, <2>7, <3>1
      <4> QED BY <4>1 DEF ScanOf
    <3>2. CASE w # <<>>
      <4>1. \A t \in kept'[c] : Scanned(c, t)'
        BY <1>1, <2>1, <2>4, <2>5 DEF Scanned
      <4> QED BY <1>1, <2>1, <2>4, <3>2, <4>1 DEF ScanOf
    <3> QED BY <3>1, <3>2
  <2>10. \A d \in Calls \ {c} : SameFor(d)
    BY <1>1, <1>3, <2>4 DEF SameFor
  <2> HIDE DEF ListInv, Inv
  <2> QED BY <1>1, <2>3, <2>8, <2>9, <2>10, CallStep
<1> QED BY <1>2, <1>3 DEF ReadBalance

LEMMA TokenStep == ASSUME ListInv, NEW c \in Calls, ReadToken(c), Inv' PROVE ListInv'
<1> USE DEF ListInv, Inv
<1>1. step[c] = "token" /\ UNCHANGED <<held, liquid, events, lp, user>> /\ user[c] \in Users
  BY DEF ReadToken, chain, tables, CallInv
<1>2. CASE \/ ReadFails(c, "wallet")
           \/ /\ Goto(c, "wallet") /\ Errs(c, "rpc")
              /\ UNCHANGED <<factor, count, token, found, next, kept, moved>>
  <2>1. /\ Goto(c, "wallet") /\ Errs(c, "rpc")
        /\ UNCHANGED <<held, liquid, events, lp, user, count, token, found, next, kept, moved>>
    BY <1>1, <1>2 DEF ReadFails
  <2> HIDE DEF ListInv, Inv
  <2> QED BY <1>1, <2>1, FailedRead
<1>3. CASE /\ next[c] < Len(held[user[c]])
           /\ token' = [token EXCEPT ![c] = held[user[c]][next[c] + 1]]
           /\ next' = [next EXCEPT ![c] = @ + 1]
           /\ Goto(c, "position")
           /\ UNCHANGED <<factor, count, found, kept, moved, erred>>
  <2> DEFINE w == held[user[c]]
             n == next[c]
  <2>1. n \in Nat /\ count[c] \in Nat /\ w \in Seq(Tokens) /\ w[n + 1] \in Tokens
    <3>1. n \in Nat /\ w \in Seq(Tokens)
      BY <1>1 DEF ScanTypes
    <3>2. n + 1 \in 1 .. Len(w)
      BY <1>3, <3>1
    <3>3. count[c] \in 0 .. Cardinality(Tokens) /\ Cardinality(Tokens) \in Nat
      BY IndexerAssumption, FS_CardinalityType DEF ScanTypes
    <3> QED BY <3>1, <3>2, <3>3
  <2>2. ScanTypes'
    BY <1>1, <1>3, <2>1 DEF ScanTypes
  <2>3. /\ step'[c] = "position" /\ token'[c] = w[n + 1] /\ next'[c] = n + 1
        /\ \A d \in Calls \ {c} : step'[d] = step[d] /\ token'[d] = token[d] /\ next'[d] = next[d]
    BY <1>3 DEF Goto, CallTypes, ScanTypes
  <2>4. n < count[c] /\ kept[c] \subseteq liquid
    BY <1>1 DEF CursorOf
  <2>5. CursorOf(c)'
    BY <1>1, <1>3, <2>1, <2>3, <2>4 DEF CursorOf, Begun
  <2>6. ScanOf(c)'
    <3>1. SUFFICES ASSUME erred[c] = {}, ~moved[c]
                   PROVE  count[c] <= Len(w) /\ \A t \in kept[c] : Scanned(c, t)'
      BY <1>1, <1>3, <2>3 DEF ScanOf
    <3>2. count[c] <= Len(w) /\ \A t \in kept[c] : Scanned(c, t)
      BY <1>1, <3>1 DEF ScanOf
    <3>3. ASSUME NEW t \in kept[c] PROVE Scanned(c, t)'
      <4>1. PICK i \in 1 .. count[c] : i <= Len(w) /\ w[i] = t /\ (i <= n => t \in ToSet(found[c]))
        BY <1>1, <3>2 DEF Scanned
      <4>2. i <= n + 1 => i <= n \/ i = n + 1
        BY <2>1
      <4> QED BY <1>1, <1>3, <2>3, <4>1, <4>2 DEF Scanned
    <3> QED BY <3>2, <3>3
  <2>7. \A d \in Calls \ {c} : SameFor(d)
    BY <1>1, <1>3, <2>3 DEF SameFor
  <2> HIDE DEF ListInv, Inv
  <2> QED BY <1>1, <2>2, <2>5, <2>6, <2>7, CallStep
<1> QED BY <1>2, <1>3 DEF ReadToken

LEMMA PositionStep == ASSUME ListInv, NEW c \in Calls, ReadPosition(c), Inv' PROVE ListInv'
<1> USE DEF ListInv, Inv
<1>1. step[c] = "position" /\ UNCHANGED <<held, liquid, events, lp, user>> /\ user[c] \in Users
  BY DEF ReadPosition, chain, tables, CallInv
<1>2. CASE ReadFails(c, "wallet")
  <2>1. /\ Goto(c, "wallet") /\ Errs(c, "rpc")
        /\ UNCHANGED <<held, liquid, events, lp, user, count, token, found, next, kept, moved>>
    BY <1>1, <1>2 DEF ReadFails
  <2> HIDE DEF ListInv, Inv
  <2> QED BY <1>1, <2>1, FailedRead
<1>3. CASE /\ found' = [found EXCEPT ![c] = IF token[c] \in liquid THEN Append(@, token[c]) ELSE @]
           /\ Goto(c, IF next[c] < count[c] THEN "token" ELSE IF found'[c] = <<>> THEN "wallet" ELSE "lp")
           /\ UNCHANGED <<factor, count, token, next, kept, moved, erred>>
  <2> DEFINE f == IF token[c] \in liquid THEN Append(found[c], token[c]) ELSE found[c]
             s == IF next[c] < count[c] THEN "token" ELSE IF f = <<>> THEN "wallet" ELSE "lp"
  <2>1. /\ next[c] \in Nat /\ count[c] \in Nat /\ next[c] <= count[c]
        /\ found[c] \in Seq(Tokens) /\ token[c] \in Tokens /\ kept[c] \subseteq liquid
    <3>1. Cardinality(Tokens) \in Nat
      BY IndexerAssumption, FS_CardinalityType
    <3> QED BY <1>1, <3>1 DEF ScanTypes, CursorOf
  <2>2. /\ f \in Seq(Tokens) /\ ToSet(found[c]) \subseteq ToSet(f)
        /\ token[c] \in liquid => token[c] \in ToSet(f)
    BY <2>1, Appended
  <2>3. /\ found'[c] = f /\ step'[c] = s
        /\ \A d \in Calls \ {c} : found'[d] = found[d] /\ step'[d] = step[d]
    BY <1>3 DEF Goto, CallTypes, ScanTypes
  <2>4. ScanTypes'
    <3>1. found' \in [Calls -> Seq(Tokens)]
      BY <1>3, <2>2 DEF ScanTypes
    <3> QED BY <1>1, <1>3, <3>1 DEF ScanTypes
  <2>5. CursorOf(c)'
    <3> HIDE DEF f
    <3> QED BY <1>1, <1>3, <2>1, <2>3 DEF CursorOf, Begun
  <2>6. ScanOf(c)'
    <3>1. SUFFICES ASSUME erred[c] = {}, ~moved[c] PROVE ScanOf(c)'
      BY <1>3 DEF ScanOf
    <3>2. count[c] <= Len(held[user[c]]) /\ \A t \in kept[c] : Scanned(c, t)
      BY <1>1, <3>1 DEF ScanOf
    <3>3. ASSUME NEW t \in kept[c]
          PROVE  \E i \in 1 .. count[c] : /\ i <= Len(held[user[c]]) /\ held[user[c]][i] = t
                                          /\ i <= next[c] => t \in ToSet(f)
      <4> HIDE DEF f
      <4> QED BY <1>1, <2>1, <2>2, <3>2 DEF Scanned
    <3>4. CASE next[c] < count[c]
      <4> HIDE DEF f
      <4>1. \A t \in kept[c] : Scanned(c, t)'
        BY <1>1, <1>3, <2>3, <3>3 DEF Scanned
      <4> QED BY <1>1, <1>3, <2>3, <3>2, <3>4, <4>1 DEF ScanOf
    <3>5. CASE ~(next[c] < count[c])
      <4>1. kept[c] \subseteq ToSet(f)
        <5> HIDE DEF f
        <5> QED BY <2>1, <3>3, <3>5
      <4>2. f = <<>> => ToSet(f) = {}
        BY EmptyIt
      <4> HIDE DEF f
      <4> QED BY <1>1, <1>3, <2>3, <3>5, <4>1, <4>2 DEF ScanOf
    <3> QED BY <3>4, <3>5
  <2>7. \A d \in Calls \ {c} : SameFor(d)
    BY <1>1, <1>3, <2>3 DEF SameFor
  <2> HIDE DEF ListInv, Inv
  <2> QED BY <1>1, <2>4, <2>5, <2>6, <2>7, CallStep
<1> QED BY <1>2, <1>3 DEF ReadPosition

LEMMA LpStep == ASSUME ListInv, NEW c \in Calls, UpsertLp(c), Inv' PROVE ListInv'
<1> USE DEF ListInv, Inv
<1>1. /\ step[c] = "lp" /\ user[c] \in Users
      /\ UNCHANGED <<held, liquid, events, user, count, token, next, kept, moved>>
  BY DEF UpsertLp, chain, CallInv
<1>2. /\ found[c] \in Seq(Tokens) /\ found[c] # <<>> /\ kept[c] \subseteq liquid /\ next[c] <= count[c]
  BY <1>1 DEF ScanTypes, CursorOf
<1> DEFINE t == Head(found[c])
           f == Tail(found[c])
<1>3. t \in Tokens /\ f \in Seq(Tokens) /\ ToSet(found[c]) \subseteq {t} \union ToSet(f)
  BY <1>2, HeadTail
<1>4. found'[c] = f /\ \A d \in Calls \ {c} : found'[d] = found[d]
  BY DEF UpsertLp, ScanTypes
<1>5. PICK ok \in BOOLEAN :
        /\ \/ Applied(ok) /\ lp' = [lp EXCEPT ![user[c]] = @ \union {t}]
           \/ Refused(ok) /\ UNCHANGED lp
        /\ IF ok THEN Goto(c, IF found'[c] = <<>> THEN "wallet" ELSE "lp") /\ UNCHANGED erred
                 ELSE Goto(c, "failed") /\ Errs(c, "db")
  BY DEF UpsertLp
<1>6. \A u \in Users : lp[u] \subseteq lp'[u]
  BY <1>1, <1>5 DEF ScanTypes
<1>7. ScanTypes'
  <2>1. found' \in [Calls -> Seq(Tokens)]
    BY <1>3 DEF UpsertLp, ScanTypes
  <2>2. lp' \in [Users -> SUBSET Tokens]
    <3> HIDE DEF t, f, ListInv, Inv
    <3>1. lp \in [Users -> SUBSET Tokens]
      BY DEF ListInv, ScanTypes
    <3> QED BY <1>1, <1>3, <1>5, <3>1
  <2> QED BY <1>1, <2>1, <2>2 DEF ScanTypes
<1>8. /\ ok => UNCHANGED erred /\ step'[c] = (IF f = <<>> THEN "wallet" ELSE "lp") /\ t \in lp'[user[c]]
      /\ ~ok => step'[c] = "failed"
      /\ \A d \in Calls \ {c} : step'[d] = step[d] /\ erred'[d] = erred[d]
  BY <1>1, <1>4, <1>5 DEF Goto, Errs, CallTypes, ScanTypes, Refused
<1>9. CursorOf(c)'
  BY <1>1, <1>2, <1>4, <1>8 DEF CursorOf, Begun
<1>10. ScanOf(c)'
  <2>1. CASE ~ok
    BY <1>8, <2>1 DEF ScanOf
  <2>2. CASE ok
    <3>1. SUFFICES ASSUME erred[c] = {}, ~moved[c] PROVE kept[c] \subseteq ToSet(f) \union lp'[user[c]]
      <4> HIDE DEF f, t
      <4>1. f = <<>> => ToSet(f) = {}
        BY EmptyIt
      <4> QED BY <1>1, <1>4, <1>8, <2>2, <4>1 DEF ScanOf
    <3>2. kept[c] \subseteq ToSet(found[c]) \union lp[user[c]]
      BY <1>1, <3>1 DEF ScanOf
    <3> HIDE DEF f, t
    <3> QED BY <1>1, <1>3, <1>6, <1>8, <2>2, <3>2
  <2> QED BY <2>1, <2>2
<1>11. \A d \in Calls \ {c} : SameFor(d)
  BY <1>1, <1>4, <1>8 DEF SameFor
<1> HIDE DEF ListInv, Inv
<1> QED BY <1>1, <1>6, <1>7, <1>9, <1>10, <1>11, CallStep

LEMMA WalletStep == ASSUME ListInv, NEW c \in Calls, AddWallet(c), Inv' PROVE ListInv'
<1> USE DEF ListInv, Inv
<1>1. /\ step[c] = "wallet" /\ Goto(c, "ok")
      /\ UNCHANGED <<held, liquid, events, lp, user, count, token, found, next, kept, moved, erred>>
  BY DEF AddWallet, chain, history
<1>2. step'[c] = "ok" /\ \A d \in Calls \ {c} : step'[d] = step[d]
  BY <1>1 DEF Goto, CallTypes
<1>3. ScanTypes'
  BY <1>1 DEF ScanTypes
<1>4. CursorOf(c)' /\ ScanOf(c)'
  <2>1. CursorOf(c) /\ ScanOf(c)
    OBVIOUS
  <2> QED BY <1>1, <1>2, <2>1 DEF CursorOf, ScanOf, Begun
<1>5. \A d \in Calls \ {c} : SameFor(d)
  BY <1>1, <1>2 DEF SameFor
<1> HIDE DEF ListInv, Inv
<1> QED BY <1>1, <1>3, <1>4, <1>5, CallStep

LEMMA BeginListStep ==
    ASSUME ListInv, NEW c \in Calls, NEW u \in Users, NEW s \in {"account", "wallet"}, Begin(c, u, s), Inv'
    PROVE  ListInv'
<1> USE DEF ListInv, Inv
<1>1. /\ step[c] = "idle" /\ user' = [user EXCEPT ![c] = u] /\ Goto(c, s)
      /\ UNCHANGED <<held, liquid, events, lp, count, token, found, next, kept, moved, erred>>
  BY DEF Begin, chain, tables
<1>2. /\ step'[c] = s /\ \A d \in Calls \ {c} : step'[d] = step[d] /\ user'[d] = user[d]
  BY <1>1 DEF Goto, CallTypes
<1>3. ScanTypes'
  BY <1>1 DEF ScanTypes
<1>4. CursorOf(c)' /\ ScanOf(c)'
  <2>1. CursorOf(c)
    OBVIOUS
  <2> QED BY <1>1, <1>2, <2>1 DEF CursorOf, ScanOf, Begun
<1>5. \A d \in Calls \ {c} : SameFor(d)
  BY <1>1, <1>2 DEF SameFor
<1> HIDE DEF ListInv, Inv
<1> QED BY <1>1, <1>3, <1>4, <1>5, CallStep

\* Whatever the chain does, a token that stays keeps its index, unless one has left.
LEMMA ChainListStep == ASSUME ListInv, ChainEvent, Inv' PROVE ListInv'
<1> USE DEF ListInv, Inv
<1>1. UNCHANGED <<lp, step, user, factor, count, token, found, next, erred>> /\ events' \in 0 .. MaxEvents
  <2>1. Event
    BY DEF ChainEvent, ChangeAccount, ReceiveToken, SendToken, Withdraw
  <2>2. events \in 0 .. MaxEvents /\ events < MaxEvents /\ events' = events + 1 /\ MaxEvents \in Nat
    BY <2>1, IndexerAssumption DEF Event, ScanTypes
  <2>3. events' \in 0 .. MaxEvents
    BY <2>2
  <2> QED BY <2>1, <2>3 DEF Event, tables, call
<1>2. \A c \in Calls : CursorOf(c) /\ ScanOf(c) /\ (step[c] # "idle" => user[c] \in Users)
  BY DEF CallInv
<1>3. ASSUME NEW u \in Users, NEW a \in Accounts, ChangeAccount(u, a) PROVE ListInv'
  <2>1. UNCHANGED <<held, liquid, kept, moved>>
    BY <1>3 DEF ChangeAccount
  <2>2. ScanTypes'
    BY <1>1, <2>1 DEF ScanTypes
  <2>3. \A c \in Calls : CursorOf(c)' /\ ScanOf(c)'
    BY <1>1, <1>2, <2>1 DEF CursorOf, ScanOf, Scanned
  <2> QED BY <2>2, <2>3
<1>4. ASSUME NEW u \in Users, NEW t \in Tokens, ReceiveToken(u, t) PROVE ListInv'
  <2>1. UNCHANGED <<liquid, kept, moved>> /\ held' = [held EXCEPT ![u] = Append(@, t)] /\ t \notin ToSet(held[u])
    BY <1>4 DEF ReceiveToken
  <2>2. held \in [Users -> Seq(Tokens)] /\ \A v \in Users : IsInjective(held[v])
    BY DEF ScanTypes
  <2>3. ~Contains(held[u], t)
    BY <2>1, <2>2, ContainsIt, ToSetIt
  <2>4. Append(held[u], t) \in Seq(Tokens) /\ IsInjective(Append(held[u], t))
    BY <2>2, <2>3, Pushed
  <2>5. /\ \A v \in Users \ {u} : held'[v] = held[v]
        /\ held'[u] = Append(held[u], t)
        /\ held' \in [Users -> Seq(Tokens)]
    BY <2>1, <2>2, <2>4
  <2>6. \A v \in Users : IsInjective(held'[v])
    BY <2>2, <2>4, <2>5
  <2>7. ScanTypes'
    BY <1>1, <2>1, <2>5, <2>6 DEF ScanTypes
  <2>8. \A v \in Users : /\ Len(held[v]) \in Nat /\ Len(held'[v]) \in Nat /\ Len(held[v]) <= Len(held'[v])
                         /\ \A i \in 1 .. Len(held[v]) : held'[v][i] = held[v][i]
    <3> TAKE v \in Users
    <3>1. held[v] \in Seq(Tokens)
      BY <2>2
    <3> QED BY <2>5, <3>1
  <2>9. ASSUME NEW c \in Calls PROVE CursorOf(c)' /\ ScanOf(c)'
    <3>1. CursorOf(c)'
      BY <1>1, <1>2, <2>1 DEF CursorOf
    <3>2. count[c] \in Nat
      BY IndexerAssumption, FS_CardinalityType DEF ScanTypes
    <3>3. ASSUME user[c] \in Users, NEW x, Scanned(c, x) PROVE Scanned(c, x)'
      BY <1>1, <2>8, <3>2, <3>3 DEF Scanned
    <3>4. ScanOf(c)'
      <4>1. CASE step[c] \in {"token", "position"}
        <5>1. user[c] \in Users
          BY <1>2, <4>1
        <5>2. count[c] <= Len(held[user[c]]) => count[c] <= Len(held'[user[c]])
          BY <2>8, <3>2, <5>1
        <5> QED BY <1>1, <1>2, <2>1, <3>3, <4>1, <5>1, <5>2 DEF ScanOf
      <4>2. CASE step[c] \notin {"token", "position"}
        BY <1>1, <1>2, <2>1, <4>2 DEF ScanOf
      <4> QED BY <4>1, <4>2
    <3> QED BY <3>1, <3>4
  <2> QED BY <2>7, <2>9
<1>5. ASSUME NEW u \in Users, NEW i \in DOMAIN held[u], SendToken(u, i) PROVE ListInv'
  <2> DEFINE rest == Front([held[u] EXCEPT ![i] = Last(held[u])])
  <2>1. /\ UNCHANGED liquid /\ held' = [held EXCEPT ![u] = rest]
        /\ kept' = [c \in Calls |-> IF user[c] = u THEN kept[c] \ {held[u][i]} ELSE kept[c]]
        /\ moved' = [c \in Calls |-> moved[c] \/ user[c] = u]
    BY <1>5 DEF SendToken
  <2>2. held \in [Users -> Seq(Tokens)] /\ \A v \in Users : IsInjective(held[v])
    BY DEF ScanTypes
  <2>3. rest \in Seq(Tokens) /\ IsInjective(rest)
    <3>1. held[u] \in Seq(Tokens) /\ i \in 1 .. Len(held[u])
      BY <2>2
    <3> QED BY <2>2, <3>1, Sent
  <2> HIDE DEF rest
  <2>4. /\ held' \in [Users -> Seq(Tokens)] /\ held'[u] = rest
        /\ \A v \in Users \ {u} : held'[v] = held[v]
    BY <2>1, <2>2, <2>3
  <2>5. \A v \in Users : IsInjective(held'[v])
    BY <2>2, <2>3, <2>4
  <2>6. ScanTypes'
    BY <1>1, <2>1, <2>4, <2>5 DEF ScanTypes
  <2>7. ASSUME NEW c \in Calls PROVE CursorOf(c)' /\ ScanOf(c)'
    <3>1. CursorOf(c)'
      BY <1>1, <1>2, <2>1 DEF CursorOf
    <3>2. CASE user[c] = u
      <4>1. moved'[c]
        BY <2>1, <3>2
      <4> QED BY <3>1, <4>1 DEF ScanOf
    <3>3. CASE user[c] # u
      <4>1. kept'[c] = kept[c] /\ moved'[c] = (moved[c] \/ FALSE) /\ moved[c] \in BOOLEAN
        BY <2>1, <3>3 DEF ScanTypes
      <4>2. user[c] \in Users => held'[user[c]] = held[user[c]]
        BY <2>4, <3>3
      <4>3. \A x : user[c] \in Users => (Scanned(c, x) <=> Scanned(c, x)')
        BY <1>1, <4>2 DEF Scanned
      <4> QED BY <1>1, <1>2, <3>1, <4>1, <4>2, <4>3 DEF ScanOf
    <3> QED BY <3>2, <3>3
  <2> QED BY <2>6, <2>7
<1>6. ASSUME NEW t \in Tokens, Withdraw(t) PROVE ListInv'
  <2>1. UNCHANGED <<held, moved>> /\ liquid' = liquid \ {t} /\ kept' = [c \in Calls |-> kept[c] \ {t}]
    BY <1>6 DEF Withdraw
  <2>2. ScanTypes'
    BY <1>1, <2>1 DEF ScanTypes
  <2>3. ASSUME NEW c \in Calls PROVE CursorOf(c)' /\ ScanOf(c)'
    <3>1. kept'[c] = kept[c] \ {t} /\ CursorOf(c) /\ ScanOf(c)
      BY <1>2, <2>1
    <3>2. CursorOf(c)'
      BY <1>1, <2>1, <3>1 DEF CursorOf
    <3>3. \A x : Scanned(c, x) <=> Scanned(c, x)'
      BY <1>1, <2>1 DEF Scanned
    <3>4. ScanOf(c)'
      BY <1>1, <2>1, <3>1, <3>3 DEF ScanOf
    <3> QED BY <3>2, <3>4
  <2> QED BY <2>2, <2>3
<1> QED BY <1>3, <1>4, <1>5, <1>6 DEF ChainEvent

LEMMA ListStep == ListInv /\ [Next]_vars => ListInv'
<1> SUFFICES ASSUME ListInv, [Next]_vars PROVE ListInv'
  OBVIOUS
<1>1. Inv'
  BY InvStep DEF ListInv
<1>2. ASSUME NEW c \in Calls, IndexUser(c) PROVE ListInv'
  BY <1>1, <1>2, EarlyStep, BalanceStep, TokenStep, PositionStep, LpStep, WalletStep DEF IndexUser
<1>3. CASE UNCHANGED vars \/ \E u \in Users : RemoveWallet(u)
  <2>1. /\ UNCHANGED <<held, liquid, events, lp, step, user, erred>>
        /\ UNCHANGED <<count, next, token, found, kept, moved>>
    BY <1>3 DEF RemoveWallet, vars, chain, tables, call, history
  <2>2. ScanTypes'
    BY <2>1 DEF ListInv, ScanTypes
  <2>3. \A c \in Calls : SameFor(c)
    BY <2>1 DEF SameFor
  <2> QED BY <1>1, <2>1, <2>2, <2>3, OtherCall DEF ListInv
<1> QED BY <1>1, <1>2, <1>3, BeginListStep, ChainListStep DEF Next

\* A call that read the list through has stored every position the wallet held the whole
\* time, however many tokens came meanwhile, unless one left and another took its index.
THEOREM ListsAreComplete == Spec => []ListIsComplete
<1>1. ListInv => ListIsComplete
  BY DEF ListInv, ScanOf, ListIsComplete
<1> QED BY <1>1, ListInit, ListStep, PTL DEF Spec

\* Every variable of the indexer has its type; no list is read beyond its end, and no
\* wallet holds a token twice.
THEOREM IndexerTypes == Spec => []TypeOK
<1>1. ListInv /\ ErrorInv => TypeOK
  <2> SUFFICES ASSUME ListInv, ErrorInv PROVE TypeOK
    OBVIOUS
  <2>1. \A u \in Users : ToSet(held[u]) \subseteq Tokens /\ IsInjective(held[u])
    BY ToSetIt DEF ListInv, ScanTypes
  <2>2. \A c \in Calls : ToSet(found[c]) \subseteq Tokens
    BY ToSetIt DEF ListInv, ScanTypes
  <2>3. \A c \in Calls : next[c] <= count[c] /\ count[c] <= Cardinality(Tokens)
    BY IndexerAssumption, FS_CardinalityType DEF ListInv, ScanTypes, CursorOf
  <2>4. wallets \subseteq Users
    BY DEF ErrorInv
  <2> QED BY <2>1, <2>2, <2>3, <2>4 DEF TypeOK, ListInv, Inv, CallTypes, ScanTypes
<1>2. Inv /\ ErrorInv /\ [Next]_vars => ErrorInv'
  BY ErrorStep
<1>3. ListInv => Inv
  BY DEF ListInv
<1> QED BY <1>1, <1>2, <1>3, ErrorInit, ListInit, ListStep, PTL DEF Spec
=============================================================================
