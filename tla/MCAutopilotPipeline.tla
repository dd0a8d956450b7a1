------------------------ MODULE MCAutopilotPipeline ------------------------
(***************************************************************************)
(* Instances of AutopilotPipeline for TLC.                                 *)
(***************************************************************************)
EXTENDS AutopilotPipeline, TLC

CONSTANTS p1, p2, u1, u2, s1, s2, aave, compound

\* SignerPermissions: the default, one whose amount is too small, and one for
\* another protocol and action.
Default == [actions |-> {"repay", "rebalance"}, maxSingle |-> 5, protocols |-> {aave}]
Small == [actions |-> {"repay"}, maxSingle |-> 1, protocols |-> {aave, compound}]
Other == [actions |-> {"rebalance"}, maxSingle |-> 5, protocols |-> {compound}]

Repay(u, protocol, amount) ==
    [kind |-> "repay", user |-> u, protocol |-> protocol, amount |-> amount]
Rebalance(u) == [kind |-> "rebalance", user |-> u, protocol |-> "uniswap_v3", amount |-> 0]

TwoUsers == {Repay(u1, aave, 2), Repay(u1, compound, 1), Repay(u2, aave, 2), Rebalance(u1)}
OneUser == {Repay(u1, aave, 2)}
AllPermissions == {Default, Small, Other}
DefaultOnly == {Default}
TwoPermissions == {Default, Small}
Budget3 == {3}
TwoBudgets == {1, 3}

NoFaults == {}
AllFaults == FaultKinds
NodeFaults == {"rpc_refused", "rpc_lost"}

Symmetric == Permutations(Pipes) \union Permutations(SignerIds)
=============================================================================
