------------------------------ MODULE MCWsHub ------------------------------
(***************************************************************************)
(* Instances of WsHub for TLC.                                             *)
(***************************************************************************)
EXTENDS WsHub, TLC

CONSTANTS c1, c2, c3, u1, u2, ch1, ch2, ch3

Symmetric == Permutations(Conns) \union Permutations(Channels) \union Permutations(Users)
=============================================================================
