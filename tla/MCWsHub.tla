------------------------------- MODULE MCWsHub -------------------------------
(***************************************************************************)
(* Instances of WsHub: connections and publishers are interchangeable.     *)
(***************************************************************************)
EXTENDS WsHub, TLC

Symmetric == Permutations(Conns) \cup Permutations(Publishers)
==============================================================================
