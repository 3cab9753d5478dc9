---------------------------- MODULE MCLinkService ----------------------------
(***************************************************************************)
(* Instances of LinkService: the endpoint pairs that clients ask for.      *)
(***************************************************************************)
EXTENDS LinkService, TLC

\* Two ports in both orders and to themselves, a third one on the hidden
\* network that joins them.
EditPairs == {<<NodeEp(1, 0), NodeEp(2, 0)>>, <<NodeEp(2, 0), NodeEp(1, 0)>>,
              <<NodeEp(1, 0), NodeEp(1, 0)>>, <<NodeEp(3, 0), NetEp(2)>>}

\* The two interfaces of one node to each other.
PlugPairs == {<<NodeEp(1, 1), NodeEp(1, 0)>>}

\* A port to a network, and to itself.
LoopPairs == {<<NodeEp(1, 0), NetEp(1)>>, <<NodeEp(1, 0), NodeEp(1, 0)>>}

Symmetric == Permutations(Reqs)
==============================================================================
