------------------------------ MODULE MCCloudNets ------------------------------
(***************************************************************************)
(* Instances of CloudNets: the subnets that clients ask for.               *)
(***************************************************************************)
EXTENDS CloudNets

\* Any free block, or the second block of the pool.
SomeCidrs == {{}, {1}}

Symmetric == Permutations(Labs) \cup Permutations(Hashes)
==============================================================================
