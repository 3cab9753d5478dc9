-------------------------- MODULE MCRuntimeMigration --------------------------
(***************************************************************************)
(* An instance of RuntimeMigration: three labs, two of them with the same  *)
(* file name in different folders.                                         *)
(***************************************************************************)
EXTENDS RuntimeMigration

CONSTANTS a, b, c

SomeNetworks == {<<a, 1>>, <<a, 2>>, <<b, 1>>, <<c, 1>>}
SomeStems    == [l \in Labs |-> IF l = a THEN "core" ELSE "edge"]
SomeForeign  == {<<a, 2>>}
===============================================================================
