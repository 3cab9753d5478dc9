------------------------------ MODULE MCQemuNics ------------------------------
(* QemuNics on a small node: one boot card, two hot-plug interfaces, three ports. *)
EXTENDS QemuNics, TLC

\* Networks are interchangeable: no operator orders them.
NetSymmetry == Permutations(Nets)
=============================================================================
