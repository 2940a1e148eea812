---------------------------- MODULE MCServerSlots ----------------------------
(* ServerSlots for TLC: connections are interchangeable.                   *)
EXTENDS ServerSlots, TLC

Symmetry == Permutations(Conns)

=============================================================================
