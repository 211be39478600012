---------------------------- MODULE MCDectProxy ----------------------------
(* Small instances of DectProxy for TLC.  Clients are interchangeable.     *)
EXTENDS DectProxy, TLC

CONSTANTS c1, c2, c3

MCThree == {c1, c2, c3}
MCTwo == {c1, c2}
MCSymmetry == Permutations(MCThree)
=============================================================================
