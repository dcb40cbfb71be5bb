------------------------------- MODULE MCLog --------------------------------
(* Three processes, three blocks of the 1000 of the disk, and a log of     *)
(* four blocks for the 30: there is room for two system calls of two       *)
(* blocks, for the three of ten, and three blocks would be too many.       *)
EXTENDS Log, TLC

CONSTANTS p1, p2, p3, b1, b2, b3, none

ThreeProcs == {p1, p2, p3}
ThreeBlocks == {b1, b2, b3}
TwoData == {0, 1}
LogSymmetry == Permutations(Procs) \cup Permutations(Blocks)
=============================================================================
