----------------------------- MODULE MCSimpleFS ------------------------------
(* Two inodes for three names, three blocks of two bytes, two blocks per   *)
(* file and one handle, for BLOCKSIZE 64, 30 blocks, 8 inodes, 4 blocks   *)
(* per file and 20 handles.                                                *)
EXTENDS SimpleFS, TLC

CONSTANTS a, b, c, absent

ThreeNames == {a, b, c}
SomeLengths == {-1, 0, 1, 3}
SomeSeeks == {-2, 1}
OneByte == {1}
NameSymmetry == Permutations(ThreeNames)
=============================================================================
