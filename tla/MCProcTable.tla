----------------------------- MODULE MCProcTable -----------------------------
(* Small instances of ProcTable.                                           *)
EXTENDS ProcTable, TLC

(* The slots other than init's, and the CPUs, are interchangeable.         *)
Symmetry == Permutations(Slots \ {InitProc}) \cup Permutations(Cpus)
=============================================================================
