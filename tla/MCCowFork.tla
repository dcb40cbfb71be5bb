----------------------------- MODULE MCCowFork ------------------------------
(* Three processes of up to two pages; every page has a page-table page    *)
(* of its own, for the 1024 of NPTENTRIES.                                 *)
EXTENDS CowFork, TLC

CONSTANTS init, a, b, none, f1, f2, f3

ThreeProcs == {init, a, b}
TwoData == {0, 1}
ThreeFrames == {f1, f2, f3}
CowSymmetry == Permutations({a, b}) \cup Permutations(Frames)
(* A bound on what failed forks leave. *)
FewLeaks == Cardinality({f \in Frames : leaked[f] > 0}) <= 1
            /\ \A f \in Frames : leaked[f] <= 1
(* Nothing is promised once somebody acted on an outdated count.           *)
UntilOutdated == ~outdated
=============================================================================
