--------------------------- MODULE MCMasterWorker ---------------------------
(* Up to four requests, a buffer of one to three, one or two masters and up*)
(* to three workers.                                                       *)
EXTENDS MasterWorker

CONSTANTS m1, m2, w1, w2, w3

TwoMasters == {m1, m2}
ThreeWorkers == {w1, w2, w3}

CommandLines ==
  [total : 0..4, size : 1..3, masters : {{m1}, {m1, m2}},
   workers : {{w1}, {w1, w2}, {w1, w2, w3}}]
=============================================================================
