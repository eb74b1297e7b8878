--------------------------- MODULE MCPendDelivery ---------------------------
(* PendDelivery on small instances.  Threads are interchangeable, and so   *)
(* are message contents, wherever no liveness property is checked.         *)
EXTENDS PendDelivery, TLC

CONSTANTS m1, m2, long, t1, t2

MCMsgs == {m1, m2}
WithLong == {m1, m2, long}
Long == {long}
None == {}
OneThread == {t1}
TwoThreads == {t1, t2}
Symmetry == Permutations(MCMsgs) \cup Permutations(TwoThreads)
=============================================================================
