---------------------------- MODULE MCTaskQueue -----------------------------
(* Instances of TaskQueue and of its list for TLC. *)
EXTENDS TaskQueueList, TLC

CONSTANTS t1, t2, t3, t4, b1, b2, b3, b4

MCTasks3 == {t1, t2, t3}
MCTasks4 == {t1, t2, t3, t4}
MCBlocks == {b1, b2, b3, b4}
=============================================================================
