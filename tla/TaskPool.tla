------------------------------ MODULE TaskPool ------------------------------
(***************************************************************************)
(* What the task queue promises its client (inc/task_queue.h, lines 4-6:   *)
(* "Task queue that create threads for completing tasks having an upper    *)
(* threads limit"): tasks start in the order they were submitted, at most  *)
(* Limit of them run at a time, none runs twice, and a task leaves the     *)
(* pool by completing, unless the whole backlog is discarded.              *)
(***************************************************************************)
EXTENDS Naturals, Sequences, FiniteSets

CONSTANTS Tasks,   \* the tasks a client may submit
          Limit    \* how many of them may run at the same time

VARIABLES waiting,     \* submitted and not yet started, oldest first
          running,     \* started and not yet returned
          completed    \* returned

vars == <<waiting, running, completed>>

Init ==
  /\ waiting = <<>>
  /\ running = {}
  /\ completed = {}

Known(t) == (\E i \in DOMAIN waiting : waiting[i] = t) \/ t \in running \cup completed

Submit(t) ==
  /\ ~Known(t)
  /\ waiting' = Append(waiting, t)
  /\ UNCHANGED <<running, completed>>

Start ==
  /\ waiting # <<>>
  /\ Cardinality(running) < Limit
  /\ Head(waiting) \notin running \cup completed
  /\ waiting' = Tail(waiting)
  /\ running' = running \cup {Head(waiting)}
  /\ UNCHANGED completed

Complete(t) ==
  /\ t \in running
  /\ running' = running \ {t}
  /\ completed' = completed \cup {t}
  /\ UNCHANGED waiting

Discard ==
  /\ waiting' = <<>>
  /\ UNCHANGED <<running, completed>>

Next ==
  \/ \E t \in Tasks : Submit(t) \/ Complete(t)
  \/ Start
  \/ Discard

Spec == Init /\ [][Next]_vars
=============================================================================
