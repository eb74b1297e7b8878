--------------------------- MODULE TaskQueueList ----------------------------
(***************************************************************************)
(* The list behind TaskQueue: jobs in blocks of memory, linked by next     *)
(* from tq->next to tq->last.  TaskQueue says when each function runs;     *)
(* here is what it does to the blocks at that moment.  What was in a block *)
(* is gone once it is freed, so that nothing can rely on it.               *)
(*                                                                         *)
(* tq->last is not looked after when a job is taken: once the list has run *)
(* empty it points to a job some thread holds, or has freed.               *)
(***************************************************************************)
EXTENDS TaskQueue

CONSTANTS
  Blocks,   \* addresses of jobs
  Null

ASSUME TaskQueueListAssumption == IsFiniteSet(Blocks) /\ Null \notin Blocks

VARIABLES
  first,      \* tq->next
  last,       \* tq->last
  block,      \* func and arg, standing for the job, and next of each block
  allocated,  \* blocks malloc has given out
  held,       \* blocks in the hands of threads
  walker      \* qj1 of task_queue_destroy

listVars == <<first, last, block, allocated, held, walker>>

Garbage == [job |-> Null, next |-> Null]

EmptyList ==
  /\ first = Null /\ last = Null
  /\ block = [a \in Blocks |-> Garbage]
  /\ allocated = {} /\ held = {}
  /\ walker = Null

ListInit == task_queue_create /\ EmptyList

-----------------------------------------------------------------------------
Created(t) == [job |-> t, next |-> Null]

Link_EmptyByLast(a, t) ==
  /\ a \in Blocks \ allocated
  /\ allocated' = allocated \cup {a}
  /\ last' = a
  /\ IF last = Null
     THEN first' = a /\ block' = [block EXCEPT ![a] = Created(t)]
     ELSE /\ block' = [[block EXCEPT ![a] = Created(t)] EXCEPT ![last].next = a]
          /\ UNCHANGED first
  /\ UNCHANGED <<held, walker>>

(* queue_job_create, and the critical section of task_queue_enqueue.       *)
Link(a, t) ==
  /\ a \in Blocks \ allocated
  /\ allocated' = allocated \cup {a}
  /\ last' = a
  /\ IF first = Null
     THEN first' = a /\ block' = [block EXCEPT ![a] = Created(t)]
     ELSE /\ block' = [[block EXCEPT ![a] = Created(t)] EXCEPT ![last].next = a]
          /\ UNCHANGED first
  /\ UNCHANGED <<held, walker>>

(* queue_job_get_next *)
Unlink ==
  /\ IF first = Null
     THEN UNCHANGED <<first, held>>
     ELSE first' = block[first].next /\ held' = held \cup {first}
  /\ UNCHANGED <<last, block, allocated, walker>>

(* A thread whose job has returned frees it, outside of the mutex. *)
queue_job_destroy(a) ==
  /\ a \in held
  /\ held' = held \ {a}
  /\ allocated' = allocated \ {a}
  /\ block' = [block EXCEPT ![a] = Garbage]
  /\ UNCHANGED <<first, last, walker>>

(* task_queue_destroy frees the list, job by job, while it keeps the mutex *)
(* for ever: to everybody else all of it happens when it begins.           *)
WalkBegins ==
  /\ walker' = first
  /\ UNCHANGED <<first, last, block, allocated, held>>

WalkOn ==
  /\ freed /\ walker # Null
  /\ walker' = block[walker].next
  /\ allocated' = allocated \ {walker}
  /\ block' = [block EXCEPT ![walker] = Garbage]
  /\ UNCHANGED <<vars, first, last, held>>

-----------------------------------------------------------------------------
ListNext ==
  \/ \E t \in Tasks, a \in Blocks : task_queue_enqueue(t) /\ Link(a, t)
  \/ task_queue_suspend /\ UNCHANGED listVars
  \/ task_queue_unsuspend /\ UNCHANGED listVars
  \/ task_queue_is_empty /\ UNCHANGED listVars
  \/ task_queue_destroy /\ WalkBegins
  \/ WalkOn
  \/ queue_job_get_next /\ Unlink
  \/ \E t \in Tasks, a \in Blocks :
       JobReturns(t) /\ block[a].job = t /\ queue_job_destroy(a)
  \/ ThreadEnds /\ UNCHANGED listVars

ListSpec == ListInit /\ [][ListNext]_<<vars, listVars>>

(* Threads run, as in TaskQueue. *)
FairListSpec == ListSpec /\ Fairness

-----------------------------------------------------------------------------
(* From a pointer on one meets the n blocks of chain, each once. *)
Linked(head, n, chain) ==
  /\ head = IF n = 0 THEN Null ELSE chain[1]
  /\ \A i \in 1 .. n : block[chain[i]].next = IF i = n THEN Null ELSE chain[i + 1]
  /\ \A i, j \in 1 .. n : chain[i] = chain[j] => i = j

(* Those and the blocks threads hold are what is allocated. *)
Accounted(n, chain) ==
  /\ allocated = held \cup {chain[i] : i \in 1 .. n}
  /\ \A i \in 1 .. n : chain[i] \notin held

Chained(n, chain) ==
  /\ Accounted(n, chain)
  /\ IF freed THEN Linked(walker, n, chain)
     ELSE /\ Linked(first, n, chain)
          /\ n = Len(queue)
          /\ \A i \in 1 .. n : block[chain[i]].job = queue[i]
          /\ n > 0 => last = chain[n]

HeldAreExecuting ==
  /\ \A a \in held : block[a].job \in executing
  /\ \A t \in executing : \E a \in held : block[a].job = t
  /\ \A a, b \in held : block[a].job = block[b].job => a = b

(* The list is the queue: following next from tq->next one meets its jobs  *)
(* in order, in blocks nobody has freed, to the last, where enqueue will   *)
(* append.  Threads hold the blocks of the jobs they run and nothing else  *)
(* is allocated, so that no job is lost, freed twice or linked to after it *)
(* was freed; once the queue is destroyed only what the walk has still to  *)
(* free is left.                                                           *)
ListIsQueue ==
  /\ HeldAreExecuting
  /\ \E n \in 0 .. Cardinality(Blocks) : \E chain \in [1 .. n -> Blocks] : Chained(n, chain)
=============================================================================
