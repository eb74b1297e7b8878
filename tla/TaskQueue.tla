----------------------------- MODULE TaskQueue ------------------------------
(***************************************************************************)
(* The task queue of src/task_queue.c: a FIFO of jobs and a pool of        *)
(* detached threads, each created to run ONE job.  Every access to the     *)
(* struct is made with tq->mutex held, so each critical section is one     *)
(* action; what happens between two critical sections of a thread (running *)
(* the job's function) is not.                                             *)
(*                                                                         *)
(* Threads have no identity in the code beyond the job they hold, so they  *)
(* are counted by where they are in queue_job_exec: `starting' (created,   *)
(* not yet in queue_job_get_next), `executing' (named by the job) and      *)
(* `finishing' (job returned and freed, final critical section ahead).     *)
(***************************************************************************)
EXTENDS Integers, Sequences, FiniteSets

CONSTANTS
  Tasks,              \* the jobs a client may enqueue (one malloc'ed request each)
  max_threads,        \* argument of task_queue_create
  MaxCreateFailures   \* bound on how often pthread_create may fail

ASSUME TaskQueueAssumption ==
  /\ IsFiniteSet(Tasks)
  /\ max_threads \in Int
  /\ MaxCreateFailures \in Nat

VARIABLES
  queue,          \* the list from tq->next to tq->last
  active_tasks,   \* tq->active_tasks
  size,           \* tq->size
  suspended,      \* tq->suspended
  freed,          \* task_queue_destroy has freed the struct
  starting,       \* number of threads on their way to queue_job_get_next
  executing,      \* jobs whose function is running, each on a thread of its own
  finishing,      \* number of threads on their way to the final critical section
  failed,         \* pthread_create calls that returned an error number
  done,           \* history: jobs whose function has returned
  drained         \* history: the client has seen is_empty and enqueued nothing since

vars == <<queue, active_tasks, size, suspended, freed, starting, executing,
          finishing, failed, done, drained>>

max_active_tasks == IF max_threads > 0 THEN max_threads ELSE 1

Queued(t) == \E i \in DOMAIN queue : queue[i] = t

task_queue_create ==
  /\ queue = <<>>
  /\ active_tasks = 0
  /\ size = 0
  /\ suspended = FALSE
  /\ freed = FALSE
  /\ starting = 0
  /\ executing = {}
  /\ finishing = 0
  /\ failed = 0
  /\ done = {}
  /\ drained = FALSE

-----------------------------------------------------------------------------
(* Creating threads: the same loop ends enqueue, unsuspend and every thread. *)

RunCount_Oversubscribed(active, sz) ==
  IF sz < max_active_tasks - active THEN sz ELSE max_active_tasks - active

RunCount_Unlimited(active, sz) == sz - active

RunCount(active, sz) ==
  LET can_run  == max_active_tasks - active
      need_run == sz - active
  IN  IF need_run < can_run THEN need_run ELSE can_run

(* pthread_create reports failure with a positive error number, which the  *)
(* code's test `< 0' takes for success: active_tasks counts the thread     *)
(* whether it exists or not.  pthread_detach is then given a handle that   *)
(* was never written, or the one of an earlier thread (lines 107, 149 and  *)
(* 241), which is undefined; here it does nothing.  The other outcome, the *)
(* end of the process, ends every behaviour of the queue with it: the      *)
(* invariants have nothing more to hold in, and what is said of progress   *)
(* is said of runs in which no creation failed.                            *)
CreateThreads(active, sz) ==
  LET run == IF RunCount(active, sz) > 0 THEN RunCount(active, sz) ELSE 0
  IN  \E created \in 0 .. run :
        /\ failed + (run - created) <= MaxCreateFailures
        /\ active_tasks' = active + run
        /\ starting' = starting + created
        /\ failed' = failed + (run - created)

CreateNoThreads(active) ==
  /\ active_tasks' = active
  /\ UNCHANGED <<starting, failed>>

-----------------------------------------------------------------------------
(* The client's operations. *)

task_queue_enqueue(t) ==
  /\ ~freed
  /\ ~Queued(t) /\ t \notin executing \cup done
  /\ queue' = Append(queue, t)
  /\ size' = size + 1
  /\ IF active_tasks < max_active_tasks /\ ~suspended
     THEN CreateThreads(active_tasks, size + 1)
     ELSE CreateNoThreads(active_tasks)
  /\ drained' = FALSE
  /\ UNCHANGED <<suspended, freed, executing, finishing, done>>

task_queue_suspend ==
  /\ ~freed
  /\ suspended' = TRUE
  /\ UNCHANGED <<queue, active_tasks, size, freed, starting, executing,
                 finishing, failed, done, drained>>

task_queue_unsuspend ==
  /\ ~freed
  /\ suspended' = FALSE
  /\ IF size # 0 /\ active_tasks < max_active_tasks
     THEN CreateThreads(active_tasks, size)
     ELSE CreateNoThreads(active_tasks)
  /\ UNCHANGED <<queue, size, freed, executing, finishing, done, drained>>

(* task_queue_is_empty reads size through task_queue_get_size; what the    *)
(* client learns is kept in `drained'.                                     *)
task_queue_is_empty ==
  /\ ~freed
  /\ drained' = (size = 0)
  /\ UNCHANGED <<queue, active_tasks, size, suspended, freed, starting,
                 executing, finishing, failed, done>>

(* Frees the waiting jobs and the struct.  A thread that then returns to   *)
(* the queue locks a destroyed mutex in freed memory: what follows has no  *)
(* defined outcome and the thread's actions below are not continued.       *)
task_queue_destroy ==
  /\ ~freed
  /\ suspended' = TRUE
  /\ queue' = <<>>
  /\ freed' = TRUE
  /\ UNCHANGED <<active_tasks, size, starting, executing, finishing, failed,
                 done, drained>>

-----------------------------------------------------------------------------
(* The steps of a thread (queue_job_exec). *)

queue_job_get_next_CountsTaken ==
  /\ ~freed
  /\ starting > 0
  /\ starting' = starting - 1
  /\ queue # <<>>
  /\ queue' = Tail(queue)
  /\ executing' = executing \cup {Head(queue)}
  /\ size' = size - 1
  /\ UNCHANGED <<active_tasks, suspended, freed, finishing, failed, done, drained>>

queue_job_get_next_Newest ==
  /\ ~freed
  /\ starting > 0
  /\ starting' = starting - 1
  /\ queue # <<>>
  /\ queue' = SubSeq(queue, 1, Len(queue) - 1)
  /\ executing' = executing \cup {queue[Len(queue)]}
  /\ UNCHANGED <<active_tasks, size, suspended, freed, finishing, failed, done, drained>>

(* A thread that finds the list empty gets NULL and goes straight to its   *)
(* final critical section.                                                 *)
queue_job_get_next ==
  /\ ~freed
  /\ starting > 0
  /\ starting' = starting - 1
  /\ IF queue # <<>>
     THEN /\ queue' = Tail(queue)
          /\ executing' = executing \cup {Head(queue)}
          /\ UNCHANGED finishing
     ELSE /\ finishing' = finishing + 1
          /\ UNCHANGED <<queue, executing>>
  /\ UNCHANGED <<active_tasks, size, suspended, freed, failed, done, drained>>

(* qj->func(qj->arg) returns and the job is freed; the struct is not touched. *)
JobReturns(t) ==
  /\ t \in executing
  /\ executing' = executing \ {t}
  /\ finishing' = finishing + 1
  /\ done' = done \cup {t}
  /\ UNCHANGED <<queue, active_tasks, size, suspended, freed, starting, failed, drained>>

ThreadEnds_NoHandOver ==
  /\ ~freed
  /\ finishing > 0
  /\ finishing' = finishing - 1
  /\ size' = size - 1
  /\ CreateNoThreads(active_tasks - 1)
  /\ UNCHANGED <<queue, suspended, freed, executing, done, drained>>

ThreadEnds ==
  /\ ~freed
  /\ finishing > 0
  /\ finishing' = finishing - 1
  /\ size' = size - 1
  /\ IF size - 1 # 0 /\ active_tasks - 1 < max_active_tasks /\ ~suspended
     THEN CreateThreads(active_tasks - 1, size - 1)
     ELSE CreateNoThreads(active_tasks - 1)
  /\ UNCHANGED <<queue, suspended, freed, executing, done, drained>>

-----------------------------------------------------------------------------
Client ==
  \/ \E t \in Tasks : task_queue_enqueue(t)
  \/ task_queue_suspend
  \/ task_queue_unsuspend
  \/ task_queue_is_empty
  \/ task_queue_destroy

Thread ==
  \/ queue_job_get_next
  \/ \E t \in Tasks : JobReturns(t)
  \/ ThreadEnds

Next == Client \/ Thread

Spec == task_queue_create /\ [][Next]_vars

(* The operating system runs every thread, and every job's function        *)
(* returns (process_packet loops are bounded).  Nothing is assumed of the  *)
(* client.                                                                 *)
Fairness ==
  /\ WF_vars(queue_job_get_next)
  /\ \A t \in Tasks : WF_vars(JobReturns(t))
  /\ WF_vars(ThreadEnds)

FairSpec == Spec /\ Fairness

-----------------------------------------------------------------------------
(* Types, and the counters of the struct never run below zero although     *)
(* three different functions move them.                                    *)
TypeOK ==
  /\ queue \in Seq(Tasks)
  /\ active_tasks \in Nat
  /\ size \in Nat
  /\ suspended \in BOOLEAN
  /\ freed \in BOOLEAN
  /\ starting \in Nat
  /\ executing \in SUBSET Tasks
  /\ finishing \in Nat
  /\ failed \in Nat
  /\ done \in SUBSET Tasks
  /\ drained \in BOOLEAN

(* A thread is only created for a job nobody else will take: whatever the  *)
(* interleaving of enqueue, suspend, unsuspend and ending threads, the     *)
(* threads on their way to the list (and the slots lost to pthread_create  *)
(* failures) never outnumber the jobs in it.  Otherwise a thread would get *)
(* NULL in queue_job_get_next and still decrement size for a job it did    *)
(* not run.                                                                *)
EveryThreadFindsAJob == ~freed => starting + failed <= Len(queue)

(* "having an upper threads limit" (inc/task_queue.h:5): the threads that  *)
(* exist, wherever they are in queue_job_exec, never exceed the limit.     *)
UpperThreadsLimit ==
  starting + Cardinality(executing) + finishing <= max_active_tasks

(* Between critical sections a queue that is not suspended never leaves a  *)
(* job unserved while a slot is free: either every job is counted by a     *)
(* thread or all slots are taken.  It takes the hand-over at the end of    *)
(* every thread and at unsuspend to keep this.                             *)
WorkConserving ==
  ~freed /\ ~suspended => size = active_tasks \/ active_tasks = max_active_tasks

(* size counts a job until the thread that ran it is past its last access  *)
(* to the struct, so a client that has seen task_queue_is_empty and        *)
(* enqueued nothing since may destroy the queue: no thread is left to use  *)
(* the freed struct.                                                       *)
DrainedDestroyIsSafe ==
  freed /\ drained => starting = 0 /\ executing = {} /\ finishing = 0

(* The task queue implements the abstract pool: FIFO starts, bounded       *)
(* concurrency, no job run twice (queue_job_get_next, queue_job_exec).     *)
Pool == INSTANCE TaskPool WITH
          Limit <- max_active_tasks,
          waiting <- queue,
          running <- executing,
          completed <- done

ImplementsPool == Pool!Spec

(* "Task queue that create threads for completing tasks"                   *)
(* (inc/task_queue.h:4): unless the client destroys the queue or leaves it *)
(* suspended for good, every job in the list is eventually completed.      *)
EveryJobCompletes ==
  []~freed /\ []<>~suspended => \A t \in Tasks : Queued(t) ~> t \in done

(* It is kept when every pthread_create succeeds.                          *)
EveryJobCompletesUnlessThreadsFail == [](failed = 0) => EveryJobCompletes
=============================================================================
