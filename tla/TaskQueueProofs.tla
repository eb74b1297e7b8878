-------------------------- MODULE TaskQueueProofs ---------------------------
(***************************************************************************)
(* Proofs about TaskQueue for any set of jobs, any thread limit and any    *)
(* number of pthread_create failures.  The inductive invariant accounts    *)
(* for every unit of the two counters of the struct:                       *)
(*   size         = waiting jobs + executing jobs + finishing threads      *)
(*   active_tasks = starting + executing + finishing threads + lost slots  *)
(*                                                                         *)
(* The second part is about TaskQueueList, for any finite memory: its      *)
(* linked list is the queue of TaskQueue.  Every step of the list is a     *)
(* step of the task queue, so the invariant of the first part holds along; *)
(* what a step does to the chain of blocks is to append to it, to take its *)
(* first, or to leave it alone.                                            *)
(***************************************************************************)
EXTENDS TaskQueueList, FiniteSetTheorems, TLAPS

SizeCounts ==
  ~freed => size = Len(queue) + Cardinality(executing) + finishing

ActiveCounts ==
  active_tasks = starting + Cardinality(executing) + finishing + failed

SlotsBounded == active_tasks <= max_active_tasks

JobsDistinct ==
  /\ \A i, j \in 1 .. Len(queue) : queue[i] = queue[j] => i = j
  /\ \A i \in 1 .. Len(queue) : queue[i] \notin executing \cup done
  /\ executing \cap done = {}

DrainedIsQuiet ==
  drained => IF freed THEN starting = 0 /\ executing = {} /\ finishing = 0
                      ELSE size = 0

IInv ==
  /\ TypeOK
  /\ SizeCounts
  /\ ActiveCounts
  /\ SlotsBounded
  /\ EveryThreadFindsAJob
  /\ WorkConserving
  /\ JobsDistinct
  /\ DrainedIsQuiet

-----------------------------------------------------------------------------
(* TypeOK in the three parts the provers handle best one at a time. *)
Counters ==
  /\ active_tasks \in Nat /\ size \in Nat
  /\ starting \in Nat /\ finishing \in Nat /\ failed \in Nat

Jobs ==
  /\ queue \in Seq(Tasks)
  /\ executing \in SUBSET Tasks
  /\ done \in SUBSET Tasks

Flags == suspended \in BOOLEAN /\ freed \in BOOLEAN /\ drained \in BOOLEAN

LEMMA TypeParts == TypeOK <=> Counters /\ Jobs /\ Flags
  BY Zenon DEF TypeOK, Counters, Jobs, Flags

LEMMA LimitType == max_active_tasks \in Nat /\ max_active_tasks > 0
  BY TaskQueueAssumption DEF max_active_tasks

(* Executing jobs are finitely many, so they can be counted. *)
LEMMA ExecutingFinite ==
  ASSUME Jobs
  PROVE  IsFiniteSet(executing) /\ Cardinality(executing) \in Nat
  BY TaskQueueAssumption, FS_Subset, FS_CardinalityType DEF Jobs

(* The numbers the accounting is about are naturals, and a live queue      *)
(* never counts more threads than jobs.                                    *)
LEMMA Accounting ==
  ASSUME IInv
  PROVE  /\ Counters /\ Jobs /\ Flags
         /\ Len(queue) \in Nat /\ Cardinality(executing) \in Nat
         /\ ~freed => active_tasks <= size
         /\ ~freed => size - active_tasks = Len(queue) - starting - failed
<1>1. Counters /\ Jobs /\ Flags
  BY TypeParts DEF IInv
<1>2. Len(queue) \in Nat /\ Cardinality(executing) \in Nat
  BY <1>1, ExecutingFinite DEF Jobs
<1>3. ASSUME ~freed
      PROVE  size - active_tasks = Len(queue) - starting - failed
  BY <1>1, <1>2, <1>3 DEF IInv, Counters, SizeCounts, ActiveCounts
<1>4. ASSUME ~freed
      PROVE  active_tasks <= size
  BY <1>1, <1>2, <1>3, <1>4 DEF IInv, Counters, EveryThreadFindsAJob
<1> QED
  BY <1>1, <1>2, <1>3, <1>4

(* What the thread-creation loop does when it is entered with active slots *)
(* taken and sz jobs counted: it takes run more slots, created of them     *)
(* with a thread, and either every job is then served or every slot taken. *)
Creates(active, sz, run, created) ==
  /\ created <= run
  /\ active + run <= max_active_tasks
  /\ active + run <= sz
  /\ active_tasks' = active + run
  /\ starting' = starting + created
  /\ failed' = failed + (run - created)

LEMMA CreateThreadsEffect ==
  ASSUME NEW active \in Nat, NEW sz \in Nat,
         active <= sz, active <= max_active_tasks,
         CreateThreads(active, sz)
  PROVE  \E run, created \in Nat :
            /\ Creates(active, sz, run, created)
            /\ active + run = sz \/ active + run = max_active_tasks
<1> DEFINE run == RunCount(active, sz)
<1>1. /\ run \in Nat
      /\ active + run <= max_active_tasks
      /\ active + run <= sz
      /\ active + run = sz \/ active + run = max_active_tasks
  BY LimitType DEF RunCount
<1>2. PICK created \in 0 .. run :
         /\ active_tasks' = active + run
         /\ starting' = starting + created
         /\ failed' = failed + (run - created)
  BY <1>1 DEF CreateThreads
<1>3. Creates(active, sz, run, created)
  BY <1>1, <1>2 DEF Creates
<1> QED
  BY <1>1, <1>2, <1>3

LEMMA CreateNoThreadsEffect ==
  ASSUME NEW active \in Nat, NEW sz \in Nat,
         active <= sz, active <= max_active_tasks,
         starting \in Nat, failed \in Nat,
         CreateNoThreads(active)
  PROVE  \E run, created \in Nat :
            Creates(active, sz, run, created) /\ active + run = active
<1>1. Creates(active, sz, 0, 0)
  BY LimitType DEF Creates, CreateNoThreads
<1> QED
  BY <1>1

-----------------------------------------------------------------------------
(* The queue task_queue_create returns satisfies the inductive invariant. *)
THEOREM InitIInv == task_queue_create => IInv
<1> SUFFICES ASSUME task_queue_create PROVE IInv
  OBVIOUS
<1>1. Counters /\ Jobs
  BY DEF task_queue_create, Counters, Jobs
<1>2. Flags
  BY Zenon DEF task_queue_create, Flags
<1>3. Cardinality(executing) = 0
  BY FS_EmptySet DEF task_queue_create
<1> QED
  BY <1>1, <1>2, <1>3, TypeParts, LimitType
  DEF task_queue_create, IInv, SizeCounts, ActiveCounts, SlotsBounded, EveryThreadFindsAJob,
      WorkConserving, JobsDistinct, DrainedIsQuiet

(* The counting part of the invariant survives every step that ends with   *)
(* the creation loop: active slots and sz jobs counted on entry, len jobs  *)
(* in the list, ex executing and fin finishing threads after the step.     *)
LEMMA LoopKeepsCounts ==
  ASSUME Counters,
         NEW active \in Nat, NEW sz \in Nat,
         NEW len \in Nat, NEW ex \in Nat, NEW fin \in Nat,
         active = starting + ex + fin + failed,
         sz = len + ex + fin,
         active <= sz, active <= max_active_tasks,
         ~freed, freed' = freed, suspended' = suspended \/ suspended' = FALSE,
         size' = sz, finishing' = fin,
         Len(queue') = len, Cardinality(executing') = ex,
         \/ CreateThreads(active, sz)
         \/ /\ CreateNoThreads(active)
            /\ active = max_active_tasks \/ active = sz \/ suspended'
  PROVE  /\ Counters'
         /\ SizeCounts' /\ ActiveCounts' /\ SlotsBounded'
         /\ EveryThreadFindsAJob' /\ WorkConserving'
<1>1. PICK run \in Nat, created \in Nat :
         /\ Creates(active, sz, run, created)
         /\ active + run = sz \/ active + run = max_active_tasks \/ suspended'
  BY CreateThreadsEffect, CreateNoThreadsEffect DEF Counters
<1>2. Counters'
  BY <1>1 DEF Counters, Creates
<1>3. SizeCounts'
  BY DEF SizeCounts
<1>4. ActiveCounts'
  BY <1>1 DEF Counters, Creates, ActiveCounts
<1>5. SlotsBounded'
  BY <1>1 DEF Creates, SlotsBounded
<1>6. EveryThreadFindsAJob'
  BY <1>1 DEF Counters, Creates, EveryThreadFindsAJob
<1>7. WorkConserving'
  BY <1>1 DEF Creates, WorkConserving
<1> QED
  BY <1>2, <1>3, <1>4, <1>5, <1>6, <1>7

LEMMA EnqueueKeepsIInv ==
  ASSUME IInv, NEW t \in Tasks, task_queue_enqueue(t)
  PROVE  IInv'
<1>1. /\ queue' \in Seq(Tasks) /\ Len(queue') = Len(queue) + 1
      /\ \A i \in 1 .. Len(queue) : queue'[i] = queue[i]
      /\ queue'[Len(queue) + 1] = t
  BY Accounting DEF Jobs, task_queue_enqueue
<1>2. /\ size' = size + 1 /\ suspended' = suspended /\ ~freed /\ freed' = freed
      /\ executing' = executing /\ finishing' = finishing /\ done' = done /\ drained' = FALSE
  BY DEF task_queue_enqueue
<1>3. /\ Counters'
      /\ SizeCounts' /\ ActiveCounts' /\ SlotsBounded'
      /\ EveryThreadFindsAJob' /\ WorkConserving'
  <2>1. /\ active_tasks = starting + Cardinality(executing) + finishing + failed
        /\ size + 1 = (Len(queue) + 1) + Cardinality(executing) + finishing
    BY <1>2, Accounting DEF IInv, ActiveCounts, SizeCounts, Counters
  <2>2. /\ active_tasks <= size + 1 /\ active_tasks <= max_active_tasks
        /\ active_tasks \in Nat /\ size + 1 \in Nat /\ Len(queue) + 1 \in Nat
        /\ finishing \in Nat /\ Cardinality(executing) \in Nat
        /\ Cardinality(executing') = Cardinality(executing)
    BY <1>2, Accounting DEF IInv, SlotsBounded, Counters
  <2>3. \/ CreateThreads(active_tasks, size + 1)
        \/ /\ CreateNoThreads(active_tasks)
           /\ active_tasks = max_active_tasks \/ active_tasks = size + 1 \/ suspended'
    BY <1>2, <2>2, LimitType DEF task_queue_enqueue
  <2> QED
    BY <1>1, <1>2, <2>1, <2>2, <2>3, LoopKeepsCounts, Accounting
<1>4. Jobs' /\ Flags'
  <2>1. Jobs'
    BY <1>1, <1>2, Accounting DEF Jobs
  <2>2. Flags'
    BY <1>2, Accounting, Zenon DEF Flags
  <2> QED
    BY <2>1, <2>2
<1>5. JobsDistinct'
  <2>1. \A i \in 1 .. Len(queue) : queue[i] # t
    BY Accounting DEF task_queue_enqueue, Queued, Jobs
  <2>2. t \notin executing \cup done
    BY DEF task_queue_enqueue
  <2>3. \A i \in 1 .. Len(queue') : i \in 1 .. Len(queue) \/ i = Len(queue) + 1
    BY <1>1, Accounting
  <2> QED
    BY <1>1, <1>2, <2>1, <2>2, <2>3, Accounting DEF IInv, JobsDistinct
<1>6. DrainedIsQuiet'
  BY <1>2 DEF DrainedIsQuiet
<1> QED
  BY <1>3, <1>4, <1>5, <1>6, TypeParts, Zenon DEF IInv, TypeOK, Counters, Jobs, Flags

LEMMA UnsuspendKeepsIInv ==
  ASSUME IInv, task_queue_unsuspend
  PROVE  IInv'
<1>1. /\ queue' = queue /\ size' = size /\ suspended' = FALSE /\ ~freed /\ freed' = freed
      /\ executing' = executing /\ finishing' = finishing /\ done' = done /\ drained' = drained
  BY DEF task_queue_unsuspend
<1>2. /\ Counters'
      /\ SizeCounts' /\ ActiveCounts' /\ SlotsBounded'
      /\ EveryThreadFindsAJob' /\ WorkConserving'
  <2>1. /\ active_tasks = starting + Cardinality(executing) + finishing + failed
        /\ size = Len(queue) + Cardinality(executing) + finishing
    BY <1>1 DEF IInv, ActiveCounts, SizeCounts
  <2>2. /\ active_tasks <= size /\ active_tasks <= max_active_tasks
        /\ active_tasks \in Nat /\ size \in Nat
    BY <1>1, Accounting DEF IInv, SlotsBounded, Counters
  <2>3. \/ CreateThreads(active_tasks, size)
        \/ /\ CreateNoThreads(active_tasks)
           /\ active_tasks = max_active_tasks \/ active_tasks = size
    BY <2>2, LimitType DEF task_queue_unsuspend
  <2> QED
    BY <1>1, <2>1, <2>2, <2>3, LoopKeepsCounts, Accounting DEF Counters
<1>3. Jobs' /\ Flags'
  <2>1. Jobs'
    BY <1>1, Accounting DEF Jobs
  <2>2. Flags'
    BY <1>1, Accounting, Zenon DEF Flags
  <2> QED
    BY <2>1, <2>2
<1>4. JobsDistinct' /\ DrainedIsQuiet'
  BY <1>1 DEF IInv, JobsDistinct, DrainedIsQuiet
<1> QED
  BY <1>2, <1>3, <1>4, Zenon DEF IInv, TypeOK, Counters, Jobs, Flags

LEMMA GetNextKeepsIInv ==
  ASSUME IInv, queue_job_get_next
  PROVE  IInv'
<1>1. /\ ~freed /\ freed' = freed /\ starting > 0 /\ starting' = starting - 1
      /\ active_tasks' = active_tasks /\ size' = size /\ suspended' = suspended
      /\ failed' = failed /\ done' = done /\ drained' = drained
  BY DEF queue_job_get_next
<1>2. queue # <<>> /\ Len(queue) > 0
  BY <1>1, Accounting DEF IInv, EveryThreadFindsAJob, Counters, Jobs
<1>3. /\ queue' = Tail(queue)
      /\ executing' = executing \cup {Head(queue)}
      /\ finishing' = finishing
  BY <1>2 DEF queue_job_get_next
<1>4. /\ queue' \in Seq(Tasks) /\ Len(queue') = Len(queue) - 1
      /\ \A i \in 1 .. Len(queue') : i + 1 \in 1 .. Len(queue) /\ queue'[i] = queue[i + 1]
      /\ Head(queue) = queue[1] /\ 1 \in 1 .. Len(queue)
      /\ Head(queue) \in Tasks
  BY <1>2, <1>3, Accounting DEF Jobs
<1>5. Head(queue) \notin executing /\ Head(queue) \notin done
  BY <1>4 DEF IInv, JobsDistinct
<1>6. Cardinality(executing') = Cardinality(executing) + 1
  BY <1>3, <1>5, ExecutingFinite, Accounting, FS_AddElement
<1>7. Counters'
  BY <1>1, <1>3, Accounting DEF Counters
<1>8. Jobs' /\ Flags'
  <2>1. Jobs'
    BY <1>1, <1>3, <1>4, Accounting DEF Jobs
  <2>2. Flags'
    BY <1>1, Accounting, Zenon DEF Flags
  <2> QED
    BY <2>1, <2>2
<1>9. SizeCounts'
  BY <1>1, <1>3, <1>4, <1>6, Accounting DEF IInv, SizeCounts, Counters
<1>10. ActiveCounts'
  BY <1>1, <1>3, <1>6, Accounting DEF IInv, ActiveCounts, Counters
<1>11. EveryThreadFindsAJob'
  BY <1>1, <1>4, Accounting DEF IInv, EveryThreadFindsAJob, Counters
<1>12. SlotsBounded' /\ WorkConserving'
  BY <1>1 DEF IInv, SlotsBounded, WorkConserving
<1>13. JobsDistinct'
  <2>1. \A i \in 1 .. Len(queue') : queue'[i] # Head(queue)
    BY <1>4, Accounting DEF IInv, JobsDistinct
  <2>2. \A i, j \in 1 .. Len(queue') : queue'[i] = queue'[j] => i = j
    BY <1>4, Accounting DEF IInv, JobsDistinct
  <2>3. \A i \in 1 .. Len(queue') : queue'[i] \notin executing \cup done
    BY <1>4 DEF IInv, JobsDistinct
  <2> QED
    BY <1>1, <1>3, <1>5, <2>1, <2>2, <2>3 DEF IInv, JobsDistinct
<1>14. DrainedIsQuiet'
  BY <1>1 DEF IInv, DrainedIsQuiet
<1> QED
  BY <1>7, <1>8, <1>9, <1>10, <1>11, <1>12, <1>13, <1>14, Zenon
  DEF IInv, TypeOK, Counters, Jobs, Flags

LEMMA JobReturnsKeepsIInv ==
  ASSUME IInv, NEW t \in Tasks, JobReturns(t)
  PROVE  IInv'
<1>1. /\ t \in executing /\ executing' = executing \ {t} /\ finishing' = finishing + 1
      /\ done' = done \cup {t} /\ queue' = queue /\ active_tasks' = active_tasks
      /\ size' = size /\ suspended' = suspended /\ freed' = freed /\ starting' = starting
      /\ failed' = failed /\ drained' = drained
  BY DEF JobReturns
<1>2. Cardinality(executing') = Cardinality(executing) - 1
  BY <1>1, ExecutingFinite, Accounting, FS_RemoveElement
<1>3. Counters' /\ Jobs'
  BY <1>1, Accounting DEF Counters, Jobs
<1>4. Flags'
  BY <1>1, Accounting, Zenon DEF Flags
<1>5. SizeCounts'
  BY <1>1, <1>2, Accounting DEF IInv, SizeCounts, Counters
<1>6. ActiveCounts'
  BY <1>1, <1>2, Accounting DEF IInv, ActiveCounts, Counters
<1>7. SlotsBounded' /\ EveryThreadFindsAJob' /\ WorkConserving'
  BY <1>1 DEF IInv, SlotsBounded, EveryThreadFindsAJob, WorkConserving
<1>8. JobsDistinct'
  BY <1>1 DEF IInv, JobsDistinct
<1>9. DrainedIsQuiet'
  <2>1. ASSUME drained PROVE ~freed
    BY <1>1, <2>1 DEF IInv, DrainedIsQuiet
  <2> QED
    BY <1>1, <2>1 DEF IInv, DrainedIsQuiet
<1> QED
  BY <1>3, <1>4, <1>5, <1>6, <1>7, <1>8, <1>9, Zenon DEF IInv, TypeOK, Counters, Jobs, Flags

LEMMA ThreadEndsKeepsIInv ==
  ASSUME IInv, ThreadEnds
  PROVE  IInv'
<1>1. /\ ~freed /\ freed' = freed /\ finishing > 0 /\ finishing' = finishing - 1
      /\ size' = size - 1 /\ queue' = queue /\ suspended' = suspended
      /\ executing' = executing /\ done' = done /\ drained' = drained
  BY DEF ThreadEnds
<1>2. /\ active_tasks = starting + Cardinality(executing) + finishing + failed
      /\ size = Len(queue) + Cardinality(executing) + finishing
      /\ active_tasks <= size /\ active_tasks <= max_active_tasks
  BY <1>1, Accounting DEF IInv, ActiveCounts, SizeCounts, SlotsBounded
<1>3. /\ active_tasks - 1 \in Nat /\ size - 1 \in Nat /\ finishing - 1 \in Nat
      /\ active_tasks - 1 = starting + Cardinality(executing) + (finishing - 1) + failed
      /\ size - 1 = Len(queue) + Cardinality(executing) + (finishing - 1)
      /\ active_tasks - 1 <= size - 1 /\ active_tasks - 1 <= max_active_tasks
  <2>1. active_tasks \in Nat /\ size \in Nat /\ finishing \in Nat /\ starting \in Nat
        /\ failed \in Nat /\ Len(queue) \in Nat /\ Cardinality(executing) \in Nat
    BY Accounting DEF Counters
  <2>2. finishing > 0
    BY <1>1
  <2>3. active_tasks >= finishing /\ size >= finishing
    BY <1>2, <2>1
  <2>4. PICK n \in Nat : n = Cardinality(executing)
    BY <2>1
  <2>5. active_tasks - 1 \in Nat /\ size - 1 \in Nat /\ finishing - 1 \in Nat
    BY <2>1, <2>2, <2>3
  <2>6. active_tasks = starting + n + finishing + failed /\ size = Len(queue) + n + finishing
    BY <1>2, <2>4
  <2>7. active_tasks - 1 = starting + n + (finishing - 1) + failed
    BY <2>1, <2>6
  <2>8. size - 1 = Len(queue) + n + (finishing - 1)
    BY <2>1, <2>6
  <2>9. active_tasks - 1 <= size - 1 /\ active_tasks - 1 <= max_active_tasks
    BY <1>2, <2>1, LimitType
  <2> QED
    BY <2>4, <2>5, <2>7, <2>8, <2>9
<1>4. \/ CreateThreads(active_tasks - 1, size - 1)
      \/ /\ CreateNoThreads(active_tasks - 1)
         /\ \/ active_tasks - 1 = max_active_tasks
            \/ active_tasks - 1 = size - 1
            \/ suspended'
  <2>1. CASE size - 1 # 0 /\ active_tasks - 1 < max_active_tasks /\ ~suspended
    BY <2>1 DEF ThreadEnds
  <2>2. CASE ~(size - 1 # 0 /\ active_tasks - 1 < max_active_tasks /\ ~suspended)
    <3>1. CreateNoThreads(active_tasks - 1)
      BY <2>2 DEF ThreadEnds
    <3>2. \/ active_tasks - 1 = max_active_tasks
          \/ active_tasks - 1 = size - 1
          \/ suspended
      BY <2>2, <1>3, LimitType
    <3> QED
      BY <1>1, <3>1, <3>2
  <2> QED
    BY <2>1, <2>2
<1>5. /\ Counters'
      /\ SizeCounts' /\ ActiveCounts' /\ SlotsBounded'
      /\ EveryThreadFindsAJob' /\ WorkConserving'
  BY <1>1, <1>3, <1>4, LoopKeepsCounts, Accounting
<1>6. Jobs' /\ Flags'
  <2>1. Jobs'
    BY <1>1, Accounting DEF Jobs
  <2>2. Flags'
    BY <1>1, Accounting, Zenon DEF Flags
  <2> QED
    BY <2>1, <2>2
<1>7. JobsDistinct'
  BY <1>1 DEF IInv, JobsDistinct
<1>8. DrainedIsQuiet'
  <2>1. drained => size = 0
    BY <1>1 DEF IInv, DrainedIsQuiet
  <2> QED
    BY <1>1, <1>3, <2>1, Accounting DEF Counters, DrainedIsQuiet
<1> QED
  BY <1>5, <1>6, <1>7, <1>8, Zenon DEF IInv, TypeOK, Counters, Jobs, Flags

(* suspend and is_empty touch one flag each and keep every count. *)
LEMMA FlagStepsKeepIInv ==
  ASSUME IInv, task_queue_suspend \/ task_queue_is_empty
  PROVE  IInv'
<1>1. /\ ~freed /\ queue' = queue /\ active_tasks' = active_tasks /\ size' = size
      /\ freed' = freed /\ starting' = starting /\ executing' = executing
      /\ finishing' = finishing /\ failed' = failed /\ done' = done
  BY DEF task_queue_suspend, task_queue_is_empty
<1>2. suspended' = TRUE \/ suspended' = suspended
  BY DEF task_queue_suspend, task_queue_is_empty
<1>3. drained' = (size = 0) \/ drained' = drained
  BY DEF task_queue_suspend, task_queue_is_empty
<1>4. Counters' /\ Jobs'
  BY <1>1, Accounting DEF Counters, Jobs
<1>5. Flags'
  BY <1>1, <1>2, <1>3, Accounting, Zenon DEF Flags
<1>6. SizeCounts' /\ ActiveCounts' /\ SlotsBounded' /\ EveryThreadFindsAJob' /\ JobsDistinct'
  BY <1>1
  DEF IInv, SizeCounts, ActiveCounts, SlotsBounded, EveryThreadFindsAJob, JobsDistinct
<1>7. WorkConserving'
  BY <1>1, <1>2 DEF IInv, WorkConserving
<1>8. DrainedIsQuiet'
  BY <1>1, <1>3 DEF IInv, DrainedIsQuiet
<1> QED
  BY <1>4, <1>5, <1>6, <1>7, <1>8, Zenon DEF IInv, TypeOK, Counters, Jobs, Flags

LEMMA DestroyKeepsIInv ==
  ASSUME IInv, task_queue_destroy
  PROVE  IInv'
<1>1. /\ ~freed /\ freed' = TRUE /\ suspended' = TRUE /\ queue' = <<>>
      /\ active_tasks' = active_tasks /\ size' = size /\ starting' = starting
      /\ executing' = executing /\ finishing' = finishing /\ failed' = failed
      /\ done' = done /\ drained' = drained
  BY DEF task_queue_destroy
<1>2. Counters' /\ Jobs'
  BY <1>1, Accounting DEF Counters, Jobs
<1>3. Flags'
  BY <1>1, Accounting, Zenon DEF Flags
<1>4. SizeCounts' /\ ActiveCounts' /\ SlotsBounded' /\ EveryThreadFindsAJob' /\ WorkConserving'
  BY <1>1 DEF IInv, SizeCounts, ActiveCounts, SlotsBounded, EveryThreadFindsAJob, WorkConserving
<1>5. JobsDistinct'
  BY <1>1 DEF IInv, JobsDistinct
<1>6. DrainedIsQuiet'
  <2>1. ASSUME drained
        PROVE  starting = 0 /\ executing = {} /\ finishing = 0
    <3>1. size = 0 /\ size = Len(queue) + Cardinality(executing) + finishing
      BY <1>1, <2>1 DEF IInv, DrainedIsQuiet, SizeCounts
    <3>2. starting + failed <= Len(queue)
      BY <1>1 DEF IInv, EveryThreadFindsAJob
    <3>3. starting = 0 /\ Cardinality(executing) = 0 /\ finishing = 0
      BY <3>1, <3>2, Accounting DEF Counters
    <3> QED
      BY <3>3, ExecutingFinite, Accounting, FS_EmptySet
  <2> QED
    BY <1>1, <2>1 DEF DrainedIsQuiet
<1> QED
  BY <1>2, <1>3, <1>4, <1>5, <1>6, Zenon DEF IInv, TypeOK, Counters, Jobs, Flags

(* Every operation of the client and every step of a thread preserves it. *)
THEOREM NextIInv == IInv /\ [Next]_vars => IInv'
<1> SUFFICES ASSUME IInv, [Next]_vars PROVE IInv'
  OBVIOUS
<1>1. ASSUME NEW t \in Tasks, task_queue_enqueue(t) PROVE IInv'
  BY <1>1, EnqueueKeepsIInv
<1>2. CASE task_queue_suspend \/ task_queue_is_empty
  BY <1>2, FlagStepsKeepIInv
<1>3. CASE task_queue_unsuspend
  BY <1>3, UnsuspendKeepsIInv
<1>4. CASE task_queue_destroy
  BY <1>4, DestroyKeepsIInv
<1>5. CASE queue_job_get_next
  BY <1>5, GetNextKeepsIInv
<1>6. ASSUME NEW t \in Tasks, JobReturns(t) PROVE IInv'
  BY <1>6, JobReturnsKeepsIInv
<1>7. CASE ThreadEnds
  BY <1>7, ThreadEndsKeepsIInv
<1>8. CASE UNCHANGED vars
  BY <1>8 DEF vars, IInv, TypeOK, SizeCounts, ActiveCounts, SlotsBounded,
     EveryThreadFindsAJob, WorkConserving, JobsDistinct, DrainedIsQuiet
<1> QED
  BY <1>1, <1>2, <1>3, <1>4, <1>5, <1>6, <1>7, <1>8 DEF Next, Client, Thread

(* The accounting of size and active_tasks is exact in every reachable state. *)
THEOREM IInvHolds == Spec => []IInv
  BY InitIInv, NextIInv, PTL DEF Spec

-----------------------------------------------------------------------------
(* Types hold, and neither counter of the struct ever goes below zero.     *)
THEOREM TypeCorrect == Spec => []TypeOK
<1>1. IInv => TypeOK
  BY DEF IInv
<1> QED
  BY <1>1, IInvHolds, PTL

(* queue_job_get_next never returns NULL to a thread the queue created.    *)
THEOREM ThreadsFindJobs == Spec => []EveryThreadFindsAJob
<1>1. IInv => EveryThreadFindsAJob
  BY DEF IInv
<1> QED
  BY <1>1, IInvHolds, PTL

(* No more threads than max_active_tasks ever exist.                       *)
THEOREM ThreadsBounded == Spec => []UpperThreadsLimit
<1>1. ASSUME IInv PROVE UpperThreadsLimit
  <2>1. /\ active_tasks = starting + Cardinality(executing) + finishing + failed
        /\ active_tasks <= max_active_tasks
    BY <1>1 DEF IInv, ActiveCounts, SlotsBounded
  <2> QED
    BY <1>1, <2>1, Accounting, LimitType DEF Counters, UpperThreadsLimit
<1> QED
  BY <1>1, IInvHolds, PTL

(* A queue that is not suspended serves every job or uses every slot.      *)
THEOREM QueueWorkConserving == Spec => []WorkConserving
<1>1. IInv => WorkConserving
  BY DEF IInv
<1> QED
  BY <1>1, IInvHolds, PTL

(* Destroying a queue seen empty leaves no thread that will touch it.      *)
THEOREM SafeDestroy == Spec => []DrainedDestroyIsSafe
<1>1. IInv => DrainedDestroyIsSafe
  BY DEF IInv, DrainedIsQuiet, DrainedDestroyIsSafe
<1> QED
  BY <1>1, IInvHolds, PTL

-----------------------------------------------------------------------------
(* Every step of the task queue is a step of the abstract pool or leaves   *)
(* the pool's variables alone.                                             *)
LEMMA StepRefines == IInv /\ [Next]_vars => [Pool!Next]_(Pool!vars)
<1> SUFFICES ASSUME IInv, [Next]_vars PROVE [Pool!Next]_(Pool!vars)
  OBVIOUS
<1>1. ASSUME NEW t \in Tasks, task_queue_enqueue(t) PROVE Pool!Submit(t)
  BY <1>1 DEF task_queue_enqueue, Queued, Pool!Submit, Pool!Known
<1>2. ASSUME NEW t \in Tasks, JobReturns(t) PROVE Pool!Complete(t)
  BY <1>2 DEF JobReturns, Pool!Complete
<1>3. ASSUME queue_job_get_next PROVE Pool!Start
  <2>1. ~freed /\ starting > 0
    BY <1>3 DEF queue_job_get_next
  <2>2. queue # <<>> /\ 1 \in 1 .. Len(queue) /\ Head(queue) = queue[1]
    BY <2>1, Accounting DEF IInv, EveryThreadFindsAJob, Counters, Jobs
  <2>3. Head(queue) \notin executing \cup done
    BY <2>2 DEF IInv, JobsDistinct
  <2>4. Cardinality(executing) < max_active_tasks
    BY <2>1, Accounting, LimitType DEF IInv, Counters, ActiveCounts, SlotsBounded
  <2>5. /\ queue' = Tail(queue)
        /\ executing' = executing \cup {Head(queue)}
        /\ done' = done
    BY <1>3, <2>2 DEF queue_job_get_next
  <2> QED
    BY <2>2, <2>3, <2>4, <2>5, Zenon DEF Pool!Start, Pool!Cardinality, Cardinality
<1>4. ASSUME task_queue_destroy PROVE Pool!Discard
  BY <1>4 DEF task_queue_destroy, Pool!Discard
<1>5. ASSUME \/ task_queue_suspend \/ task_queue_unsuspend \/ task_queue_is_empty
             \/ ThreadEnds \/ UNCHANGED vars
      PROVE  UNCHANGED Pool!vars
  BY <1>5 DEF task_queue_suspend, task_queue_unsuspend, task_queue_is_empty, ThreadEnds,
     vars, Pool!vars
<1> QED
  BY <1>1, <1>2, <1>3, <1>4, <1>5 DEF Next, Client, Thread, Pool!Next

(* The task queue of the code implements the abstract pool, for any jobs   *)
(* and any limit: FIFO starts, at most max_active_tasks jobs at a time, no *)
(* job run twice.                                                          *)
THEOREM Refinement == Spec => ImplementsPool
<1>1. task_queue_create => Pool!Init
  BY DEF task_queue_create, Pool!Init
<1> QED
  BY <1>1, StepRefines, IInvHolds, PTL DEF Spec, ImplementsPool, Pool!Spec

-----------------------------------------------------------------------------
(* The linked list of jobs. *)

ListTypes ==
  /\ block \in [Blocks -> [job : Tasks \cup {Null}, next : Blocks \cup {Null}]]
  /\ held \in SUBSET Blocks

SomeChain == \E n \in Nat : \E chain \in [1 .. n -> Blocks] : Chained(n, chain)

ListInv == IInv /\ ListTypes /\ HeldAreExecuting /\ SomeChain

-----------------------------------------------------------------------------
(* The list restricts when jobs can be enqueued or return, and otherwise   *)
(* runs as the task queue.                                                 *)
LEMMA ListStepIsStep == [ListNext]_<<vars, listVars>> => [Next]_vars
  BY DEF ListNext, Next, Client, Thread, WalkOn

LEMMA ListInitInv == ListInit => ListInv
<1> SUFFICES ASSUME task_queue_create, EmptyList PROVE ListInv
  BY DEF ListInit
<1>1. IInv
  BY InitIInv
<1>2. ListTypes
  BY DEF EmptyList, ListTypes, Garbage
<1>3. HeldAreExecuting
  BY DEF task_queue_create, EmptyList, HeldAreExecuting
<1>4. SomeChain
  <2> DEFINE none == [i \in 1 .. 0 |-> Null]
  <2>1. 1 .. 0 = {} /\ none \in [1 .. 0 -> Blocks]
    OBVIOUS
  <2>2. Chained(0, none)
    BY <2>1 DEF task_queue_create, EmptyList, Chained, Accounted, Linked
  <2> QED
    BY <2>1, <2>2 DEF SomeChain
<1> QED
  BY <1>1, <1>2, <1>3, <1>4 DEF ListInv

-----------------------------------------------------------------------------
(* Appending: the new block follows the last, which is the end of the list *)
(* whenever the list is not empty.                                         *)
LEMMA EnqueueKeepsList ==
  ASSUME ListInv, IInv', NEW t \in Tasks, NEW a \in Blocks,
         task_queue_enqueue(t), Link(a, t)
  PROVE  ListTypes' /\ HeldAreExecuting' /\ SomeChain'
<1>1. /\ ~freed /\ ~freed' /\ executing' = executing /\ held' = held
      /\ a \notin allocated /\ allocated' = allocated \cup {a} /\ last' = a
      /\ queue \in Seq(Tasks) /\ Len(queue) \in Nat
      /\ Len(queue') = Len(queue) + 1
      /\ \A i \in 1 .. Len(queue) : queue'[i] = queue[i]
      /\ queue'[Len(queue) + 1] = t
  BY Accounting DEF ListInv, task_queue_enqueue, Link, Jobs
<1>n. PICK n \in Nat : \E chain \in [1 .. n -> Blocks] : Chained(n, chain)
  BY DEF ListInv, SomeChain
<1>2. PICK chain \in [1 .. n -> Blocks] : Chained(n, chain)
  BY <1>n
<1>3. /\ n = Len(queue) /\ Accounted(n, chain) /\ Linked(first, n, chain)
      /\ \A i \in 1 .. n : block[chain[i]].job = queue[i]
      /\ n > 0 => last = chain[n]
  BY <1>1, <1>2 DEF Chained
<1>4. a \notin held /\ \A i \in 1 .. n : chain[i] # a /\ chain[i] \in Blocks
  BY <1>1, <1>3 DEF Accounted
<1>5. first = Null <=> n = 0
  BY <1>3, <1>4, TaskQueueListAssumption DEF Linked
<1>6. /\ block'[a] = [job |-> t, next |-> Null]
      /\ \A b \in Blocks \ {a} : /\ block'[b].job = block[b].job
                                 /\ n = 0 \/ b # last => block'[b] = block[b]
      /\ n > 0 => block'[last].next = a
      /\ first' = IF n = 0 THEN a ELSE first
      /\ ListTypes'
  <2>1. CASE n = 0
    BY <1>1, <1>5, <2>1 DEF Link, Created, ListInv, ListTypes
  <2>2. CASE n > 0
    <3>1. last \in Blocks /\ last # a
      BY <1>3, <1>4, <2>2
    <3>2. block' = [[block EXCEPT ![a] = [job |-> t, next |-> Null]] EXCEPT ![last].next = a]
      BY <1>5, <2>2 DEF Link, Created
    <3> QED
      BY <1>1, <1>5, <2>2, <3>1, <3>2 DEF Link, ListInv, ListTypes
  <2> QED
    BY <2>1, <2>2
<1>7. HeldAreExecuting'
  <2>1. \A b \in held : b \in Blocks \ {a} /\ block'[b].job = block[b].job
    BY <1>4, <1>6 DEF ListInv, ListTypes
  <2> QED
    BY <1>1, <2>1 DEF ListInv, HeldAreExecuting
<1>8. SomeChain'
  <2> DEFINE longer == [i \in 1 .. n + 1 |-> IF i <= n THEN chain[i] ELSE a]
  <2>1. /\ longer \in [1 .. n + 1 -> Blocks] /\ n + 1 \in Nat
        /\ longer[n + 1] = a
        /\ \A i \in 1 .. n : longer[i] = chain[i]
    BY <1>4
  <2>2. \A i \in 1 .. n + 1 : i \in 1 .. n \/ i = n + 1
    OBVIOUS
  <2> HIDE DEF longer
  <2>3. Accounted(n + 1, longer)'
    <3>1. {longer[i] : i \in 1 .. n + 1} = {chain[i] : i \in 1 .. n} \cup {a}
      <4>1. \A i \in 1 .. n : i \in 1 .. n + 1
        OBVIOUS
      <4>2. n + 1 \in 1 .. n + 1
        OBVIOUS
      <4> QED
        BY <2>1, <2>2, <4>1, <4>2
    <3> QED
      BY <1>1, <1>3, <1>4, <2>1, <2>2, <3>1 DEF Accounted
  <2>4. Linked(first, n + 1, longer)'
    <3>1. first' = longer[1]
      BY <1>3, <1>6, <2>1 DEF Linked
    <3>2. ASSUME NEW i \in 1 .. n + 1
          PROVE  block'[longer[i]].next = IF i = n + 1 THEN Null ELSE longer[i + 1]
      <4>1. CASE i = n + 1
        BY <1>6, <2>1, <4>1
      <4>2. CASE i \in 1 .. n /\ i = n
        BY <1>3, <1>4, <1>6, <2>1, <4>2
      <4>3. CASE i \in 1 .. n /\ i # n
        <5>1. chain[i] # last /\ chain[i] \in Blocks \ {a} /\ n \in 1 .. n
          BY <1>3, <1>4, <4>3 DEF Linked
        <5>2. block'[chain[i]] = block[chain[i]] /\ i + 1 \in 1 .. n
          BY <1>6, <4>3, <5>1
        <5> QED
          BY <1>3, <2>1, <4>3, <5>2 DEF Linked
      <4> QED
        BY <2>2, <4>1, <4>2, <4>3
    <3>3. \A i, j \in 1 .. n + 1 : longer[i] = longer[j] => i = j
      BY <1>3, <1>4, <2>1, <2>2 DEF Linked
    <3> QED
      BY <3>1, <3>2, <3>3 DEF Linked
  <2>5. \A i \in 1 .. n + 1 : block'[longer[i]].job = queue'[i]
    BY <1>1, <1>3, <1>4, <1>6, <2>1, <2>2
  <2>6. Chained(n + 1, longer)'
    BY <1>1, <1>3, <2>1, <2>3, <2>4, <2>5 DEF Chained
  <2> QED
    BY <2>1, <2>6 DEF SomeChain
<1> QED
  BY <1>6, <1>7, <1>8

(* Taking the first: the rest of the chain is the rest of the queue. *)
Rest(n, chain) == [i \in 1 .. n - 1 |-> chain[i + 1]]

IsRest(n, chain, rest) ==
  /\ n - 1 \in Nat /\ rest \in [1 .. n - 1 -> Blocks]
  /\ \A i \in 1 .. n - 1 : i + 1 \in 1 .. n /\ rest[i] = chain[i + 1] /\ rest[i] # chain[1]
  /\ \A i, j \in 1 .. n - 1 : rest[i] = rest[j] => i = j
  /\ {chain[i] : i \in 1 .. n} = {chain[1]} \cup {rest[i] : i \in 1 .. n - 1}

LEMMA RestOfChain ==
  ASSUME NEW n \in Nat, NEW chain \in [1 .. n -> Blocks], n > 0,
         \A i, j \in 1 .. n : chain[i] = chain[j] => i = j
  PROVE  IsRest(n, chain, Rest(n, chain))
<1> DEFINE rest == Rest(n, chain)
<1>1. /\ n - 1 \in Nat /\ rest \in [1 .. n - 1 -> Blocks]
      /\ \A i \in 1 .. n - 1 : i + 1 \in 1 .. n /\ rest[i] = chain[i + 1]
  BY DEF Rest
<1> HIDE DEF rest
<1>2. 1 \in 1 .. n /\ \A i \in 1 .. n - 1 : i + 1 # 1
  OBVIOUS
<1>3. \A i \in 1 .. n - 1 : rest[i] # chain[1]
  BY <1>1, <1>2
<1>4. \A i, j \in 1 .. n - 1 : rest[i] = rest[j] => i = j
  <2> SUFFICES ASSUME NEW i \in 1 .. n - 1, NEW j \in 1 .. n - 1, rest[i] = rest[j]
               PROVE  i = j
    OBVIOUS
  <2>1. i + 1 = j + 1
    BY <1>1
  <2> QED
    BY <2>1
<1>5. {chain[i] : i \in 1 .. n} = {chain[1]} \cup {rest[i] : i \in 1 .. n - 1}
  <2>1. ASSUME NEW i \in 1 .. n
        PROVE  chain[i] = chain[1] \/ \E k \in 1 .. n - 1 : chain[i] = rest[k]
    <3>1. CASE i # 1
      <4>1. i - 1 \in 1 .. n - 1 /\ (i - 1) + 1 = i
        BY <3>1
      <4>2. rest[i - 1] = chain[i]
        BY <1>1, <4>1
      <4> QED
        BY <4>1, <4>2
    <3> QED
      BY <3>1
  <2>2. \A k \in 1 .. n - 1 : \E i \in 1 .. n : rest[k] = chain[i]
    BY <1>1
  <2> QED
    BY <1>2, <2>1, <2>2
<1> QED
  BY <1>1, <1>3, <1>4, <1>5 DEF rest, IsRest

LEMMA GetNextKeepsList ==
  ASSUME ListInv, IInv', queue_job_get_next, Unlink
  PROVE  ListTypes' /\ HeldAreExecuting' /\ SomeChain'
<1>1. ~freed /\ ~freed' /\ starting > 0 /\ block' = block /\ last' = last /\ allocated' = allocated
  BY DEF queue_job_get_next, Unlink
<1>2. queue \in Seq(Tasks) /\ queue # <<>> /\ Len(queue) > 0 /\ Len(queue) \in Nat
  BY <1>1, Accounting DEF ListInv, IInv, EveryThreadFindsAJob, Counters, Jobs
<1>3. /\ queue' = Tail(queue) /\ executing' = executing \cup {queue[1]}
      /\ Len(queue') = Len(queue) - 1
      /\ \A i \in 1 .. Len(queue) - 1 : queue'[i] = queue[i + 1]
      /\ queue[1] \notin executing
  BY <1>2 DEF queue_job_get_next, ListInv, IInv, JobsDistinct
<1>n. PICK n \in Nat : \E chain \in [1 .. n -> Blocks] : Chained(n, chain)
  BY DEF ListInv, SomeChain
<1>4. PICK chain \in [1 .. n -> Blocks] : Chained(n, chain)
  BY <1>n
<1>5. /\ n = Len(queue) /\ Accounted(n, chain) /\ Linked(first, n, chain)
      /\ \A i \in 1 .. n : block[chain[i]].job = queue[i]
      /\ n > 0 /\ last = chain[n] /\ 1 \in 1 .. n /\ chain[1] \in Blocks
  BY <1>1, <1>2, <1>4 DEF Chained
<1>6. /\ first = chain[1] /\ first # Null
      /\ held' = held \cup {chain[1]} /\ first' = block[chain[1]].next
  BY <1>5, TaskQueueListAssumption DEF Linked, Unlink
<1>7. ListTypes'
  BY <1>1, <1>5, <1>6 DEF ListInv, ListTypes
<1>8. HeldAreExecuting'
  <2>1. block[chain[1]].job = queue[1]
    BY <1>5
  <2> QED
    BY <1>1, <1>3, <1>6, <2>1 DEF ListInv, HeldAreExecuting
<1>9. SomeChain'
  <2> DEFINE rest == Rest(n, chain)
  <2>r. IsRest(n, chain, rest)
    <3>1. n > 0 /\ \A i, j \in 1 .. n : chain[i] = chain[j] => i = j
      BY <1>5 DEF Linked
    <3> QED
      BY <3>1, RestOfChain
  <2>1. /\ n - 1 \in Nat /\ rest \in [1 .. n - 1 -> Blocks]
        /\ \A i \in 1 .. n - 1 : i + 1 \in 1 .. n /\ rest[i] = chain[i + 1] /\ rest[i] # chain[1]
        /\ \A i, j \in 1 .. n - 1 : rest[i] = rest[j] => i = j
        /\ {chain[i] : i \in 1 .. n} = {chain[1]} \cup {rest[i] : i \in 1 .. n - 1}
    BY <2>r DEF IsRest
  <2> HIDE DEF rest
  <2>2. Accounted(n - 1, rest)'
    BY <1>1, <1>5, <1>6, <2>1 DEF Accounted
  <2>3. Linked(first, n - 1, rest)'
    <3>1. first' = IF n - 1 = 0 THEN Null ELSE rest[1]
      BY <1>5, <1>6, <2>1 DEF Linked
    <3>2. ASSUME NEW i \in 1 .. n - 1
          PROVE  block'[rest[i]].next = IF i = n - 1 THEN Null ELSE rest[i + 1]
      BY <1>1, <1>5, <2>1 DEF Linked
    <3> QED
      BY <2>1, <3>1, <3>2 DEF Linked
  <2>4. \A i \in 1 .. n - 1 : block'[rest[i]].job = queue'[i]
    BY <1>1, <1>3, <1>5, <2>1
  <2>5. Chained(n - 1, rest)'
    BY <1>1, <1>3, <1>5, <2>1, <2>2, <2>3, <2>4 DEF Chained
  <2> QED
    BY <2>1, <2>5 DEF SomeChain
<1> QED
  BY <1>7, <1>8, <1>9

(* A thread frees the block of the job it ran, which is not in the list. *)
LEMMA DestroyJobKeepsList ==
  ASSUME ListInv, IInv', NEW t \in Tasks, NEW a \in Blocks,
         JobReturns(t), block[a].job = t, queue_job_destroy(a)
  PROVE  ListTypes' /\ HeldAreExecuting' /\ SomeChain'
<1>1. /\ freed' = freed /\ queue' = queue /\ executing' = executing \ {t}
      /\ a \in held /\ held' = held \ {a} /\ allocated' = allocated \ {a}
      /\ first' = first /\ last' = last /\ walker' = walker
  BY DEF JobReturns, queue_job_destroy
<1>2. /\ ListTypes'
      /\ \A b \in Blocks \ {a} : block'[b] = block[b]
  BY <1>1 DEF queue_job_destroy, Garbage, ListInv, ListTypes
<1>3. HeldAreExecuting'
  <2>1. \A b \in held' : b \in held /\ b # a /\ block'[b] = block[b]
    BY <1>1, <1>2 DEF ListInv, ListTypes
  <2> QED
    BY <1>1, <2>1 DEF ListInv, HeldAreExecuting
<1>n. PICK n \in Nat : \E chain \in [1 .. n -> Blocks] : Chained(n, chain)
  BY DEF ListInv, SomeChain
<1>4. PICK chain \in [1 .. n -> Blocks] : Chained(n, chain)
  BY <1>n
<1>5. \A i \in 1 .. n : chain[i] # a /\ chain[i] \in Blocks /\ block'[chain[i]] = block[chain[i]]
  BY <1>1, <1>2, <1>4 DEF Chained, Accounted
<1>6. Accounted(n, chain)'
  BY <1>1, <1>4, <1>5 DEF Chained, Accounted
<1>7. Chained(n, chain)'
  <2>1. CASE freed
    BY <1>1, <1>4, <1>5, <1>6, <2>1 DEF Chained, Linked
  <2>2. CASE ~freed
    BY <1>1, <1>4, <1>5, <1>6, <2>2 DEF Chained, Linked
  <2> QED
    BY <2>1, <2>2
<1> QED
  BY <1>2, <1>3, <1>7 DEF SomeChain

(* The walk of task_queue_destroy begins at the first block and frees the  *)
(* one it stands on after it has read where the next one is.               *)
LEMMA WalkBeginsKeepsList ==
  ASSUME ListInv, task_queue_destroy, WalkBegins
  PROVE  ListTypes' /\ HeldAreExecuting' /\ SomeChain'
<1>1. /\ ~freed /\ freed' /\ executing' = executing /\ walker' = first
      /\ UNCHANGED <<first, last, block, allocated, held>>
  BY DEF task_queue_destroy, WalkBegins
<1>2. ListTypes' /\ HeldAreExecuting'
  BY <1>1 DEF ListInv, ListTypes, HeldAreExecuting
<1>n. PICK n \in Nat : \E chain \in [1 .. n -> Blocks] : Chained(n, chain)
  BY DEF ListInv, SomeChain
<1>3. PICK chain \in [1 .. n -> Blocks] : Chained(n, chain)
  BY <1>n
<1>4. Chained(n, chain)'
  BY <1>1, <1>3 DEF Chained, Accounted, Linked
<1> QED
  BY <1>2, <1>4 DEF SomeChain

LEMMA WalkOnKeepsList ==
  ASSUME ListInv, WalkOn
  PROVE  ListTypes' /\ HeldAreExecuting' /\ SomeChain'
<1>1. /\ freed /\ freed' /\ executing' = executing /\ held' = held
      /\ walker # Null /\ walker' = block[walker].next
      /\ allocated' = allocated \ {walker}
  BY DEF WalkOn, vars
<1>n. PICK n \in Nat : \E chain \in [1 .. n -> Blocks] : Chained(n, chain)
  BY DEF ListInv, SomeChain
<1>2. PICK chain \in [1 .. n -> Blocks] : Chained(n, chain)
  BY <1>n
<1>3. /\ Accounted(n, chain) /\ Linked(walker, n, chain)
      /\ n > 0 /\ walker = chain[1] /\ 1 \in 1 .. n /\ walker \in Blocks
      /\ walker \notin held
  BY <1>1, <1>2 DEF Chained, Linked, Accounted
<1>4. /\ ListTypes'
      /\ \A b \in Blocks \ {walker} : block'[b] = block[b]
  BY <1>1, <1>3 DEF WalkOn, Garbage, ListInv, ListTypes
<1>5. HeldAreExecuting'
  <2>1. \A b \in held : block'[b] = block[b]
    BY <1>3, <1>4 DEF ListInv, ListTypes
  <2> QED
    BY <1>1, <2>1 DEF ListInv, HeldAreExecuting
<1>6. SomeChain'
  <2> DEFINE rest == Rest(n, chain)
  <2>r. IsRest(n, chain, rest)
    <3>1. n > 0 /\ \A i, j \in 1 .. n : chain[i] = chain[j] => i = j
      BY <1>3 DEF Linked
    <3> QED
      BY <3>1, RestOfChain
  <2>1. /\ n - 1 \in Nat /\ rest \in [1 .. n - 1 -> Blocks]
        /\ \A i \in 1 .. n - 1 : i + 1 \in 1 .. n /\ rest[i] = chain[i + 1] /\ rest[i] # chain[1]
        /\ \A i, j \in 1 .. n - 1 : rest[i] = rest[j] => i = j
        /\ {chain[i] : i \in 1 .. n} = {chain[1]} \cup {rest[i] : i \in 1 .. n - 1}
    BY <2>r DEF IsRest
  <2> HIDE DEF rest
  <2>2. Accounted(n - 1, rest)'
    <3>1. allocated = held \cup {walker} \cup {rest[i] : i \in 1 .. n - 1}
      BY <1>3, <2>1 DEF Accounted
    <3>2. walker \notin held /\ walker \notin {rest[i] : i \in 1 .. n - 1}
      BY <1>3, <2>1
    <3>3. allocated' = held' \cup {rest[i] : i \in 1 .. n - 1}
      BY <1>1, <3>1, <3>2
    <3>4. \A i \in 1 .. n - 1 : rest[i] \notin held'
      BY <1>1, <1>3, <2>1 DEF Accounted
    <3> QED
      BY <3>3, <3>4 DEF Accounted
  <2>3. Linked(walker, n - 1, rest)'
    <3>1. walker' = IF n - 1 = 0 THEN Null ELSE rest[1]
      BY <1>1, <1>3, <2>1 DEF Linked
    <3>2. ASSUME NEW i \in 1 .. n - 1
          PROVE  block'[rest[i]].next = IF i = n - 1 THEN Null ELSE rest[i + 1]
      BY <1>3, <1>4, <2>1 DEF Linked
    <3> QED
      BY <2>1, <3>1, <3>2 DEF Linked
  <2>4. Chained(n - 1, rest)'
    BY <1>1, <2>2, <2>3 DEF Chained
  <2> QED
    BY <2>1, <2>4 DEF SomeChain
<1> QED
  BY <1>4, <1>5, <1>6

(* Steps that leave the list alone leave what it is matched with alone. *)
LEMMA OtherStepsKeepList ==
  ASSUME ListInv, UNCHANGED listVars,
         queue' = queue, executing' = executing, freed' = freed
  PROVE  ListTypes' /\ HeldAreExecuting' /\ SomeChain'
<1>1. ListTypes' /\ HeldAreExecuting'
  BY DEF listVars, ListInv, ListTypes, HeldAreExecuting
<1>n. PICK n \in Nat : \E chain \in [1 .. n -> Blocks] : Chained(n, chain)
  BY DEF ListInv, SomeChain
<1>2. PICK chain \in [1 .. n -> Blocks] : Chained(n, chain)
  BY <1>n
<1>3. Chained(n, chain)'
  BY <1>2 DEF listVars, Chained, Accounted, Linked
<1> QED
  BY <1>1, <1>3 DEF SomeChain

THEOREM ListNextInv == ListInv /\ [ListNext]_<<vars, listVars>> => ListInv'
<1> SUFFICES ASSUME ListInv, [ListNext]_<<vars, listVars>> PROVE ListInv'
  OBVIOUS
<1>1. IInv'
  BY ListStepIsStep, NextIInv DEF ListInv
<1>2. ListTypes' /\ HeldAreExecuting' /\ SomeChain'
  <2>1. ASSUME NEW t \in Tasks, NEW a \in Blocks, task_queue_enqueue(t), Link(a, t)
        PROVE  ListTypes' /\ HeldAreExecuting' /\ SomeChain'
    BY <1>1, <2>1, EnqueueKeepsList
  <2>2. CASE queue_job_get_next /\ Unlink
    BY <1>1, <2>2, GetNextKeepsList
  <2>3. ASSUME NEW t \in Tasks, NEW a \in Blocks,
               JobReturns(t), block[a].job = t, queue_job_destroy(a)
        PROVE  ListTypes' /\ HeldAreExecuting' /\ SomeChain'
    BY <1>1, <2>3, DestroyJobKeepsList
  <2>4. CASE task_queue_destroy /\ WalkBegins
    BY <2>4, WalkBeginsKeepsList
  <2>5. CASE WalkOn
    BY <2>5, WalkOnKeepsList
  <2>6. CASE /\ UNCHANGED listVars
             /\ task_queue_suspend \/ task_queue_unsuspend \/ task_queue_is_empty \/ ThreadEnds
    <3>1. queue' = queue /\ executing' = executing /\ freed' = freed
      BY <2>6 DEF task_queue_suspend, task_queue_unsuspend, task_queue_is_empty, ThreadEnds
    <3> QED
      BY <2>6, <3>1, OtherStepsKeepList
  <2>7. CASE UNCHANGED <<vars, listVars>>
    BY <2>7, OtherStepsKeepList DEF vars
  <2> QED
    BY <2>1, <2>2, <2>3, <2>4, <2>5, <2>6, <2>7 DEF ListNext
<1> QED
  BY <1>1, <1>2 DEF ListInv

-----------------------------------------------------------------------------
(* A chain cannot be longer than memory has blocks. *)
LEMMA ChainFits ==
  ASSUME NEW n \in Nat, NEW chain \in [1 .. n -> Blocks],
         \A i, j \in 1 .. n : chain[i] = chain[j] => i = j
  PROVE  n \in 0 .. Cardinality(Blocks)
<1>1. chain \in Injection(1 .. n, Blocks)
  BY DEF Injection, IsInjective
<1>2. Cardinality(1 .. n) = n
  BY FS_Interval
<1> QED
  BY <1>1, <1>2, FS_Injection, FS_CardinalityType, TaskQueueListAssumption

(* tq->next and tq->last always describe the queue, in blocks that are     *)
(* allocated, and no block is leaked or freed twice (task_queue_enqueue,   *)
(* queue_job_get_next, queue_job_exec, task_queue_destroy).                *)
THEOREM LinksAreTheQueue == ListSpec => []ListIsQueue
<1>1. ASSUME ListInv PROVE ListIsQueue
  <2>n. PICK n \in Nat : \E chain \in [1 .. n -> Blocks] : Chained(n, chain)
    BY <1>1 DEF ListInv, SomeChain
  <2>1. PICK chain \in [1 .. n -> Blocks] : Chained(n, chain)
    BY <2>n
  <2>2. \A i, j \in 1 .. n : chain[i] = chain[j] => i = j
    BY <2>1 DEF Chained, Linked
  <2>3. n \in 0 .. Cardinality(Blocks)
    BY <2>2, ChainFits
  <2> QED
    BY <1>1, <2>1, <2>3 DEF ListInv, ListIsQueue
<1> QED
  BY <1>1, ListInitInv, ListNextInv, PTL DEF ListSpec

(* What is proved of the task queue is true of it with its list: ListSpec  *)
(* implements TaskQueue.                                                   *)
THEOREM ListImplementsQueue == ListSpec => Spec
<1>1. ListInit => task_queue_create
  BY DEF ListInit
<1> QED
  BY <1>1, ListStepIsStep, PTL DEF ListSpec, Spec
=============================================================================
