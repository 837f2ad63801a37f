------------------------------ MODULE TaskPool ------------------------------
(***************************************************************************)
(* Background tasks, src/src/background_task_pool.cpp: each task runs its  *)
(* job in a thread of its own, and the game thread, which pumps the pool   *)
(* once per cycle, calls on_complete for the tasks that ended.             *)
(*                                                                         *)
(* The statement meant to lock completed_tasks_mutex has no name for the   *)
(* lock and so declares a pointer: no lock is taken.  The accesses to      *)
(* completed_tasks take time.  Two at once are a data race: after it ids   *)
(* may get lost, and only TypeOK is claimed.                               *)
(***************************************************************************)
EXTENDS Naturals, FiniteSets

CONSTANT MaxTasks  \* bound: tasks submitted
ASSUME BoundAssumption == MaxTasks \in Nat \ {0}

Task == 0..(MaxTasks - 1)

VARIABLES
  next_task_id,
  task_map,         \* the ids in the map
  thread,           \* [t]: where the thread of task t is
  completed_tasks,  \* the ids in the vector
  completed,        \* pump's own vector
  pumping,          \* pump is "out", in the "swap", or in the "loop"
  closing,          \* ~manager has begun
  called,           \* history: [t] calls of t's on_complete
  raced             \* history: the vector was accessed by two threads at once

vars == <<next_task_id, task_map, thread, completed_tasks, completed, pumping,
          closing, called, raced>>

Init ==
  /\ next_task_id = 0 /\ task_map = {}
  /\ thread = [t \in Task |-> "none"]
  /\ completed_tasks = {} /\ completed = {}
  /\ pumping = "out" /\ closing = FALSE
  /\ called = [t \in Task |-> 0]
  /\ raced = FALSE

Pushing == {t \in Task : thread[t] = "pushing"}
Accessing == Cardinality(Pushing) + (IF pumping = "swap" THEN 1 ELSE 0)

\* The vector as an access leaves it that stored or moved the ids s: all of
\* them, or, after a race, only some.
Stored(s) == IF raced THEN SUBSET s ELSE {s}

-----------------------------------------------------------------------------

\* Some operators come with a mistaken variant just before them, which is not
\* part of the model: it shows that the properties notice such a mistake.

\* The key of a new task in the map.
NewTask == next_task_id

\* The game thread submits a task, perhaps from an on_complete.
Submit ==
  /\ next_task_id < MaxTasks /\ ~closing
  /\ pumping # "swap"
  /\ thread' = [thread EXCEPT ![next_task_id] = "job"]
  /\ task_map' = task_map \union {NewTask}
  /\ next_task_id' = next_task_id + 1
  /\ UNCHANGED <<completed_tasks, completed, pumping, closing, called, raced>>

\* run_task's push_back, from its first access of the vector to its last.
BeginPush(t) ==
  /\ thread[t] = "job"
  /\ thread' = [thread EXCEPT ![t] = "pushing"]
  /\ raced' = (raced \/ Accessing > 0)
  /\ UNCHANGED <<next_task_id, task_map, completed_tasks, completed, pumping,
                 closing, called>>

EndPush(t) ==
  /\ thread[t] = "pushing"
  /\ thread' = [thread EXCEPT ![t] = "ended"]
  /\ \E kept \in Stored({t}) : completed_tasks' = completed_tasks \union kept
  /\ UNCHANGED <<next_task_id, task_map, completed, pumping, closing, called,
                 raced>>

\* pump's swap.  ~manager pumps while task_map is not empty.
MayPumpWhileOpen == pumping = "out" /\ ~closing
MayPump == pumping = "out" /\ (closing => task_map # {})
BeginSwap ==
  /\ MayPump
  /\ pumping' = "swap"
  /\ raced' = (raced \/ Accessing > 0)
  /\ UNCHANGED <<next_task_id, task_map, thread, completed_tasks, completed,
                 closing, called>>

EndSwapKeeping ==
  /\ pumping = "swap"
  /\ pumping' = "loop"
  /\ \E kept \in Stored(completed_tasks) : completed' = kept
  /\ UNCHANGED <<next_task_id, task_map, thread, completed_tasks, closing, called,
                 raced>>
EndSwap ==
  /\ pumping = "swap"
  /\ pumping' = "loop"
  /\ \E kept \in Stored(completed_tasks) : completed' = kept
  /\ completed_tasks' = {}
  /\ UNCHANGED <<next_task_id, task_map, thread, closing, called, raced>>

\* pump's loop: on_complete, then erase, which joins the thread.
Complete(t) ==
  /\ pumping = "loop" /\ t \in completed
  /\ thread[t] = "ended"
  /\ called' = [called EXCEPT ![t] = @ + 1]
  /\ task_map' = task_map \ {t}
  /\ completed' = completed \ {t}
  /\ UNCHANGED <<next_task_id, thread, completed_tasks, pumping, closing, raced>>

EndPump ==
  /\ pumping = "loop" /\ completed = {}
  /\ pumping' = "out"
  /\ UNCHANGED <<next_task_id, task_map, thread, completed_tasks, completed,
                 closing, called, raced>>

Close ==
  /\ pumping = "out" /\ ~closing
  /\ closing' = TRUE
  /\ UNCHANGED <<next_task_id, task_map, thread, completed_tasks, completed,
                 pumping, called, raced>>

Pump == BeginSwap \/ EndSwap \/ EndPump \/ \E t \in Task : Complete(t)
Run(t) == BeginPush(t) \/ EndPush(t)

Next == Submit \/ Close \/ Pump \/ \E t \in Task : Run(t)

Spec == Init /\ [][Next]_vars

\* The game thread pumps in every cycle, and jobs end.
FairSpec == Spec /\ WF_vars(Pump) /\ \A t \in Task : WF_vars(Run(t))

-----------------------------------------------------------------------------
(* Properties.                                                             *)

\* Every variable keeps its shape; the ids about are those of submitted tasks.
TypeOK ==
  /\ next_task_id \in 0..MaxTasks
  /\ task_map \union completed_tasks \union completed
       \subseteq {t \in Task : t < next_task_id}
  /\ thread \in [Task -> {"none", "job", "pushing", "ended"}]
  /\ pumping \in {"out", "swap", "loop"}
  /\ closing \in BOOLEAN /\ raced \in BOOLEAN
  /\ called \in [Task -> Nat]

\* Unless two threads raced, on_complete runs once for each task, when the task
\* leaves the map.
CompletedOnce ==
  raced \/ \A t \in Task :
    called[t] = IF t < next_task_id /\ t \notin task_map THEN 1 ELSE 0

\* Unless two threads raced, the id of a task whose thread has ended is on its
\* way to on_complete, whatever the pump was doing when it was stored.
NoneForgotten ==
  raced \/ \A t \in task_map :
    thread[t] = "ended" => t \in completed_tasks \union completed

\* Unless two threads raced, ~manager returns, with all tasks completed.
Drains == [](closing => <>(raced \/ (task_map = {} /\ pumping = "out")))

\* What threading::lock promises: "The creation of a lock object on a mutex
\* will lock the mutex as long as this object is not deleted" (thread.hpp:115).
\* One thread at a time accesses completed_tasks.
AccessesLocked == Accessing <= 1
=============================================================================
