------------------------------- MODULE Worker -------------------------------
(***************************************************************************)
(* A Worker (licodecore/erizo/thread/Worker.cpp): one thread that runs the *)
(* tasks posted to its boost::asio service in order, and delayed tasks     *)
(* that a thread of the Scheduler posts to it when they are due.           *)
(*                                                                         *)
(* A delayed task is named by its ScheduledTaskReference.  Cancelling sets *)
(* a flag of that reference and takes nothing out of the scheduler or of   *)
(* the queue: the flag is looked at when the worker comes to the task.  A  *)
(* reference that nobody holds any more is free for the next task.         *)
(*                                                                         *)
(* This module has the state and the steps that do not depend on what the  *)
(* tasks do; the module of a component that lives on a worker extends it   *)
(* and says what they do.  Time is relative: left[r] is what remains, or   *)
(* remained when it was posted, of the delay of r.  The worker outlives    *)
(* its tasks (safeTask always locks).                                      *)
(***************************************************************************)
EXTENDS Naturals, Sequences, FiniteSets

CONSTANTS
    Ref,      \* names for ScheduledTaskReferences
    Job,      \* the tasks other threads post
    MaxDelay, \* the longest delay given to scheduleFromNow
    MaxLoad   \* bound: posted and delayed tasks under way

ASSUME WorkerAssumption ==
    /\ Ref \cap Job = {}
    /\ MaxDelay \in Nat
    /\ MaxLoad \in Nat

VARIABLES
    queue,      \* service_: the tasks posted and not yet run
    timers,     \* the references whose tasks wait in the Scheduler
    left,       \* reference -> what remains of its delay
    cancelled,  \* the references under way whose cancelled flag is set
    closed,     \* closed_
    thread      \* "new" until it has tested closed_, then "running" or "ended"

workerVars == <<queue, timers, left, cancelled, closed, thread>>

WorkerTypeOK ==
    /\ queue \in Seq(Ref \cup Job)
    /\ timers \subseteq Ref
    /\ left \in [Ref -> 0 .. MaxDelay]
    /\ cancelled \subseteq Ref
    /\ closed \in BOOLEAN
    /\ thread \in {"new", "running", "ended"}

WorkerInit ==
    /\ queue = <<>>
    /\ timers = {}
    /\ left = [r \in Ref |-> 0]
    /\ cancelled = {}
    /\ closed = FALSE
    /\ thread = "new"

\* The task of r waits in the service's queue.
Posted(r) == \E i \in DOMAIN queue : queue[i] = r
\* The task of r waits in the scheduler or in the queue.
UnderWay(r) == r \in timers \/ Posted(r)
\* ... and will be run when its turn comes.
Live(r) == UnderWay(r) /\ r \notin cancelled

-----------------------------------------------------------------------------
\* Worker::task called from another thread: dispatch() queues it.
Post(j) ==
    /\ Len(queue) + Cardinality(timers) < MaxLoad
    /\ queue' = Append(queue, j)
    /\ UNCHANGED <<timers, left, cancelled, closed, thread>>

\* What scheduleFromNow(f, delta) leaves in the scheduler, for a reference
\* that nothing under way has.
ScheduleFromNow_Milliseconds(r, delta) ==
    /\ timers' = timers \cup {r}
    /\ left' = [left EXCEPT ![r] = 1000 * delta]

ScheduleFromNow(r, delta) ==
    /\ timers' = timers \cup {r}
    /\ left' = [left EXCEPT ![r] = delta]

\* A scheduler's thread runs the task scheduleFromNow gave it, which posts
\* the worker's task.  With the two threads that ThreadPool gives it the
\* Scheduler may do so before the delay is over (its NeverEarly fails);
\* left[r] then keeps what remained of the delay.
TimerFires(r) ==
    /\ r \in timers
    /\ timers' = timers \ {r}
    /\ queue' = Append(queue, r)
    /\ UNCHANGED <<left, cancelled, closed, thread>>

\* unschedule(): the flag matters while the task is under way.
Unschedule_BeforePosted(r) == cancelled' = cancelled \cup {s \in {r} : s \in timers}

Unschedule(r) == cancelled' = cancelled \cup {s \in {r} : UnderWay(s)}

\* The worker's thread takes the next task.
TakeTask(t) ==
    /\ thread = "running"
    /\ queue # <<>> /\ Head(queue) = t
    /\ queue' = Tail(queue)
    /\ UNCHANGED <<closed, thread>>

\* The task of a cancelled reference returns at once.
TakeCancelled(r) ==
    /\ TakeTask(r)
    /\ r \in cancelled
    /\ cancelled' = cancelled \ {r}
    /\ UNCHANGED <<timers, left>>

-----------------------------------------------------------------------------
\* The thread made by start() begins: it enters service_.run() unless
\* close() has been called already.
Begin ==
    /\ thread = "new"
    /\ thread' = IF closed THEN "ended" ELSE "running"
    /\ UNCHANGED <<queue, timers, left, cancelled, closed>>

\* close() until it waits for the thread.
Close ==
    /\ ~closed
    /\ closed' = TRUE
    /\ UNCHANGED <<queue, timers, left, cancelled, thread>>

\* Without service_worker_ run() returns when the queue is empty, and
\* close() goes on to stop the service: later tasks stay in the queue.
Finish ==
    /\ closed /\ thread = "running" /\ queue = <<>>
    /\ thread' = "ended"
    /\ UNCHANGED <<queue, timers, left, cancelled, closed>>

\* The delays of the tasks in the scheduler go down.
Elapse ==
    /\ left' = [r \in Ref |-> IF r \in timers /\ left[r] > 0 THEN left[r] - 1 ELSE left[r]]
    /\ UNCHANGED <<queue, timers, cancelled, closed, thread>>
=============================================================================
