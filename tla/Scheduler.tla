----------------------------- MODULE Scheduler -----------------------------
(***************************************************************************)
(* The delayed-task scheduler shared by every Worker of a ThreadPool       *)
(* (licodecore/erizo/thread/Scheduler.cpp): a multimap of tasks ordered by *)
(* due time, serviced by a few threads that sleep on one condition         *)
(* variable.                                                               *)
(*                                                                         *)
(* Everything serviceQueue() does between two points where it releases     *)
(* new_task_mutex_ (a wait, running a task, returning) is one step, since  *)
(* that mutex guards every variable it touches.  The notify calls of       *)
(* schedule() and stop() come after the mutex is released, so they are     *)
(* steps of their own.  Tasks are assumed not to throw.                    *)
(***************************************************************************)
EXTENDS Naturals, FiniteSets

CONSTANTS
    Threads,    \* the n_threads_servicing_queue threads of group_
    Task,       \* the tasks clients may schedule, each at most once
    Delay,      \* the delays passed to scheduleFromNow, in clock ticks
    MaxTime     \* bound: the clock stops here and no task is due later

ASSUME SchedulerAssumption ==
    /\ Threads # {} /\ IsFiniteSet(Threads)
    /\ IsFiniteSet(Task)
    /\ Delay \subseteq Nat
    /\ MaxTime \in Nat

VARIABLES
    now,             \* std::chrono::system_clock::now()
    queue,           \* the tasks in task_queue_
    due,             \* task -> its key in task_queue_
    stamp,           \* task -> its insertion rank, 0 when never scheduled
    notifying,       \* tasks inserted whose notify_one is still to come
    pc,              \* thread -> where it stands in serviceQueue()
    tm,              \* thread -> the time its wait_until was given, else 0
    woken,           \* blocked threads that a notification has released
    stop_requested,  \* stop_requested_
    stop_when_empty, \* stop_when_empty_
    ctl,             \* progress of the one call of stop()
    atStop,          \* tasks scheduled before stop() took the mutex
    ranAt            \* task -> clock when a thread took it, NotRun before

clientVars == <<queue, due, stamp, notifying>>
threadVars == <<pc, tm, woken>>
stopVars   == <<stop_requested, stop_when_empty, ctl, atStop>>
vars == <<now, clientVars, threadVars, stopVars, ranAt>>

NotRun == MaxTime + 1
Time   == 0 .. MaxTime

\* "idle": not yet in serviceQueue(), or back from f() and about to lock.
PC == {"idle", "wait", "wait_until", "running", "exited"}

TypeOK ==
    /\ now \in Time
    /\ queue \subseteq Task
    /\ due \in [Task -> Time]
    /\ stamp \in [Task -> Nat]
    /\ notifying \subseteq Task
    /\ pc \in [Threads -> PC]
    /\ tm \in [Threads -> Time]
    /\ woken \subseteq Threads
    /\ stop_requested \in BOOLEAN
    /\ stop_when_empty \in BOOLEAN
    /\ ctl \in {"open", "flagged", "joining", "stopped"}
    /\ atStop \subseteq Task
    /\ ranAt \in [Task -> Time \cup {NotRun}]

Init ==
    /\ now = 0
    /\ queue = {}
    /\ due = [k \in Task |-> 0]
    /\ stamp = [k \in Task |-> 0]
    /\ notifying = {}
    /\ pc = [t \in Threads |-> "idle"]
    /\ tm = [t \in Threads |-> 0]
    /\ woken = {}
    /\ stop_requested = FALSE
    /\ stop_when_empty = FALSE
    /\ ctl = "open"
    /\ atStop = {}
    /\ ranAt = [k \in Task |-> NotRun]

-----------------------------------------------------------------------------
Scheduled(k) == stamp[k] # 0

\* Multimap order: by key, equal keys in the order they were inserted.
Before(j, k) == due[j] < due[k] \/ (due[j] = due[k] /\ stamp[j] < stamp[k])

\* k is task_queue_.begin()
IsBegin(k) == k \in queue /\ \A j \in queue \ {k} : Before(k, j)

Blocked == {t \in Threads : pc[t] \in {"wait", "wait_until"} /\ t \notin woken}

(***************************************************************************)
(* Clients: scheduleFromNow inserts under the mutex, then notifies one     *)
(* blocked thread, if there is one.                                        *)
(* An operator named X_Y is a variant of X with a fault, Y: the properties *)
(* that detect it are listed in PROJECT.json.                              *)
(***************************************************************************)
DueTime(d) == now + d

ScheduleFromNow(k, d) ==
    /\ ~Scheduled(k)
    /\ now + d <= MaxTime
    /\ queue' = queue \cup {k}
    /\ due' = [due EXCEPT ![k] = DueTime(d)]
    /\ stamp' = [stamp EXCEPT ![k] = 1 + Cardinality({j \in Task : Scheduled(j)})]
    /\ notifying' = notifying \cup {k}
    /\ UNCHANGED <<now, threadVars, stopVars, ranAt>>

NotifyOne_Lost(k) ==
    /\ k \in notifying
    /\ notifying' = notifying \ {k}
    /\ UNCHANGED <<now, queue, due, stamp, threadVars, stopVars, ranAt>>

NotifyOne(k) ==
    /\ k \in notifying
    /\ notifying' = notifying \ {k}
    /\ IF Blocked = {} THEN woken' = woken
                       ELSE \E t \in Blocked : woken' = woken \cup {t}
    /\ UNCHANGED <<now, queue, due, stamp, pc, tm, stopVars, ranAt>>

(***************************************************************************)
(* stop(drain): set the flag under the mutex, notify every blocked thread, *)
(* join them all.                                                          *)
(***************************************************************************)
Stop(drain) ==
    /\ ctl = "open"
    /\ ctl' = "flagged"
    /\ stop_when_empty' = drain
    /\ stop_requested' = ~drain
    /\ atStop' = {k \in Task : Scheduled(k)}
    /\ UNCHANGED <<now, clientVars, threadVars, ranAt>>

StopNotifyAll_Missing ==
    /\ ctl = "flagged"
    /\ ctl' = "joining"
    /\ UNCHANGED <<now, clientVars, threadVars, stop_requested, stop_when_empty, atStop, ranAt>>

StopNotifyAll ==
    /\ ctl = "flagged"
    /\ ctl' = "joining"
    /\ woken' = woken \cup Blocked
    /\ UNCHANGED <<now, clientVars, pc, tm, stop_requested, stop_when_empty, atStop, ranAt>>

StopJoined ==
    /\ ctl = "joining"
    /\ \A t \in Threads : pc[t] = "exited"
    /\ ctl' = "stopped"
    /\ UNCHANGED <<now, clientVars, threadVars, stop_requested, stop_when_empty, atStop, ranAt>>

(***************************************************************************)
(* serviceQueue().  Settle is what a thread holding the mutex does from    *)
(* the head of the outer loop: leave, block in wait, or block in           *)
(* wait_until on the first task's time.  Waking from wait, and from        *)
(* wait_until before the time, lead to the same tests.                     *)
(***************************************************************************)
Leave_Undrained == stop_requested \/ stop_when_empty

\* The outer loop ends.
Leave == stop_requested \/ (stop_when_empty /\ queue = {})

Settle(t) ==
    \/ /\ Leave
       /\ pc' = [pc EXCEPT ![t] = "exited"]
       /\ tm' = [tm EXCEPT ![t] = 0]
    \/ /\ ~stop_requested /\ ~stop_when_empty /\ queue = {}
       /\ pc' = [pc EXCEPT ![t] = "wait"]
       /\ tm' = [tm EXCEPT ![t] = 0]
    \/ /\ ~stop_requested
       /\ \E k \in queue : IsBegin(k) /\ tm' = [tm EXCEPT ![t] = due[k]]
       /\ pc' = [pc EXCEPT ![t] = "wait_until"]

\* The thread takes the mutex: on entry, after f(), or released from a wait.
ServiceQueue(t) ==
    /\ \/ pc[t] = "idle"
       \/ pc[t] = "wait" /\ t \in woken
       \/ pc[t] = "wait_until" /\ t \in woken /\ now < tm[t]
    /\ Settle(t)
    /\ woken' = woken \ {t}
    /\ UNCHANGED <<now, clientVars, stopVars, ranAt>>

Expired_AnyWakeup(t) == pc[t] = "wait_until" /\ (now >= tm[t] \/ t \in woken)

\* wait_until comes back with cv_status::timeout: the clock has reached tm.
Expired(t) == pc[t] = "wait_until" /\ now >= tm[t]

MayTake_Stopped == queue # {}

\* What is tested again before a task is taken.
MayTake == ~stop_requested /\ queue # {}

Take_Kept(k) ==
    /\ UNCHANGED queue
    /\ ranAt' = [ranAt EXCEPT ![k] = now]

\* The first task is copied out of the multimap and erased from it.
Take(k) ==
    /\ queue' = queue \ {k}
    /\ ranAt' = [ranAt EXCEPT ![k] = now]

WaitTimeout(t) ==
    /\ Expired(t)
    /\ woken' = woken \ {t}
    /\ \/ /\ ~MayTake
          /\ Settle(t)
          /\ UNCHANGED <<queue, ranAt>>
       \/ /\ MayTake
          /\ \E k \in queue : IsBegin(k) /\ Take(k)
          /\ pc' = [pc EXCEPT ![t] = "running"]
          /\ tm' = [tm EXCEPT ![t] = 0]
    /\ UNCHANGED <<now, due, stamp, notifying, stopVars>>

\* f() returns.
TaskDone(t) ==
    /\ pc[t] = "running"
    /\ pc' = [pc EXCEPT ![t] = "idle"]
    /\ UNCHANGED <<now, clientVars, tm, woken, stopVars, ranAt>>

\* A condition variable may wake a waiter for no reason.
SpuriousWakeup(t) ==
    /\ t \in Blocked
    /\ woken' = woken \cup {t}
    /\ UNCHANGED <<now, clientVars, pc, tm, stopVars, ranAt>>

Tick ==
    /\ now < MaxTime
    /\ now' = now + 1
    /\ UNCHANGED <<clientVars, threadVars, stopVars, ranAt>>

Next ==
    \/ \E k \in Task, d \in Delay : ScheduleFromNow(k, d)
    \/ \E k \in Task : NotifyOne(k)
    \/ \E drain \in BOOLEAN : Stop(drain)
    \/ StopNotifyAll
    \/ StopJoined
    \/ \E t \in Threads : ServiceQueue(t)
    \/ \E t \in Threads : WaitTimeout(t)
    \/ \E t \in Threads : TaskDone(t)
    \/ \E t \in Threads : SpuriousWakeup(t)
    \/ Tick

(***************************************************************************)
(* The operating system runs every runnable thread, the clock advances,    *)
(* and a caller inside schedule() or stop() goes on to its next statement. *)
(* Nothing obliges a client to schedule or to stop, nor a spurious wakeup. *)
(***************************************************************************)
Fairness ==
    /\ \A t \in Threads : WF_vars(ServiceQueue(t)) /\ WF_vars(WaitTimeout(t))
                          /\ WF_vars(TaskDone(t))
    /\ \A k \in Task : WF_vars(NotifyOne(k))
    /\ WF_vars(StopNotifyAll) /\ WF_vars(StopJoined) /\ WF_vars(Tick)

Spec == Init /\ [][Next]_vars /\ Fairness

-----------------------------------------------------------------------------
\* task_queue_ holds exactly the tasks scheduled and not yet taken: a thread
\* erases the task it takes before it releases the mutex to run it, so no
\* task is lost and no two threads run the same one.
TakenOnce == \A k \in Task : (k \in queue) <=> (Scheduled(k) /\ ranAt[k] = NotRun)

\* stop(true) drains: when it returns, every task that was scheduled before
\* the call has been run to its end ("when there is no work left to be done
\* (drain=true)", Scheduler.h:32).
DrainComplete ==
    ctl = "stopped" /\ stop_when_empty =>
        /\ \A k \in atStop : ranAt[k] # NotRun
        /\ \A t \in Threads : pc[t] # "running"

\* stop(false) abandons: once the flag is set no thread takes another task,
\* each only ends the one it is running (Scheduler.h:30-31).
StopAbandons == [][stop_requested => ranAt' = ranAt]_vars

\* A task is not run before its time.  True of a scheduler with one thread;
\* with several, a thread whose wait_until timed out on a task that another
\* thread took runs whatever task is first now, due or not.
NeverEarly == \A k \in Task : ranAt[k] # NotRun => ranAt[k] >= due[k]

\* No wakeup is lost: a queued task is run, unless the scheduler is told to
\* abandon its tasks or its threads had already drained the queue and left.
EveryTaskRuns ==
    \A k \in Task :
        (k \in queue) ~> \/ ranAt[k] # NotRun
                         \/ stop_requested
                         \/ \A t \in Threads : pc[t] = "exited"

\* stop() returns: the join of either kind of stop comes to an end.
StopReturns == (ctl = "flagged") ~> (ctl = "stopped")
=============================================================================
