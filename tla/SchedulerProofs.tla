-------------------------- MODULE SchedulerProofs --------------------------
(***************************************************************************)
(* Proofs about Scheduler, for any number of threads and tasks.            *)
(***************************************************************************)
EXTENDS Scheduler, FiniteSetTheorems, TLAPS

\* What stop() and the exits of threads have to do with task_queue_.
StopInv ==
    /\ ctl = "open" => ~stop_requested /\ ~stop_when_empty /\ atStop = {}
    /\ ~(stop_requested /\ stop_when_empty)
    /\ \A k \in atStop : Scheduled(k)
    /\ \A t \in Threads :
         pc[t] = "exited" => stop_requested \/ (stop_when_empty /\ queue \cap atStop = {})
    /\ ctl = "stopped" => \A t \in Threads : pc[t] = "exited"

UnscheduledNotRun == \A k \in Task : ~Scheduled(k) => ranAt[k] = NotRun

Inv == TypeOK /\ TakenOnce /\ UnscheduledNotRun /\ StopInv

\* With one thread: the time it waits for is never before the first task's.
SingleInv ==
    /\ \A t \in Threads : pc[t] = "wait_until" => \E k \in queue : due[k] <= tm[t]
    /\ NeverEarly

-----------------------------------------------------------------------------
\* Scheduling k gives it a rank that says so.
LEMMA StampLemma ==
    1 + Cardinality({j \in Task : Scheduled(j)}) \in Nat \ {0}
<1>1. IsFiniteSet({j \in Task : Scheduled(j)})
  BY FS_Subset, SchedulerAssumption
<1>2. Cardinality({j \in Task : Scheduled(j)}) \in Nat
  BY <1>1, FS_CardinalityType
<1> QED
  BY <1>2

\* A scheduler just constructed, with an empty task_queue_, satisfies Inv.
LEMMA InitInv == Init => Inv
<1> SUFFICES ASSUME Init PROVE Inv
  OBVIOUS
<1> USE SchedulerAssumption
<1>1. TypeOK
  <2>1. 0 \in Time /\ NotRun \in Time \cup {NotRun} /\ 0 \in Nat /\ MaxTime \in Nat
    BY DEF SchedulerAssumption, Time
  <2>2. /\ due \in [Task -> Time] /\ stamp \in [Task -> Nat]
        /\ tm \in [Threads -> Time] /\ ranAt \in [Task -> Time \cup {NotRun}]
    BY <2>1 DEF Init
  <2> QED
    BY <2>1, <2>2 DEF Init, TypeOK, PC
<1>2. TakenOnce /\ UnscheduledNotRun
  BY DEF Init, TakenOnce, UnscheduledNotRun, Scheduled
<1>3. StopInv
  BY DEF Init, StopInv, Scheduled
<1> QED
  BY <1>1, <1>2, <1>3 DEF Inv

\* No step of a client, of stop() or of serviceQueue() leaves the types.
LEMMA TypeStep == TypeOK /\ [Next]_vars => TypeOK'
<1> SUFFICES ASSUME TypeOK, [Next]_vars PROVE TypeOK'
  OBVIOUS
<1> USE SchedulerAssumption DEF SchedulerAssumption, TypeOK, Time, PC, NotRun
<1>1. ASSUME NEW k \in Task, NEW d \in Delay, ScheduleFromNow(k, d) PROVE TypeOK'
  BY <1>1, StampLemma DEF ScheduleFromNow, DueTime, threadVars, stopVars
<1>2. ASSUME NEW k \in Task, NotifyOne(k) PROVE TypeOK'
  BY <1>2 DEF NotifyOne, Blocked, stopVars
<1>3. ASSUME NEW drain \in BOOLEAN, Stop(drain) PROVE TypeOK'
  BY <1>3 DEF Stop, clientVars, threadVars
<1>4. CASE StopNotifyAll
  BY <1>4 DEF StopNotifyAll, Blocked, clientVars
<1>5. CASE StopJoined
  BY <1>5 DEF StopJoined, clientVars, threadVars
<1>6. ASSUME NEW t \in Threads, ServiceQueue(t) PROVE TypeOK'
  BY <1>6 DEF ServiceQueue, Settle, Leave, IsBegin, clientVars, stopVars
<1>7. ASSUME NEW t \in Threads, WaitTimeout(t) PROVE TypeOK'
  BY <1>7 DEF WaitTimeout, Expired, MayTake, Take, Settle, Leave, IsBegin, stopVars
<1>8. ASSUME NEW t \in Threads, TaskDone(t) PROVE TypeOK'
  BY <1>8 DEF TaskDone, clientVars, stopVars
<1>9. ASSUME NEW t \in Threads, SpuriousWakeup(t) PROVE TypeOK'
  BY <1>9 DEF SpuriousWakeup, Blocked, clientVars, stopVars
<1>10. CASE Tick
  BY <1>10 DEF Tick, clientVars, threadVars, stopVars
<1>11. CASE UNCHANGED vars
  BY <1>11 DEF vars, clientVars, threadVars, stopVars
<1> QED
  BY <1>1, <1>2, <1>3, <1>4, <1>5, <1>6, <1>7, <1>8, <1>9, <1>10, <1>11 DEF Next

\* Every step of the scheduler preserves Inv.
LEMMA InvStep == Inv /\ [Next]_vars => Inv'
<1> SUFFICES ASSUME Inv, [Next]_vars PROVE Inv'
  OBVIOUS
<1>0. TypeOK'
  BY TypeStep DEF Inv
<1> USE DEF Scheduled, NotRun
<1>1. ASSUME NEW k \in Task, NEW d \in Delay, ScheduleFromNow(k, d)
      PROVE  (TakenOnce /\ UnscheduledNotRun /\ StopInv)'
  <2> USE <1>1 DEF ScheduleFromNow, DueTime, threadVars, stopVars
  <2>1. stamp'[k] # 0 /\ \A j \in Task \ {k} : stamp'[j] = stamp[j]
    BY StampLemma DEF Inv, TypeOK
  <2>2. (TakenOnce /\ UnscheduledNotRun)'
    BY <2>1 DEF Inv, TakenOnce, UnscheduledNotRun
  <2>3. k \notin atStop
    BY DEF Inv, StopInv
  <2>4. StopInv'
    BY <2>1, <2>3 DEF Inv, StopInv, TypeOK
  <2> QED
    BY <2>2, <2>4
<1>2. ASSUME NEW k \in Task, NotifyOne(k)
      PROVE  (TakenOnce /\ UnscheduledNotRun /\ StopInv)'
  BY <1>2 DEF NotifyOne, stopVars, Inv, TakenOnce, UnscheduledNotRun, StopInv
<1>3. ASSUME NEW drain \in BOOLEAN, Stop(drain)
      PROVE  (TakenOnce /\ UnscheduledNotRun /\ StopInv)'
  <2>1. (TakenOnce /\ UnscheduledNotRun)'
    BY <1>3 DEF Stop, clientVars, Inv, TakenOnce, UnscheduledNotRun
  <2>2. \A t \in Threads : pc[t] # "exited"
    BY <1>3 DEF Stop, Inv, StopInv
  <2>3. StopInv'
    BY <1>3, <2>2 DEF Stop, clientVars, threadVars, StopInv
  <2> QED
    BY <2>1, <2>3
<1>4. CASE StopNotifyAll
  BY <1>0, <1>4 DEF StopNotifyAll, clientVars, Inv, TakenOnce, UnscheduledNotRun, StopInv
<1>5. CASE StopJoined
  BY <1>0, <1>5 DEF StopJoined, clientVars, threadVars, Inv, TakenOnce, UnscheduledNotRun, StopInv
<1>6. ASSUME NEW t \in Threads, ServiceQueue(t)
      PROVE  (TakenOnce /\ UnscheduledNotRun /\ StopInv)'
  <2>1. (TakenOnce /\ UnscheduledNotRun)'
    BY <1>6 DEF ServiceQueue, clientVars, Inv, TakenOnce, UnscheduledNotRun
  <2>2. pc[t] # "exited" /\ ctl # "stopped"
    BY <1>6 DEF ServiceQueue, Inv, StopInv
  <2>3. StopInv'
    BY <1>6, <2>2 DEF ServiceQueue, Settle, Leave, clientVars, stopVars, Inv, StopInv, TypeOK
  <2> QED
    BY <2>1, <2>3
<1>7. ASSUME NEW t \in Threads, WaitTimeout(t)
      PROVE  (TakenOnce /\ UnscheduledNotRun /\ StopInv)'
  <2>0. pc[t] # "exited" /\ ctl # "stopped"
    BY <1>7 DEF WaitTimeout, Expired, MayTake, Take, Inv, StopInv
  <2>1. CASE Settle(t) /\ UNCHANGED <<queue, ranAt>>
    BY <1>7, <2>0, <2>1
       DEF WaitTimeout, Expired, MayTake, Take, Settle, Leave, stopVars, Inv, TakenOnce, UnscheduledNotRun, StopInv, TypeOK
  <2>2. ASSUME NEW k \in queue, queue' = queue \ {k}, ranAt' = [ranAt EXCEPT ![k] = now],
               pc' = [pc EXCEPT ![t] = "running"]
        PROVE  (TakenOnce /\ UnscheduledNotRun /\ StopInv)'
    <3>1. now # MaxTime + 1 /\ k \in Task
      BY SchedulerAssumption DEF Inv, TypeOK, Time, SchedulerAssumption
    <3>2. (TakenOnce /\ UnscheduledNotRun)'
      BY <1>7, <2>2, <3>1 DEF WaitTimeout, Expired, MayTake, Take, Inv, TakenOnce, UnscheduledNotRun, TypeOK
    <3>3. StopInv'
      BY <1>7, <2>0, <2>2, <3>1 DEF WaitTimeout, Expired, MayTake, Take, stopVars, Inv, StopInv, TypeOK
    <3> QED
      BY <3>2, <3>3
  <2> QED
    BY <1>7, <2>1, <2>2 DEF WaitTimeout, Expired, MayTake, Take
<1>8. ASSUME NEW t \in Threads, TaskDone(t)
      PROVE  (TakenOnce /\ UnscheduledNotRun /\ StopInv)'
  BY <1>8 DEF TaskDone, clientVars, stopVars, Inv, TakenOnce, UnscheduledNotRun, StopInv, TypeOK
<1>9. ASSUME NEW t \in Threads, SpuriousWakeup(t)
      PROVE  (TakenOnce /\ UnscheduledNotRun /\ StopInv)'
  BY <1>9 DEF SpuriousWakeup, clientVars, stopVars, Inv, TakenOnce, UnscheduledNotRun, StopInv
<1>10. CASE Tick
  BY <1>0, <1>10 DEF Tick, clientVars, threadVars, stopVars, Inv, TakenOnce, UnscheduledNotRun, StopInv
<1>11. CASE UNCHANGED vars
  BY <1>0, <1>11 DEF vars, clientVars, threadVars, stopVars, Inv, TakenOnce, UnscheduledNotRun, StopInv
<1> QED
  BY <1>0, <1>1, <1>2, <1>3, <1>4, <1>5, <1>6, <1>7, <1>8, <1>9, <1>10, <1>11 DEF Next, Inv

\* The inductive invariant holds of every reachable state.
THEOREM Invariance == Spec => []Inv
BY InitInv, InvStep, PTL DEF Spec

\* The queue, the threads and the times have their types.
THEOREM TypeOKTheorem == Spec => []TypeOK
<1>1. Inv => TypeOK
  BY DEF Inv
<1> QED
  BY <1>1, Invariance, PTL

\* Any number of threads: no task is lost or taken twice by serviceQueue().
THEOREM TakenOnceTheorem == Spec => []TakenOnce
<1>1. Inv => TakenOnce
  BY DEF Inv
<1> QED
  BY Invariance, <1>1, PTL

\* Any number of threads: stop(true) returns only when all the tasks that
\* were scheduled before it have been run.
THEOREM DrainCompleteTheorem == Spec => []DrainComplete
<1>1. Inv => DrainComplete
  <2> SUFFICES ASSUME Inv, ctl = "stopped", stop_when_empty
               PROVE  /\ \A k \in atStop : ranAt[k] # NotRun
                      /\ \A t \in Threads : pc[t] # "running"
    BY DEF DrainComplete
  <2>1. \A t \in Threads : pc[t] = "exited"
    BY DEF Inv, StopInv
  <2>2. queue \cap atStop = {}
    BY <2>1, SchedulerAssumption DEF Inv, StopInv, SchedulerAssumption
  <2>3. \A k \in atStop : k \in Task /\ Scheduled(k)
    BY DEF Inv, StopInv, TypeOK
  <2> QED
    BY <2>1, <2>2, <2>3 DEF Inv, TakenOnce
<1> QED
  BY Invariance, <1>1, PTL

\* After stop(false) has set its flag no thread takes another task.
THEOREM StopAbandonsTheorem == Spec => StopAbandons
<1>1. [Next]_vars => [stop_requested => ranAt' = ranAt]_vars
  BY DEF Next, vars, ScheduleFromNow, DueTime, NotifyOne, Stop, StopNotifyAll, StopJoined,
         ServiceQueue, WaitTimeout, Expired, MayTake, Take, TaskDone, SpuriousWakeup, Tick
<1> QED
  BY <1>1, PTL DEF Spec, StopAbandons

-----------------------------------------------------------------------------

\* Every step of a scheduler with one thread preserves SingleInv.
LEMMA SingleStep ==
    ASSUME \A a, b \in Threads : a = b, Inv, SingleInv, [Next]_vars
    PROVE  SingleInv'
<1> USE DEF NotRun
<1>0. MaxTime \in Nat /\ now \in Time /\ due \in [Task -> Time] /\ tm \in [Threads -> Time]
  BY SchedulerAssumption DEF Inv, TypeOK, SchedulerAssumption
<1>1. ASSUME NEW k \in Task, NEW d \in Delay, ScheduleFromNow(k, d) PROVE SingleInv'
  <2>1. k \notin queue /\ ranAt[k] = NotRun
    BY <1>1 DEF ScheduleFromNow, DueTime, Inv, TakenOnce, UnscheduledNotRun
  <2>2. \A j \in Task \ {k} : due'[j] = due[j]
    BY <1>0, <1>1 DEF ScheduleFromNow, DueTime
  <2>3. queue \subseteq queue' /\ queue \subseteq Task
    BY <1>1 DEF ScheduleFromNow, DueTime, Inv, TypeOK
  <2> QED
    BY <1>1, <2>1, <2>2, <2>3 DEF ScheduleFromNow, DueTime, SingleInv, NeverEarly, threadVars
<1>2. ASSUME NEW k \in Task, NotifyOne(k) PROVE SingleInv'
  BY <1>2 DEF NotifyOne, SingleInv, NeverEarly
<1>3. ASSUME NEW drain \in BOOLEAN, Stop(drain) PROVE SingleInv'
  BY <1>3 DEF Stop, SingleInv, NeverEarly, clientVars, threadVars
<1>4. CASE StopNotifyAll
  BY <1>4 DEF StopNotifyAll, SingleInv, NeverEarly, clientVars
<1>5. CASE StopJoined
  BY <1>5 DEF StopJoined, SingleInv, NeverEarly, clientVars, threadVars
<1>6. ASSUME NEW t \in Threads, ServiceQueue(t) PROVE SingleInv'
  <2>1. \A a \in Threads : a = t
    OBVIOUS
  <2>2. ASSUME NEW k \in queue, tm' = [tm EXCEPT ![t] = due[k]] PROVE due[k] <= tm'[t]
    BY <1>0, <2>2 DEF Inv, TypeOK, Time
  <2>3. NeverEarly'
    BY <1>6 DEF ServiceQueue, SingleInv, NeverEarly, clientVars
  <2> QED
    BY <1>6, <2>1, <2>2, <2>3
       DEF ServiceQueue, Settle, Leave, SingleInv, clientVars, Inv, TypeOK
<1>7. ASSUME NEW t \in Threads, WaitTimeout(t) PROVE SingleInv'
  <2>1. \A a \in Threads : a = t
    OBVIOUS
  <2>2. PICK j \in queue : due[j] <= tm[t]
    BY <1>7 DEF WaitTimeout, Expired, MayTake, Take, SingleInv
  <2>3. ASSUME NEW k \in queue, IsBegin(k) PROVE due[k] <= now
    <3>1. due[k] <= due[j]
      BY <1>0, <2>3 DEF IsBegin, Before, Inv, TypeOK, Time
    <3> QED
      BY <1>0, <1>7, <2>2, <3>1 DEF WaitTimeout, Expired, MayTake, Take, Inv, TypeOK, Time
  <2>4. NeverEarly'
    BY <1>0, <1>7, <2>3 DEF WaitTimeout, Expired, MayTake, Take, SingleInv, NeverEarly, Inv, TypeOK, Time
  <2>5. pc'[t] # "wait_until"
    BY <1>7, <2>2 DEF WaitTimeout, Expired, MayTake, Take, Settle, Leave, Inv, TypeOK
  <2> QED
    BY <2>1, <2>4, <2>5 DEF SingleInv
<1>8. ASSUME NEW t \in Threads, TaskDone(t) PROVE SingleInv'
  BY <1>8 DEF TaskDone, SingleInv, NeverEarly, clientVars, Inv, TypeOK
<1>9. ASSUME NEW t \in Threads, SpuriousWakeup(t) PROVE SingleInv'
  BY <1>9 DEF SpuriousWakeup, SingleInv, NeverEarly, clientVars
<1>10. CASE Tick
  BY <1>10 DEF Tick, SingleInv, NeverEarly, clientVars, threadVars
<1>11. CASE UNCHANGED vars
  BY <1>11 DEF vars, SingleInv, NeverEarly, clientVars, threadVars
<1> QED
  BY <1>1, <1>2, <1>3, <1>4, <1>5, <1>6, <1>7, <1>8, <1>9, <1>10, <1>11 DEF Next

\* A scheduler with a single thread runs no task before its time, whatever
\* is scheduled while it waits.  (With two threads this is false: the run
\* scheduler_early has the counterexample.)
THEOREM SingleThreadNeverEarly ==
    ASSUME \A a, b \in Threads : a = b
    PROVE  Spec => []NeverEarly
<1>1. Init => SingleInv
  BY DEF Init, SingleInv, NeverEarly
<1>2. Inv /\ SingleInv /\ [Next]_vars => SingleInv'
  BY SingleStep
<1>3. SingleInv => NeverEarly
  BY DEF SingleInv
<1> QED
  BY Invariance, <1>1, <1>2, <1>3, PTL DEF Spec
=============================================================================
