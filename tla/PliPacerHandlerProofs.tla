----------------------- MODULE PliPacerHandlerProofs -----------------------
(***************************************************************************)
(* Proofs about PliPacerHandler on its Worker, for every period, timeout   *)
(* and load, and any number of references.                                 *)
(***************************************************************************)
EXTENDS PliPacerHandler, TLAPS

\* A task under way is in one place only: the scheduler, or one position of
\* the queue.  Only tasks under way are cancelled.
OnePlace ==
    /\ \A i, j \in DOMAIN queue : queue[i] \in Ref /\ queue[i] = queue[j] => i = j
    /\ \A r \in timers : ~Posted(r)
    /\ \A r \in cancelled : UnderWay(r)

\* The history variables against waiting_for_keyframe_.
WaitInv ==
    /\ waiting => ~answered
    /\ lapsed => waiting

Inv == TypeOK /\ OnePlace /\ OneTimer /\ WaitCovered /\ WaitInv

\* What remains of the timer's delay, or remained when it was posted, covers
\* what remains of the period.
PaceInv ==
    \A r \in Ref : r \notin cancelled =>
        /\ r \in timers => left[r] + sinceAsk >= MinPLIPeriod
        /\ Posted(r) => left[r] + sinceAsk >= MinPLIPeriod

-----------------------------------------------------------------------------
\* Taking the head of the queue takes that task, and no other, out of it.
LEMMA TakePosted ==
    ASSUME WorkerTypeOK, OnePlace, NEW t \in Ref \cup Job, TakeTask(t)
    PROVE  /\ queue' \in Seq(Ref \cup Job)
           /\ t \in Ref => Posted(t)
           /\ \A r \in Ref : Posted(r)' <=> Posted(r) /\ r # t
           /\ \A i, j \in DOMAIN queue' : queue'[i] \in Ref /\ queue'[i] = queue'[j] => i = j
<1>1. /\ queue \in Seq(Ref \cup Job) /\ queue # <<>>
      /\ queue' = Tail(queue) /\ queue[1] = t
  BY DEF TakeTask, WorkerTypeOK
<1>2. /\ Len(queue) \in Nat /\ Len(queue) >= 1 /\ DOMAIN queue = 1 .. Len(queue)
      /\ Tail(queue) \in Seq(Ref \cup Job)
      /\ DOMAIN Tail(queue) = 1 .. Len(queue) - 1
      /\ \A i \in 1 .. Len(queue) - 1 : Tail(queue)[i] = queue[i + 1]
  BY <1>1
<1>3. ASSUME NEW r \in Ref PROVE Posted(r)' <=> Posted(r) /\ r # t
  <2>1. ASSUME Posted(r)' PROVE Posted(r) /\ r # t
    <3>1. PICK i \in 1 .. Len(queue) - 1 : Tail(queue)[i] = r
      BY <1>1, <1>2, <2>1 DEF Posted
    <3>2. queue[i + 1] = r /\ i + 1 \in DOMAIN queue /\ 1 \in DOMAIN queue /\ i + 1 # 1
      BY <3>1, <1>2
    <3> QED
      BY <3>2, <1>1 DEF Posted, OnePlace
  <2>2. ASSUME Posted(r), r # t PROVE Posted(r)'
    <3>1. PICK i \in DOMAIN queue : queue[i] = r
      BY <2>2 DEF Posted
    <3>2. i - 1 \in 1 .. Len(queue) - 1 /\ Tail(queue)[i - 1] = r
      BY <3>1, <2>2, <1>1, <1>2
    <3> QED
      BY <3>2, <1>1, <1>2 DEF Posted
  <2> QED
    BY <2>1, <2>2
<1>4. ASSUME NEW i \in DOMAIN queue', NEW j \in DOMAIN queue',
             queue'[i] \in Ref, queue'[i] = queue'[j]
      PROVE  i = j
  <2>1. /\ i \in Nat /\ j \in Nat /\ i + 1 \in DOMAIN queue /\ j + 1 \in DOMAIN queue
        /\ queue[i + 1] \in Ref /\ queue[i + 1] = queue[j + 1]
    BY <1>1, <1>2, <1>4
  <2>2. i + 1 = j + 1
    BY <2>1 DEF OnePlace
  <2> QED
    BY <2>1, <2>2
<1>5. t \in Ref => Posted(t)
  BY <1>1, <1>2 DEF Posted
<1> QED
  BY <1>1, <1>2, <1>3, <1>4, <1>5

\* Posting a task puts it, and no other, into the queue.
LEMMA AppendPosted ==
    ASSUME WorkerTypeOK, OnePlace, NEW t \in Ref \cup Job, queue' = Append(queue, t)
    PROVE  /\ queue' \in Seq(Ref \cup Job)
           /\ \A r \in Ref : Posted(r)' <=> Posted(r) \/ r = t
           /\ ~Posted(t) \/ t \notin Ref =>
                \A i, j \in DOMAIN queue' : queue'[i] \in Ref /\ queue'[i] = queue'[j] => i = j
<1>1. /\ queue \in Seq(Ref \cup Job) /\ Len(queue) \in Nat
      /\ DOMAIN queue = 1 .. Len(queue)
      /\ queue' \in Seq(Ref \cup Job)
      /\ DOMAIN queue' = 1 .. Len(queue) + 1
      /\ \A i \in 1 .. Len(queue) : queue'[i] = queue[i]
      /\ queue'[Len(queue) + 1] = t
  BY DEF WorkerTypeOK
<1>2. ASSUME NEW r \in Ref PROVE Posted(r)' <=> Posted(r) \/ r = t
  <2>1. \A i \in DOMAIN queue' : i \in DOMAIN queue \/ i = Len(queue) + 1
    BY <1>1
  <2>2. \A i \in DOMAIN queue : i \in DOMAIN queue'
    BY <1>1
  <2>3. Len(queue) + 1 \in DOMAIN queue'
    BY <1>1
  <2> QED
    BY <1>1, <2>1, <2>2, <2>3 DEF Posted
<1>3. ASSUME ~Posted(t) \/ t \notin Ref, NEW i \in DOMAIN queue', NEW j \in DOMAIN queue',
             queue'[i] \in Ref, queue'[i] = queue'[j]
      PROVE  i = j
  <2>1. \A k \in DOMAIN queue' : k \in DOMAIN queue \/ k = Len(queue) + 1
    BY <1>1
  <2> QED
    BY <1>1, <1>3, <2>1 DEF Posted, OnePlace
<1> QED
  BY <1>1, <1>2, <1>3

-----------------------------------------------------------------------------
\* A handler just built on a worker just started satisfies Inv.
LEMMA InitInv == Init => Inv /\ PaceInv
<1> SUFFICES ASSUME Init PROVE Inv /\ PaceInv
  OBVIOUS
<1> USE WorkerAssumption, PliPacerAssumption DEF WorkerAssumption, PliPacerAssumption
<1>1. TypeOK
  <2>1. /\ 0 \in 0 .. MaxDelay /\ 0 \in 0 .. KeyframeTimeout
        /\ MinPLIPeriod \in 0 .. MinPLIPeriod
    OBVIOUS
  <2>2. <<>> \in Seq(Ref \cup Job) /\ left \in [Ref -> 0 .. MaxDelay]
    BY <2>1 DEF Init, WorkerInit
  <2> QED
    BY <2>1, <2>2, Zenon DEF Init, WorkerInit, TypeOK, WorkerTypeOK
<1>2. \A r : ~UnderWay(r)
  BY DEF Init, WorkerInit, UnderWay, Posted
<1>3. OnePlace
  BY DEF Init, WorkerInit, OnePlace
<1>4. OneTimer /\ WaitCovered /\ WaitInv
  BY <1>2 DEF Init, OneTimer, WaitCovered, WaitInv, Live
<1>5. PaceInv
  BY <1>2 DEF PaceInv, UnderWay
<1> QED
  BY <1>1, <1>3, <1>4, <1>5 DEF Inv

\* What a task of the worker does to the tasks under way, when it schedules
\* none: it is gone itself.
LEMMA TakeOnly ==
    ASSUME Inv, NEW t \in Ref \cup Job, TakeTask(t),
           timers' = timers, cancelled' = cancelled, t \notin cancelled
    PROVE  /\ OnePlace'
           /\ queue' \in Seq(Ref \cup Job)
           /\ \A r \in Ref : UnderWay(r)' <=> UnderWay(r) /\ r # t
           /\ \A r \in Ref : Live(r)' <=> Live(r) /\ r # t
<1>1. /\ queue' \in Seq(Ref \cup Job)
      /\ t \in Ref => Posted(t)
      /\ \A r \in Ref : Posted(r)' <=> Posted(r) /\ r # t
      /\ \A i, j \in DOMAIN queue' : queue'[i] \in Ref /\ queue'[i] = queue'[j] => i = j
  BY TakePosted DEF Inv, TypeOK
<1>2. timers \subseteq Ref /\ cancelled \subseteq Ref
  BY DEF Inv, TypeOK, WorkerTypeOK
<1>3. \A r \in Ref : UnderWay(r)' <=> UnderWay(r) /\ r # t
  BY <1>1, <1>2 DEF Inv, OnePlace, UnderWay
<1>4. OnePlace'
  BY <1>1, <1>2, <1>3 DEF Inv, OnePlace
<1>5. \A r \in Ref : Live(r)' <=> Live(r) /\ r # t
  BY <1>3 DEF Live
<1> QED
  BY <1>1, <1>3, <1>4, <1>5

\* The same for a task that schedules the next repetition.
LEMMA TakeAndSchedule ==
    ASSUME Inv, NEW t \in Ref \cup Job, TakeTask(t), t \notin cancelled,
           cancelled' = cancelled, ScheduleNextPLI
    PROVE  /\ OnePlace'
           /\ queue' \in Seq(Ref \cup Job)
           /\ timers' \subseteq Ref
           /\ left' \in [Ref -> 0 .. MaxDelay]
           /\ scheduled_pli' \in Ref
           /\ left'[scheduled_pli'] = MinPLIPeriod
           /\ \A r \in Ref : Live(r)' <=> (Live(r) /\ r # t) \/ r = scheduled_pli'
           /\ \A r \in Ref : r \in timers' <=> r \in timers \/ r = scheduled_pli'
           /\ \A r \in Ref : r # scheduled_pli' => left'[r] = left[r]
           /\ \A r \in Ref : Posted(r)' => Posted(r) /\ r # scheduled_pli'
<1> USE WorkerAssumption, PliPacerAssumption DEF WorkerAssumption, PliPacerAssumption
<1>1. /\ queue' \in Seq(Ref \cup Job)
      /\ t \in Ref => Posted(t)
      /\ \A r \in Ref : Posted(r)' <=> Posted(r) /\ r # t
      /\ \A i, j \in DOMAIN queue' : queue'[i] \in Ref /\ queue'[i] = queue'[j] => i = j
  BY TakePosted DEF Inv, TypeOK
<1>2. timers \subseteq Ref /\ cancelled \subseteq Ref /\ left \in [Ref -> 0 .. MaxDelay]
  BY DEF Inv, TypeOK, WorkerTypeOK
<1>3. PICK n \in Ref : /\ ~UnderWay(n)
                       /\ timers' = timers \cup {n}
                       /\ left' = [left EXCEPT ![n] = MinPLIPeriod]
                       /\ scheduled_pli' = n
  BY DEF ScheduleNextPLI, ScheduleFromNow
<1>4. ~Posted(n) /\ n \notin timers /\ n \notin cancelled
  BY <1>3 DEF UnderWay, Inv, OnePlace
<1>5. \A r \in Ref : UnderWay(r)' <=> (UnderWay(r) /\ r # t) \/ r = n
  BY <1>1, <1>2, <1>3, <1>4 DEF Inv, OnePlace, UnderWay
<1>6. OnePlace'
  BY <1>1, <1>2, <1>3, <1>4, <1>5 DEF Inv, OnePlace
<1>7. \A r \in Ref : Live(r)' <=> (Live(r) /\ r # t) \/ r = n
  BY <1>5, <1>4 DEF Live
<1>8. left' \in [Ref -> 0 .. MaxDelay] /\ left'[n] = MinPLIPeriod
      /\ \A r \in Ref : r # n => left'[r] = left[r]
  BY <1>2, <1>3
<1> QED
  BY <1>1, <1>2, <1>3, <1>4, <1>6, <1>7, <1>8

-----------------------------------------------------------------------------
\* Inv is preserved when the worker's thread runs a task.
LEMMA RunTaskInv == Inv /\ RunTask => Inv'
<1> SUFFICES ASSUME Inv, RunTask PROVE Inv'
  OBVIOUS
<1> USE WorkerAssumption, PliPacerAssumption
<1>t. TypeOK /\ WorkerTypeOK /\ OnePlace /\ OneTimer /\ WaitCovered /\ WaitInv
  BY DEF Inv, TypeOK
<1>j. {"keyframe", "pli", "enable", "disable"} = Job /\ Job \cap cancelled = {}
  BY <1>t DEF PliPacerAssumption, WorkerAssumption, WorkerTypeOK
<1>1. CASE Read
  <2>1. PICK t \in Job : t = "keyframe" /\ TakeTask(t)
    BY <1>1, <1>j DEF Read
  <2>2. CASE ~enabled
    <3>1. /\ timers' = timers /\ left' = left /\ cancelled' = cancelled
          /\ UNCHANGED pacerVars /\ closed' = closed /\ thread' = thread
      BY <1>1, <2>2 DEF Read, TakeTask, pacerVars
    <3>2. /\ OnePlace' /\ queue' \in Seq(Ref \cup Job)
          /\ \A r \in Ref : Live(r)' <=> Live(r) /\ r # t
      BY <2>1, <3>1, <1>j, TakeOnly
    <3>3. \A r \in Ref : Live(r)' <=> Live(r)
      BY <3>2, <2>1 DEF WorkerAssumption
    <3> QED
      BY <3>1, <3>2, <3>3, <1>t
      DEF Inv, TypeOK, WorkerTypeOK, OneTimer, WaitCovered, WaitInv, pacerVars
  <2>3. CASE enabled
    <3>1. /\ timers' = timers /\ left' = left /\ closed' = closed /\ thread' = thread
          /\ cancelled' = cancelled \cup {s \in {scheduled_pli} : UnderWay(s)}
          /\ scheduled_pli' = NoRef /\ waiting' = FALSE /\ answered' = TRUE
          /\ lapsed' = FALSE /\ sinceKeyframe' = 0
          /\ enabled' = enabled /\ sinceAsk' = sinceAsk
      BY <1>1, <2>3 DEF Read, TakeTask, Unschedule
    <3>2. /\ queue' \in Seq(Ref \cup Job)
          /\ \A r \in Ref : Posted(r)' <=> Posted(r) /\ r # t
          /\ \A i, j \in DOMAIN queue' : queue'[i] \in Ref /\ queue'[i] = queue'[j] => i = j
      BY <2>1, <1>t, TakePosted
    <3>3. \A r \in Ref : Posted(r)' <=> Posted(r)
      BY <3>2, <2>1 DEF WorkerAssumption
    <3>4. \A r \in Ref : UnderWay(r)' <=> UnderWay(r)
      BY <3>1, <3>3 DEF UnderWay
    <3>5. ~UnderWay(NoRef)
      BY <1>t, <1>j DEF UnderWay, Posted, WorkerTypeOK, PliPacerAssumption
    <3>6. cancelled' \subseteq Ref
      BY <3>1, <3>5, <1>t DEF TypeOK, WorkerTypeOK
    <3>7. OnePlace'
      BY <3>1, <3>2, <3>3, <3>4, <3>6, <1>t DEF OnePlace, WorkerTypeOK
    <3>8. \A r \in Ref : ~Live(r)'
      BY <3>1, <3>4, <1>t DEF Live, OneTimer
    <3>9. 0 \in 0 .. KeyframeTimeout
      BY DEF PliPacerAssumption
    <3> QED
      BY <3>1, <3>2, <3>6, <3>7, <3>8, <3>9, <1>t
      DEF Inv, TypeOK, WorkerTypeOK, OneTimer, WaitCovered, WaitInv
  <2> QED
    BY <2>2, <2>3, <1>t DEF TypeOK
<1>2. CASE Write
  <2>1. PICK t \in Job : t = "pli" /\ TakeTask(t)
    BY <1>2, <1>j DEF Write
  <2>2. CASE enabled /\ ~waiting
    <3>1. /\ cancelled' = cancelled /\ closed' = closed /\ thread' = thread
          /\ ScheduleNextPLI /\ waiting' = TRUE /\ sinceAsk' = 0 /\ answered' = FALSE
          /\ enabled' = enabled /\ sinceKeyframe' = sinceKeyframe /\ lapsed' = lapsed
      BY <1>2, <2>2 DEF Write, StartWait, TakeTask
    <3>2. /\ OnePlace' /\ queue' \in Seq(Ref \cup Job) /\ timers' \subseteq Ref
          /\ left' \in [Ref -> 0 .. MaxDelay] /\ scheduled_pli' \in Ref
          /\ \A r \in Ref : Live(r)' <=> (Live(r) /\ r # t) \/ r = scheduled_pli'
      BY <2>1, <3>1, <1>j, TakeAndSchedule
    <3>3. \A r \in Ref : Live(r)' <=> r = scheduled_pli'
      BY <3>2, <2>2, <1>t DEF OneTimer
    <3>4. 0 \in 0 .. MinPLIPeriod
      BY DEF PliPacerAssumption
    <3>5. TypeOK'
      BY <3>1, <3>2, <3>4, <1>t DEF TypeOK, WorkerTypeOK
    <3>6. OneTimer' /\ WaitCovered' /\ WaitInv'
      BY <3>1, <3>2, <3>3 DEF OneTimer, WaitCovered, WaitInv, Live
    <3> QED
      BY <3>2, <3>5, <3>6 DEF Inv
  <2>3. CASE ~(enabled /\ ~waiting)
    <3>1. /\ timers' = timers /\ left' = left /\ cancelled' = cancelled
          /\ UNCHANGED pacerVars /\ closed' = closed /\ thread' = thread
      BY <1>2, <2>3 DEF Write, TakeTask, pacerVars
    <3>2. /\ OnePlace' /\ queue' \in Seq(Ref \cup Job)
          /\ \A r \in Ref : Live(r)' <=> Live(r) /\ r # t
      BY <2>1, <3>1, <1>j, TakeOnly
    <3>3. \A r \in Ref : Live(r)' <=> Live(r)
      BY <3>2, <2>1 DEF WorkerAssumption
    <3> QED
      BY <3>1, <3>2, <3>3, <1>t
      DEF Inv, TypeOK, WorkerTypeOK, OneTimer, WaitCovered, WaitInv, pacerVars
  <2> QED
    BY <2>2, <2>3
<1>3. CASE SetEnabled
  <2>1. PICK t \in Job : TakeTask(t) /\ enabled' \in BOOLEAN
    BY <1>3, <1>j DEF SetEnabled
  <2>2. /\ timers' = timers /\ left' = left /\ cancelled' = cancelled
        /\ UNCHANGED <<waiting, scheduled_pli, sinceKeyframe, sinceAsk, answered, lapsed>>
        /\ closed' = closed /\ thread' = thread
    BY <1>3, <2>1 DEF SetEnabled, TakeTask
  <2>3. /\ OnePlace' /\ queue' \in Seq(Ref \cup Job)
        /\ \A r \in Ref : Live(r)' <=> Live(r) /\ r # t
    BY <2>1, <2>2, <1>j, TakeOnly
  <2>4. \A r \in Ref : Live(r)' <=> Live(r)
    BY <2>3, <2>1 DEF WorkerAssumption
  <2> QED
    BY <2>1, <2>2, <2>3, <2>4, <1>t
    DEF Inv, TypeOK, WorkerTypeOK, OneTimer, WaitCovered, WaitInv
<1>4. ASSUME NEW r \in Ref, TakeCancelled(r), UNCHANGED pacerVars PROVE Inv'
  <2>1. /\ TakeTask(r) /\ r \in cancelled /\ cancelled' = cancelled \ {r}
        /\ timers' = timers /\ left' = left /\ closed' = closed /\ thread' = thread
    BY <1>4 DEF TakeCancelled, TakeTask
  <2>2. /\ queue' \in Seq(Ref \cup Job) /\ Posted(r)
        /\ \A s \in Ref : Posted(s)' <=> Posted(s) /\ s # r
        /\ \A i, j \in DOMAIN queue' : queue'[i] \in Ref /\ queue'[i] = queue'[j] => i = j
    BY <2>1, <1>t, TakePosted
  <2>3. \A s \in Ref : UnderWay(s)' <=> UnderWay(s) /\ s # r
    BY <2>1, <2>2, <1>t DEF UnderWay, OnePlace
  <2>4. OnePlace'
    BY <2>1, <2>2, <2>3, <1>t DEF OnePlace, WorkerTypeOK
  <2>5. \A s \in Ref : Live(s)' <=> Live(s)
    BY <2>1, <2>3 DEF Live
  <2> QED
    BY <2>1, <2>2, <2>4, <2>5, <1>4, <1>t
    DEF Inv, TypeOK, WorkerTypeOK, OneTimer, WaitCovered, WaitInv, pacerVars
<1>5. ASSUME NEW r \in Ref, SendPLI(r) PROVE Inv'
  <2>1. /\ TakeTask(r) /\ r \notin cancelled /\ cancelled' = cancelled
        /\ closed' = closed /\ thread' = thread /\ sinceAsk' = 0
        /\ enabled' = enabled /\ waiting' = waiting /\ sinceKeyframe' = sinceKeyframe
        /\ answered' = answered
    BY <1>5 DEF SendPLI, TakeTask
  <2>2. Posted(r) /\ Live(r) /\ r = scheduled_pli /\ waiting
    BY <2>1, <1>t, TakePosted DEF Live, UnderWay, OneTimer
  <2>3. 0 \in 0 .. MinPLIPeriod
    BY DEF PliPacerAssumption
  <2>4. CASE waiting /\ enabled
    <3>1. ScheduleNextPLI /\ lapsed' = lapsed
      BY <1>5, <2>4 DEF SendPLI
    <3>2. /\ OnePlace' /\ queue' \in Seq(Ref \cup Job) /\ timers' \subseteq Ref
          /\ left' \in [Ref -> 0 .. MaxDelay] /\ scheduled_pli' \in Ref
          /\ \A s \in Ref : Live(s)' <=> (Live(s) /\ s # r) \/ s = scheduled_pli'
      BY <2>1, <3>1, TakeAndSchedule
    <3>3. \A s \in Ref : Live(s)' <=> s = scheduled_pli'
      BY <3>2, <2>2, <1>t DEF OneTimer
    <3>4. TypeOK'
      BY <2>1, <2>3, <3>1, <3>2, <1>t DEF TypeOK, WorkerTypeOK
    <3>5. OneTimer' /\ WaitCovered' /\ WaitInv'
      BY <2>1, <2>2, <3>1, <3>2, <3>3, <1>t DEF OneTimer, WaitCovered, WaitInv, Live
    <3> QED
      BY <3>2, <3>4, <3>5 DEF Inv
  <2>5. CASE ~(waiting /\ enabled)
    <3>1. /\ lapsed' = TRUE /\ timers' = timers /\ left' = left
          /\ scheduled_pli' = scheduled_pli
      BY <1>5, <2>5 DEF SendPLI
    <3>2. /\ OnePlace' /\ queue' \in Seq(Ref \cup Job)
          /\ \A s \in Ref : Live(s)' <=> Live(s) /\ s # r
      BY <2>1, <3>1, TakeOnly
    <3>3. TypeOK'
      BY <2>1, <2>3, <3>1, <3>2, <1>t DEF TypeOK, WorkerTypeOK
    <3>4. OneTimer' /\ WaitCovered' /\ WaitInv'
      BY <2>1, <2>2, <3>1, <3>2, <1>t DEF OneTimer, WaitCovered, WaitInv
    <3> QED
      BY <3>2, <3>3, <3>4 DEF Inv
  <2> QED
    BY <2>4, <2>5
<1>6. ASSUME NEW r \in Ref, SendFIR(r) PROVE Inv'
  <2>1. /\ TakeTask(r) /\ r \notin cancelled /\ cancelled' = cancelled
        /\ timers' = timers /\ left' = left /\ closed' = closed /\ thread' = thread
        /\ waiting' = FALSE /\ scheduled_pli' = NoRef /\ lapsed' = FALSE
        /\ UNCHANGED <<enabled, sinceKeyframe, sinceAsk, answered>>
    BY <1>6 DEF SendFIR, TakeTask
  <2>2. Posted(r) /\ r = scheduled_pli
    BY <2>1, <1>t, TakePosted DEF Live, UnderWay, OneTimer
  <2>3. /\ OnePlace' /\ queue' \in Seq(Ref \cup Job)
        /\ \A s \in Ref : Live(s)' <=> Live(s) /\ s # r
    BY <2>1, TakeOnly
  <2>4. \A s \in Ref : ~Live(s)'
    BY <2>2, <2>3, <1>t DEF OneTimer
  <2> QED
    BY <2>1, <2>3, <2>4, <1>t
    DEF Inv, TypeOK, WorkerTypeOK, OneTimer, WaitCovered, WaitInv
<1> QED
  BY <1>1, <1>2, <1>3, <1>4, <1>5, <1>6 DEF RunTask

\* Inv is preserved by the steps of other threads and of the clock.
LEMMA OtherInv == Inv /\ [Next]_vars /\ ~RunTask => Inv'
<1> SUFFICES ASSUME Inv, [Next]_vars, ~RunTask PROVE Inv'
  OBVIOUS
<1> USE WorkerAssumption, PliPacerAssumption
<1>t. TypeOK /\ WorkerTypeOK /\ OnePlace /\ OneTimer /\ WaitCovered /\ WaitInv
  BY DEF Inv, TypeOK
<1>s. ASSUME UNCHANGED <<queue, timers, cancelled>>, TypeOK', WaitInv', UNCHANGED <<scheduled_pli, waiting, lapsed>>
      PROVE Inv'
  <2>1. \A r : Live(r)' <=> Live(r)
    BY <1>s DEF Live, UnderWay, Posted
  <2>2. OnePlace'
    BY <1>s, <1>t DEF OnePlace, UnderWay, Posted
  <2> QED
    BY <1>s, <1>t, <2>1, <2>2 DEF Inv, OneTimer, WaitCovered
<1>1. CASE Tick
  <2>1. left' \in [Ref -> 0 .. MaxDelay]
    <3>1. \A r \in Ref : left[r] \in 0 .. MaxDelay
      BY <1>t DEF WorkerTypeOK
    <3>2. \A r \in Ref : (IF r \in timers /\ left[r] > 0 THEN left[r] - 1 ELSE left[r]) \in 0 .. MaxDelay
      BY <3>1 DEF WorkerAssumption
    <3> QED
      BY <1>1, <3>2 DEF Tick, Elapse
  <2>2. sinceKeyframe' \in 0 .. KeyframeTimeout /\ sinceAsk' \in 0 .. MinPLIPeriod
    BY <1>1, <1>t DEF Tick, TypeOK, PliPacerAssumption
  <2>3. /\ UNCHANGED <<queue, timers, cancelled, closed, thread>>
        /\ UNCHANGED <<enabled, waiting, scheduled_pli, answered, lapsed>>
    BY <1>1 DEF Tick, Elapse
  <2>4. TypeOK' /\ WaitInv'
    BY <2>1, <2>2, <2>3, <1>t DEF TypeOK, WorkerTypeOK, WaitInv
  <2> QED
    BY <2>3, <2>4, <1>s
<1>2. ASSUME NEW j \in Job, Post(j), UNCHANGED pacerVars PROVE Inv'
  <2>1. /\ queue' = Append(queue, j) /\ j \notin Ref
        /\ UNCHANGED <<timers, left, cancelled, closed, thread>>
    BY <1>2 DEF Post, WorkerAssumption
  <2>2. /\ queue' \in Seq(Ref \cup Job)
        /\ \A r \in Ref : Posted(r)' <=> Posted(r) \/ r = j
        /\ \A i, k \in DOMAIN queue' : queue'[i] \in Ref /\ queue'[i] = queue'[k] => i = k
    BY <2>1, <1>t, AppendPosted
  <2>3. \A r \in Ref : (Posted(r)' <=> Posted(r)) /\ (UnderWay(r)' <=> UnderWay(r)) /\ (Live(r)' <=> Live(r))
    BY <2>1, <2>2 DEF UnderWay, Live
  <2>4. OnePlace'
    BY <2>1, <2>2, <2>3, <1>t DEF OnePlace, WorkerTypeOK
  <2> QED
    BY <2>1, <2>2, <2>3, <2>4, <1>2, <1>t
    DEF Inv, TypeOK, WorkerTypeOK, OneTimer, WaitCovered, WaitInv, pacerVars
<1>3. ASSUME NEW r \in Ref, TimerFires(r), UNCHANGED pacerVars PROVE Inv'
  <2>1. /\ queue' = Append(queue, r) /\ r \in timers /\ timers' = timers \ {r}
        /\ UNCHANGED <<left, cancelled, closed, thread>>
    BY <1>3 DEF TimerFires
  <2>2. ~Posted(r)
    BY <2>1, <1>t DEF OnePlace
  <2>3. /\ queue' \in Seq(Ref \cup Job)
        /\ \A s \in Ref : Posted(s)' <=> Posted(s) \/ s = r
        /\ \A i, k \in DOMAIN queue' : queue'[i] \in Ref /\ queue'[i] = queue'[k] => i = k
    BY <2>1, <2>2, <1>t, AppendPosted
  <2>4. \A s \in Ref : (UnderWay(s)' <=> UnderWay(s)) /\ (Live(s)' <=> Live(s))
    BY <2>1, <2>3 DEF UnderWay, Live
  <2>5. OnePlace'
    BY <2>1, <2>3, <2>4, <1>t DEF OnePlace, WorkerTypeOK
  <2> QED
    BY <2>1, <2>3, <2>4, <2>5, <1>3, <1>t
    DEF Inv, TypeOK, WorkerTypeOK, OneTimer, WaitCovered, WaitInv, pacerVars
<1>4. ASSUME Begin \/ Close \/ Finish, UNCHANGED pacerVars PROVE Inv'
  BY <1>4, <1>s, <1>t DEF Begin, Close, Finish, TypeOK, WorkerTypeOK, WaitInv, pacerVars
<1>5. CASE UNCHANGED vars
  BY <1>5, <1>s, <1>t DEF vars, workerVars, pacerVars, TypeOK, WorkerTypeOK, WaitInv
<1> QED
  BY <1>1, <1>2, <1>3, <1>4, <1>5 DEF Next

\* Inv is an invariant.
THEOREM Invariance == Spec => []Inv
<1>1. Init => Inv
  BY InitInv
<1>2. Inv /\ [Next]_vars => Inv'
  BY RunTaskInv, OtherInv
<1> QED
  BY <1>1, <1>2, PTL DEF Spec

\* One repetition under way at most, for every instance (PliPacerHandler::scheduleNextPLI).
THEOREM OneTimerTheorem == Spec => []OneTimer
<1>1. Inv => OneTimer
  BY DEF Inv
<1> QED
  BY <1>1, Invariance, PTL

\* Swallowed PLIs are covered by a timer, for every instance (PliPacerHandler::write).
THEOREM WaitCoveredTheorem == Spec => []WaitCovered
<1>1. Inv => WaitCovered
  BY DEF Inv
<1> QED
  BY <1>1, Invariance, PTL

\* Type correctness of the handler and its worker, for every instance.
THEOREM TypeOKTheorem == Spec => []TypeOK
<1>1. Inv => TypeOK
  BY DEF Inv
<1> QED
  BY <1>1, Invariance, PTL

\* A timer's task that runs is the one under way, in a wait that is not answered.
LEMMA RunsWhileWaiting ==
    ASSUME Inv, NEW r \in Ref, SendPLI(r) \/ SendFIR(r)
    PROVE  Live(r) /\ Posted(r) /\ waiting /\ ~answered
<1>1. TakeTask(r) /\ r \notin cancelled
  BY DEF SendPLI, SendFIR
<1>2. Posted(r)
  BY <1>1, TakePosted DEF Inv, TypeOK
<1> QED
  BY <1>1, <1>2 DEF Live, UnderWay, Inv, OneTimer, WaitInv

\* A keyframe stops the timer even if its task is already in the worker's
\* queue, for every instance (PliPacerHandler::read, Worker::unschedule).
THEOREM NoRequestAfterKeyframeTheorem == Spec => NoRequestAfterKeyframe
<1>1. Inv /\ [Next]_vars => [\A r \in Ref : SendPLI(r) \/ SendFIR(r) => ~answered]_vars
  BY RunsWhileWaiting
<1> QED
  BY <1>1, Invariance, PTL DEF Spec, NoRequestAfterKeyframe

-----------------------------------------------------------------------------
\* PaceInv is preserved, although timers may be early.
LEMMA PaceStep ==
    ASSUME Inv, Inv', PaceInv, [Next]_vars
    PROVE  PaceInv'
<1> USE WorkerAssumption, PliPacerAssumption
<1>t. /\ WorkerTypeOK /\ OnePlace /\ OneTimer
      /\ \A r \in Ref : left[r] \in 0 .. MaxDelay
      /\ sinceAsk \in 0 .. MinPLIPeriod /\ MinPLIPeriod \in Nat
  BY DEF Inv, TypeOK, WorkerTypeOK, PliPacerAssumption
<1>j. Job \cap cancelled = {} /\ Job \cap Ref = {} /\ \A j \in {"keyframe", "pli", "enable", "disable"} : j \in Job
  BY <1>t DEF PliPacerAssumption, WorkerAssumption, WorkerTypeOK
<1>k. ASSUME NEW t \in Ref \cup Job, TakeTask(t), timers' = timers, left' = left,
             sinceAsk' = sinceAsk,
             \A r \in Ref : r \in cancelled /\ r \notin cancelled' => r = t
      PROVE  PaceInv'
  <2>1. /\ \A r \in Ref : Posted(r)' <=> Posted(r) /\ r # t
        /\ t \in Ref => Posted(t)
    BY <1>k, <1>t, TakePosted
  <2>2. t \notin timers
    BY <2>1, <1>t DEF OnePlace, WorkerTypeOK
  <2> QED
    BY <1>k, <2>1, <2>2 DEF PaceInv
<1>n. ASSUME \A r \in Ref : ~Live(r)' PROVE PaceInv'
  BY <1>n DEF PaceInv, Live, UnderWay
<1>1. CASE Read
  BY <1>1, <1>j, <1>k DEF Read, Unschedule
<1>2. CASE Write
  <2>1. CASE enabled /\ ~waiting
    <3>1. /\ TakeTask("pli") /\ ScheduleNextPLI /\ cancelled' = cancelled
          /\ sinceAsk' = 0
      BY <1>2, <2>1 DEF Write, StartWait
    <3>2. /\ left'[scheduled_pli'] = MinPLIPeriod
          /\ \A r \in Ref : Posted(r)' => Posted(r) /\ r # scheduled_pli'
          /\ \A r \in Ref : r \in timers' <=> r \in timers \/ r = scheduled_pli'
      BY <3>1, <1>j, TakeAndSchedule
    <3>3. \A r \in Ref : ~Live(r)
      BY <2>1, <1>t DEF OneTimer
    <3> QED
      BY <3>1, <3>2, <3>3, <1>t DEF PaceInv, Live, UnderWay
  <2>2. CASE ~(enabled /\ ~waiting)
    BY <1>2, <2>2, <1>j, <1>k DEF Write
  <2> QED
    BY <2>1, <2>2
<1>3. CASE SetEnabled
  BY <1>3, <1>j, <1>k DEF SetEnabled
<1>4. ASSUME NEW r \in Ref, TakeCancelled(r), UNCHANGED pacerVars PROVE PaceInv'
  BY <1>4, <1>k DEF TakeCancelled, pacerVars
<1>5. ASSUME NEW r \in Ref, SendPLI(r) PROVE PaceInv'
  <2>1. /\ TakeTask(r) /\ r \notin cancelled /\ cancelled' = cancelled /\ sinceAsk' = 0
    BY <1>5 DEF SendPLI
  <2>2. Posted(r) /\ r = scheduled_pli /\ waiting
    BY <2>1, <1>t, TakePosted DEF Live, UnderWay, OneTimer
  <2>3. CASE waiting /\ enabled
    <3>1. ScheduleNextPLI
      BY <1>5, <2>3 DEF SendPLI
    <3>2. /\ left'[scheduled_pli'] = MinPLIPeriod
          /\ scheduled_pli' \in Ref
          /\ \A s \in Ref : Live(s)' <=> (Live(s) /\ s # r) \/ s = scheduled_pli'
          /\ \A s \in Ref : Posted(s)' => Posted(s) /\ s # scheduled_pli'
      BY <2>1, <3>1, TakeAndSchedule
    <3>3. \A s \in Ref : Live(s)' => s = scheduled_pli'
      BY <3>2, <2>2, <1>t DEF OneTimer
    <3> QED
      BY <2>1, <3>2, <3>3, <1>t DEF PaceInv, Live, UnderWay
  <2>4. CASE ~(waiting /\ enabled)
    <3>1. timers' = timers
      BY <1>5, <2>4 DEF SendPLI
    <3>2. \A s \in Ref : Live(s)' <=> Live(s) /\ s # r
      BY <2>1, <3>1, TakeOnly
    <3> QED
      BY <3>2, <2>2, <1>t, <1>n DEF OneTimer
  <2> QED
    BY <2>3, <2>4
<1>6. ASSUME NEW r \in Ref, SendFIR(r) PROVE PaceInv'
  BY <1>6, <1>k DEF SendFIR
<1>7. CASE Tick
  <2>1. /\ \A r : Posted(r)' <=> Posted(r)
        /\ timers' = timers /\ cancelled' = cancelled
    BY <1>7 DEF Tick, Elapse, Posted
  <2>2. /\ \A r \in Ref : left'[r] = IF r \in timers /\ left[r] > 0 THEN left[r] - 1 ELSE left[r]
        /\ sinceAsk' = IF sinceAsk < MinPLIPeriod THEN sinceAsk + 1 ELSE sinceAsk
    BY <1>7 DEF Tick, Elapse
  <2>3. ASSUME NEW r \in Ref, r \notin cancelled PROVE
          /\ r \in timers => left'[r] + sinceAsk' >= MinPLIPeriod
          /\ Posted(r) => left'[r] + sinceAsk' >= MinPLIPeriod
    <3>1. Posted(r) => r \notin timers
      BY <1>t DEF OnePlace
    <3> QED
      BY <2>2, <2>3, <3>1, <1>t DEF PaceInv
  <2> QED
    BY <2>1, <2>3 DEF PaceInv
<1>8. ASSUME NEW j \in Job, Post(j), UNCHANGED pacerVars PROVE PaceInv'
  <2>1. queue' = Append(queue, j) /\ UNCHANGED <<timers, left, cancelled, sinceAsk>>
    BY <1>8 DEF Post, pacerVars
  <2>2. \A r \in Ref : Posted(r)' <=> Posted(r)
    BY <2>1, <1>t, <1>j, AppendPosted
  <2> QED
    BY <2>1, <2>2 DEF PaceInv
<1>9. ASSUME NEW r \in Ref, TimerFires(r), UNCHANGED pacerVars PROVE PaceInv'
  <2>1. /\ queue' = Append(queue, r) /\ r \in timers
        /\ timers' = timers \ {r} /\ UNCHANGED <<left, cancelled, sinceAsk>>
    BY <1>9 DEF TimerFires, pacerVars
  <2>2. \A s \in Ref : Posted(s)' <=> Posted(s) \/ s = r
    BY <2>1, <1>t, AppendPosted
  <2> QED
    BY <2>1, <2>2, <1>t DEF PaceInv
<1>10. ASSUME ((Begin \/ Close \/ Finish) /\ UNCHANGED pacerVars) \/ UNCHANGED vars PROVE PaceInv'
  BY <1>10 DEF Begin, Close, Finish, vars, workerVars, pacerVars, PaceInv, Posted
<1> QED
  BY <1>1, <1>2, <1>3, <1>4, <1>5, <1>6, <1>7, <1>8, <1>9, <1>10 DEF Next, RunTask

\* A request less than kMinPLIPeriod after the one before comes from a timer
\* that was early itself, for every instance and however often the scheduler
\* is early (PliPacerHandler::sendPLI, scheduleNextPLI).
THEOREM PacedTheorem == Spec => Paced
<1>1. Init => PaceInv
  BY InitInv
<1>2. Inv /\ Inv' /\ PaceInv /\ [Next]_vars => PaceInv'
  BY PaceStep
<1>3. Inv /\ PaceInv =>
        [\A r \in Ref : (SendPLI(r) \/ SendFIR(r)) /\ left[r] = 0
                         => sinceAsk >= MinPLIPeriod]_vars
  <2> SUFFICES ASSUME Inv, PaceInv, NEW r \in Ref, SendPLI(r) \/ SendFIR(r), left[r] = 0
               PROVE  sinceAsk >= MinPLIPeriod
    OBVIOUS
  <2>1. Posted(r) /\ r \notin cancelled
    BY RunsWhileWaiting DEF Live
  <2>2. sinceAsk \in Nat
    BY PliPacerAssumption DEF Inv, TypeOK, PliPacerAssumption
  <2> QED
    BY <2>1, <2>2 DEF PaceInv
<1> QED
  BY <1>1, <1>2, <1>3, Invariance, PTL DEF Spec, Paced
=============================================================================
