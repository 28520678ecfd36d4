-------------------------- MODULE PliPacerHandler --------------------------
(***************************************************************************)
(* The handler that paces keyframe requests                                *)
(* (licodecore/erizo/rtp/PliPacerHandler.cpp) on its stream's Worker: the  *)
(* first PLI passes and starts a wait for a keyframe, further PLIs are     *)
(* swallowed, and a timer repeats the PLI until a keyframe comes or a FIR  *)
(* is sent instead.                                                        *)
(*                                                                         *)
(* read(), write(), enable() and disable() and the timer are tasks of the  *)
(* worker.  Other packets pass and change nothing.  The numbers and SSRCs  *)
(* in the packets are left out.                                            *)
(***************************************************************************)
EXTENDS Worker

CONSTANTS
    MinPLIPeriod,     \* kMinPLIPeriod, in ticks
    KeyframeTimeout,  \* kKeyframeTimeout, in ticks
    NoRef             \* a reference made without a task

ASSUME PliPacerAssumption ==
    /\ MinPLIPeriod \in Nat \ {0}
    /\ KeyframeTimeout \in Nat
    /\ MaxDelay = MinPLIPeriod
    /\ NoRef \notin Ref \cup Job
    /\ Job = {"keyframe", "pli", "enable", "disable"}

VARIABLES
    enabled,       \* enabled_
    waiting,       \* waiting_for_keyframe_
    scheduled_pli, \* scheduled_pli_
    sinceKeyframe, \* now - time_last_keyframe_, up to KeyframeTimeout
    sinceAsk,      \* history: time since the pacer let or made a PLI pass, up to MinPLIPeriod
    answered,      \* history: a keyframe was seen after the last PLI that started a wait
    lapsed         \* history: the timer ran in this wait while the handler was disabled

pacerVars == <<enabled, waiting, scheduled_pli, sinceKeyframe, sinceAsk, answered, lapsed>>
vars == <<workerVars, pacerVars>>

TypeOK ==
    /\ WorkerTypeOK
    /\ enabled \in BOOLEAN
    /\ waiting \in BOOLEAN
    /\ scheduled_pli \in Ref \cup {NoRef}
    /\ sinceKeyframe \in 0 .. KeyframeTimeout
    /\ sinceAsk \in 0 .. MinPLIPeriod
    /\ answered \in BOOLEAN
    /\ lapsed \in BOOLEAN

Init ==
    /\ WorkerInit
    /\ enabled = TRUE
    /\ waiting = FALSE
    /\ scheduled_pli = NoRef
    /\ sinceKeyframe = 0
    /\ sinceAsk = MinPLIPeriod
    /\ answered = TRUE
    /\ lapsed = FALSE

-----------------------------------------------------------------------------
\* scheduleNextPLI() when the handler waits and is enabled.
ScheduleNextPLI ==
    \E r \in Ref : /\ ~UnderWay(r) /\ r # scheduled_pli
                   /\ ScheduleFromNow(r, MinPLIPeriod)
                   /\ scheduled_pli' = r

\* read() of a keyframe.
Read_NotCancelled ==
    /\ TakeTask("keyframe")
    /\ IF enabled
       THEN /\ sinceKeyframe' = 0
            /\ waiting' = FALSE
            /\ scheduled_pli' = NoRef
            /\ answered' = TRUE
            /\ lapsed' = FALSE
       ELSE UNCHANGED <<sinceKeyframe, waiting, scheduled_pli, answered, lapsed>>
    /\ UNCHANGED <<timers, left, cancelled, enabled, sinceAsk>>

Read ==
    /\ TakeTask("keyframe")
    /\ IF enabled
       THEN /\ sinceKeyframe' = 0
            /\ waiting' = FALSE
            /\ Unschedule(scheduled_pli)
            /\ scheduled_pli' = NoRef
            /\ answered' = TRUE
            /\ lapsed' = FALSE
       ELSE UNCHANGED <<cancelled, sinceKeyframe, waiting, scheduled_pli, answered, lapsed>>
    /\ UNCHANGED <<timers, left, enabled, sinceAsk>>

\* write() of a PLI that starts a wait.
StartWait ==
    /\ waiting' = TRUE
    /\ ScheduleNextPLI
    /\ sinceAsk' = 0
    /\ answered' = FALSE

\* write() of a PLI: forwarded when disabled, swallowed while waiting.
Write_NotSwallowed ==
    /\ TakeTask("pli")
    /\ IF enabled
       THEN StartWait
       ELSE UNCHANGED <<timers, left, waiting, scheduled_pli, sinceAsk, answered>>
    /\ UNCHANGED <<cancelled, enabled, sinceKeyframe, lapsed>>

Write ==
    /\ TakeTask("pli")
    /\ IF enabled /\ ~waiting
       THEN StartWait
       ELSE UNCHANGED <<timers, left, waiting, scheduled_pli, sinceAsk, answered>>
    /\ UNCHANGED <<cancelled, enabled, sinceKeyframe, lapsed>>

\* enable() and disable().
SetEnabled ==
    /\ \E on \in BOOLEAN : /\ TakeTask(IF on THEN "enable" ELSE "disable")
                           /\ enabled' = on
    /\ UNCHANGED <<timers, left, cancelled, waiting, scheduled_pli, sinceKeyframe,
                   sinceAsk, answered, lapsed>>

\* The timer's task runs before the keyframe's time is over: sendPLI().
SendPLI_NotRepeated(r) ==
    /\ TakeTask(r)
    /\ r \notin cancelled
    /\ sinceKeyframe < KeyframeTimeout
    /\ sinceAsk' = 0
    /\ UNCHANGED <<timers, left, scheduled_pli, lapsed, cancelled, enabled, waiting,
                   sinceKeyframe, answered>>

SendPLI(r) ==
    /\ TakeTask(r)
    /\ r \notin cancelled
    /\ sinceKeyframe < KeyframeTimeout
    /\ sinceAsk' = 0
    /\ IF waiting /\ enabled
       THEN ScheduleNextPLI /\ UNCHANGED lapsed
       ELSE lapsed' = TRUE /\ UNCHANGED <<timers, left, scheduled_pli>>
    /\ UNCHANGED <<cancelled, enabled, waiting, sinceKeyframe, answered>>

\* The timer's task runs after it: sendFIR().
SendFIR_StillWaiting(r) ==
    /\ TakeTask(r)
    /\ r \notin cancelled
    /\ sinceKeyframe >= KeyframeTimeout
    /\ scheduled_pli' = NoRef
    /\ UNCHANGED <<timers, left, cancelled, enabled, waiting, lapsed, sinceKeyframe,
                   sinceAsk, answered>>

SendFIR(r) ==
    /\ TakeTask(r)
    /\ r \notin cancelled
    /\ sinceKeyframe >= KeyframeTimeout
    /\ waiting' = FALSE
    /\ scheduled_pli' = NoRef
    /\ lapsed' = FALSE
    /\ UNCHANGED <<timers, left, cancelled, enabled, sinceKeyframe, sinceAsk, answered>>

\* Time passes.
Tick ==
    /\ Elapse
    /\ sinceKeyframe' = IF sinceKeyframe < KeyframeTimeout THEN sinceKeyframe + 1
                                                           ELSE sinceKeyframe
    /\ sinceAsk' = IF sinceAsk < MinPLIPeriod THEN sinceAsk + 1 ELSE sinceAsk
    /\ UNCHANGED <<enabled, waiting, scheduled_pli, answered, lapsed>>

RunTask ==
    \/ Read \/ Write \/ SetEnabled
    \/ \E r \in Ref : \/ TakeCancelled(r) /\ UNCHANGED pacerVars
                      \/ SendPLI(r)
                      \/ SendFIR(r)

Next ==
    \/ RunTask
    \/ Tick
    \/ /\ \/ \E j \in Job : Post(j)
          \/ \E r \in Ref : TimerFires(r)
          \/ Begin \/ Close \/ Finish
       /\ UNCHANGED pacerVars

Fairness ==
    /\ WF_vars(RunTask)
    /\ WF_vars(Tick)
    /\ WF_vars(Begin /\ UNCHANGED pacerVars)
    /\ \A r \in Ref : WF_vars(TimerFires(r) /\ UNCHANGED pacerVars)

Spec == Init /\ [][Next]_vars /\ Fairness

-----------------------------------------------------------------------------
\* At most one repetition is under way and not cancelled: the one that
\* scheduled_pli_ refers to, and only during a wait.  Otherwise a keyframe
\* could not cancel all of them (read() cancels that one only).
OneTimer ==
    \A r \in Ref : Live(r) => r = scheduled_pli /\ waiting

\* As long as write() swallows PLIs, the timer that asks in their place is
\* under way, unless it has run while the handler was disabled: then
\* scheduleNextPLI() returned, and enable() does not start it again.
WaitCovered ==
    waiting /\ ~lapsed => scheduled_pli \in Ref /\ Live(scheduled_pli)

\* A keyframe that arrives while the timer's task has left the scheduler and
\* waits in the worker's queue still stops it: no PLI or FIR is made after a
\* keyframe until a PLI has started another wait.
NoRequestAfterKeyframe ==
    [][\A r \in Ref : SendPLI(r) \/ SendFIR(r) => ~answered]_vars

\* The handler itself never hurries: a request less than kMinPLIPeriod after
\* the one before can only come from a timer that the Scheduler ran before it
\* was due, whatever else the worker is given to do and however many timers
\* were early before.
Paced ==
    [][\A r \in Ref : (SendPLI(r) \/ SendFIR(r)) /\ left[r] = 0
                       => sinceAsk >= MinPLIPeriod]_vars

\* A wait in which PLIs are swallowed ends, with a keyframe or with the FIR,
\* even if no keyframe ever comes.
WaitEnds ==
    waiting ~> (~waiting \/ lapsed \/ closed)
=============================================================================
