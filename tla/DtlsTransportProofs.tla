------------------------ MODULE DtlsTransportProofs ------------------------
(***************************************************************************)
(* Proofs about DtlsTransport, for either role, with or without RTCP       *)
(* multiplexing, any number of timeout checks and any length of the        *)
(* worker's queue.                                                         *)
(***************************************************************************)
EXTENDS DtlsTransport, TLAPS

\* A task in the queue was posted at an ICE state that still bounds ice_state
\* from below.
TaskBound(t, s) == s >= (IF t.kind = "ice" THEN t.state ELSE ICE_READY)

\* The ICE thread posts "candidates received" first of all, so it can only be
\* the first task of the queue, and while it waits no handshake has begun.
OrderInv ==
    /\ \A i \in 1 .. Len(queue) : TaskBound(queue[i], ice_state)
    /\ \A i \in 2 .. Len(queue) : queue[i] # IceTask(ICE_CANDIDATES_RECEIVED)
    /\ \A c \in Comp : hs[c] # "idle" => ice_state >= ICE_READY
    /\ \A c \in Comp : armed[c] => hs[c] # "idle"
    /\ queue # <<>> /\ Head(queue) = IceTask(ICE_CANDIDATES_RECEIVED) =>
         /\ \A c \in Comp : hs[c] = "idle"
         /\ state \in {"INITIAL", "FINISHED"}
    /\ ice_state = ICE_INITIAL => queue = <<>> /\ state = "INITIAL"

\* How the flags, the SRTP channels and the handshakes hang together.
KeyInv ==
    /\ \A c \in Comp : srtp[c] = "none" <=> hs[c] # "done"
    /\ readyRtp <=> srtp[1] = "active"
    /\ readyRtcp <=> (IF RtcpMux THEN hs[1] = "done" ELSE srtp[2] = "active")
    /\ state = "READY" => readyRtp /\ readyRtcp
    /\ ~running => state \in {"FAILED", "FINISHED"}
    /\ state = "FINISHED" => ~running /\ \A c \in Comp : ~armed[c]
    /\ running /\ state = "FAILED" => \E c \in Comp : srtp[c] = "broken"

\* A packet left unprotected is one that ICE will no longer carry.
WriteInv ==
    /\ writing # NotWriting /\ writing[2] = "CLEAR" => ice_state > ICE_READY
    /\ NoClearMedia

Inv == TypeOK /\ OrderInv /\ KeyInv /\ WriteInv

-----------------------------------------------------------------------------
USE DEF ICE_INITIAL, ICE_CANDIDATES_RECEIVED, ICE_READY, ICE_FINISHED, ICE_FAILED

\* Component 1 always exists, component 2 when RTCP is not multiplexed.
LEMMA CompFacts == 1 \in Comp /\ (2 \in Comp <=> ~RtcpMux) /\ Comp \subseteq {1, 2}
BY DtlsAssumption DEF Comp, DtlsAssumption

\* A task the ICE thread posts is an ICE state or a packet.
LEMMA TaskFacts ==
    ASSUME NEW t \in Task
    PROVE  \/ /\ t.kind = "ice" /\ t.state \in {1, 2, 4} /\ t = IceTask(t.state)
           \/ /\ t.kind = "data" /\ t.comp \in Comp /\ t.msg \in Inbound
              /\ t # IceTask(1)
BY DEF Task, IceTask, DataTask

\* The ICE state only rises, so a bound from below stays one.
LEMMA TaskBoundMono ==
    ASSUME NEW t \in Task, NEW a \in 0 .. 4, NEW b \in 0 .. 4, a <= b, TaskBound(t, a)
    PROVE  TaskBound(t, b)
BY TaskFacts DEF TaskBound

\* A transport that has just been started satisfies the invariant.
LEMMA InitInv == Init => Inv
<1> SUFFICES ASSUME Init PROVE Inv
  OBVIOUS
<1> USE DtlsAssumption, CompFacts DEF DtlsAssumption
<1>1. TypeOK
  <2>1. queue \in Seq(Task) /\ comp_state \in [Comp -> 0 .. 4] /\ checks \in [Comp -> 0 .. MaxChecks]
    BY DEF Init
  <2> QED
    BY <2>1 DEF Init, TypeOK
<1>2. OrderInv
  BY DEF Init, OrderInv
<1>3. KeyInv
  BY DEF Init, KeyInv
<1>4. WriteInv
  BY DEF Init, WriteInv, NoClearMedia
<1> QED
  BY <1>1, <1>2, <1>3, <1>4 DEF Inv

-----------------------------------------------------------------------------
(***************************************************************************)
(* The ICE thread's steps change the ICE state and append to the queue.    *)
(***************************************************************************)

\* updateIceState keeps the tasks in order and unprotected packets off ICE.
LEMMA IceUpdateStep ==
    ASSUME Inv, NEW s \in {1, 2, 4}, IceUpdate(s), UNCHANGED workerVars
    PROVE  /\ ice_state' \in 0 .. 4 /\ queue' \in Seq(Task)
           /\ OrderInv' /\ WriteInv'
<1> USE DEF workerVars, dtlsVars, timerVars
<1>1. ice_state \in 0 .. 4 /\ queue \in Seq(Task) /\ IceTask(s) \in Task
  BY DEF Inv, TypeOK, Task
<1>2. CASE s <= ice_state
  BY <1>1, <1>2 DEF IceUpdate, Inv, OrderInv, WriteInv, NoClearMedia, TaskBound
<1>3. CASE s > ice_state /\ queue' = queue
  <2>1. ice_state' = s
    BY <1>1, <1>3 DEF IceUpdate
  <2>2. \A i \in 1 .. Len(queue) : TaskBound(queue[i], s)
    BY <1>1, <1>3, TaskBoundMono DEF Inv, OrderInv
  <2> QED
    BY <1>1, <1>3, <2>1, <2>2 DEF Inv, OrderInv, WriteInv, NoClearMedia
<1>4. CASE s > ice_state /\ queue' = Append(queue, IceTask(s))
  <2>1. ice_state' = s
    BY <1>1, <1>4 DEF IceUpdate
  <2>2. queue' \in Seq(Task) /\ Len(queue') = Len(queue) + 1 /\ queue' # <<>>
    BY <1>1, <1>4
  <2>3. \A i \in 1 .. Len(queue) : queue'[i] = queue[i]
    BY <1>1, <1>4
  <2>4. queue'[Len(queue) + 1] = IceTask(s) /\ IceTask(s).kind = "ice" /\ IceTask(s).state = s
    BY <1>1, <1>4 DEF IceTask
  <2>5. s = 1 => ice_state = 0 /\ queue = <<>>
    BY <1>1, <1>4 DEF Inv, OrderInv
  <2>6. OrderInv'
    <3>1. \A i \in 1 .. Len(queue') : TaskBound(queue'[i], ice_state')
      <4>1. \A i \in 1 .. Len(queue) : TaskBound(queue[i], s)
        BY <1>1, <1>4, TaskBoundMono DEF Inv, OrderInv
      <4>2. TaskBound(IceTask(s), s)
        BY <2>4 DEF TaskBound
      <4> QED
        BY <1>1, <2>1, <2>2, <2>3, <2>4, <4>1, <4>2
    <3>2. \A i \in 2 .. Len(queue') : queue'[i] # IceTask(1)
      BY <1>1, <2>2, <2>3, <2>4, <2>5 DEF Inv, OrderInv, IceTask
    <3>3. Head(queue') = IceTask(1) => (\A c \in Comp : hs[c] = "idle") /\ state \in {"INITIAL", "FINISHED"}
      <4>1. CASE queue = <<>>
        <5>1. Head(queue') = IceTask(s)
          BY <1>1, <1>4, <2>2, <2>4, <4>1
        <5>2. Head(queue') = IceTask(1) => s = 1
          BY <5>1 DEF IceTask
        <5> QED
          BY <1>1, <2>5, <5>2 DEF Inv, OrderInv
      <4>2. CASE queue # <<>>
        BY <1>1, <1>4, <2>2, <2>3, <4>2 DEF Inv, OrderInv
      <4> QED
        BY <4>1, <4>2
    <3> QED
      BY <1>1, <1>4, <2>1, <3>1, <3>2, <3>3 DEF Inv, OrderInv
  <2> QED
    BY <1>1, <1>4, <2>1, <2>2, <2>6 DEF Inv, WriteInv, NoClearMedia
<1> QED
  BY <1>1, <1>2, <1>3, <1>4 DEF IceUpdate

\* Every callback of libnice preserves the invariant.
LEMMA IceThreadStep ==
    ASSUME Inv,
           \/ GatheringDone
           \/ \E c \in Comp : ComponentReady(c) \/ ComponentFailed(c)
           \/ \E c \in Comp, m \in Inbound : NiceRecv(c, m)
    PROVE  Inv'
<1> USE DEF workerVars, dtlsVars, timerVars, iceVars
<1>1. ASSUME NEW s \in {1, 2, 4}, IceUpdate(s) \/ UNCHANGED <<ice_state, queue>>,
             UNCHANGED <<last_candidate, listening, workerVars>>,
             comp_state' \in [Comp -> 0 .. 4]
      PROVE  Inv'
  <2>1. KeyInv'
    BY <1>1 DEF Inv, KeyInv
  <2>2. CASE IceUpdate(s)
    <3>1. OrderInv' /\ WriteInv' /\ ice_state' \in 0 .. 4 /\ queue' \in Seq(Task)
      BY <1>1, <2>2, IceUpdateStep
    <3> QED
      BY <1>1, <2>1, <3>1 DEF Inv, TypeOK
  <2>3. CASE UNCHANGED <<ice_state, queue>>
    BY <1>1, <2>1, <2>3 DEF Inv, TypeOK, OrderInv, WriteInv, NoClearMedia
  <2> QED
    BY <1>1, <2>2, <2>3
<1>2. CASE GatheringDone
  BY <1>1, <1>2 DEF GatheringDone, Inv, TypeOK
<1>3. ASSUME NEW c \in Comp, ComponentReady(c) PROVE Inv'
  BY <1>1, <1>3 DEF ComponentReady, Inv, TypeOK
<1>4. ASSUME NEW c \in Comp, ComponentFailed(c) PROVE Inv'
  BY <1>1, <1>4 DEF ComponentFailed, Inv, TypeOK
<1>5. ASSUME NEW c \in Comp, NEW m \in Inbound, NiceRecv(c, m) PROVE Inv'
  <2>1. DataTask(c, m) \in Task /\ DataTask(c, m).kind = "data" /\ DataTask(c, m) # IceTask(1)
    BY DEF Task, DataTask, IceTask
  <2>2. queue \in Seq(Task) /\ queue' = Append(queue, DataTask(c, m)) /\ ice_state = 2 /\ ice_state' = 2
    BY <1>5 DEF NiceRecv, Inv, TypeOK
  <2>3. /\ queue' \in Seq(Task) /\ Len(queue') = Len(queue) + 1 /\ queue' # <<>>
        /\ \A i \in 1 .. Len(queue) : queue'[i] = queue[i]
        /\ queue'[Len(queue) + 1] = DataTask(c, m)
    BY <2>1, <2>2
  <2>4. \A i \in 1 .. Len(queue') : TaskBound(queue'[i], ice_state')
    BY <2>1, <2>2, <2>3 DEF Inv, OrderInv, TaskBound
  <2>5. \A i \in 2 .. Len(queue') : queue'[i] # IceTask(1)
    BY <2>1, <2>2, <2>3 DEF Inv, OrderInv
  <2>6. Head(queue') = IceTask(1) => (\A d \in Comp : hs[d] = "idle") /\ state \in {"INITIAL", "FINISHED"}
    <3>1. CASE queue = <<>>
      BY <2>1, <2>2, <2>3, <3>1
    <3>2. CASE queue # <<>>
      BY <2>2, <2>3, <3>2 DEF Inv, OrderInv
    <3> QED
      BY <3>1, <3>2
  <2>7. OrderInv'
    BY <1>5, <2>2, <2>4, <2>5, <2>6 DEF NiceRecv, Inv, OrderInv
  <2> QED
    BY <1>5, <2>3, <2>7 DEF NiceRecv, Inv, TypeOK, KeyInv, WriteInv, NoClearMedia
<1> QED
  BY <1>2, <1>3, <1>4, <1>5

-----------------------------------------------------------------------------
(***************************************************************************)
(* The worker's steps.                                                     *)
(***************************************************************************)

\* Taking the first task leaves no "candidates received" in the queue.
LEMMA PopStep ==
    ASSUME Inv, queue # <<>>, queue' = Tail(queue), ice_state' = ice_state
    PROVE  /\ queue' \in Seq(Task)
           /\ Head(queue) \in Task /\ TaskBound(Head(queue), ice_state)
           /\ \A i \in 1 .. Len(queue') : TaskBound(queue'[i], ice_state')
           /\ \A i \in 1 .. Len(queue') : queue'[i] # IceTask(1)
           /\ queue' # <<>> => Head(queue') # IceTask(1)
<1>1. queue \in Seq(Task)
  BY DEF Inv, TypeOK
<1>2. /\ queue' \in Seq(Task) /\ Len(queue') = Len(queue) - 1
      /\ \A i \in 1 .. Len(queue') : queue'[i] = queue[i + 1] /\ i + 1 \in 2 .. Len(queue)
      /\ Head(queue) = queue[1] /\ 1 \in 1 .. Len(queue)
  BY <1>1
<1>3. \A i \in 1 .. Len(queue') : TaskBound(queue'[i], ice_state') /\ queue'[i] # IceTask(1)
  BY <1>1, <1>2 DEF Inv, OrderInv
<1>4. queue' # <<>> => Head(queue') = queue'[1] /\ 1 \in 1 .. Len(queue')
  BY <1>2
<1> QED
  BY <1>1, <1>2, <1>3, <1>4 DEF Inv, OrderInv

\* A DTLS flight is never media.
LEMMA FlightFacts ==
    ASSUME NEW c \in Comp, NEW h, NEW r \in BOOLEAN
    PROVE  /\ OnIce(Flight(c, h), r) \subseteq (Comp \X Outbound)
           /\ \A d \in Comp : <<d, "CLEAR">> \notin OnIce(Flight(c, h), r)
BY DEF OnIce, Flight, Outbound

\* updateIceStateSync preserves the invariant.
LEMMA RunIceTaskStep == ASSUME Inv, RunIceTask PROVE Inv'
<1> USE CompFacts DEF workerVars, dtlsVars, timerVars, iceVars
<1>0. /\ queue # <<>> /\ queue' = Tail(queue) /\ UNCHANGED iceVars /\ Head(queue).kind = "ice"
      /\ ice_state \in 0 .. 4
  BY DEF RunIceTask, Inv, TypeOK
<1>1. /\ queue' \in Seq(Task)
      /\ \A i \in 1 .. Len(queue') : TaskBound(queue'[i], ice_state')
      /\ \A i \in 2 .. Len(queue') : queue'[i] # IceTask(1)
      /\ queue' # <<>> => Head(queue') # IceTask(1)
      /\ ice_state = 0 => queue' = <<>>
  BY <1>0, PopStep DEF Inv, OrderInv
<1>2. Head(queue).state \in {1, 2, 4} /\ ice_state >= Head(queue).state
      /\ Head(queue) = IceTask(Head(queue).state)
  BY <1>0, PopStep, TaskFacts DEF TaskBound
<1>3. CASE ~running /\ UNCHANGED workerVars
  BY <1>0, <1>1, <1>2, <1>3 DEF Inv, TypeOK, OrderInv, KeyInv, WriteInv, NoClearMedia
<1>4. CASE running /\ Head(queue).state = 1 /\ state' = "GATHERED"
           /\ UNCHANGED <<running, dtlsVars, timerVars, writing, sent, delivered>>
  <2>1. \A c \in Comp : hs[c] = "idle"
    BY <1>0, <1>2, <1>4 DEF Inv, OrderInv
  <2> QED
    BY <1>0, <1>1, <1>2, <1>4, <2>1 DEF Inv, TypeOK, OrderInv, KeyInv, WriteInv, NoClearMedia
<1>5. CASE running /\ Head(queue).state = 4 /\ OnHandshakeFailed
           /\ UNCHANGED <<dtlsVars, timerVars, writing, sent, delivered>>
  BY <1>0, <1>1, <1>2, <1>5
     DEF OnHandshakeFailed, UpdateTransportState, Inv, TypeOK, OrderInv, KeyInv, WriteInv, NoClearMedia
<1>6. CASE running /\ Head(queue).state = 2 /\ StartHandshakes
           /\ UNCHANGED <<state, running, srtp, readyRtp, readyRtcp, checks, writing, delivered>>
  <2> DEFINE begin == {c \in Comp : ~IsServer /\ ~started[c]}
  <2>1. /\ started' = [c \in Comp |-> started[c] \/ c \in begin]
        /\ hs' = [c \in Comp |-> IF c \in begin /\ hs[c] = "idle" THEN "hello" ELSE hs[c]]
        /\ armed' = [c \in Comp |-> armed[c] \/ (c \in begin /\ state # "READY")]
        /\ sent' = sent \cup OnIce(UNION {Flight(c, hs'[c]) : c \in begin}, TRUE)
        /\ UNCHANGED <<state, running, srtp, readyRtp, readyRtcp, checks, writing, delivered>>
    BY <1>6 DEF StartHandshakes
  <2>2. hs' \in [Comp -> {"idle", "hello", "finish", "done", "failed"}]
        /\ armed' \in [Comp -> BOOLEAN] /\ started' \in [Comp -> BOOLEAN]
    BY <2>1 DEF Inv, TypeOK
  <2>3. sent' \subseteq (Comp \X Outbound) /\ \A c \in Comp : <<c, "CLEAR">> \notin sent'
    <3> DEFINE out == UNION {Flight(c, hs'[c]) : c \in begin}
    <3>1. \A c \in Comp : /\ Flight(c, hs'[c]) \subseteq (Comp \X Outbound)
                          /\ \A d \in Comp : <<d, "CLEAR">> \notin Flight(c, hs'[c])
      BY DEF Flight, Outbound
    <3>2. out \subseteq (Comp \X Outbound) /\ \A d \in Comp : <<d, "CLEAR">> \notin out
      BY <3>1
    <3>3. sent' = sent \cup out \/ sent' = sent \cup {}
      BY <2>1 DEF OnIce
    <3> HIDE DEF out
    <3> QED
      BY <3>2, <3>3 DEF Inv, TypeOK, WriteInv, NoClearMedia
  <2>4. TypeOK'
    BY <1>0, <1>1, <2>1, <2>2, <2>3 DEF Inv, TypeOK
  <2>5. OrderInv'
    BY <1>0, <1>1, <1>2, <1>6, <2>1 DEF Inv, TypeOK, OrderInv
  <2>6. \A c \in Comp : hs'[c] = "done" <=> hs[c] = "done"
    BY <2>1
  <2>7. state # "FINISHED"
    BY <1>6 DEF Inv, KeyInv
  <2>8. KeyInv'
    BY <2>1, <2>6, <2>7 DEF Inv, KeyInv
  <2> QED
    BY <1>0, <2>1, <2>3, <2>4, <2>5, <2>8 DEF Inv, WriteInv, NoClearMedia
<1> QED
  BY <1>3, <1>4, <1>5, <1>6 DEF RunIceTask, UpdateTransportState, ICE_CANDIDATES_RECEIVED, ICE_READY, ICE_FAILED

\* onIceData preserves the invariant.
LEMMA RunDataTaskStep == ASSUME Inv, RunDataTask PROVE Inv'
<1> USE CompFacts, DtlsAssumption DEF workerVars, dtlsVars, timerVars, iceVars, DtlsAssumption
<1> DEFINE c == Head(queue).comp
           m == Head(queue).msg
<1>0. /\ queue # <<>> /\ queue' = Tail(queue) /\ UNCHANGED iceVars /\ Head(queue).kind = "data"
      /\ ice_state \in 0 .. 4 /\ UNCHANGED writing
  BY DEF RunDataTask, Inv, TypeOK
<1>1. /\ queue' \in Seq(Task)
      /\ \A i \in 1 .. Len(queue') : TaskBound(queue'[i], ice_state')
      /\ \A i \in 2 .. Len(queue') : queue'[i] # IceTask(1)
      /\ queue' # <<>> => Head(queue') # IceTask(1)
  BY <1>0, PopStep
<1>2. c \in Comp /\ m \in Inbound /\ ice_state >= 2
  BY <1>0, PopStep, TaskFacts DEF TaskBound
<1>3. CASE UNCHANGED <<state, running, dtlsVars, timerVars, writing, sent>> /\ delivered' \subseteq Comp
  BY <1>0, <1>1, <1>2, <1>3 DEF Inv, TypeOK, OrderInv, KeyInv, WriteInv, NoClearMedia
<1>4. CASE running /\ m \in Flights /\ hs[c] # "done" /\ ReadDtls(c, m) /\ UNCHANGED delivered
  <2>1. hs' = [hs EXCEPT ![c] = Progress(hs[c], m)] /\ UNCHANGED <<started, checks>>
    BY <1>4 DEF ReadDtls
  <2>2. Progress(hs[c], m) \in {"idle", "hello", "finish", "done", "failed"}
    BY <1>2 DEF Progress, Inv, TypeOK
  <2>3. hs' \in [Comp -> {"idle", "hello", "finish", "done", "failed"}]
        /\ \A d \in Comp \ {c} : hs'[d] = hs[d]
    BY <1>2, <2>1, <2>2 DEF Inv, TypeOK
  <2>4. running' \in BOOLEAN => /\ sent' \subseteq (Comp \X Outbound)
                                /\ \A d \in Comp : <<d, "CLEAR">> \notin sent'
    BY <1>2, <1>4, FlightFacts DEF ReadDtls, Inv, TypeOK, WriteInv, NoClearMedia
  <2>5. CASE hs'[c] = "done"
    <3>1. PICK ok \in BOOLEAN : OnHandshakeCompleted(c, ok)
      BY <1>4, <2>5 DEF ReadDtls
    <3>2. TypeOK'
      BY <1>0, <1>1, <1>2, <1>4, <2>1, <2>3, <2>4, <3>1
         DEF OnHandshakeCompleted, RtpReady, RtcpReady, UpdateTransportState, Inv, TypeOK
    <3>3. OrderInv'
      BY <1>0, <1>1, <1>2, <2>3, <3>1 DEF OnHandshakeCompleted, RtpReady, RtcpReady, Inv, TypeOK, OrderInv
    <3>4. srtp[c] = "none" /\ srtp'[c] = (IF ok THEN "active" ELSE "broken")
          /\ \A d \in Comp \ {c} : srtp'[d] = srtp[d]
      BY <1>2, <1>4, <3>1 DEF OnHandshakeCompleted, RtpReady, RtcpReady, Inv, TypeOK, KeyInv
    <3>5. KeyInv'
      BY <1>2, <1>4, <2>3, <2>5, <3>1, <3>4
         DEF OnHandshakeCompleted, RtpReady, RtcpReady, UpdateTransportState, Inv, TypeOK, KeyInv, Comp
    <3> QED
      BY <1>0, <2>4, <3>1, <3>2, <3>3, <3>5 DEF OnHandshakeCompleted, RtpReady, RtcpReady, Inv, TypeOK, WriteInv, NoClearMedia
  <2>6. CASE hs'[c] = "failed"
    <3>1. OnHandshakeFailed /\ UNCHANGED <<srtp, readyRtp, readyRtcp, armed>>
      BY <1>4, <2>6 DEF ReadDtls
    <3>2. TypeOK'
      BY <1>0, <1>1, <1>2, <1>4, <2>1, <2>3, <2>4, <3>1
         DEF OnHandshakeFailed, UpdateTransportState, Inv, TypeOK
    <3>3. OrderInv'
      BY <1>0, <1>1, <1>2, <2>3, <2>6, <3>1 DEF Inv, TypeOK, OrderInv
    <3>4. KeyInv'
      BY <1>2, <1>4, <2>3, <2>6, <3>1
         DEF OnHandshakeFailed, UpdateTransportState, Inv, KeyInv
    <3> QED
      BY <1>0, <2>4, <3>1, <3>2, <3>3, <3>4 DEF OnHandshakeFailed, Inv, WriteInv, NoClearMedia
  <2>7. CASE hs'[c] \notin {"done", "failed"}
    <3>1. UNCHANGED <<state, running, srtp, readyRtp, readyRtcp, armed>>
      BY <1>4, <2>7 DEF ReadDtls
    <3>2. TypeOK'
      BY <1>0, <1>1, <1>2, <1>4, <2>1, <2>3, <2>4, <3>1 DEF Inv, TypeOK
    <3>3. OrderInv'
      <4>1. hs[c] # "idle" => hs'[c] # "idle"
        BY <1>2, <2>1, <2>7 DEF Progress, Inv, TypeOK, Flights
      <4> QED
        BY <1>0, <1>1, <1>2, <2>3, <3>1, <4>1 DEF Inv, TypeOK, OrderInv
    <3>4. KeyInv'
      BY <1>2, <1>4, <2>3, <2>7, <3>1 DEF Inv, KeyInv
    <3> QED
      BY <1>0, <2>4, <3>1, <3>2, <3>3, <3>4 DEF Inv, TypeOK, WriteInv, NoClearMedia
  <2> QED
    BY <2>5, <2>6, <2>7
<1> QED
  BY <1>2, <1>3, <1>4 DEF RunDataTask, ReadDtls, Inv, TypeOK

-----------------------------------------------------------------------------
(***************************************************************************)
(* Tasks posted by others.                                                 *)
(***************************************************************************)

\* A timeout check preserves the invariant.
LEMMA TimeoutCheckStep == ASSUME Inv, NEW c \in Comp, TimeoutCheck(c) PROVE Inv'
<1> USE CompFacts, DtlsAssumption DEF dtlsVars, iceVars, DtlsAssumption
<1>0. UNCHANGED <<iceVars, queue, dtlsVars, writing, delivered>> /\ state # "FINISHED" /\ hs[c] # "idle"
  BY DEF TimeoutCheck, ChecksLeft, Inv, KeyInv, OrderInv
<1>1. CASE state = "READY" /\ armed' = [armed EXCEPT ![c] = FALSE]
           /\ UNCHANGED <<state, running, checks, sent>>
  BY <1>0, <1>1 DEF Inv, TypeOK, OrderInv, KeyInv, WriteInv, NoClearMedia, TaskBound
<1>2. CASE checks[c] > 0 /\ checks' = [checks EXCEPT ![c] = @ - 1]
           /\ sent' = sent \cup OnIce(Flight(c, hs[c]), running) /\ UNCHANGED <<state, running, armed>>
  <2>1. checks' \in [Comp -> 0 .. MaxChecks]
    BY <1>2 DEF Inv, TypeOK
  <2>2. sent' \subseteq (Comp \X Outbound) /\ \A d \in Comp : <<d, "CLEAR">> \notin sent'
    BY <1>2, FlightFacts DEF Inv, TypeOK, WriteInv, NoClearMedia
  <2> QED
    BY <1>0, <1>2, <2>1, <2>2 DEF Inv, TypeOK, OrderInv, KeyInv, WriteInv, NoClearMedia, TaskBound
<1>3. CASE armed' = [armed EXCEPT ![c] = FALSE] /\ OnHandshakeFailed /\ UNCHANGED <<checks, sent>>
  <2>1. TypeOK' /\ WriteInv'
    BY <1>0, <1>3 DEF OnHandshakeFailed, UpdateTransportState, Inv, TypeOK, WriteInv, NoClearMedia
  <2>2. OrderInv'
    <3>1. ice_state # 0 /\ (queue # <<>> => Head(queue) # IceTask(1))
      BY <1>0 DEF Inv, OrderInv
    <3> QED
      BY <1>0, <1>3, <3>1 DEF Inv, TypeOK, OrderInv, TaskBound
  <2>3. KeyInv'
    BY <1>0, <1>3 DEF OnHandshakeFailed, UpdateTransportState, Inv, KeyInv
  <2> QED
    BY <2>1, <2>2, <2>3 DEF Inv
<1> QED
  BY <1>1, <1>2, <1>3 DEF TimeoutCheck, ChecksLeft

\* Either half of write() preserves the invariant: a packet is left
\* unprotected only when the ICE state has left READY for good.
LEMMA WriteStep ==
    ASSUME Inv, WriteSend \/ \E c \in Comp : WriteProtect(c)
    PROVE  Inv'
<1> USE CompFacts, DtlsAssumption DEF dtlsVars, timerVars, iceVars, DtlsAssumption
<1>1. CASE WriteSend
  <2>1. writing \in Comp \X {"SRTP", "CLEAR"}
    BY <1>1 DEF WriteSend, Idle, Inv, TypeOK
  <2>2. sent' \subseteq (Comp \X Outbound)
    <3>1. writing \in Comp \X Outbound
      BY <2>1 DEF Outbound
    <3>2. sent' = sent \/ sent' = sent \cup {writing}
      BY <1>1 DEF WriteSend, OnIce
    <3> QED
      BY <3>1, <3>2 DEF Inv, TypeOK
  <2>3. \A d \in Comp : <<d, "CLEAR">> \notin sent'
    <3>1. CASE writing[2] = "CLEAR"
      <4>1. ice_state # 2
        BY <1>1, <3>1 DEF WriteSend, Idle, Inv, TypeOK, WriteInv
      <4> QED
        BY <1>1, <4>1 DEF WriteSend, OnIce, Inv, WriteInv, NoClearMedia
    <3>2. CASE writing[2] # "CLEAR"
      <4>1. \A d : writing # <<d, "CLEAR">>
        BY <3>2
      <4>2. sent' = sent \/ sent' = sent \cup {writing}
        BY <1>1 DEF WriteSend, OnIce
      <4> QED
        BY <4>1, <4>2 DEF Inv, WriteInv, NoClearMedia
    <3> QED
      BY <3>1, <3>2
  <2> QED
    BY <1>1, <2>2, <2>3 DEF WriteSend, Inv, TypeOK, OrderInv, KeyInv, WriteInv, NoClearMedia, TaskBound
<1>2. ASSUME NEW c \in Comp, WriteProtect(c) PROVE Inv'
  <2>1. hs[c] = "done" /\ ice_state >= 2 /\ srtp[c] # "none"
    BY <1>2 DEF WriteProtect, Inv, TypeOK, KeyInv, OrderInv, Comp
  <2>2. writing' = <<c, "SRTP">> \/ (writing' = <<c, "CLEAR">> /\ ice_state > 2)
    BY <1>2, <2>1 DEF WriteProtect, Inv, TypeOK
  <2> QED
    BY <1>2, <2>2 DEF WriteProtect, Inv, TypeOK, OrderInv, KeyInv, WriteInv, NoClearMedia, TaskBound
<1> QED
  BY <1>1, <1>2

\* The last-candidate flag and the closing preserve the invariant.
LEMMA OwnerStep ==
    ASSUME Inv, SetReceivedLastCandidate \/ Close \/ UNCHANGED vars
    PROVE  Inv'
<1> USE CompFacts, DtlsAssumption DEF dtlsVars, timerVars, iceVars, workerVars, DtlsAssumption
<1>1. CASE SetReceivedLastCandidate
  BY <1>1 DEF SetReceivedLastCandidate, Inv, TypeOK, OrderInv, KeyInv, WriteInv, NoClearMedia, TaskBound
<1>2. CASE Close
  <2>1. ice_state' \in 0 .. 4 /\ ice_state <= ice_state' /\ ice_state' >= 3 /\ ice_state \in 0 .. 4
        /\ UNCHANGED <<queue, comp_state, last_candidate, dtlsVars, checks, writing, sent, delivered>>
        /\ running' = FALSE /\ listening' = FALSE /\ state' = "FINISHED" /\ writing = NotWriting
        /\ armed' = [c \in Comp |-> FALSE]
    BY <1>2 DEF Close, IceClose, Idle, Inv, TypeOK
  <2>2. TypeOK'
    BY <2>1 DEF Inv, TypeOK
  <2>3. \A i \in 1 .. Len(queue) : TaskBound(queue[i], ice_state')
    BY <2>1, TaskBoundMono DEF Inv, TypeOK, OrderInv
  <2>4. OrderInv'
    BY <2>1, <2>3 DEF Inv, OrderInv
  <2>5. KeyInv'
    BY <2>1 DEF Inv, KeyInv
  <2> QED
    BY <2>1, <2>2, <2>4, <2>5 DEF Inv, WriteInv, NoClearMedia
<1>3. CASE UNCHANGED vars
  BY <1>3 DEF vars, Inv, TypeOK, OrderInv, KeyInv, WriteInv, NoClearMedia, TaskBound
<1> QED
  BY <1>1, <1>2, <1>3

\* Every step preserves the invariant.
LEMMA InvStep == Inv /\ [Next]_vars => Inv'
<1> SUFFICES ASSUME Inv, [Next]_vars PROVE Inv'
  OBVIOUS
<1> QED
  BY IceThreadStep, RunIceTaskStep, RunDataTaskStep, TimeoutCheckStep, WriteStep, OwnerStep DEF Next

-----------------------------------------------------------------------------
\* The inductive invariant holds of every behaviour of the transport.
THEOREM Invariance == Spec => []Inv
BY InitInv, InvStep, PTL DEF Spec

\* The state of the transport, its sockets and its ICE connection has its type.
THEOREM TypeOKTheorem == Spec => []TypeOK
<1>1. Inv => TypeOK
  BY DEF Inv
<1> QED
  BY <1>1, Invariance, PTL

\* TRANSPORT_READY is announced only with working keys on every component,
\* whatever the role, the multiplexing and the number of checks.
THEOREM ReadyIsKeyedTheorem == Spec => []ReadyIsKeyed
<1>1. Inv => ReadyIsKeyed
  BY CompFacts DEF Inv, TypeOK, KeyInv, ReadyIsKeyed, Comp
<1> QED
  BY <1>1, Invariance, PTL

\* write() never puts unprotected media on the wire.
THEOREM NoClearMediaTheorem == Spec => []NoClearMedia
<1>1. Inv => NoClearMedia
  BY DEF Inv, WriteInv
<1> QED
  BY <1>1, Invariance, PTL

\* Once media has gone up every component keeps its keys.
LEMMA MediaStep == Inv /\ MediaAfterAllKeys /\ [Next]_vars => MediaAfterAllKeys'
<1> SUFFICES ASSUME Inv, MediaAfterAllKeys, [Next]_vars PROVE MediaAfterAllKeys'
  OBVIOUS
<1> USE CompFacts DEF MediaAfterAllKeys, workerVars, dtlsVars, timerVars
<1>1. CASE RunIceTask
  <2>1. delivered' = delivered /\ srtp' = srtp /\ \A c \in Comp : hs[c] = "done" => hs'[c] = "done"
    BY <1>1 DEF RunIceTask, StartHandshakes
  <2> QED
    BY <2>1
<1>2. CASE RunDataTask
  <2> DEFINE c == Head(queue).comp
             m == Head(queue).msg
  <2>1. c \in Comp
    BY <1>2, TaskFacts DEF RunDataTask, Inv, TypeOK
  <2>2. CASE Readable(c) /\ UNCHANGED <<state, running, dtlsVars, timerVars, writing, sent>>
    BY <2>2 DEF Readable, Inv, TypeOK, KeyInv, Comp
  <2>3. CASE ReadDtls(c, m) /\ UNCHANGED delivered
    BY <2>1, <2>3 DEF ReadDtls
  <2> QED
    BY <1>2, <2>2, <2>3 DEF RunDataTask
<1> QED
  BY <1>1, <1>2 DEF Next, vars, GatheringDone, ComponentReady, ComponentFailed, NiceRecv, TimeoutCheck,
     WriteProtect, WriteSend, SetReceivedLastCandidate, Close

\* Media goes up only after every component has its keys.
THEOREM MediaAfterAllKeysTheorem == Spec => []MediaAfterAllKeys
<1>1. Init => MediaAfterAllKeys
  BY DEF Init, MediaAfterAllKeys
<1> QED
  BY <1>1, MediaStep, Invariance, PTL DEF Spec

\* DtlsTransport implements the contract of Transport: its state never goes
\* back, whatever order gathering, handshakes, failures and close come in.
THEOREM ImplementsTransport == Spec => ForwardOnly
<1>1. Init => state = "INITIAL"
  BY DEF Init
<1>2. Inv /\ [Next]_vars => [state' \in Contract!After(state)]_state
  <2> SUFFICES ASSUME Inv, [Next]_vars, state' # state PROVE state' \in Contract!After(state)
    OBVIOUS
  <2> USE CompFacts, DtlsAssumption DEF DtlsAssumption, Contract!After
  <2>1. CASE RunIceTask
    <3>1. state \in {"INITIAL", "GATHERED", "READY", "FINISHED", "FAILED"} /\ (running => state # "FINISHED")
      BY DEF Inv, TypeOK, KeyInv
    <3>2. CASE running /\ Head(queue).state = 1 /\ state' = "GATHERED"
      <4>1. queue # <<>> /\ Head(queue) = IceTask(1)
        BY <2>1, <3>2, TaskFacts DEF RunIceTask, Inv, TypeOK
      <4> QED
        BY <3>1, <3>2, <4>1 DEF Inv, OrderInv
    <3>3. CASE running /\ state' = "FAILED"
      BY <3>1, <3>3
    <3> QED
      BY <2>1, <3>2, <3>3 DEF RunIceTask, workerVars, OnHandshakeFailed, UpdateTransportState, StartHandshakes
  <2>2. CASE RunDataTask
    <3> DEFINE c == Head(queue).comp
               m == Head(queue).msg
    <3>1. running /\ ReadDtls(c, m) /\ hs[c] # "done"
      BY <2>2 DEF RunDataTask, ReadDtls, workerVars
    <3>2. c \in Comp /\ state \in {"INITIAL", "GATHERED", "READY", "FAILED"}
      BY <2>2, <3>1, TaskFacts DEF RunDataTask, Inv, TypeOK, KeyInv
    <3>3. CASE OnHandshakeFailed
      BY <3>2, <3>3 DEF OnHandshakeFailed, UpdateTransportState
    <3>4. ASSUME NEW ok \in BOOLEAN, OnHandshakeCompleted(c, ok) PROVE state' \in Contract!After(state)
      <4>1. srtp[c] = "none" /\ state # "READY"
        BY <3>1, <3>2 DEF Inv, TypeOK, KeyInv, Comp
      <4>2. CASE state' = "READY" /\ readyRtp' /\ readyRtcp'
        <5>1. ok /\ \A d \in Comp \ {c} : srtp[d] = "active"
          BY <3>1, <3>2, <3>4, <4>1, <4>2 DEF OnHandshakeCompleted, RtpReady, RtcpReady, Inv, TypeOK, KeyInv, Comp
        <5>2. state # "FAILED"
          BY <3>1, <4>1, <5>1 DEF Inv, KeyInv
        <5> QED
          BY <3>2, <4>1, <4>2, <5>2
      <4>3. CASE state' = "FAILED"
        BY <3>2, <4>3
      <4> QED
        BY <3>4, <4>2, <4>3 DEF OnHandshakeCompleted, RtpReady, RtcpReady, UpdateTransportState
    <3> QED
      BY <3>1, <3>3, <3>4 DEF ReadDtls
  <2>3. ASSUME NEW c \in Comp, TimeoutCheck(c) PROVE state' \in Contract!After(state)
    <3>1. state' = "FAILED" /\ state \in {"INITIAL", "GATHERED", "READY"}
      BY <2>3 DEF TimeoutCheck, ChecksLeft, OnHandshakeFailed, UpdateTransportState, Inv, TypeOK, KeyInv
    <3> QED
      BY <3>1
  <2>4. CASE Close
    BY <2>4 DEF Close, IceClose, Inv, TypeOK
  <2> QED
    BY <2>1, <2>2, <2>3, <2>4 DEF Next, vars, GatheringDone, ComponentReady, ComponentFailed, NiceRecv,
       WriteProtect, WriteSend, SetReceivedLastCandidate, workerVars
<1> QED
  BY <1>1, <1>2, Invariance, PTL DEF Spec, ForwardOnly, Contract!TransportSpec
=============================================================================
