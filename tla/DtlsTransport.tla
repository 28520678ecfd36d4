--------------------------- MODULE DtlsTransport ---------------------------
(***************************************************************************)
(* One DtlsTransport with its LibNiceConnection, DTLS sockets and timeout  *)
(* checkers (licodecore/erizo).  Three parties take steps:                 *)
(*   - the ICE thread (libnice's main loop) calls back into the            *)
(*     LibNiceConnection, which posts tasks on the connection's Worker;    *)
(*   - the Worker runs those tasks in the order they were posted, and, at  *)
(*     any moment between two of them, a task posted by someone else: a    *)
(*     due timeout check, or write/close from the connection;              *)
(*   - the remote DTLS endpoint and the network, which lose, repeat and    *)
(*     reorder packets: any packet the peer may have sent can arrive at    *)
(*     any time, any number of times, or never.                            *)
(* Initially the transport has been constructed and started.               *)
(*                                                                         *)
(* An operator named X_Y is a variant of X with a fault, Y: the properties *)
(* that detect it are listed in PROJECT.json.                              *)
(***************************************************************************)
EXTENDS Naturals, Sequences

CONSTANTS
    RtcpMux,     \* rtcp_mux_: one ICE component and DTLS socket, or two
    IsServer,    \* isServer_: passive (answers handshakes) or active
    MaxChecks,   \* kMaxTimeoutChecks
    QueueBound   \* bound: ICE tasks waiting on the worker

ASSUME DtlsAssumption ==
    /\ RtcpMux \in BOOLEAN
    /\ IsServer \in BOOLEAN
    /\ IsServer => RtcpMux     \* createOfferSync multiplexes its transports
    /\ MaxChecks \in Nat
    /\ QueueBound \in Nat

Comp == IF RtcpMux THEN {1} ELSE {1, 2}     \* component 1: dtlsRtp, 2: dtlsRtcp

\* enum IceState
ICE_INITIAL == 0
ICE_CANDIDATES_RECEIVED == 1
ICE_READY == 2
ICE_FINISHED == 3
ICE_FAILED == 4

VARIABLES
    ice_state,      \* ice_->ice_state_
    comp_state,     \* ice_->comp_state_list_
    last_candidate, \* ice_->receivedLastCandidate_
    listening,      \* ice_->listener_ is set
    queue,          \* tasks the ICE thread has posted on worker_
    state,          \* state_
    running,        \* running_
    readyRtp,
    readyRtcp,
    started,        \* socket -> DtlsSocketContext::started
    hs,             \* socket -> progress of its handshake
    srtp,           \* socket -> its SrtpChannel: srtp_, srtcp_
    armed,          \* socket -> its TimeoutChecker has a scheduled check
    checks,         \* socket -> its TimeoutChecker's max_checks_
    writing,        \* the packet write() is in the middle of sending
    sent,           \* every packet handed to libnice, as <<component, kind>>
    delivered       \* components whose media went up to the connection

iceVars  == <<ice_state, comp_state, last_candidate, listening>>
dtlsVars == <<started, hs, srtp, readyRtp, readyRtcp>>
timerVars == <<armed, checks>>
vars == <<iceVars, queue, state, running, dtlsVars, timerVars, writing, sent, delivered>>

\* DTLS flights: client hello, server hello, the two finished flights; an
\* alert; and media.  "CLEAR" would be media sent without SRTP protection.
Flights  == {"CH", "SH", "CF", "SF", "ALERT"}
Inbound  == Flights \cup {"MEDIA"}
Outbound == {"CH", "SH", "CF", "SF", "SRTP", "CLEAR"}

IceTask(s)     == [kind |-> "ice", state |-> s]
DataTask(c, m) == [kind |-> "data", comp |-> c, msg |-> m]
Task == {IceTask(s) : s \in {ICE_CANDIDATES_RECEIVED, ICE_READY, ICE_FAILED}}
        \cup {DataTask(c, m) : c \in Comp, m \in Inbound}

NotWriting == <<0, "NONE">>

TypeOK ==
    /\ ice_state \in 0 .. 4
    /\ comp_state \in [Comp -> 0 .. 4]
    /\ last_candidate \in BOOLEAN
    /\ listening \in BOOLEAN
    /\ queue \in Seq(Task)
    /\ state \in {"INITIAL", "GATHERED", "READY", "FINISHED", "FAILED"}
    /\ running \in BOOLEAN
    /\ readyRtp \in BOOLEAN
    /\ readyRtcp \in BOOLEAN
    /\ started \in [Comp -> BOOLEAN]
    /\ hs \in [Comp -> {"idle", "hello", "finish", "done", "failed"}]
    /\ srtp \in [Comp -> {"none", "active", "broken"}]
    /\ armed \in [Comp -> BOOLEAN]
    /\ checks \in [Comp -> 0 .. MaxChecks]
    /\ writing \in (Comp \X {"SRTP", "CLEAR"}) \cup {NotWriting}
    /\ sent \subseteq (Comp \X Outbound)
    /\ delivered \subseteq Comp

Init ==
    /\ ice_state = ICE_INITIAL
    /\ comp_state = [c \in Comp |-> ICE_INITIAL]
    /\ last_candidate = FALSE
    /\ listening = TRUE
    /\ queue = <<>>
    /\ state = "INITIAL"
    /\ running = TRUE
    /\ readyRtp = FALSE
    /\ readyRtcp = FALSE
    /\ started = [c \in Comp |-> FALSE]
    /\ hs = [c \in Comp |-> "idle"]
    /\ srtp = [c \in Comp |-> "none"]
    /\ armed = [c \in Comp |-> FALSE]
    /\ checks = [c \in Comp |-> MaxChecks]
    /\ writing = NotWriting
    /\ sent = {}
    /\ delivered = {}

-----------------------------------------------------------------------------
(***************************************************************************)
(* The ICE thread.                                                         *)
(***************************************************************************)

IceUpdate_NotMonotone(s) ==
    /\ ice_state' = s
    /\ queue' = IF s # ICE_FINISHED /\ listening THEN Append(queue, IceTask(s)) ELSE queue

\* IceConnection::updateIceState: states only go up; FINISHED is not passed
\* on; the others become a task of the worker.
IceUpdate(s) ==
    IF s <= ice_state
    THEN UNCHANGED <<ice_state, queue>>
    ELSE /\ ice_state' = s
         /\ queue' = IF s # ICE_FINISHED /\ listening THEN Append(queue, IceTask(s)) ELSE queue

workerVars == <<state, running, dtlsVars, timerVars, writing, sent, delivered>>

Room == Len(queue) < QueueBound

GatheringDone ==
    /\ Room
    /\ IceUpdate(ICE_CANDIDATES_RECEIVED)
    /\ UNCHANGED <<comp_state, last_candidate, listening, workerVars>>

\* A pair has been selected: ICE is ready once it is for every component.
ComponentReady(c) ==
    /\ Room
    /\ comp_state' = [comp_state EXCEPT ![c] = ICE_READY]
    /\ IF \A d \in Comp : comp_state'[d] = ICE_READY
       THEN IceUpdate(ICE_READY)
       ELSE UNCHANGED <<ice_state, queue>>
    /\ UNCHANGED <<last_candidate, listening, workerVars>>

\* A component failed: ignored until the last remote candidate is known.
ComponentFailed(c) ==
    /\ Room
    /\ comp_state' = [comp_state EXCEPT ![c] = ICE_FAILED]
    /\ IF last_candidate /\ \A d \in Comp : comp_state'[d] = ICE_FAILED
       THEN IceUpdate(ICE_FAILED)
       ELSE UNCHANGED <<ice_state, queue>>
    /\ UNCHANGED <<last_candidate, listening, workerVars>>

\* What the remote endpoint can have sent: each flight answers one of ours;
\* media needs the keys, hence our whole handshake.
PeerMaySend(c, m) ==
    CASE m = "CH"    -> IsServer
      [] m = "SH"    -> ~IsServer /\ <<c, "CH">> \in sent
      [] m = "CF"    -> IsServer /\ <<c, "SH">> \in sent
      [] m = "SF"    -> ~IsServer /\ <<c, "CF">> \in sent
      [] m = "ALERT" -> TRUE
      [] m = "MEDIA" -> IF IsServer THEN <<c, "SF">> \in sent ELSE <<c, "CF">> \in sent

\* A packet arrives; LibNiceConnection::onData drops it unless ICE is READY.
NiceRecv(c, m) ==
    /\ Room
    /\ PeerMaySend(c, m)
    /\ ice_state = ICE_READY
    /\ listening
    /\ queue' = Append(queue, DataTask(c, m))
    /\ UNCHANGED <<iceVars, workerVars>>

-----------------------------------------------------------------------------
(***************************************************************************)
(* Pieces of the worker's tasks.                                           *)
(***************************************************************************)

\* Transport::writeOnIce and LibNiceConnection::sendData.
OnIce(msgs, run) == IF run /\ ice_state = ICE_READY THEN msgs ELSE {}

\* Transport::updateTransportState: the new state, passed up when it differs.
UpdateTransportState(s) == state' = s

\* OpenSSL's reaction to flight m of a socket whose handshake stands at h:
\* the new progress.  An active socket that is fed a packet before start()
\* begins its handshake.
Progress(h, m) ==
    CASE m = "ALERT"                -> "failed"
      [] ~IsServer /\ h = "idle"    -> "hello"
      [] ~IsServer /\ h = "hello" /\ m = "SH"  -> "finish"
      [] ~IsServer /\ h = "finish" /\ m = "SF" -> "done"
      [] IsServer /\ h = "idle" /\ m = "CH"    -> "hello"
      [] IsServer /\ h = "hello" /\ m = "CF"   -> "done"
      [] OTHER                      -> h

\* The flight a socket at progress h sends, or repeats on a timeout.
Flight(c, h) ==
    CASE h = "hello"  -> {<<c, IF IsServer THEN "SH" ELSE "CH">>}
      [] h = "finish" -> {<<c, "CF">>}
      [] h = "done"   -> IF IsServer THEN {<<c, "SF">>} ELSE {}
      [] OTHER        -> {}

RtpReady_NoKeys(c, ok) == readyRtp \/ c = 1

RtpReady(c, ok) == readyRtp \/ (c = 1 /\ ok)

RtcpReady_AlwaysMux(c, ok) == readyRtcp \/ c = 1 \/ (c = 2 /\ ok)

\* There is no socket for RTCP when it is multiplexed.
RtcpReady(c, ok) == readyRtcp \/ (c = 1 /\ RtcpMux) \/ (c = 2 /\ ok)

\* DtlsTransport::onHandshakeCompleted; ok: what setRtpParams returns.
OnHandshakeCompleted(c, ok) ==
    /\ armed' = [d \in Comp |-> FALSE]
    /\ srtp' = [srtp EXCEPT ![c] = IF ok THEN "active" ELSE "broken"]
    /\ readyRtp' = RtpReady(c, ok)
    /\ readyRtcp' = RtcpReady(c, ok)
    /\ UpdateTransportState(IF readyRtp' /\ readyRtcp' THEN "READY"
                            ELSE IF ok THEN state ELSE "FAILED")
    /\ UNCHANGED running

OnHandshakeFailed_Unannounced ==
    /\ running' = FALSE
    /\ UNCHANGED state

\* DtlsTransport::onHandshakeFailed; updateIceStateSync does the same when
\* ICE has failed.
OnHandshakeFailed ==
    /\ running' = FALSE
    /\ UpdateTransportState("FAILED")

\* DtlsSocket::handlePacketMaybe: one iteration of the handshake.  A socket
\* whose handshake is complete ignores every further flight.  The flight it
\* produces is written last, after the transport has been told the outcome.
ReadDtls(c, m) ==
    \/ /\ hs[c] = "done"
       /\ UNCHANGED <<state, running, dtlsVars, timerVars, sent>>
    \/ /\ hs[c] # "done"
       /\ hs' = [hs EXCEPT ![c] = Progress(hs[c], m)]
       /\ \/ /\ hs'[c] = "done"
             /\ \E ok \in BOOLEAN : OnHandshakeCompleted(c, ok)
          \/ /\ hs'[c] = "failed"
             /\ OnHandshakeFailed
             /\ UNCHANGED <<srtp, readyRtp, readyRtcp, armed>>
          \/ /\ hs'[c] \notin {"done", "failed"}
             /\ UNCHANGED <<state, running, srtp, readyRtp, readyRtcp, armed>>
       /\ sent' = sent \cup OnIce(Flight(c, hs'[c]), running')
       /\ UNCHANGED <<started, checks>>

Idle == writing = NotWriting

(***************************************************************************)
(* The worker runs the first task the ICE thread posted.                   *)
(***************************************************************************)

\* ICE is ready: an active transport starts the sockets not started before,
\* each with its timeout checker.
StartHandshakes ==
    LET begin == {c \in Comp : ~IsServer /\ ~started[c]} IN
    /\ started' = [c \in Comp |-> started[c] \/ c \in begin]
    /\ hs' = [c \in Comp |-> IF c \in begin /\ hs[c] = "idle" THEN "hello" ELSE hs[c]]
    /\ armed' = [c \in Comp |-> armed[c] \/ (c \in begin /\ state # "READY")]
    /\ sent' = sent \cup OnIce(UNION {Flight(c, hs'[c]) : c \in begin}, TRUE)

\* DtlsTransport::updateIceStateSync
RunIceTask ==
    /\ Idle /\ queue # <<>> /\ Head(queue).kind = "ice"
    /\ queue' = Tail(queue)
    /\ LET s == Head(queue).state IN
       \/ /\ ~running
          /\ UNCHANGED workerVars
       \/ /\ running /\ s = ICE_CANDIDATES_RECEIVED
          /\ UpdateTransportState("GATHERED")
          /\ UNCHANGED <<running, dtlsVars, timerVars, writing, sent, delivered>>
       \/ /\ running /\ s = ICE_FAILED
          /\ OnHandshakeFailed
          /\ UNCHANGED <<dtlsVars, timerVars, writing, sent, delivered>>
       \/ /\ running /\ s = ICE_READY
          /\ StartHandshakes
          /\ UNCHANGED <<state, running, srtp, readyRtp, readyRtcp, checks, writing, delivered>>
    /\ UNCHANGED iceVars

Readable_BeforeReady(c) == srtp[c] = "active"

\* A packet of component c can be unprotected and goes up.
Readable(c) == state = "READY" /\ srtp[c] = "active"

\* DtlsTransport::onIceData
RunDataTask ==
    /\ Idle /\ queue # <<>> /\ Head(queue).kind = "data"
    /\ queue' = Tail(queue)
    /\ LET c == Head(queue).comp
           m == Head(queue).msg
       IN \/ /\ running /\ m \in Flights
             /\ ReadDtls(c, m)
             /\ UNCHANGED <<writing, delivered>>
          \/ /\ running /\ m \notin Flights /\ Readable(c)
             /\ delivered' = delivered \cup {c}
             /\ UNCHANGED <<state, running, dtlsVars, timerVars, writing, sent>>
          \/ /\ ~running \/ (m \notin Flights /\ ~Readable(c))
             /\ UNCHANGED workerVars
    /\ UNCHANGED iceVars

(***************************************************************************)
(* Tasks posted by others, which the worker runs between two of the above. *)
(***************************************************************************)

ChecksLeft_OffByOne(c) == checks[c] >= 0

\* max_checks_-- > 0
ChecksLeft(c) == checks[c] > 0

\* The check TimeoutChecker::scheduleNext scheduled, not cancelled since.
TimeoutCheck(c) ==
    /\ Idle /\ armed[c]
    /\ \/ /\ state = "READY"
          /\ armed' = [armed EXCEPT ![c] = FALSE]
          /\ UNCHANGED <<state, running, checks, sent>>
       \/ /\ state # "READY" /\ ChecksLeft(c)
          /\ checks' = [checks EXCEPT ![c] = @ - 1]
          /\ sent' = sent \cup OnIce(Flight(c, hs[c]), running)
          /\ UNCHANGED <<state, running, armed>>
       \/ /\ state # "READY" /\ ~ChecksLeft(c)
          /\ armed' = [armed EXCEPT ![c] = FALSE]
          /\ OnHandshakeFailed
          /\ UNCHANGED <<checks, sent>>
    /\ UNCHANGED <<iceVars, queue, dtlsVars, writing, delivered>>

\* DtlsTransport::write, up to and including the protection of the packet.
\* The ICE thread can change ice_state_ before the packet is sent.
WriteProtect(c) ==
    /\ Idle /\ running /\ state = "READY"
    /\ \/ srtp[c] # "none" /\ ice_state = ICE_READY /\ srtp[c] = "active"
          /\ writing' = <<c, "SRTP">>
       \/ ~(srtp[c] # "none" /\ ice_state = ICE_READY)
          /\ writing' = <<c, "CLEAR">>
    /\ UNCHANGED <<iceVars, queue, state, running, dtlsVars, timerVars, sent, delivered>>

WriteSend_NotRechecked ==
    /\ ~Idle
    /\ sent' = sent \cup {writing}
    /\ writing' = NotWriting
    /\ UNCHANGED <<iceVars, queue, state, running, dtlsVars, timerVars, delivered>>

\* The rest of write(): ICE is asked for its state again.
WriteSend ==
    /\ ~Idle
    /\ sent' = sent \cup OnIce({writing}, running)
    /\ writing' = NotWriting
    /\ UNCHANGED <<iceVars, queue, state, running, dtlsVars, timerVars, delivered>>

\* LibNiceConnection::setReceivedLastCandidate
SetReceivedLastCandidate ==
    /\ Idle /\ ~last_candidate
    /\ last_candidate' = TRUE
    /\ UNCHANGED <<ice_state, comp_state, listening, queue, workerVars>>

\* LibNiceConnection::close.  A failed connection stays FAILED.
IceClose ==
    /\ ice_state' = IF ICE_FINISHED <= ice_state THEN ice_state ELSE ICE_FINISHED
    /\ listening' = FALSE

\* DtlsTransport::close
Close ==
    /\ Idle /\ state # "FINISHED"
    /\ running' = FALSE
    /\ armed' = [c \in Comp |-> FALSE]
    /\ IceClose
    /\ state' = "FINISHED"
    /\ UNCHANGED <<comp_state, last_candidate, queue, dtlsVars, checks, writing, sent, delivered>>

Next ==
    \/ GatheringDone
    \/ \E c \in Comp : ComponentReady(c)
    \/ \E c \in Comp : ComponentFailed(c)
    \/ \E c \in Comp, m \in Inbound : NiceRecv(c, m)
    \/ RunIceTask
    \/ RunDataTask
    \/ \E c \in Comp : TimeoutCheck(c)
    \/ \E c \in Comp : WriteProtect(c)
    \/ WriteSend
    \/ SetReceivedLastCandidate
    \/ Close

(***************************************************************************)
(* The worker's thread runs its tasks and the Scheduler posts every check. *)
(* Nothing is assumed of the network, of the peer, of libnice or of the    *)
(* application.                                                            *)
(***************************************************************************)
Fairness ==
    /\ WF_vars(RunIceTask) /\ WF_vars(RunDataTask) /\ WF_vars(WriteSend)
    /\ \A c \in Comp : WF_vars(TimeoutCheck(c))

Spec == Init /\ [][Next]_vars /\ Fairness

-----------------------------------------------------------------------------
\* The transport implements the contract WebRtcConnection relies on: its
\* state never goes back, in particular a gathering that ends late is never
\* announced after TRANSPORT_READY or TRANSPORT_FAILED.
Contract == INSTANCE Transport
ForwardOnly == Contract!TransportSpec

\* TRANSPORT_READY is announced only when every socket has completed its
\* handshake and has a working SRTP channel (readyRtp && readyRtcp).
ReadyIsKeyed == state = "READY" => \A c \in Comp : hs[c] = "done" /\ srtp[c] = "active"

\* write() never sends media unprotected, although it asks for the ICE state
\* once to decide on protecting the packet and again to decide on sending it.
NoClearMedia == \A c \in Comp : <<c, "CLEAR">> \notin sent

\* Media goes up to the connection only after every socket of the transport
\* has its keys, also media of a component whose own keys were there earlier.
MediaAfterAllKeys ==
    delivered # {} => \A c \in Comp : hs[c] = "done" /\ srtp[c] = "active"

\* An active transport does not wait for ever: the bounded timeout checks
\* end every handshake it started, even if the network delivers nothing.  A
\* completed handshake of one socket cancels the checks of both.
HandshakeEnds ==
    \A c \in Comp :
        started[c] ~> (state \in {"READY", "FAILED", "FINISHED"} \/ \E d \in Comp : hs[d] = "done")
=============================================================================
