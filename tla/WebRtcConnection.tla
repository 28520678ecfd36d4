-------------------------- MODULE WebRtcConnection --------------------------
(***************************************************************************)
(* A WebRtcConnection and the transports it owns (licodecore/erizo).       *)
(* Everything here runs on the connection's Worker, one task at a time:    *)
(* the application's calls, posted with asyncTask, and the updateState     *)
(* callbacks of the transports.  The transports follow the contract of     *)
(* module Transport, which DtlsTransport implements.  A callback can also  *)
(* come from inside a call: starting a transport gathers its candidates,   *)
(* and without a STUN server libnice reports the end of the gathering      *)
(* before it returns; Worker::task then runs the callback inline.          *)
(*                                                                         *)
(* A session has one set of media and is bundled or not for all its life:  *)
(* offers offer all its media, a remote description has some of them.      *)
(* Remote descriptions are SAVPF with a fingerprint, as WebRTC's are.      *)
(*                                                                         *)
(* An operator named X_Y is a variant of X with a fault, Y: the properties *)
(* that detect it are listed in PROJECT.json.                              *)
(***************************************************************************)
EXTENDS Naturals

CONSTANTS
    SessionMedia,   \* the media of the session
    Bundle,         \* all media on one transport
    Trickle,        \* ice_config_.should_trickle
    AfterStart,     \* the states start() leaves a transport in: "GATHERED" when
                    \* there is no STUN server, so gathering ends inside it
    Streams,        \* media streams the application adds and removes
    MaxSdp          \* bound: remote descriptions in a session

Media == {"video", "audio"}

ASSUME ConnectionAssumption ==
    /\ SessionMedia \subseteq Media /\ SessionMedia # {}
    /\ Bundle \in BOOLEAN
    /\ Trickle \in BOOLEAN
    /\ AfterStart \subseteq {"INITIAL", "GATHERED"}
    /\ MaxSdp \in Nat

VARIABLES
    global_state,
    sending,
    bundle,
    listening,      \* conn_event_listener_ is set
    ts,             \* state of video_transport_ and audio_transport_, or "NULL"
    cred,           \* transports that have the remote credentials
    cands,          \* transports that were given remote candidates
    local,          \* media of local_sdp_: hasVideo, hasAudio
    remote,         \* media of remote_sdp_, and whether it holds candidates
    sdps,           \* remote descriptions set so far
    processed,      \* first_remote_sdp_processed_
    media_streams,
    doing,          \* the call the worker is in the middle of
    pending,        \* the transports that call still has to start
    locked,         \* that call holds update_state_mutex_
    stuck,          \* the worker waits for update_state_mutex_, which it holds
    last_event      \* the last event passed to the listener

sdpVars  == <<local, remote, sdps, processed>>
callVars == <<doing, pending, locked>>
vars == <<global_state, sending, bundle, listening, ts, cred, cands, sdpVars, media_streams,
          callVars, stuck, last_event>>

T == INSTANCE Transport WITH state <- ts["video"]     \* for T!After only

TransportState == {"NULL", "INITIAL", "GATHERED", "READY", "FINISHED", "FAILED"}

\* enum WebRTCEvent; CONN_STARTED is never announced, no transport being STARTED.
Event == {"INITIAL", "GATHERED", "READY", "FINISHED", "FAILED"}
Rank(e) == CASE e = "INITIAL"  -> 101
             [] e = "STARTED"  -> 102
             [] e = "GATHERED" -> 103
             [] e = "READY"    -> 104
             [] e = "FINISHED" -> 105
             [] e = "FAILED"   -> 500

TypeOK ==
    /\ global_state \in Event
    /\ sending \in BOOLEAN
    /\ bundle \in BOOLEAN
    /\ listening \in BOOLEAN
    /\ ts \in [Media -> TransportState]
    /\ cred \subseteq Media
    /\ cands \subseteq Media
    /\ local \subseteq Media
    /\ remote \in [media : SUBSET Media, cand : BOOLEAN]
    /\ sdps \in 0 .. MaxSdp
    /\ processed \in BOOLEAN
    /\ media_streams \subseteq Streams
    /\ doing \in {"none", "createOffer", "processRemoteSdp"}
    /\ pending \subseteq Media
    /\ locked \in BOOLEAN
    /\ stuck \in BOOLEAN
    /\ last_event \in Event

\* Constructed, and init() has announced CONN_INITIAL.
Init ==
    /\ global_state = "INITIAL"
    /\ sending = TRUE
    /\ bundle = FALSE
    /\ listening = TRUE
    /\ ts = [t \in Media |-> "NULL"]
    /\ cred = {}
    /\ cands = {}
    /\ local = {}
    /\ remote = [media |-> {}, cand |-> FALSE]
    /\ sdps = 0
    /\ processed = FALSE
    /\ media_streams = {}
    /\ doing = "none"
    /\ pending = {}
    /\ locked = FALSE
    /\ stuck = FALSE
    /\ last_event = "INITIAL"

Idle == doing = "none" /\ ~stuck

-----------------------------------------------------------------------------
\* maybeNotifyWebRtcConnectionEvent
Notify(e) == last_event' = IF listening THEN e ELSE last_event

AllAt(ms, s) == \A m \in ms : ts'[m] = s

NowGathered_Any(s) == s = "GATHERED" /\ ~Trickle

\* updateState announces CONN_GATHERED.
NowGathered(s) == s = "GATHERED" /\ ~Trickle /\ (bundle \/ AllAt(local, "GATHERED"))

NowReady_Any(s)     == s = "READY"
NowReady_Offered(s) == s = "READY" /\ (bundle \/ AllAt(SessionMedia, "READY"))

\* updateState announces CONN_READY.
NowReady(s) == s = "READY" /\ (bundle \/ AllAt(remote.media, "READY"))

NowFailed_All(s) == s = "FAILED" /\ AllAt(SessionMedia, "FAILED")

NowFailed(s) == s = "FAILED"

\* The state that updateState computes when a transport reaches state s.
NewState(s) ==
    CASE NowGathered(s) -> "GATHERED"
      [] NowReady(s)    -> "READY"
      [] NowFailed(s)   -> "FAILED"
      [] OTHER          -> global_state

\* WebRtcConnection::updateState, called with the transports' states in ts'.
\* It takes update_state_mutex_, which is not recursive.
UpdateState(s) ==
    \/ /\ locked
       /\ stuck' = TRUE
       /\ UNCHANGED <<global_state, sending, cands, last_event>>
    \/ /\ ~locked /\ global_state = "FAILED"
       /\ UNCHANGED <<global_state, sending, cands, stuck, last_event>>
    \/ /\ ~locked /\ global_state # "FAILED"
       /\ cands' = IF s = "GATHERED" /\ bundle /\ remote.cand /\ "video" \in remote.media
                   THEN cands \cup {"video"} ELSE cands
       /\ sending' = (sending /\ s # "FAILED")
       /\ global_state' = NewState(s)
       /\ IF global_state' = global_state THEN UNCHANGED last_event ELSE Notify(global_state')
       /\ UNCHANGED stuck

\* A transport reports its next state.  None gets ready before it has the
\* remote credentials.
TransportUpdate(t, s) ==
    /\ Idle
    /\ ts[t] # "NULL" /\ s \in T!After(ts[t]) \ {"FINISHED"}
    /\ s = "READY" => t \in cred
    /\ ts' = [ts EXCEPT ![t] = s]
    /\ UpdateState(s)
    /\ UNCHANGED <<bundle, listening, cred, sdpVars, media_streams, callVars>>

-----------------------------------------------------------------------------
Carriers(ms) == IF Bundle THEN {"video"} ELSE ms

\* The video transport is started before the audio transport.
First(set) == IF "video" \in set THEN "video" ELSE "audio"

\* createOfferSync, up to the creation of the transports.
CreateOffer ==
    /\ Idle
    /\ locked' = TRUE
    /\ bundle' = Bundle
    /\ local' = SessionMedia
    /\ doing' = "createOffer"
    /\ pending' = {t \in Carriers(SessionMedia) : ts[t] = "NULL"}
    /\ UNCHANGED <<global_state, sending, listening, ts, cred, cands, remote, sdps, processed,
                   media_streams, stuck, last_event>>

\* The rest of createOfferSync: the offer is announced and the lock released.
OfferCreated ==
    /\ doing = "createOffer" /\ pending = {} /\ ~stuck
    /\ Notify(global_state)
    /\ locked' = FALSE
    /\ doing' = "none"
    /\ UNCHANGED <<global_state, sending, bundle, listening, ts, cred, cands, sdpVars,
                   media_streams, pending, stuck>>

\* A transport is created and started, with or without remote credentials.
StartTransport ==
    /\ pending # {} /\ ~stuck
    /\ pending' = pending \ {First(pending)}
    /\ cred' = IF doing = "processRemoteSdp" THEN cred \cup {First(pending)} ELSE cred
    /\ \E s \in AfterStart :
          /\ ts' = [ts EXCEPT ![First(pending)] = s]
          /\ IF s = "GATHERED" THEN UpdateState("GATHERED")
             ELSE UNCHANGED <<global_state, sending, cands, stuck, last_event>>
    /\ UNCHANGED <<bundle, listening, sdpVars, media_streams, doing, locked>>

\* processRemoteSdp, up to the creation of the transports.  Only the first
\* description is negotiated.
ProcessRemoteSdp ==
    \/ /\ processed
       /\ UNCHANGED <<bundle, local, cred, doing, pending>>
    \/ /\ ~processed
       /\ bundle' = Bundle
       /\ local' = remote'.media
       /\ cred' = cred \cup {t \in Carriers(remote'.media) : ts[t] # "NULL"}
       /\ doing' = "processRemoteSdp"
       /\ pending' = {t \in Carriers(remote'.media) : ts[t] = "NULL"}

\* setRemoteSdpInfo replaces the remote description, setRemoteSdp adds to it.
NewRemote(ms, cand, replace) ==
    IF replace THEN [media |-> ms, cand |-> cand]
    ELSE [media |-> ms \cup remote.media, cand |-> cand \/ remote.cand]

\* setRemoteSdpInfo and setRemoteSdp: nothing happens to a connection that
\* has failed or was closed.
SetRemoteSdp(ms, cand, replace) ==
    /\ Idle /\ sdps < MaxSdp
    /\ cand => ms # {}
    /\ sdps' = sdps + 1
    /\ \/ /\ ~sending
          /\ UNCHANGED <<bundle, local, remote, cred, doing, pending>>
       \/ /\ sending
          /\ remote' = NewRemote(ms, cand, replace)
          /\ ProcessRemoteSdp
    /\ UNCHANGED <<global_state, sending, listening, ts, cands, processed, media_streams, locked,
                   stuck, last_event>>

GatheringOver_OffByOne == Rank(global_state) > Rank("GATHERED")

\* getCurrentState() >= CONN_GATHERED
GatheringOver == Rank(global_state) >= Rank("GATHERED")

\* The rest of processRemoteSdp: the candidates of the description are passed
\* on, if gathering is over.
RemoteSdpProcessed ==
    /\ doing = "processRemoteSdp" /\ pending = {} /\ ~stuck
    /\ cands' = IF GatheringOver /\ remote.cand
                THEN cands \cup ((IF bundle THEN {"video"} ELSE Media) \cap remote.media)
                ELSE cands
    /\ processed' = TRUE
    /\ doing' = "none"
    /\ UNCHANGED <<global_state, sending, bundle, listening, ts, cred, local, remote, sdps,
                   media_streams, pending, locked, stuck, last_event>>

\* addRemoteCandidateSync: a trickled candidate of a medium goes to the
\* transport that carries it, and into the remote description.
AddRemoteCandidate(m) ==
    LET t == IF bundle THEN "video" ELSE m IN
    /\ Idle /\ ts[t] # "NULL"
    /\ cands' = cands \cup {t}
    /\ remote' = [remote EXCEPT !.cand = TRUE]
    /\ UNCHANGED <<global_state, sending, bundle, listening, ts, cred, local, sdps, processed,
                   media_streams, callVars, stuck, last_event>>

AddMediaStream(s) ==
    /\ Idle
    /\ media_streams' = media_streams \cup {s}
    /\ UNCHANGED <<global_state, sending, bundle, listening, ts, cred, cands, sdpVars, callVars,
                   stuck, last_event>>

RemoveMediaStream(s) ==
    /\ Idle /\ s \in media_streams
    /\ media_streams' = media_streams \ {s}
    /\ UNCHANGED <<global_state, sending, bundle, listening, ts, cred, cands, sdpVars, callVars,
                   stuck, last_event>>

\* syncClose, with the close() of the transports: a connection that does not
\* send any more (closed or failed) is left alone.
Close ==
    /\ Idle /\ sending
    /\ sending' = FALSE
    /\ media_streams' = {}
    /\ ts' = [t \in Media |-> IF ts[t] = "NULL" THEN "NULL" ELSE "FINISHED"]
    /\ global_state' = "FINISHED"
    /\ listening' = FALSE
    /\ UNCHANGED <<bundle, cred, cands, sdpVars, callVars, stuck, last_event>>

Next ==
    \/ \E t \in Media, s \in TransportState : TransportUpdate(t, s)
    \/ CreateOffer
    \/ OfferCreated
    \/ StartTransport
    \/ \E ms \in SUBSET SessionMedia, cand \in BOOLEAN, replace \in BOOLEAN :
          SetRemoteSdp(ms, cand, replace)
    \/ RemoteSdpProcessed
    \/ \E m \in SessionMedia : AddRemoteCandidate(m)
    \/ \E s \in Streams : AddMediaStream(s)
    \/ \E s \in Streams : RemoveMediaStream(s)
    \/ Close

Spec == Init /\ [][Next]_vars

-----------------------------------------------------------------------------
\* The listener never sees the connection go back: no CONN_GATHERED after
\* CONN_READY, nothing else after CONN_FAILED, whatever the order in which the
\* transports gather, get ready and fail, and whatever is renegotiated.
EventsForward == [][Rank(last_event') >= Rank(last_event)]_vars

\* The transports the remote media need.
Needed == IF Bundle THEN {"video"} ELSE remote.media

\* The remote media are the negotiated ones: without a bundle a second
\* description replaces them, and the code says nothing of what it should do.
Agreed == Bundle \/ sdps <= 1

\* "WebRTCConnection will be ready only when all channels are ready."
ReadyMeansAllChannels ==
    Agreed /\ global_state = "READY" => \A m \in Needed : ts[m] = "READY"

\* ... and it is then, unless it has failed, although each transport reports on
\* its own and the state is only computed when one does.
NoMissedReady ==
    (Agreed /\ processed /\ Needed # {} /\ \A m \in Needed : ts[m] = "READY")
        => global_state \in {"READY", "FAILED"}

\* Candidates that came in the remote description reach a transport that has
\* gathered, whichever of the two came first ("Passing now new candidates
\* that could not be passed before"). It does not hold of a bundle without
\* video: when gathering ends they are passed on only to remote video.
CandidatesApplied ==
    processed /\ remote.cand =>
        \A m \in Needed : ts[m] = "GATHERED" => m \in cands

\* What the code does guarantee of this: the candidates of the first
\* description of a bundle with video are passed on, if candidates are not
\* trickled (a connection that trickles is never CONN_GATHERED, so the answer
\* to its offer may find it neither gathered nor still gathering).
VideoCandidatesApplied == sdps = 1 /\ "video" \in remote.media => CandidatesApplied

\* The worker never waits for a mutex it holds ("Important: send this outside
\* our state lock.  Otherwise, serious risk of deadlock.").
NoSelfDeadlock == ~stuck

\* A failure is never lost: a transport fails and the connection has failed,
\* or was closed before.
FailureSurfaces ==
    (\E t \in Media : ts[t] = "FAILED") => global_state = "FAILED"
=============================================================================
