----------------------- MODULE WebRtcConnectionProofs -----------------------
(***************************************************************************)
(* Proofs about WebRtcConnection, for every session: any media, bundled or *)
(* not, trickling or not, with any number of streams and descriptions.     *)
(***************************************************************************)
EXTENDS WebRtcConnection, TLAPS

\* The listener, while there is one, has been told the current state.
ListenerInv == listening => last_event = global_state /\ global_state # "FINISHED"

\* Which transports exist, and which have credentials: only those of media
\* that are in the local description.
TransportInv ==
    /\ Bundle => ts["audio"] = "NULL" /\ pending \subseteq {"video"}
    /\ \A t \in pending : ts[t] = "NULL"
    /\ \A t \in cred : ts[t] # "NULL"
    /\ local \subseteq SessionMedia /\ remote.media \subseteq SessionMedia
    /\ ~Bundle => cred \subseteq local
    /\ ~Bundle /\ doing = "processRemoteSdp" => pending \subseteq local
    /\ (pending # {} \/ \E t \in Media : ts[t] # "NULL") => bundle = Bundle
    /\ doing = "none" => pending = {}
    /\ doing # "createOffer" => ~locked
    /\ ~processed /\ doing # "processRemoteSdp" => cred = {}
    /\ sdps = 0 => ~processed /\ doing # "processRemoteSdp"

\* CONN_READY rests on a transport that is ready and has credentials.
ReadyInv == global_state = "READY" => \E t \in cred : ts[t] = "READY"

Inv == TypeOK /\ ListenerInv /\ TransportInv /\ ReadyInv /\ FailureSurfaces

\* The invariant holds initially.
LEMMA InitInv == Init => Inv
<1> SUFFICES ASSUME Init PROVE Inv
  OBVIOUS
<1> USE ConnectionAssumption DEF ConnectionAssumption
<1>1. TypeOK
  <2>1. ts \in [Media -> TransportState]
    BY DEF Init, TransportState
  <2>2. remote \in [media : SUBSET Media, cand : BOOLEAN]
    BY DEF Init
  <2>3. sdps \in 0 .. MaxSdp /\ global_state \in Event /\ last_event \in Event
        /\ doing \in {"none", "createOffer", "processRemoteSdp"}
    BY DEF Init, Event
  <2>4. cred \subseteq Media /\ cands \subseteq Media /\ local \subseteq Media /\ pending \subseteq Media
        /\ media_streams \subseteq Streams
    BY DEF Init
  <2>5. /\ sending \in BOOLEAN /\ bundle \in BOOLEAN /\ listening \in BOOLEAN /\ processed \in BOOLEAN
        /\ locked \in BOOLEAN /\ stuck \in BOOLEAN
    BY DEF Init
  <2> QED
    BY <2>1, <2>2, <2>3, <2>4, <2>5 DEF TypeOK
<1> QED
  BY <1>1 DEF Init, Inv, ListenerInv, TransportInv, ReadyInv, FailureSurfaces, Media

\* What updateState does: CONN_FAILED stays, and the state it computes goes
\* forward unless it falls back to CONN_GATHERED.
LEMMA UpdateStateFacts ==
    ASSUME Inv, NEW s \in {"GATHERED", "READY", "FAILED"}, UpdateState(s)
    PROVE  /\ global_state' \in Event /\ sending' \in BOOLEAN /\ cands' \subseteq Media
           /\ stuck' \in BOOLEAN /\ last_event' \in Event
           /\ listening => last_event' = global_state'
           /\ ~listening => last_event' = last_event
           /\ global_state' # global_state => ~locked /\ global_state # "FAILED" /\ global_state' = s
           /\ ~locked /\ s = "FAILED" => global_state' = "FAILED"
           /\ global_state' # global_state /\ s = "GATHERED" => bundle \/ AllAt(local, "GATHERED")
           /\ global_state' # global_state /\ s = "READY" => bundle \/ AllAt(remote.media, "READY")
<1>1. NewState(s) \in {s, global_state} /\ (s = "FAILED" => NewState(s) = "FAILED")
      /\ (NewState(s) # global_state /\ s = "GATHERED" => bundle \/ AllAt(local, "GATHERED"))
      /\ (NewState(s) # global_state /\ s = "READY" => bundle \/ AllAt(remote.media, "READY"))
  BY DEF NewState, NowGathered, NowReady, NowFailed
<1> QED
  BY <1>1 DEF UpdateState, Notify, Inv, TypeOK, ListenerInv, Event, Media

\* A transport's report preserves the invariant, and never takes the state
\* back from CONN_READY to CONN_GATHERED.
LEMMA TransportUpdateStep ==
    ASSUME Inv, NEW t \in Media, NEW s \in TransportState, TransportUpdate(t, s)
    PROVE  Inv' /\ (global_state = "READY" => global_state' # "GATHERED")
<1> USE DEF sdpVars, callVars
<1>1. /\ s \in {"GATHERED", "READY", "FAILED"} /\ ts[t] \in {"INITIAL", "GATHERED", "READY"}
      /\ s = "GATHERED" => ts[t] = "INITIAL"
      /\ s = "READY" => ts[t] \in {"INITIAL", "GATHERED"} /\ t \in cred
      /\ ~locked /\ doing = "none" /\ pending = {} /\ bundle = Bundle
  BY DEF TransportUpdate, T!After, Idle, Inv, TypeOK, TransportState, TransportInv
<1>2. /\ ts' \in [Media -> TransportState] /\ ts'[t] = s /\ \A m \in Media \ {t} : ts'[m] = ts[m]
      /\ UpdateState(s)
      /\ UNCHANGED <<bundle, listening, cred, sdpVars, media_streams, callVars>>
  BY DEF TransportUpdate, Inv, TypeOK
<1>3. TypeOK'
  BY <1>1, <1>2, UpdateStateFacts DEF Inv, TypeOK
<1>4. ListenerInv'
  BY <1>1, <1>2, UpdateStateFacts DEF Inv, ListenerInv
<1>5. TransportInv'
  BY <1>1, <1>2 DEF Inv, TypeOK, TransportInv, Media, TransportState
<1>6. global_state = "READY" => global_state' # "GATHERED"
  <2> SUFFICES ASSUME global_state = "READY", global_state' = "GATHERED" PROVE FALSE
    OBVIOUS
  <2>1. s = "GATHERED" /\ (Bundle \/ AllAt(local, "GATHERED"))
    BY <1>1, <1>2, UpdateStateFacts
  <2>2. PICK r \in cred : ts[r] = "READY"
    BY DEF Inv, ReadyInv
  <2>3. r \in Media \ {t} /\ ts'[r] = "READY"
    BY <1>1, <1>2, <2>1, <2>2 DEF Inv, TypeOK
  <2>4. CASE Bundle
    BY <1>1, <2>1, <2>2, <2>3, <2>4 DEF Inv, TransportInv, Media
  <2>5. CASE ~Bundle
    BY <2>1, <2>2, <2>3, <2>5 DEF Inv, TransportInv, AllAt
  <2> QED
    BY <2>4, <2>5
<1>7. ReadyInv'
  <2>1. CASE global_state' = "READY" /\ global_state # "READY"
    BY <1>1, <1>2, <2>1, UpdateStateFacts DEF ReadyInv
  <2>2. CASE global_state' = "READY" /\ global_state = "READY"
    <3>1. PICK r \in cred : ts[r] = "READY"
      BY <2>2 DEF Inv, ReadyInv
    <3>2. s # "FAILED"
      BY <1>1, <1>2, <2>2, UpdateStateFacts
    <3> QED
      BY <1>1, <1>2, <3>1, <3>2 DEF ReadyInv, Inv, TypeOK
  <2> QED
    BY <2>1, <2>2 DEF ReadyInv
<1>8. FailureSurfaces'
  BY <1>1, <1>2, UpdateStateFacts DEF Inv, FailureSurfaces
<1> QED
  BY <1>3, <1>4, <1>5, <1>6, <1>7, <1>8 DEF Inv

\* So does the start of a transport, with a gathering that ends inside it.
LEMMA StartTransportStep ==
    ASSUME Inv, StartTransport
    PROVE  Inv' /\ (global_state = "READY" => global_state' # "GATHERED")
<1> USE DEF sdpVars
<1> DEFINE t == First(pending)
<1>0. pending # {}
  BY DEF StartTransport
<1>1. t \in pending /\ t \in Media /\ ts[t] = "NULL" /\ bundle = Bundle /\ doing # "none"
  BY <1>0 DEF First, Inv, TypeOK, TransportInv, Media
<1>2. /\ ts' \in [Media -> TransportState] /\ ts'[t] \in {"INITIAL", "GATHERED"}
      /\ \A m \in Media \ {t} : ts'[m] = ts[m]
      /\ pending' = pending \ {t}
      /\ cred' = cred \/ (cred' = cred \cup {t} /\ doing = "processRemoteSdp")
      /\ UNCHANGED <<bundle, listening, sdpVars, media_streams, doing, locked>>
  BY <1>1, ConnectionAssumption DEF StartTransport, Inv, TypeOK, TransportState
<1>3. UpdateState("GATHERED") \/ UNCHANGED <<global_state, sending, cands, stuck, last_event>>
  BY DEF StartTransport
<1> HIDE DEF t
<1>4. TypeOK'
  BY <1>1, <1>2, <1>3, UpdateStateFacts DEF Inv, TypeOK
<1>5. ListenerInv'
  BY <1>1, <1>2, <1>3, UpdateStateFacts DEF Inv, ListenerInv
<1>6. TransportInv'
  <2>0. \A r \in pending' : r \in Media \ {t} /\ r \in pending
    BY <1>1, <1>2 DEF Inv, TypeOK
  <2>1. /\ Bundle => ts'["audio"] = "NULL" /\ pending' \subseteq {"video"}
        /\ \A r \in pending' : ts'[r] = "NULL"
    <3>1. Bundle => t = "video" /\ "audio" \in Media \ {t}
      BY <1>1 DEF Inv, TransportInv, Media
    <3> QED
      BY <1>2, <2>0, <3>1 DEF Inv, TransportInv
  <2>2. \A r \in cred' : ts'[r] # "NULL"
    <3>1. ts'[t] # "NULL" /\ \A r \in cred : r \in Media \ {t} /\ ts[r] # "NULL"
      BY <1>1, <1>2 DEF Inv, TypeOK, TransportInv
    <3> QED
      BY <1>2, <3>1
  <2>3. ~Bundle => cred' \subseteq local'
    BY <1>1, <1>2 DEF Inv, TransportInv
  <2>4. UNCHANGED <<bundle, local, remote, sdps, processed, doing, locked>> /\ bundle = Bundle
        /\ pending' \subseteq pending /\ doing # "none"
    BY <1>1, <1>2
  <2>5. doing # "processRemoteSdp" => cred' = cred
    BY <1>2
  <2> QED
    BY <2>1, <2>2, <2>3, <2>4, <2>5 DEF Inv, TransportInv
<1>7. \A r \in cred : r \in Media \ {t} /\ ts'[r] = ts[r]
  BY <1>1, <1>2 DEF Inv, TypeOK, TransportInv
<1>8. global_state = "READY" => global_state' # "GATHERED"
  <2> SUFFICES ASSUME global_state = "READY", global_state' = "GATHERED" PROVE FALSE
    OBVIOUS
  <2>1. Bundle \/ AllAt(local, "GATHERED")
    BY <1>1, <1>3, UpdateStateFacts
  <2>2. PICK r \in cred : ts[r] = "READY"
    BY DEF Inv, ReadyInv
  <2>3. CASE Bundle
    BY <1>1, <1>7, <2>2, <2>3 DEF Inv, TransportInv, Media
  <2>4. CASE ~Bundle
    BY <1>7, <2>1, <2>2, <2>4 DEF Inv, TransportInv, AllAt
  <2> QED
    BY <2>3, <2>4
<1>9. ReadyInv'
  <2>1. global_state' = "READY" => global_state = "READY"
    BY <1>3, UpdateStateFacts
  <2> QED
    BY <1>2, <1>7, <2>1 DEF Inv, ReadyInv
<1>10. FailureSurfaces'
  <2>1. global_state = "FAILED" => global_state' = "FAILED"
    BY <1>3, UpdateStateFacts
  <2> QED
    BY <1>1, <1>2, <2>1 DEF Inv, FailureSurfaces
<1> QED
  BY <1>4, <1>5, <1>6, <1>8, <1>9, <1>10 DEF Inv

\* The calls of the application preserve the invariant and leave the state
\* alone, but for close.
LEMMA CallStep ==
    ASSUME Inv,
           \/ CreateOffer \/ OfferCreated \/ RemoteSdpProcessed
           \/ \E m \in SessionMedia : AddRemoteCandidate(m)
           \/ \E s \in Streams : AddMediaStream(s) \/ RemoveMediaStream(s)
           \/ UNCHANGED vars
    PROVE  Inv' /\ UNCHANGED global_state
<1> USE ConnectionAssumption DEF ConnectionAssumption, sdpVars, callVars, Idle
<1>1. CASE CreateOffer
  <2>1. TypeOK' /\ UNCHANGED global_state
    BY <1>1 DEF CreateOffer, Carriers, Inv, TypeOK, Media
  <2>2. TransportInv'
    BY <1>1 DEF CreateOffer, Carriers, Inv, TypeOK, TransportInv, Media
  <2> QED
    BY <1>1, <2>1, <2>2 DEF CreateOffer, Inv, ListenerInv, ReadyInv, FailureSurfaces
<1>2. CASE OfferCreated
  BY <1>2 DEF OfferCreated, Notify, Inv, TypeOK, ListenerInv, TransportInv, ReadyInv, FailureSurfaces
<1>3. CASE RemoteSdpProcessed
  <2>1. cands' \subseteq Media
    BY <1>3 DEF RemoteSdpProcessed, Inv, TypeOK, Media
  <2> QED
    BY <1>3, <2>1 DEF RemoteSdpProcessed, Inv, TypeOK, ListenerInv, TransportInv, ReadyInv, FailureSurfaces
<1>4. ASSUME NEW m \in SessionMedia, AddRemoteCandidate(m) PROVE Inv' /\ UNCHANGED global_state
  <2>1. cands' \subseteq Media /\ remote' \in [media : SUBSET Media, cand : BOOLEAN]
        /\ remote'.media = remote.media
    BY <1>4 DEF AddRemoteCandidate, Inv, TypeOK, Media
  <2> QED
    BY <1>4, <2>1 DEF AddRemoteCandidate, Inv, TypeOK, ListenerInv, TransportInv, ReadyInv, FailureSurfaces
<1>5. ASSUME NEW s \in Streams, AddMediaStream(s) \/ RemoveMediaStream(s)
      PROVE  Inv' /\ UNCHANGED global_state
  BY <1>5 DEF AddMediaStream, RemoveMediaStream, Inv, TypeOK, ListenerInv, TransportInv, ReadyInv, FailureSurfaces
<1>6. CASE UNCHANGED vars
  BY <1>6 DEF vars, Inv, TypeOK, ListenerInv, TransportInv, ReadyInv, FailureSurfaces
<1> QED
  BY <1>1, <1>2, <1>3, <1>4, <1>5, <1>6

\* A remote description preserves the invariant.
LEMMA SetRemoteSdpStep ==
    ASSUME Inv, NEW ms \in SUBSET SessionMedia, NEW cand \in BOOLEAN, NEW replace \in BOOLEAN,
           SetRemoteSdp(ms, cand, replace)
    PROVE  Inv' /\ UNCHANGED global_state
<1> USE ConnectionAssumption DEF ConnectionAssumption, Idle
<1>1. /\ sdps' \in 1 .. MaxSdp /\ doing = "none" /\ pending = {}
      /\ UNCHANGED <<global_state, sending, listening, ts, cands, processed, media_streams, locked,
                     stuck, last_event>>
  BY DEF SetRemoteSdp, ProcessRemoteSdp, NewRemote, Inv, TypeOK, TransportInv
<1>2. CASE UNCHANGED <<bundle, local, cred, doing, pending>> /\ remote' = remote
  BY <1>1, <1>2 DEF Inv, TypeOK, ListenerInv, TransportInv, ReadyInv, FailureSurfaces
<1>3. CASE ~(UNCHANGED <<bundle, local, cred, doing, pending>> /\ remote' = remote)
  <2>1. remote' \in [media : SUBSET Media, cand : BOOLEAN] /\ remote'.media \subseteq SessionMedia
    BY <1>3 DEF SetRemoteSdp, ProcessRemoteSdp, NewRemote, Inv, TypeOK, TransportInv
  <2>2. CASE UNCHANGED <<bundle, local, cred, doing, pending>>
    BY <1>1, <2>1, <2>2 DEF Inv, TypeOK, ListenerInv, TransportInv, ReadyInv, FailureSurfaces
  <2>3. CASE /\ bundle' = Bundle /\ local' = remote'.media
             /\ cred' = cred \cup {t \in Carriers(remote'.media) : ts[t] # "NULL"}
             /\ doing' = "processRemoteSdp"
             /\ pending' = {t \in Carriers(remote'.media) : ts[t] = "NULL"}
             /\ cred = {}
    <3>1. Carriers(remote'.media) \subseteq Media /\ (Bundle => Carriers(remote'.media) = {"video"})
          /\ (~Bundle => Carriers(remote'.media) = remote'.media)
      BY <2>1 DEF Carriers, Media
    <3>2. TypeOK'
      BY <1>1, <2>1, <2>3, <3>1 DEF Inv, TypeOK
    <3>3. TransportInv'
      BY <1>1, <2>1, <2>3, <3>1 DEF Inv, TypeOK, TransportInv
    <3> QED
      BY <1>1, <2>3, <3>2, <3>3 DEF Inv, ListenerInv, ReadyInv, FailureSurfaces
  <2> QED
    BY <1>1, <1>3, <2>2, <2>3 DEF SetRemoteSdp, ProcessRemoteSdp, NewRemote, Inv, TransportInv
<1> QED
  BY <1>2, <1>3

\* Closing preserves the invariant, and nobody is told.
LEMMA CloseStep == ASSUME Inv, Close PROVE Inv' /\ UNCHANGED last_event
<1> USE DEF sdpVars, callVars, Idle
<1>1. TypeOK' /\ UNCHANGED last_event
  BY DEF Close, Inv, TypeOK, Event, TransportState
<1>2. \A t \in Media : ts'[t] = "NULL" <=> ts[t] = "NULL"
  BY DEF Close
<1>3. TransportInv'
  BY <1>2 DEF Close, Inv, TypeOK, TransportInv, Media
<1> QED
  BY <1>1, <1>3 DEF Close, Inv, ListenerInv, ReadyInv, FailureSurfaces

\* Every step preserves the invariant.
LEMMA InvStep == Inv /\ [Next]_vars => Inv'
<1> SUFFICES ASSUME Inv, [Next]_vars PROVE Inv'
  OBVIOUS
<1> QED
  BY TransportUpdateStep, StartTransportStep, CallStep, SetRemoteSdpStep, CloseStep DEF Next

-----------------------------------------------------------------------------
\* The inductive invariant holds of every behaviour of a connection.
THEOREM Invariance == Spec => []Inv
BY InitInv, InvStep, PTL DEF Spec

\* The state of a connection and of its transports has its type.
THEOREM TypeOKTheorem == Spec => []TypeOK
<1>1. Inv => TypeOK
  BY DEF Inv
<1> QED
  BY <1>1, Invariance, PTL

\* A transport that fails takes the connection to CONN_FAILED, in every
\* session, and the connection stays there.
THEOREM FailureSurfacesTheorem == Spec => []FailureSurfaces
<1>1. Inv => FailureSurfaces
  BY DEF Inv
<1> QED
  BY <1>1, Invariance, PTL

\* The listener never sees the connection go back, in every session.
THEOREM EventsForwardTheorem == Spec => EventsForward
<1>1. Inv /\ Inv' /\ [Next]_vars => [Rank(last_event') >= Rank(last_event)]_vars
  <2> SUFFICES ASSUME Inv, Inv', Next, last_event' # last_event
               PROVE  Rank(last_event') >= Rank(last_event)
    <3>1. Inv => Rank(last_event) >= Rank(last_event)
      BY DEF Inv, TypeOK, Event, Rank
    <3> QED
      BY <3>1
  <2>1. /\ listening /\ listening' = listening
        /\ global_state = "READY" => global_state' # "GATHERED"
        /\ global_state' # global_state => global_state # "FAILED" /\ global_state' # "INITIAL"
    <3>1. ASSUME NEW t \in Media, NEW s \in TransportState, TransportUpdate(t, s)
          PROVE  <2>1!:
      <4>1. s \in {"GATHERED", "READY", "FAILED"} /\ UpdateState(s) /\ listening' = listening
        BY <3>1 DEF TransportUpdate, T!After, Idle, Inv, TypeOK, TransportState
      <4> QED
        BY <3>1, <4>1, TransportUpdateStep, UpdateStateFacts
    <3>2. CASE StartTransport
      <4>1. listening' = listening
            /\ (UpdateState("GATHERED") \/ UNCHANGED <<global_state, sending, cands, stuck, last_event>>)
        BY <3>2 DEF StartTransport
      <4> QED
        BY <3>2, <4>1, StartTransportStep, UpdateStateFacts
    <3>3. CASE OfferCreated
      BY <3>3 DEF OfferCreated, Notify
    <3> QED
      BY <3>1, <3>2, <3>3 DEF Next, CreateOffer, SetRemoteSdp, ProcessRemoteSdp, NewRemote, RemoteSdpProcessed, AddRemoteCandidate,
         AddMediaStream, RemoveMediaStream, Close
  <2>2. last_event = global_state /\ last_event' = global_state'
        /\ global_state \in Event \ {"FINISHED"} /\ global_state' \in Event \ {"FINISHED"}
    BY <2>1 DEF Inv, ListenerInv, TypeOK
  <2> QED
    BY <2>1, <2>2 DEF Rank, Event
<1> QED
  BY <1>1, Invariance, PTL DEF Spec, EventsForward

\* What a step does to the number of descriptions.
LEMMA AgreedStep ==
    ASSUME TypeOK, [Next]_vars
    PROVE  sdps \in Nat /\ sdps <= sdps' /\ (Agreed' => Agreed)
<1>1. sdps \in Nat
  BY ConnectionAssumption DEF TypeOK, ConnectionAssumption
<1>2. sdps' = sdps \/ sdps' = sdps + 1
  BY DEF Next, vars, sdpVars, TransportUpdate, CreateOffer, OfferCreated, StartTransport, SetRemoteSdp,
         RemoteSdpProcessed, AddRemoteCandidate, AddMediaStream, RemoveMediaStream, Close
<1> QED
  BY <1>1, <1>2 DEF Agreed

\* CONN_READY means that every channel is ready, in every session, as long as it
\* is bundled or not renegotiated.
THEOREM ReadyMeansAllChannelsTheorem == Spec => []ReadyMeansAllChannels
<1>1. Init => ReadyMeansAllChannels
  BY DEF Init, ReadyMeansAllChannels
<1>2. Inv /\ Inv' /\ ReadyMeansAllChannels /\ [Next]_vars => ReadyMeansAllChannels'
  <2> SUFFICES ASSUME Inv, Inv', ReadyMeansAllChannels, [Next]_vars, global_state' = "READY",
                      ~Bundle, sdps' <= 1, NEW m \in remote'.media
               PROVE  ts'[m] = "READY"
    <3>1. CASE Bundle
      BY <3>1 DEF Inv, ReadyInv, TransportInv, TypeOK, Media, ReadyMeansAllChannels, Needed
    <3> QED
      BY <3>1 DEF ReadyMeansAllChannels, Needed, Agreed
  <2>0. Agreed
    BY AgreedStep DEF Agreed, Inv
  <2> USE ConnectionAssumption DEF ConnectionAssumption, sdpVars
  <2>1. ASSUME NEW t \in Media, NEW s \in TransportState, TransportUpdate(t, s)
        PROVE  ts'[m] = "READY"
    <3>1. /\ s \in {"GATHERED", "READY", "FAILED"} /\ UpdateState(s) /\ remote' = remote
          /\ bundle = Bundle /\ (ts[t] # "READY" \/ s = "FAILED")
          /\ ~locked /\ ts' = [ts EXCEPT ![t] = s] /\ m \in Media
      BY <2>1 DEF TransportUpdate, T!After, Idle, Inv, TypeOK, TransportState, TransportInv
    <3>2. CASE global_state = "READY"
      BY <2>0, <3>1, <3>2, UpdateStateFacts DEF ReadyMeansAllChannels, Needed, Inv, TypeOK
    <3>3. CASE global_state # "READY"
      BY <3>1, <3>3, UpdateStateFacts DEF AllAt
    <3> QED
      BY <3>2, <3>3
  <2>2. CASE StartTransport
    <3>1. /\ remote' = remote /\ m \in Media
          /\ UpdateState("GATHERED") \/ UNCHANGED <<global_state, sending, cands, stuck, last_event>>
          /\ \E s \in AfterStart : ts' = [ts EXCEPT ![First(pending)] = s]
          /\ ts[First(pending)] = "NULL"
      <4>0. pending # {}
        BY <2>2 DEF StartTransport
      <4>1. First(pending) \in pending
        BY <4>0 DEF First, Inv, TypeOK, Media
      <4>2. m \in Media
        BY DEF Inv, TypeOK
      <4> QED
        BY <2>2, <4>1, <4>2 DEF StartTransport, Inv, TransportInv
    <3>2. global_state = "READY"
      BY <3>1, UpdateStateFacts
    <3> QED
      BY <2>0, <3>1, <3>2 DEF ReadyMeansAllChannels, Needed, Inv, TypeOK
  <2>3. ASSUME NEW ms \in SUBSET SessionMedia, NEW cand \in BOOLEAN, NEW replace \in BOOLEAN,
               SetRemoteSdp(ms, cand, replace)
        PROVE  ts'[m] = "READY"
    <3>1. sdps = 0 /\ doing = "none" /\ global_state = "READY"
      BY <2>3 DEF SetRemoteSdp, ProcessRemoteSdp, NewRemote, Idle, Inv, TypeOK
    <3> QED
      BY <3>1 DEF Inv, TransportInv, ReadyInv
  <2>4. CASE remote'.media = remote.media /\ UNCHANGED <<ts, global_state>>
    BY <2>0, <2>4 DEF ReadyMeansAllChannels, Needed
  <2>5. CASE Close
    BY <2>5 DEF Close
  <2>6. ASSUME NEW n \in SessionMedia, AddRemoteCandidate(n)
        PROVE  remote'.media = remote.media /\ UNCHANGED <<ts, global_state>>
    BY <2>6 DEF AddRemoteCandidate, Inv, TypeOK
  <2> QED
    BY <2>1, <2>2, <2>3, <2>4, <2>5, <2>6 DEF Next, vars, CreateOffer, OfferCreated, RemoteSdpProcessed,
       AddMediaStream, RemoveMediaStream
<1> QED
  BY <1>1, <1>2, Invariance, PTL DEF Spec

\* What NoMissedReady needs besides: only transports with credentials get
\* ready, and the implication holds in the middle of a call too.
MissedInv ==
    /\ \A t \in Media : ts[t] = "READY" => t \in cred
    /\ (Agreed /\ Needed # {} /\ \A m \in Needed : ts[m] = "READY") => global_state \in {"READY", "FAILED"}

\* No step leaves all the needed transports ready and the connection not.
LEMMA MissedStep ==
    ASSUME Inv, Inv', MissedInv, [Next]_vars
    PROVE  MissedInv'
<1>0. Agreed' => Agreed
  BY AgreedStep DEF Inv
<1> USE ConnectionAssumption DEF ConnectionAssumption, sdpVars
<1>1. ASSUME NEW t \in Media, NEW s \in TransportState, TransportUpdate(t, s)
      PROVE  MissedInv'
  <2>1. /\ s \in {"GATHERED", "READY", "FAILED"} /\ UpdateState(s) /\ remote' = remote
        /\ bundle = Bundle /\ cred' = cred /\ (s = "READY" => t \in cred)
        /\ ~locked /\ ts' = [ts EXCEPT ![t] = s] /\ ts \in [Media -> TransportState]
        /\ Needed' = Needed /\ Needed \subseteq Media
    BY <1>1 DEF TransportUpdate, T!After, Idle, Inv, TypeOK, TransportState, TransportInv,
                Needed, Media
  <2>2. \A u \in Media : ts'[u] = "READY" => u \in cred'
    BY <2>1 DEF MissedInv
  <2>3. ASSUME Agreed, Needed # {}, \A m \in Needed : ts'[m] = "READY"
        PROVE  global_state' \in {"READY", "FAILED"}
    <3>1. CASE s = "READY"
      <4>1. NowReady(s)
        BY <2>1, <2>3, <3>1 DEF NowReady, AllAt, Needed
      <4>2. ~NowGathered(s)
        BY <3>1 DEF NowGathered
      <4> QED BY <2>1, <4>1, <4>2 DEF UpdateState, NewState
    <3>2. CASE s = "FAILED"
      <4>1. ~NowReady(s) /\ ~NowGathered(s) /\ NowFailed(s)
        BY <3>2 DEF NowReady, NowGathered, NowFailed
      <4> QED BY <2>1, <4>1 DEF UpdateState, NewState
    <3>3. CASE s = "GATHERED"
      <4>1. \A m \in Needed : ts[m] = "READY"
        BY <2>1, <2>3, <3>3
      <4>2. global_state \in {"READY", "FAILED"}
        BY <2>3, <4>1 DEF MissedInv
      <4>3. global_state' \in {global_state, "GATHERED"}
        BY <2>1, <3>3 DEF UpdateState, NewState, NowReady, NowFailed
      <4>4. global_state = "READY" => global_state' # "GATHERED"
        BY <1>1, TransportUpdateStep
      <4>5. global_state = "FAILED" => global_state' = "FAILED"
        BY <2>1 DEF UpdateState
      <4> QED BY <4>2, <4>3, <4>4, <4>5
    <3> QED BY <2>1, <3>1, <3>2, <3>3
  <2> QED BY <1>0, <2>1, <2>2, <2>3 DEF MissedInv
<1>2. CASE StartTransport
  <2> DEFINE u == First(pending)
  <2>a. pending # {} /\ pending \subseteq Media
    BY <1>2 DEF StartTransport, Inv, TypeOK
  <2>b. u \in pending
    BY <2>a DEF First, Media
  <2>0. u \in Media
    BY <2>a, <2>b
  <2>1. /\ remote' = remote /\ cred \subseteq cred' /\ ts \in [Media -> TransportState]
        /\ UpdateState("GATHERED") \/ UNCHANGED <<global_state, sending, cands, stuck, last_event>>
        /\ Needed' = Needed /\ Needed \subseteq Media
    BY <1>2 DEF StartTransport, Inv, TypeOK, Needed, Media
  <2>2. PICK s \in AfterStart : ts' = [ts EXCEPT ![u] = s]
    BY <1>2 DEF StartTransport
  <2>3. s # "READY"
    OBVIOUS
  <2> HIDE DEF u
  <2>4. \A v \in Media : ts'[v] = "READY" => ts[v] = "READY"
    BY <2>0, <2>1, <2>2, <2>3
  <2>5. ASSUME Agreed, Needed # {}, \A m \in Needed : ts'[m] = "READY"
        PROVE  global_state' \in {"READY", "FAILED"}
    <3>1. global_state \in {"READY", "FAILED"}
      BY <2>1, <2>4, <2>5 DEF MissedInv
    <3>2. global_state' \in {global_state, "GATHERED"}
      BY <2>1 DEF UpdateState, NewState, NowReady, NowFailed
    <3>3. global_state = "READY" => global_state' # "GATHERED"
      BY <1>2, StartTransportStep
    <3>4. global_state = "FAILED" => global_state' = "FAILED"
      BY <2>1 DEF UpdateState
    <3> QED BY <3>1, <3>2, <3>3, <3>4
  <2> QED BY <1>0, <2>1, <2>4, <2>5 DEF MissedInv
<1>3. ASSUME NEW ms \in SUBSET SessionMedia, NEW cand \in BOOLEAN, NEW replace \in BOOLEAN,
             SetRemoteSdp(ms, cand, replace)
      PROVE  MissedInv'
  <2>1. UNCHANGED <<ts, global_state>> /\ cred \subseteq cred' /\ doing = "none"
        /\ sdps' = sdps + 1 /\ sdps \in 0 .. MaxSdp
    BY <1>3 DEF SetRemoteSdp, ProcessRemoteSdp, Idle, Inv, TypeOK
  <2>2. CASE Bundle
    BY <1>0, <2>1, <2>2 DEF MissedInv, Needed
  <2>3. CASE ~Bundle /\ ~Agreed'
    BY <2>1, <2>3 DEF MissedInv
  <2>4. CASE ~Bundle /\ Agreed'
    <3>1. sdps = 0
      BY <2>1, <2>4 DEF Agreed
    <3>2. cred = {}
      BY <2>1, <3>1 DEF Inv, TransportInv
    <3>3. remote'.media \subseteq Media
      BY DEF Inv, TypeOK
    <3> QED BY <2>1, <2>4, <3>2, <3>3 DEF MissedInv, Needed
  <2> QED BY <2>2, <2>3, <2>4
<1>4. CASE remote'.media = remote.media /\ UNCHANGED <<ts, cred, global_state>>
  BY <1>0, <1>4 DEF MissedInv, Needed
<1>5. CASE Close
  <2>1. /\ \A v \in Media : ts'[v] \in {"NULL", "FINISHED"}
        /\ Needed' = Needed /\ Needed \subseteq Media
    BY <1>5 DEF Close, Needed, Inv, TypeOK, Media
  <2> QED BY <2>1 DEF MissedInv
<1>6. ASSUME NEW n \in SessionMedia, AddRemoteCandidate(n)
      PROVE  remote'.media = remote.media /\ UNCHANGED <<ts, cred, global_state>>
  BY <1>6 DEF AddRemoteCandidate, Inv, TypeOK
<1> QED
  BY <1>1, <1>2, <1>3, <1>4, <1>5, <1>6 DEF Next, vars, CreateOffer, OfferCreated,
     RemoteSdpProcessed, AddMediaStream, RemoveMediaStream

\* updateState misses no readiness: once all the transports that the remote
\* description needs are ready, so is the connection, unless it has failed, as
\* long as the session is bundled or not renegotiated.
THEOREM NoMissedReadyTheorem == Spec => []NoMissedReady
<1>1. Init => MissedInv
  BY DEF Init, MissedInv, Needed, Media
<1>2. Inv /\ Inv' /\ MissedInv /\ [Next]_vars => MissedInv'
  BY MissedStep
<1>3. MissedInv => NoMissedReady
  BY DEF MissedInv, NoMissedReady
<1> QED
  BY <1>1, <1>2, <1>3, Invariance, PTL DEF Spec

-----------------------------------------------------------------------------
\* What VideoCandidatesApplied needs besides, of a bundle: a connection whose
\* transport has gathered knows it, fails only with its transport, and has
\* made that transport when it has processed a description.
CandsInv ==
    /\ ts["video"] = "GATHERED" /\ ~stuck => GatheringOver
    /\ global_state = "FAILED" => ts["video"] \in {"FAILED", "FINISHED"}
    /\ (processed \/ (doing = "processRemoteSdp" /\ pending = {})) => ts["video"] # "NULL"
    /\ VideoCandidatesApplied

\* When a bundle's transport gathers, updateState passes the candidates on and
\* announces CONN_GATHERED, unless it waits for the lock for ever.
LEMMA GatheredFacts ==
    ASSUME Bundle, ~Trickle, Inv, bundle = Bundle, global_state # "FAILED", UpdateState("GATHERED")
    PROVE  /\ ~stuck' => global_state' = "GATHERED"
           /\ locked => stuck'
           /\ global_state' # "FAILED"
           /\ cands \subseteq cands'
           /\ ~locked /\ remote.cand /\ "video" \in remote.media => "video" \in cands'
<1>0. bundle = TRUE
  BY ConnectionAssumption DEF ConnectionAssumption
<1>a. NowGathered("GATHERED") /\ ~NowReady("GATHERED") /\ ~NowFailed("GATHERED")
  BY <1>0 DEF NowGathered, NowReady, NowFailed
<1>1. bundle /\ NewState("GATHERED") = "GATHERED"
  BY <1>0, <1>a DEF NewState
<1>2. CASE locked
  BY <1>2 DEF UpdateState
<1>3. CASE ~locked
  <2>1. /\ global_state' = "GATHERED"
        /\ cands' = IF remote.cand /\ "video" \in remote.media THEN cands \cup {"video"} ELSE cands
    BY <1>1, <1>3 DEF UpdateState
  <2> QED
    BY <1>3, <2>1
<1> QED
  BY <1>2, <1>3

\* No step forgets the candidates of the first description of a bundle.
LEMMA CandsStep ==
    ASSUME Bundle, ~Trickle, Inv, Inv', CandsInv, [Next]_vars
    PROVE  CandsInv'
<1> USE ConnectionAssumption DEF ConnectionAssumption, sdpVars
<1>n. Needed = {"video"} /\ Needed' = {"video"} /\ "video" \in Media
      /\ ts \in [Media -> TransportState] /\ remote \in [media : SUBSET Media, cand : BOOLEAN]
  BY DEF Needed, Media, Inv, TypeOK
<1>1. ASSUME NEW t \in Media, NEW s \in TransportState, TransportUpdate(t, s)
      PROVE  CandsInv'
  <2>1. /\ s \in {"GATHERED", "READY", "FAILED"} /\ UpdateState(s) /\ UNCHANGED sdpVars
        /\ bundle = Bundle /\ ~locked /\ ts' = [ts EXCEPT ![t] = s] /\ doing = "none"
        /\ doing' = doing /\ pending' = pending /\ t = "video"
    BY <1>1 DEF TransportUpdate, T!After, Idle, Inv, TypeOK, TransportState, TransportInv,
                Media, callVars
  <2>2. ts'["video"] = s /\ s \in T!After(ts["video"]) /\ ts["video"] # "NULL"
    BY <1>1, <2>1, <1>n DEF TransportUpdate
  <2>3. CASE s = "GATHERED"
    <3>1. global_state # "FAILED"
      BY <2>2, <2>3 DEF CandsInv, T!After
    <3>2. /\ ~stuck' => global_state' = "GATHERED"
          /\ global_state' # "FAILED"
          /\ remote.cand /\ "video" \in remote.media => "video" \in cands'
      BY <2>1, <2>3, <3>1, GatheredFacts
    <3> QED
      BY <2>1, <2>2, <2>3, <3>2, <1>n DEF CandsInv, GatheringOver, Rank,
         VideoCandidatesApplied, CandidatesApplied
  <2>4. CASE s = "READY"
    <3>1. global_state # "FAILED"
      BY <2>2, <2>4 DEF CandsInv, T!After
    <3>2. global_state' # "FAILED"
      BY <2>1, <2>4, <3>1 DEF UpdateState, NewState, NowGathered, NowReady, NowFailed
    <3> QED
      BY <2>1, <2>2, <2>4, <3>2, <1>n DEF CandsInv, VideoCandidatesApplied, CandidatesApplied
  <2>5. CASE s = "FAILED"
    BY <2>1, <2>2, <2>5, <1>n DEF CandsInv, VideoCandidatesApplied, CandidatesApplied
  <2> QED
    BY <2>1, <2>3, <2>4, <2>5
<1>2. CASE StartTransport
  <2>0. /\ pending # {} /\ pending \subseteq {"video"} /\ \A t \in pending : ts[t] = "NULL"
        /\ bundle = Bundle
    BY <1>2 DEF StartTransport, Inv, TransportInv
  <2>a. pending = {"video"} /\ First(pending) = "video"
    BY <2>0 DEF First
  <2>1. /\ pending = {"video"} /\ First(pending) = "video" /\ pending' = {} /\ ts["video"] = "NULL"
        /\ bundle = Bundle /\ UNCHANGED sdpVars /\ doing' = doing /\ ~stuck
    BY <1>2, <2>0, <2>a DEF StartTransport
  <2>2. PICK s \in AfterStart :
          /\ ts' = [ts EXCEPT !["video"] = s]
          /\ IF s = "GATHERED" THEN UpdateState("GATHERED")
             ELSE UNCHANGED <<global_state, sending, cands, stuck, last_event>>
    BY <1>2, <2>1 DEF StartTransport
  <2>3. ~processed /\ ts'["video"] = s /\ s \in {"INITIAL", "GATHERED"} /\ global_state # "FAILED"
    BY <2>1, <2>2, <1>n DEF CandsInv
  <2>4. /\ s = "GATHERED" /\ ~stuck' => global_state' = "GATHERED"
        /\ global_state' # "FAILED"
    BY <2>1, <2>2, <2>3, GatheredFacts
  <2> QED
    BY <2>1, <2>3, <2>4, <1>n DEF CandsInv, GatheringOver, Rank, VideoCandidatesApplied,
       CandidatesApplied
<1>3. ASSUME NEW ms \in SUBSET SessionMedia, NEW cand \in BOOLEAN, NEW replace \in BOOLEAN,
             SetRemoteSdp(ms, cand, replace)
      PROVE  CandsInv'
  <2>1. /\ UNCHANGED <<ts, global_state, processed, stuck>> /\ doing = "none" /\ sdps' = sdps + 1
        /\ sdps \in 0 .. MaxSdp
        /\ UNCHANGED <<doing, pending>>
           \/ (doing' = "processRemoteSdp"
               /\ pending' = {u \in Carriers(remote'.media) : ts[u] = "NULL"})
    BY <1>3 DEF SetRemoteSdp, ProcessRemoteSdp, Idle, Inv, TypeOK
  <2>2. sdps' = 1 => ~processed
    BY <2>1 DEF Inv, TransportInv
  <2>3. doing' = "processRemoteSdp" /\ pending' = {} => ts["video"] # "NULL"
    BY <2>1 DEF Carriers
  <2> QED
    BY <2>1, <2>2, <2>3 DEF CandsInv, VideoCandidatesApplied, CandidatesApplied, GatheringOver
<1>4. CASE RemoteSdpProcessed
  <2>1. /\ doing = "processRemoteSdp" /\ pending = {} /\ ~stuck /\ doing' = "none"
        /\ UNCHANGED <<global_state, ts, remote, sdps, stuck>>
        /\ GatheringOver /\ remote.cand /\ "video" \in remote.media => "video" \in cands'
    BY <1>4 DEF RemoteSdpProcessed, Media
  <2> QED
    BY <2>1, <1>n DEF CandsInv, VideoCandidatesApplied, CandidatesApplied, GatheringOver
<1>5. ASSUME NEW m \in SessionMedia, AddRemoteCandidate(m) PROVE CandsInv'
  <2>1. /\ UNCHANGED <<global_state, ts, sdps, processed, stuck, doing, pending>>
        /\ "video" \in cands'
    BY <1>5 DEF AddRemoteCandidate, callVars, Inv, TransportInv, Media
  <2> QED
    BY <2>1, <1>n DEF CandsInv, VideoCandidatesApplied, CandidatesApplied, GatheringOver
<1>6. CASE Close
  <2>1. /\ ts'["video"] \in {"NULL", "FINISHED"} /\ (ts["video"] # "NULL" => ts'["video"] # "NULL")
        /\ global_state' = "FINISHED" /\ UNCHANGED <<sdps, processed, remote, doing, pending>>
    BY <1>6, <1>n DEF Close, callVars
  <2> QED
    BY <2>1, <1>n DEF CandsInv, VideoCandidatesApplied, CandidatesApplied
<1>7. CASE CreateOffer
  <2>1. /\ UNCHANGED <<global_state, ts, sdps, processed, remote, cands, stuck>>
        /\ doing' = "createOffer"
    BY <1>7 DEF CreateOffer
  <2> QED
    BY <2>1, <1>n DEF CandsInv, VideoCandidatesApplied, CandidatesApplied, GatheringOver
<1>8. CASE /\ UNCHANGED <<global_state, ts, sdps, processed, remote, cands, stuck, pending>>
           /\ doing' = doing \/ doing' = "none"
  BY <1>8, <1>n DEF CandsInv, VideoCandidatesApplied, CandidatesApplied, GatheringOver
<1> QED
  BY <1>1, <1>2, <1>3, <1>4, <1>5, <1>6, <1>7, <1>8 DEF Next, vars, callVars, OfferCreated,
     AddMediaStream, RemoveMediaStream

\* The remote candidates of a bundle with video reach its transport, whether it
\* gathers before or after the description comes, in every session that does
\* not trickle (WebRtcConnection::updateState and processRemoteSdp).
THEOREM VideoCandidatesAppliedTheorem ==
    ASSUME Bundle, ~Trickle
    PROVE  Spec => []VideoCandidatesApplied
<1>1. Init => CandsInv
  BY DEF Init, CandsInv, VideoCandidatesApplied, CandidatesApplied, Media
<1>2. Inv /\ Inv' /\ CandsInv /\ [Next]_vars => CandsInv'
  BY CandsStep
<1>3. CandsInv => VideoCandidatesApplied
  BY DEF CandsInv
<1> QED
  BY <1>1, <1>2, <1>3, Invariance, PTL DEF Spec
=============================================================================
