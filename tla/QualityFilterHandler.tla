------------------------ MODULE QualityFilterHandler ------------------------
(***************************************************************************)
(* The handler that drops the layers a subscriber is not sent              *)
(* (licodecore/erizo/rtp/QualityFilterHandler.cpp), with the               *)
(* QualityManager it follows and the handlers that the manager switches:   *)
(* the slideshow and the padding.  All of it runs on the stream's worker:  *)
(* an action is one of its tasks.  Only the flag of the slideshow that the *)
(* application wants is set on the application's thread.                   *)
(*                                                                         *)
(* A packet goes through LayerBitrateCalculationHandler, which has the     *)
(* manager look at the quality, and then through the filter.  The numbers, *)
(* timestamps and picture ids that the filter rewrites are left out.       *)
(***************************************************************************)
EXTENDS QualityManager

CONSTANTS
    SwitchTimeout,  \* kSwitchTimeout, in ticks
    Simulcast,      \* a stream per spatial layer, else one scalable stream
    Profiles,       \* the statistics of the layers that may be found
    MaxCalls        \* bound: calls of the application and changes of the statistics

ASSUME QualityFilterAssumption ==
    /\ SwitchTimeout \in Nat
    /\ Simulcast \in BOOLEAN
    /\ Profiles \subseteq Stats
    /\ MaxTemporal > 0
    /\ MaxCalls \in Nat

VARIABLES
    q,          \* the manager
    f,          \* the filter
    stats,      \* the statistics
    update,     \* a task that updates the handlers waits in the worker's queue
    calls,      \* calls made so far
    packets,    \* history: the number of packets, modulo 2
    decodable,  \* history: the target layer was entered with a keyframe, or has had one
    asked       \* history: a keyframe was asked for since the target layer was entered

history == <<packets, decodable, asked>>
vars == <<q, f, stats, update, calls, history>>

Filter ==
    [enabled: BOOLEAN, scalable: BOOLEAN, changing: BOOLEAN,
     target: Spatial, temporal: Temporal,
     future: Spatial \cup {-1},
     since_change: 0 .. SwitchTimeout + 1]  \* time_change_started_

\* A packet belongs to its layers and to those that build on them.  A
\* keyframe is in the base temporal layer.
PacketOf(l, k) ==
    [spatial |-> IF Simulcast THEN {l[1]} ELSE l[1] .. MaxSpatial,
     temporal |-> l[2] .. MaxTemporal,
     keyframe |-> k]

Packet == {PacketOf(l, FALSE) : l \in Layer} \cup {PacketOf(<<s, 0>>, TRUE) : s \in Spatial}

TypeOK ==
    /\ q \in Manager
    /\ f \in Filter
    /\ stats \in Profiles
    /\ update \in BOOLEAN
    /\ calls \in 0 .. MaxCalls
    /\ packets \in 0 .. 1
    /\ decodable \in BOOLEAN /\ asked \in BOOLEAN

Init ==
    /\ q = NewManager
    /\ f = [enabled |-> TRUE, scalable |-> FALSE, changing |-> FALSE, target |-> 0,
            temporal |-> 0, future |-> -1, since_change |-> 0]
    /\ stats \in Profiles
    /\ update = FALSE
    /\ calls = 0
    /\ packets = 0
    /\ decodable = TRUE /\ asked = FALSE

-----------------------------------------------------------------------------
\* checkLayers: a change begins if none is under way.
BeginsChange(g, m) == m.spatial # g.target /\ ~g.changing

CheckLayers(g, m) ==
    LET begins == BeginsChange(g, m)
    IN  [g EXCEPT !.future = IF begins THEN m.spatial ELSE @,
                  !.changing = begins \/ @,
                  !.since_change = IF begins THEN 0 ELSE @,
                  !.temporal = m.temporal]

\* changeSpatialLayerOnKeyframeReceived: the change ends with a keyframe of
\* the future layer, or when it has taken too long.
KeyframeOf(g, p) == p.keyframe /\ g.future \in p.spatial /\ g.temporal \in p.temporal

TimesOut(g, p) == g.future # -1 /\ ~KeyframeOf(g, p) /\ g.since_change > SwitchTimeout

EndChange_Timeout(g, p) ==
    IF g.future # -1 /\ KeyframeOf(g, p)
    THEN [g EXCEPT !.target = g.future, !.future = -1, !.changing = FALSE]
    ELSE IF TimesOut(g, p) THEN [g EXCEPT !.target = g.future, !.future = -1]
    ELSE g

EndChange(g, p) ==
    IF g.future # -1 /\ (KeyframeOf(g, p) \/ TimesOut(g, p))
    THEN [g EXCEPT !.target = g.future, !.future = -1, !.changing = FALSE]
    ELSE g

\* sendPLI: when a change begins, and when it ends without a keyframe.
SendsPLI_AtBeginning(g, m, p) == BeginsChange(g, m)

SendsPLI(g, m, p) == BeginsChange(g, m) \/ TimesOut(CheckLayers(g, m), p)

\* detectVideoScalability
Detects(g, p) == ~g.scalable /\ (1 \in p.temporal \/ 1 \in p.spatial)

\* write() of a video packet that is filtered.
FilterPacket(g, m, p) ==
    LET h    == EndChange(CheckLayers(g, m), p)
        sent == h.target \in p.spatial /\ h.temporal \in p.temporal
        pli  == SendsPLI(g, m, p)
    IN  /\ f' = h
        /\ decodable' = ((sent /\ p.keyframe) \/ (decodable /\ h.target = g.target))
        /\ asked' = (pli \/ (asked /\ h.target = g.target))

\* A video packet comes: LayerBitrateCalculationHandler::write() and write().
Write(p, estimate) ==
    LET noticed == NotifyQualityUpdate(q, stats, estimate)
        m       == IF Detects(f, p) THEN Enable(noticed) ELSE noticed
        g       == [f EXCEPT !.scalable = @ \/ Detects(f, p)]
    IN  /\ packets' = 1 - packets
        /\ q' = m
        /\ IF g.scalable /\ g.enabled
           THEN FilterPacket(g, m, p)
           ELSE f' = g /\ UNCHANGED <<decodable, asked>>
        /\ UNCHANGED <<stats, update, calls>>

WritePacket ==
    \E p \in Packet :
        \E e \in IF q.initialized THEN Estimates ELSE Estimates \cup {NoEstimate} :
            Write(p, e)

\* A call of the application is a task of the worker.
Called == calls < MaxCalls /\ calls' = calls + 1

\* enable() and disable(), through MediaStream::enableHandler().
SetEnabled ==
    /\ Called
    /\ f' = [f EXCEPT !.enabled = ~@]
    /\ UNCHANGED <<q, stats, update, history>>

\* MediaStream::setQualityLayer, enableSlideShowBelowSpatialLayer and
\* setVideoConstraints.
SetQualityLayer(s, t) ==
    /\ Called
    /\ q' = ForceLayers(q, s, t)
    /\ UNCHANGED <<f, stats, update, history>>

EnableSlideShowBelow(s) ==
    /\ Called
    /\ q' = EnableSlideShow(q, stats, s)
    /\ UNCHANGED <<f, stats, update, history>>

Constrain(l) ==
    /\ Called
    /\ q' = SetVideoConstraints(q, stats, l)
    /\ UNCHANGED <<f, stats, update, history>>

\* MediaStream::setSlideShowMode: the flag is set by the caller, the update of
\* the handlers is posted.
SetSlideShowMode(on) ==
    /\ q.manual # on
    /\ Called
    /\ q' = [q EXCEPT !.manual = on]
    /\ update' = TRUE
    /\ UNCHANGED <<f, stats, history>>

\* That task.
RunUpdate ==
    /\ update
    /\ update' = FALSE
    /\ q' = NotifyHandlers(q)
    /\ UNCHANGED <<f, stats, calls, history>>

\* MediaStream::muteStream and setMaxVideoBW update the handlers as well.
MuteOrLimit ==
    /\ Called
    /\ q' = NotifyHandlers(q)
    /\ UNCHANGED <<f, stats, update, history>>

\* The publisher's streams begin, stop or change.
StatsChange ==
    /\ Called
    /\ stats' \in Profiles
    /\ UNCHANGED <<q, f, update, history>>

Tick ==
    /\ q' = ManagerTick(q)
    /\ f' = [f EXCEPT !.since_change = IF @ > SwitchTimeout THEN @ ELSE @ + 1]
    /\ UNCHANGED <<stats, update, calls, history>>

Next ==
    \/ WritePacket
    \/ SetEnabled
    \/ \E s \in Spatial \cup {-1}, t \in Temporal \cup {-1} : SetQualityLayer(s, t)
    \/ \E s \in Spatial \cup {-1} : EnableSlideShowBelow(s)
    \/ \E l \in Layer : Constrain(l)
    \/ \E on \in BOOLEAN : SetSlideShowMode(on)
    \/ RunUpdate
    \/ MuteOrLimit
    \/ StatsChange
    \/ Tick

\* Packets keep coming, which is always possible, and time passes.
Fairness == WF_packets(packets' = 1 - packets) /\ WF_vars(Tick)

Spec == Init /\ [][Next]_vars /\ Fairness

-----------------------------------------------------------------------------
\* The padding is as the manager wants it, and the slideshow runs exactly
\* when the manager or the application wants it, once no update is on its way;
\* except that enableSlideShowBelowSpatialLayer() ends a fallback without
\* telling the slideshow, which runs on until another update.
HandlersFollow ==
    /\ q.pads = q.padding
    /\ ~update => q.slides = (q.freeze \/ q.manual \/ q.untold)

\* A subscriber that is moved to a layer gets a keyframe of it first, or a
\* keyframe has been asked for since.
KeyframeOrAsked == decodable \/ asked

\* Layers that the application has forced are not moved by a check of the
\* quality, a slideshow, a constraint or the end of a change.
ForcedStays ==
    [][q.forced /\ q'.forced /\ ~(\E s \in Spatial, t \in Temporal : SetQualityLayer(s, t))
        => q'.spatial = q.spatial /\ q'.temporal = q.temporal]_vars

\* A filter that is late, or in the middle of a change to a layer that the
\* manager no longer wants, ends up with the layer the manager stays with,
\* whichever packets come.
LayerSettles ==
    \A s \in Spatial :
        <>[](f.scalable /\ f.enabled /\ q.spatial = s) => <>[](f.target = s)

\* No spatial layer above s is sent.
StopsAbove(s) ==
    \A l \in Layer : l[1] > s => stats[l].rate = 0 /\ stats[l].instant = 0

\* When the streams above a layer stop for good, a subscriber is brought down
\* to what is still sent, also if it asked for a slideshow below a layer that
\* stopped.
LeavesStoppedLayer ==
    \A s \in 0 .. MaxSpatial - 1 :
        <>[](StopsAbove(s) /\ ~q.forced /\ q.initialized /\ f.enabled) => <>[](f.target <= s)
=============================================================================
