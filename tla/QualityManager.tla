--------------------------- MODULE QualityManager ---------------------------
(***************************************************************************)
(* The choice of the simulcast or scalable layer a subscriber is sent      *)
(* (licodecore/erizo/rtp/QualityManager.cpp): operators on the state of    *)
(* one manager, a record.  A layer is a pair of a spatial and a temporal   *)
(* layer.                                                                  *)
(*                                                                         *)
(* A time point is kept as the time since it, which matters up to the      *)
(* interval it is compared with.  Slideshow below a spatial layer is kept  *)
(* as that layer, -1 while it is not enabled.  The widest, highest and     *)
(* fastest video that is wanted are kept as the layers that meet them: the *)
(* size grows with the spatial layer, the frame rate with the temporal     *)
(* one.  The values put into the statistics, setSimulcast() and the events *)
(* for the application are left out.                                       *)
(*                                                                         *)
(* The manager runs on the stream's worker, where Worker::task runs a task *)
(* at once: the handlers it updates have been updated when the operation   *)
(* goes on.  What they took over is part of the record.                    *)
(***************************************************************************)
EXTENDS Integers

CONSTANTS
    MaxSpatial, MaxTemporal,  \* the highest layers
    MinLayerSwitchInterval,   \* kMinLayerSwitchInterval, in ticks
    ActiveLayerInterval,      \* kActiveLayerInterval, in ticks
    Estimates,                \* the values of senderBitrateEstimation
    NoEstimate                \* there is no such value yet

ASSUME QualityManagerAssumption ==
    /\ MaxSpatial \in Nat /\ MaxTemporal \in Nat
    /\ MinLayerSwitchInterval \in Nat /\ ActiveLayerInterval \in Nat
    /\ Estimates \subseteq Nat
    /\ NoEstimate \notin Estimates

Spatial  == 0 .. MaxSpatial
Temporal == 0 .. MaxTemporal
Layer    == Spatial \X Temporal

Manager ==
    [enabled: BOOLEAN, initialized: BOOLEAN, forced: BOOLEAN,
     spatial: Spatial, temporal: Temporal,
     max_spatial: Spatial, max_temporal: Temporal,  \* max_active_..._layer_
     estimate: Estimates \cup {0},
     slideshow: Spatial \cup {-1},                  \* slideshow_below_spatial_layer_
     freeze: BOOLEAN,                               \* freeze_fallback_active_
     wanted: Layer,                                 \* max_video_width_, _height_, _frame_rate_
     padding: BOOLEAN,                              \* padding_enabled_
     since_check: 0 .. MinLayerSwitchInterval + 1,  \* last_quality_check_
     since_activity: 0 .. ActiveLayerInterval + 1,  \* last_activity_check_
     manual: BOOLEAN,  \* MediaStream::slide_show_mode_
     slides: BOOLEAN,  \* RtpSlideShowHandler::slideshow_is_active_
     pads: BOOLEAN,    \* RtpPaddingGeneratorHandler::enabled_
     untold: BOOLEAN]  \* history: a fallback ended and the handlers have had no update since

NewManager ==
    [enabled |-> FALSE, initialized |-> FALSE, forced |-> FALSE, spatial |-> 0,
     temporal |-> 0, max_spatial |-> 0, max_temporal |-> 0, estimate |-> 0,
     slideshow |-> -1, freeze |-> FALSE, wanted |-> <<MaxSpatial, MaxTemporal>>,
     padding |-> FALSE, since_check |-> 0, since_activity |-> 0,
     manual |-> FALSE, slides |-> FALSE, pads |-> FALSE, untold |-> FALSE]

\* The statistics of a layer: its bitrate over the whole window (value()) and
\* over the last kActiveLayerInterval (getInstantLayerBitrate()).
Stats == [Layer -> [rate: Nat, instant: Nat]]

-----------------------------------------------------------------------------
\* RtpSlideShowHandler::notifyUpdate
SlideShowWanted(q) == q.freeze \/ q.manual

\* MediaStream::notifyUpdateToHandlers: notifyUpdate() of that handler and of
\* RtpPaddingGeneratorHandler.
NotifyHandlers(q) ==
    [q EXCEPT !.slides = SlideShowWanted(q), !.pads = q.padding, !.untold = FALSE]

\* setPadding: a change is passed on to the handlers.
SetPadding_Silent(q, on) == [q EXCEPT !.padding = on]

SetPadding(q, on) ==
    IF q.padding = on THEN q ELSE NotifyHandlers([q EXCEPT !.padding = on])

\* setSpatialLayer and setTemporalLayer.
SetLayer_AlsoForced(q, l) == [q EXCEPT !.spatial = l[1], !.temporal = l[2]]

SetLayer(q, l) ==
    [q EXCEPT !.spatial = IF q.forced THEN @ ELSE l[1],
              !.temporal = IF q.forced THEN @ ELSE l[2]]

\* isInMaxLayer
IsInMaxLayer(q) == q.spatial >= q.max_spatial /\ q.temporal >= q.max_temporal

\* doesLayerMeetConstraints
MeetsConstraints(q, l) == l[1] <= q.wanted[1] /\ l[2] <= q.wanted[2]

\* min_valid_spatial_layer: a slideshow replaces the layers below the
\* requested one, if that one is sent at all.
MinValidSpatial_Requested(q) == IF q.slideshow > 0 THEN q.slideshow ELSE 0

MinValidSpatial(q) ==
    LET requested == IF q.slideshow > 0 THEN q.slideshow ELSE 0
    IN  IF requested < q.max_spatial THEN requested ELSE q.max_spatial

\* The layers whose bitrate the estimate allows, with a margin of a tenth
\* (kIncreaseLayerBitrateThreshold) when higher layers are tried.
Affordable(q, stats, higher) ==
    {l \in Layer : /\ l[1] >= MinValidSpatial(q)
                   /\ stats[l].rate # 0
                   /\ (IF higher THEN 11 ELSE 10) * stats[l].rate < 10 * q.estimate}

\* The last layer of a set in the order of the loop in selectLayer.
LastLayer(ls) ==
    CHOOSE l \in ls : \A m \in ls : m[1] < l[1] \/ (m[1] = l[1] /\ m[2] <= l[2])

\* The fallback to a slideshow begins in any check, it ends in one that tries
\* higher layers.
SetFreeze(q, below, higher) ==
    IF below # q.freeze /\ (below \/ higher)
    THEN NotifyHandlers([q EXCEPT !.freeze = below])
    ELSE q

\* selectLayer
SelectLayer(q, stats, higher) ==
    LET affordable == Affordable(q, stats, higher)
        meets      == {l \in affordable : MeetsConstraints(q, l)}
        next       == IF meets = {} THEN <<MinValidSpatial(q), 0>> ELSE LastLayer(meets)
        frozen     == SetFreeze([q EXCEPT !.since_check = 0],
                                meets = {} /\ q.slideshow # -1, higher)
        moved      == SetLayer(frozen, next)
    IN  IF q.initialized
        THEN SetPadding(moved, ~IsInMaxLayer(moved) /\ affordable = meets)
        ELSE q

\* calculateMaxActiveLayer
CalculateMaxActiveLayer(q, stats) ==
    LET s == CHOOSE i \in Spatial :
                 /\ i = 0 \/ stats[<<i, 0>>].instant > 0
                 /\ \A j \in Spatial : j > i => stats[<<j, 0>>].instant = 0
        t == CHOOSE i \in Temporal :
                 /\ i = 0 \/ stats[<<s, i>>].instant > 0
                 /\ \A j \in Temporal : j > i => stats[<<s, j>>].instant = 0
    IN  [q EXCEPT !.max_spatial = s, !.max_temporal = t, !.since_activity = 0]

-----------------------------------------------------------------------------
\* notifyQualityUpdate once there is an estimate, layers not forced.
CheckQuality(q, stats, estimate) ==
    LET read    == [q EXCEPT !.estimate = estimate]
        under   == estimate < stats[<<q.spatial, q.temporal>>].instant
        checked == IF q.since_activity > ActiveLayerInterval
                   THEN CalculateMaxActiveLayer(read, stats) ELSE read
        active  == checked.spatial <= checked.max_spatial
    IN  IF ~active \/ (under /\ ~q.freeze) THEN SelectLayer(checked, stats, FALSE)
        ELSE IF q.since_check > MinLayerSwitchInterval THEN SelectLayer(checked, stats, TRUE)
        ELSE checked

\* notifyQualityUpdate
NotifyQualityUpdate(q, stats, estimate) ==
    LET known == [q EXCEPT !.initialized = TRUE]
    IN  IF ~q.enabled \/ estimate = NoEstimate THEN q
        ELSE IF q.forced THEN known
        ELSE CheckQuality(known, stats, estimate)

\* enable
Enable(q) ==
    LET on == [q EXCEPT !.enabled = TRUE]
    IN  IF q.forced THEN on ELSE SetPadding(on, TRUE)

\* forceLayers: -1 for either gives the choice back to the manager.
ForceLayers_BothUnset(q, s, t) ==
    IF s = -1 /\ t = -1 THEN [q EXCEPT !.forced = FALSE]
    ELSE [SetPadding(q, FALSE) EXCEPT !.forced = TRUE, !.spatial = s, !.temporal = t]

ForceLayers(q, s, t) ==
    IF s = -1 \/ t = -1 THEN [q EXCEPT !.forced = FALSE]
    ELSE [SetPadding(q, FALSE) EXCEPT !.forced = TRUE, !.spatial = s, !.temporal = t]

\* enableSlideShowBelowSpatialLayer: ends a fallback, and does not pass that
\* on to the handlers.
EnableSlideShow(q, stats, s) ==
    LET set == [q EXCEPT !.slideshow = s]
    IN  IF q.initialized
        THEN SelectLayer([set EXCEPT !.freeze = FALSE, !.untold = @ \/ q.freeze], stats, TRUE)
        ELSE set

\* setVideoConstraints, with the highest layer that meets them.
SetVideoConstraints(q, stats, l) == SelectLayer([q EXCEPT !.wanted = l], stats, TRUE)

\* Time passes.
ManagerTick(q) ==
    [q EXCEPT !.since_check = IF @ > MinLayerSwitchInterval THEN @ ELSE @ + 1,
              !.since_activity = IF @ > ActiveLayerInterval THEN @ ELSE @ + 1]
=============================================================================
