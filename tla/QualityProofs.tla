--------------------------- MODULE QualityProofs ---------------------------
(***************************************************************************)
(* Proofs about QualityFilterHandler and QualityManager, for any number of *)
(* layers, any bitrates and estimates and any intervals.                   *)
(***************************************************************************)
EXTENDS QualityFilterHandler, WellFoundedInduction, TLAPS

-----------------------------------------------------------------------------
\* A set of naturals that is not empty has a smallest member.
LEMMA SmallestMember ==
    ASSUME NEW T \in SUBSET Nat, T # {}
    PROVE  \E x \in T : \A y \in T : x <= y
<1> DEFINE R == OpToRel(<, Nat)
<1>1. IsWellFoundedOn(R, Nat)
  BY NatLessThanWellFounded
<1>2. PICK x \in T : \A y \in T : ~(<<y, x>> \in R)
  <2> HIDE DEF R
  <2> QED BY <1>1, WFMin
<1>3. x \in Nat
  BY <1>2
<1>4. \A y \in Nat : y < x => <<y, x>> \in R
  BY <1>3 DEF OpToRel
<1>5. ASSUME NEW y \in T PROVE x <= y
  <2> HIDE DEF R
  <2>1. y \in Nat /\ ~(y < x)
    BY <1>2, <1>4
  <2> QED BY <1>3, <2>1
<1> QED BY <1>2, <1>5

\* A bounded set of naturals that is not empty has a greatest member.
LEMMA GreatestMember ==
    ASSUME NEW n \in Nat, NEW T \in SUBSET (0 .. n), T # {}
    PROVE  \E x \in T : \A y \in T : y <= x
<1> DEFINE U == {n - y : y \in T}
<1>1. U \in SUBSET Nat /\ U # {}
  <2>1. \A y \in T : y \in 0 .. n
    OBVIOUS
  <2>2. \A y \in 0 .. n : n - y \in Nat
    OBVIOUS
  <2>3. PICK y \in T : TRUE
    OBVIOUS
  <2>4. n - y \in U
    OBVIOUS
  <2> QED BY <2>1, <2>2, <2>4
<1>2. PICK u \in U : \A v \in U : u <= v
  <2> HIDE DEF U
  <2> QED BY <1>1, SmallestMember
<1>3. PICK x \in T : u = n - x
  OBVIOUS
<1>4. \A y \in T : n - x <= n - y
  BY <1>2, <1>3
<1>5. \A y \in T : y <= x
  BY <1>4
<1> QED BY <1>5
\* selectLayer's loop ends with a layer it has seen.
LEMMA LastLayerIn ==
    ASSUME NEW ls \in SUBSET Layer, ls # {}
    PROVE  LastLayer(ls) \in ls
<1> DEFINE S == {l[1] : l \in ls}
<1>1. S \in SUBSET (0 .. MaxSpatial) /\ S # {}
  BY DEF Layer, Spatial
<1>2. PICK s \in S : \A y \in S : y <= s
  <2> HIDE DEF S
  <2> QED BY <1>1, GreatestMember, QualityManagerAssumption
<1> DEFINE T == {l[2] : l \in {k \in ls : k[1] = s}}
<1>3. T \in SUBSET (0 .. MaxTemporal) /\ T # {}
  BY <1>2 DEF Layer, Temporal
<1>4. PICK t \in T : \A y \in T : y <= t
  <2> HIDE DEF T
  <2> QED BY <1>3, GreatestMember, QualityManagerAssumption
<1>5. PICK l \in ls : l[1] = s /\ l[2] = t
  BY <1>4
<1>6. ASSUME NEW m \in ls PROVE m[1] < l[1] \/ (m[1] = l[1] /\ m[2] <= l[2])
  <2>1. m[1] \in S /\ m[1] \in Nat /\ s \in Nat
    BY <1>1, <1>2
  <2>2. m[1] = s => m[2] \in T
    OBVIOUS
  <2> HIDE DEF S, T
  <2> QED BY <1>2, <1>4, <1>5, <2>1, <2>2
<1> QED BY <1>5, <1>6 DEF LastLayer

-----------------------------------------------------------------------------
\* The handlers have had an update after the last change; an operation has
\* changed neither them nor what they follow.
Told(m) == m.pads = m.padding /\ m.slides = (m.freeze \/ m.manual) /\ m.untold = FALSE

Alike(r, m) ==
    /\ m.pads = r.pads /\ m.padding = r.padding /\ m.slides = r.slides
    /\ m.freeze = r.freeze /\ m.manual = r.manual /\ m.untold = r.untold

\* What an operation of the manager keeps: forced layers stay, and a change
\* of the padding or of the fallback has been passed on to the handlers.
Keeps(r, m) ==
    /\ m \in Manager
    /\ m.forced = r.forced
    /\ r.forced => m.spatial = r.spatial /\ m.temporal = r.temporal
    /\ Told(m) \/ Alike(r, m)

\* notifyUpdate() of the handlers.
LEMMA NotifyHandlersTells ==
    ASSUME NEW r \in Manager
    PROVE  /\ NotifyHandlers(r) \in Manager /\ Told(NotifyHandlers(r))
           /\ NotifyHandlers(r).forced = r.forced
           /\ NotifyHandlers(r).spatial = r.spatial
           /\ NotifyHandlers(r).temporal = r.temporal
<1> DEFINE a == r.freeze \/ r.manual
           m == [r EXCEPT !.slides = a, !.pads = r.padding, !.untold = FALSE]
<1>1. a \in BOOLEAN
  OBVIOUS
<1>2. NotifyHandlers(r) = m
  BY DEF NotifyHandlers, SlideShowWanted
<1>3. /\ m \in Manager /\ m.pads = m.padding /\ m.slides = a /\ m.untold = FALSE
      /\ m.freeze = r.freeze /\ m.manual = r.manual
      /\ m.forced = r.forced /\ m.spatial = r.spatial /\ m.temporal = r.temporal
  <2> HIDE DEF a
  <2> QED BY <1>1 DEF Manager
<1> HIDE DEF m
<1> QED BY <1>2, <1>3 DEF Told

\* setPadding passes a change on.
LEMMA SetPaddingKeeps ==
    ASSUME NEW r \in Manager, NEW on \in BOOLEAN
    PROVE  Keeps(r, SetPadding(r, on))
<1> DEFINE m == [r EXCEPT !.padding = on]
<1>1. /\ m \in Manager /\ m.forced = r.forced /\ m.spatial = r.spatial
      /\ m.temporal = r.temporal
  BY DEF Manager
<1>2. SetPadding(r, on) \in {r, NotifyHandlers(m)}
  BY DEF SetPadding
<1> HIDE DEF m
<1>3. Keeps(r, NotifyHandlers(m))
  BY <1>1, NotifyHandlersTells DEF Keeps
<1> QED BY <1>2, <1>3 DEF Keeps, Alike

\* setSpatialLayer and setTemporalLayer respect forced layers.
LEMMA SetLayerKeeps ==
    ASSUME NEW r \in Manager, NEW l \in Layer
    PROVE  Keeps(r, SetLayer(r, l))
<1>1. l[1] \in Spatial /\ l[2] \in Temporal
  BY DEF Layer
<1> QED BY <1>1 DEF Keeps, Alike, SetLayer, Manager

\* A change of the fallback in selectLayer is passed on.
LEMMA SetFreezeKeeps ==
    ASSUME NEW r \in Manager, NEW below \in BOOLEAN, NEW higher \in BOOLEAN
    PROVE  Keeps(r, SetFreeze(r, below, higher))
<1> DEFINE m == [r EXCEPT !.freeze = below]
<1>1. /\ m \in Manager /\ m.forced = r.forced /\ m.spatial = r.spatial
      /\ m.temporal = r.temporal
  BY DEF Manager
<1>2. SetFreeze(r, below, higher) \in {r, NotifyHandlers(m)}
  BY DEF SetFreeze
<1> HIDE DEF m
<1>3. Keeps(r, NotifyHandlers(m))
  BY <1>1, NotifyHandlersTells DEF Keeps
<1> QED BY <1>2, <1>3 DEF Keeps, Alike

\* Operations in a row keep what each of them keeps.
LEMMA KeepsTransitive ==
    ASSUME NEW r, NEW m, NEW n, Keeps(r, m), Keeps(m, n)
    PROVE  Keeps(r, n)
  BY DEF Keeps, Told, Alike

\* min_valid_spatial_layer is a layer.
LEMMA MinValidSpatialType ==
    ASSUME NEW r \in Manager
    PROVE  MinValidSpatial(r) \in Spatial
  BY QualityManagerAssumption DEF MinValidSpatial, Manager, Spatial

\* selectLayer.
LEMMA SelectLayerKeeps ==
    ASSUME NEW r \in Manager, NEW st \in Stats, NEW higher \in BOOLEAN
    PROVE  Keeps(r, SelectLayer(r, st, higher))
<1> DEFINE affordable == Affordable(r, st, higher)
           meets  == {l \in affordable : MeetsConstraints(r, l)}
           next   == IF meets = {} THEN <<MinValidSpatial(r), 0>> ELSE LastLayer(meets)
           timed  == [r EXCEPT !.since_check = 0]
           below  == meets = {} /\ r.slideshow # -1
           frozen == SetFreeze(timed, below, higher)
           moved  == SetLayer(frozen, next)
           pad    == ~IsInMaxLayer(moved) /\ affordable = meets
<1>1. next \in Layer
  <2>1. CASE meets = {}
    BY <2>1, MinValidSpatialType, QualityManagerAssumption DEF Layer, Temporal
  <2>2. CASE meets # {}
    <3>1. meets \in SUBSET Layer
      BY DEF Affordable
    <3>2. LastLayer(meets) \in meets
      <4> HIDE DEF meets
      <4> QED BY <2>2, <3>1, LastLayerIn
    <3> QED BY <2>2, <3>1, <3>2
  <2> QED BY <2>1, <2>2
<1>2. Keeps(r, timed)
  BY QualityManagerAssumption DEF Keeps, Alike, Manager
<1>3. below \in BOOLEAN
  OBVIOUS
<1>4. Keeps(timed, frozen)
  <2> HIDE DEF timed, below
  <2>1. timed \in Manager
    BY <1>2 DEF Keeps
  <2> QED BY <1>3, <2>1, SetFreezeKeeps
<1>5. Keeps(frozen, moved)
  <2> HIDE DEF frozen, next
  <2>1. frozen \in Manager
    BY <1>4 DEF Keeps
  <2> QED BY <1>1, <2>1, SetLayerKeeps
<1>6. Keeps(moved, SetPadding(moved, pad))
  <2>1. pad \in BOOLEAN
    OBVIOUS
  <2> HIDE DEF moved, pad
  <2>2. moved \in Manager
    BY <1>5 DEF Keeps
  <2> QED BY <2>1, <2>2, SetPaddingKeeps
<1>7. Keeps(r, SetPadding(moved, pad))
  <2> HIDE DEF timed, frozen, moved, pad
  <2> QED BY <1>2, <1>4, <1>5, <1>6, KeepsTransitive
<1>8. Keeps(r, r)
  BY DEF Keeps, Alike
<1>9. SelectLayer(r, st, higher) = IF r.initialized THEN SetPadding(moved, pad) ELSE r
  BY DEF SelectLayer
<1> QED BY <1>7, <1>8, <1>9

\* calculateMaxActiveLayer finds layers.
LEMMA CalculateKeeps ==
    ASSUME NEW r \in Manager, NEW st \in Stats
    PROVE  Keeps(r, CalculateMaxActiveLayer(r, st))
<1> DEFINE IsTop(i) == /\ i = 0 \/ st[<<i, 0>>].instant > 0
                       /\ \A j \in Spatial : j > i => st[<<j, 0>>].instant = 0
           s == CHOOSE i \in Spatial : IsTop(i)
           IsLast(i) == /\ i = 0 \/ st[<<s, i>>].instant > 0
                        /\ \A j \in Temporal : j > i => st[<<s, j>>].instant = 0
           t == CHOOSE i \in Temporal : IsLast(i)
<1>1. \A l \in Layer : st[l].instant \in Nat
  BY DEF Stats
<1>2. s \in Spatial
  <2> DEFINE T == {i \in Spatial : i = 0 \/ st[<<i, 0>>].instant > 0}
  <2>1. T \in SUBSET (0 .. MaxSpatial) /\ 0 \in T
    BY QualityManagerAssumption DEF Spatial
  <2>2. PICK x \in T : \A y \in T : y <= x
    <3> HIDE DEF T
    <3> QED BY <2>1, GreatestMember, QualityManagerAssumption
  <2>3. ASSUME NEW j \in Spatial, j > x PROVE st[<<j, 0>>].instant = 0
    <3>1. j \notin T
      BY <2>1, <2>2, <2>3 DEF Spatial
    <3>2. <<j, 0>> \in Layer
      BY QualityManagerAssumption DEF Layer, Temporal
    <3> QED BY <1>1, <3>1, <3>2
  <2>4. x \in Spatial /\ IsTop(x)
    BY <2>2, <2>3
  <2> QED BY <2>4
<1>3. t \in Temporal
  <2> HIDE DEF s
  <2> DEFINE T == {i \in Temporal : i = 0 \/ st[<<s, i>>].instant > 0}
  <2>1. T \in SUBSET (0 .. MaxTemporal) /\ 0 \in T
    BY QualityManagerAssumption DEF Temporal
  <2>2. PICK x \in T : \A y \in T : y <= x
    <3> HIDE DEF T
    <3> QED BY <2>1, GreatestMember, QualityManagerAssumption
  <2>3. ASSUME NEW j \in Temporal, j > x PROVE st[<<s, j>>].instant = 0
    <3>1. j \notin T
      BY <2>1, <2>2, <2>3 DEF Temporal
    <3>2. <<s, j>> \in Layer
      BY <1>2 DEF Layer
    <3> QED BY <1>1, <3>1, <3>2
  <2>4. x \in Temporal /\ IsLast(x)
    BY <2>2, <2>3
  <2> QED BY <2>4
<1>4. CalculateMaxActiveLayer(r, st)
        = [r EXCEPT !.max_spatial = s, !.max_temporal = t, !.since_activity = 0]
  BY DEF CalculateMaxActiveLayer
<1>5. \A a \in Spatial, b \in Temporal :
        Keeps(r, [r EXCEPT !.max_spatial = a, !.max_temporal = b, !.since_activity = 0])
  <2> TAKE a \in Spatial, b \in Temporal
  <2>1. 0 \in 0 .. ActiveLayerInterval + 1
    BY QualityManagerAssumption
  <2> DEFINE m == [r EXCEPT !.max_spatial = a, !.max_temporal = b, !.since_activity = 0]
  <2>2. m \in Manager
    BY <2>1 DEF Manager
  <2>3. /\ m.forced = r.forced /\ m.spatial = r.spatial /\ m.temporal = r.temporal
        /\ m.pads = r.pads /\ m.padding = r.padding /\ m.slides = r.slides
        /\ m.freeze = r.freeze /\ m.manual = r.manual /\ m.untold = r.untold
    BY DEF Manager
  <2>4. Keeps(r, m)
    <3> HIDE DEF m
    <3> QED BY <2>2, <2>3 DEF Keeps, Alike
  <2> QED BY <2>4
<1> HIDE DEF s, t
<1> QED BY <1>2, <1>3, <1>4, <1>5

\* notifyQualityUpdate.
LEMMA NotifyKeeps ==
    ASSUME NEW r \in Manager, NEW st \in Stats, NEW e \in Estimates \cup {NoEstimate}
    PROVE  Keeps(r, NotifyQualityUpdate(r, st, e))
<1> DEFINE known == [r EXCEPT !.initialized = TRUE]
<1>1. Keeps(r, r)
  BY DEF Keeps, Alike
<1>2. Keeps(r, known)
  BY DEF Keeps, Alike, Manager
<1>3. ASSUME e \in Estimates PROVE Keeps(known, CheckQuality(known, st, e))
  <2> HIDE DEF known
  <2> DEFINE read == [known EXCEPT !.estimate = e]
             checked == IF known.since_activity > ActiveLayerInterval
                        THEN CalculateMaxActiveLayer(read, st) ELSE read
  <2>1. Keeps(known, read) /\ read \in Manager
    BY <1>2, <1>3 DEF Keeps, Alike, Manager
  <2>2. Keeps(read, checked)
    <3>1. Keeps(read, read)
      BY <2>1 DEF Keeps, Alike
    <3> HIDE DEF read
    <3> QED BY <2>1, <3>1, CalculateKeeps
  <2> HIDE DEF read, checked
  <2>3. checked \in Manager
    BY <2>2 DEF Keeps
  <2>4. Keeps(known, checked)
    BY <2>1, <2>2, KeepsTransitive
  <2>5. \A higher \in BOOLEAN : Keeps(known, SelectLayer(checked, st, higher))
    BY <2>3, <2>4, SelectLayerKeeps, KeepsTransitive
  <2>6. CheckQuality(known, st, e) \in
          {checked, SelectLayer(checked, st, TRUE), SelectLayer(checked, st, FALSE)}
    BY DEF CheckQuality, checked, read
  <2> QED BY <2>4, <2>5, <2>6
<1>4. NotifyQualityUpdate(r, st, e) \in {r, known, CheckQuality(known, st, e)}
  BY DEF NotifyQualityUpdate
<1>5. e = NoEstimate => NotifyQualityUpdate(r, st, e) = r
  BY DEF NotifyQualityUpdate
<1> HIDE DEF known
<1> QED BY <1>1, <1>2, <1>3, <1>4, <1>5, KeepsTransitive

\* enable.
LEMMA EnableKeeps ==
    ASSUME NEW r \in Manager
    PROVE  Keeps(r, Enable(r))
<1> DEFINE on == [r EXCEPT !.enabled = TRUE]
<1>1. Keeps(r, on) /\ on \in Manager
  BY DEF Keeps, Alike, Manager
<1>2. Enable(r) \in {on, SetPadding(on, TRUE)}
  BY DEF Enable
<1> HIDE DEF on
<1>3. Keeps(on, SetPadding(on, TRUE))
  BY <1>1, SetPaddingKeeps
<1>4. Keeps(r, SetPadding(on, TRUE))
  BY <1>1, <1>3, KeepsTransitive
<1> QED BY <1>1, <1>2, <1>4

\* The manager as enableSlideShowBelowSpatialLayer leaves it before it calls
\* selectLayer, but for the layer.
Unfrozen(r) == [r EXCEPT !.freeze = FALSE, !.untold = @ \/ r.freeze]

\* What it is.
LEMMA UnfrozenType ==
    ASSUME NEW r \in Manager
    PROVE  LET m == Unfrozen(r) IN
           /\ m \in Manager
           /\ m.forced = r.forced /\ m.spatial = r.spatial /\ m.temporal = r.temporal
           /\ m.pads = r.pads /\ m.padding = r.padding /\ m.slides = r.slides
           /\ m.manual = r.manual /\ m.freeze = FALSE
           /\ m.untold = (r.untold \/ r.freeze)
<1> DEFINE a == r.untold \/ r.freeze
           m == [r EXCEPT !.freeze = FALSE, !.untold = a]
<1>1. a \in BOOLEAN
  OBVIOUS
<1>2. Unfrozen(r) = m
  BY DEF Unfrozen, Manager
<1>3. /\ m \in Manager
      /\ m.forced = r.forced /\ m.spatial = r.spatial /\ m.temporal = r.temporal
      /\ m.pads = r.pads /\ m.padding = r.padding /\ m.slides = r.slides
      /\ m.manual = r.manual /\ m.freeze = FALSE /\ m.untold = a
  <2> HIDE DEF a
  <2> QED BY <1>1 DEF Manager
<1> HIDE DEF m
<1> QED BY <1>2, <1>3

\* enableSlideShowBelowSpatialLayer keeps all but the fallback.
LEMMA EnableSlideShowKeeps ==
    ASSUME NEW r \in Manager, NEW st \in Stats, NEW s \in Spatial \cup {-1}
    PROVE  \/ Keeps(Unfrozen(r), EnableSlideShow(r, st, s))
           \/ Keeps(r, EnableSlideShow(r, st, s))
<1> DEFINE set == [r EXCEPT !.slideshow = s]
           u   == Unfrozen(r)
           w   == [u EXCEPT !.slideshow = s]
<1>1. Keeps(r, set)
  BY DEF Keeps, Alike, Manager
<1>2. Keeps(u, w) /\ w \in Manager
  <2>1. u \in Manager
    BY UnfrozenType
  <2> HIDE DEF u
  <2> QED BY <2>1 DEF Keeps, Alike, Manager
<1>3. Keeps(u, SelectLayer(w, st, TRUE))
  <2> HIDE DEF u, w
  <2>1. Keeps(w, SelectLayer(w, st, TRUE))
    BY <1>2, SelectLayerKeeps
  <2> QED BY <1>2, <2>1, KeepsTransitive
<1>4. w = [set EXCEPT !.freeze = FALSE, !.untold = @ \/ r.freeze]
  BY DEF Unfrozen, Manager
<1>5. EnableSlideShow(r, st, s) = IF r.initialized THEN SelectLayer(w, st, TRUE) ELSE set
  BY <1>4 DEF EnableSlideShow
<1> HIDE DEF set, u, w
<1>6. Keeps(u, EnableSlideShow(r, st, s)) \/ Keeps(r, EnableSlideShow(r, st, s))
  BY <1>1, <1>3, <1>5
<1> QED BY <1>6 DEF u

\* setVideoConstraints.
LEMMA SetVideoConstraintsKeeps ==
    ASSUME NEW r \in Manager, NEW st \in Stats, NEW l \in Layer
    PROVE  Keeps(r, SetVideoConstraints(r, st, l))
<1> DEFINE set == [r EXCEPT !.wanted = l]
<1>1. Keeps(r, set) /\ set \in Manager
  BY DEF Keeps, Alike, Manager
<1>2. SetVideoConstraints(r, st, l) = SelectLayer(set, st, TRUE)
  BY DEF SetVideoConstraints
<1> HIDE DEF set
<1>3. Keeps(set, SelectLayer(set, st, TRUE))
  BY <1>1, SelectLayerKeeps
<1> QED BY <1>1, <1>2, <1>3, KeepsTransitive

\* The passing of time.
LEMMA ManagerTickKeeps ==
    ASSUME NEW r \in Manager
    PROVE  Keeps(r, ManagerTick(r))
<1> DEFINE a == IF r.since_check > MinLayerSwitchInterval THEN r.since_check
                                                          ELSE r.since_check + 1
           b == IF r.since_activity > ActiveLayerInterval THEN r.since_activity
                                                          ELSE r.since_activity + 1
           m == [r EXCEPT !.since_check = a, !.since_activity = b]
<1>1. a \in 0 .. MinLayerSwitchInterval + 1 /\ b \in 0 .. ActiveLayerInterval + 1
  BY QualityManagerAssumption DEF Manager
<1>2. ManagerTick(r) = m
  BY DEF ManagerTick
<1>3. Keeps(r, m)
  <2> HIDE DEF a, b
  <2> QED BY <1>1 DEF Keeps, Alike, Manager
<1> QED BY <1>2, <1>3

\* forceLayers passes a change of the padding on.
LEMMA ForceLayersKeeps ==
    ASSUME NEW r \in Manager, NEW s \in Spatial \cup {-1}, NEW t \in Temporal \cup {-1}
    PROVE  LET m == ForceLayers(r, s, t) IN
           /\ m \in Manager
           /\ Told(m) \/ Alike(r, m)
           /\ m.forced => s \in Spatial /\ t \in Temporal
<1>1. CASE s = -1 \/ t = -1
  BY <1>1 DEF ForceLayers, Manager, Alike
<1>2. CASE ~(s = -1 \/ t = -1)
  <2> DEFINE n == SetPadding(r, FALSE)
             m == [n EXCEPT !.forced = TRUE, !.spatial = s, !.temporal = t]
  <2>1. Keeps(r, n)
    BY SetPaddingKeeps
  <2>2. s \in Spatial /\ t \in Temporal
    BY <1>2
  <2>3. ForceLayers(r, s, t) = m
    BY <1>2 DEF ForceLayers
  <2>4. /\ m \in Manager
        /\ Alike(n, m)
    <3> HIDE DEF n
    <3> QED BY <2>1, <2>2 DEF Keeps, Alike, Manager
  <2>5. Told(m) \/ Alike(r, m)
    <3> HIDE DEF n, m
    <3> QED BY <2>1, <2>4 DEF Keeps, Told, Alike
  <2> HIDE DEF n, m
  <2> QED BY <2>2, <2>3, <2>4, <2>5
<1> QED BY <1>1, <1>2

-----------------------------------------------------------------------------
\* checkLayers leaves the target layer alone.
LEMMA CheckLayersType ==
    ASSUME NEW g \in Filter, NEW m \in Manager
    PROVE  CheckLayers(g, m) \in Filter /\ CheckLayers(g, m).target = g.target
<1>1. m.spatial \in Spatial /\ m.temporal \in Temporal
  BY DEF Manager
<1>2. 0 \in 0 .. SwitchTimeout + 1 /\ BeginsChange(g, m) \in BOOLEAN
  BY QualityFilterAssumption DEF BeginsChange, Filter
<1> QED BY <1>1, <1>2 DEF CheckLayers, Filter

\* The target layer changes with a keyframe of it, or after the timeout.
LEMMA EndChangeType ==
    ASSUME NEW g \in Filter, NEW p
    PROVE  /\ EndChange(g, p) \in Filter
           /\ EndChange(g, p).temporal = g.temporal
           /\ EndChange(g, p).target # g.target =>
                 /\ EndChange(g, p).target = g.future
                 /\ KeyframeOf(g, p) \/ TimesOut(g, p)
<1>1. CASE g.future # -1 /\ (KeyframeOf(g, p) \/ TimesOut(g, p))
  BY <1>1 DEF EndChange, Filter
<1>2. CASE ~(g.future # -1 /\ (KeyframeOf(g, p) \/ TimesOut(g, p)))
  BY <1>2 DEF EndChange
<1> QED BY <1>1, <1>2

\* write() of a filtered packet: whoever is moved to a layer gets a keyframe,
\* or one is asked for.
LEMMA FilterPacketKeeps ==
    ASSUME NEW g \in Filter, NEW m \in Manager, NEW p,
           decodable \in BOOLEAN, asked \in BOOLEAN, KeyframeOrAsked,
           FilterPacket(g, m, p)
    PROVE  f' \in Filter /\ decodable' \in BOOLEAN /\ asked' \in BOOLEAN /\ KeyframeOrAsked'
<1> DEFINE c == CheckLayers(g, m)
           h == EndChange(c, p)
<1>1. c \in Filter /\ c.target = g.target
  BY CheckLayersType
<1>2. /\ h \in Filter
      /\ h.temporal = c.temporal
      /\ h.target # c.target => /\ h.target = c.future
                                /\ KeyframeOf(c, p) \/ TimesOut(c, p)
  <2> HIDE DEF c
  <2> QED BY <1>1, EndChangeType
<1>3. /\ f' = h
      /\ decodable' = \/ /\ h.target \in p.spatial /\ h.temporal \in p.temporal
                         /\ p.keyframe
                      \/ decodable /\ h.target = g.target
      /\ asked' = (SendsPLI(g, m, p) \/ (asked /\ h.target = g.target))
  BY DEF FilterPacket
<1>4. TimesOut(c, p) => SendsPLI(g, m, p)
  BY DEF SendsPLI
<1>5. KeyframeOf(c, p) =>
        p.keyframe /\ c.future \in p.spatial /\ c.temporal \in p.temporal
  BY DEF KeyframeOf
<1> HIDE DEF h, c
<1>6. decodable' \/ asked'
  BY <1>1, <1>2, <1>3, <1>4, <1>5 DEF KeyframeOrAsked
<1>7. decodable' \in BOOLEAN /\ asked' \in BOOLEAN
  BY <1>3
<1> QED BY <1>2, <1>3, <1>6, <1>7 DEF KeyframeOrAsked

-----------------------------------------------------------------------------
\* The inductive invariant.
Inv == TypeOK /\ HandlersFollow /\ KeyframeOrAsked

\* The manager, the filter and the handlers start in agreement.
LEMMA InitInv == Init => Inv
<1> SUFFICES ASSUME Init PROVE Inv
  OBVIOUS
<1>1. q \in Manager
  BY QualityManagerAssumption DEF Init, NewManager, Manager, Spatial, Temporal, Layer
<1>2. f \in Filter
  BY QualityManagerAssumption, QualityFilterAssumption DEF Init, Filter, Spatial, Temporal
<1>3. HandlersFollow /\ KeyframeOrAsked
  BY DEF Init, NewManager, HandlersFollow, KeyframeOrAsked
<1>4. calls \in 0 .. MaxCalls /\ packets \in 0 .. 1
  BY QualityFilterAssumption DEF Init
<1>5. /\ stats \in Profiles /\ update \in BOOLEAN
      /\ decodable \in BOOLEAN /\ asked \in BOOLEAN
  BY DEF Init
<1> QED BY <1>1, <1>2, <1>3, <1>4, <1>5 DEF Inv, TypeOK

\* Handlers that follow the manager go on following it when an operation
\* keeps what it should.
LEMMA FollowsWhenKept ==
    ASSUME HandlersFollow, Told(q') \/ Alike(q, q'), UNCHANGED update
    PROVE  HandlersFollow'
  BY DEF HandlersFollow, Told, Alike

\* A step of the worker keeps the invariant, one step per action.
LEMMA StepInv == Inv /\ [Next]_vars => Inv'
<1> SUFFICES ASSUME Inv, [Next]_vars PROVE Inv'
  OBVIOUS
<1>1. /\ TypeOK /\ HandlersFollow /\ KeyframeOrAsked
      /\ q \in Manager /\ f \in Filter /\ stats \in Profiles /\ stats \in Stats
      /\ update \in BOOLEAN /\ calls \in 0 .. MaxCalls /\ packets \in 0 .. 1
      /\ decodable \in BOOLEAN /\ asked \in BOOLEAN
  BY QualityFilterAssumption DEF Inv, TypeOK
<1>2. ASSUME Called PROVE calls' \in 0 .. MaxCalls
  BY <1>1, <1>2, QualityFilterAssumption DEF Called
<1>3. ASSUME NEW p \in Packet, NEW e \in Estimates \cup {NoEstimate}, Write(p, e)
      PROVE  Inv'
  <2> DEFINE noticed == NotifyQualityUpdate(q, stats, e)
             m == IF Detects(f, p) THEN Enable(noticed) ELSE noticed
             g == [f EXCEPT !.scalable = @ \/ Detects(f, p)]
  <2>1. Keeps(q, noticed)
    BY <1>1, NotifyKeeps
  <2>2. Keeps(q, m)
    <3>1. noticed \in Manager
      BY <2>1 DEF Keeps
    <3>2. Keeps(noticed, Enable(noticed))
      BY <3>1, EnableKeeps
    <3> HIDE DEF noticed
    <3>3. Keeps(q, Enable(noticed))
      BY <2>1, <3>2, KeepsTransitive
    <3> QED BY <2>1, <3>3
  <2>3. g \in Filter
    BY <1>1 DEF Filter, Detects
  <2>4. /\ q' = m /\ packets' = 1 - packets
        /\ IF g.scalable /\ g.enabled THEN FilterPacket(g, m, p)
           ELSE f' = g /\ UNCHANGED <<decodable, asked>>
        /\ UNCHANGED <<stats, update, calls>>
    BY <1>3 DEF Write
  <2> HIDE DEF m, g
  <2>5. f' \in Filter /\ decodable' \in BOOLEAN /\ asked' \in BOOLEAN /\ KeyframeOrAsked'
    <3>1. CASE FilterPacket(g, m, p)
      <4>1. m \in Manager
        BY <2>2 DEF Keeps
      <4> QED BY <1>1, <2>3, <3>1, <4>1, FilterPacketKeeps
    <3>2. CASE f' = g /\ UNCHANGED <<decodable, asked>>
      BY <1>1, <2>3, <3>2 DEF KeyframeOrAsked
    <3> QED BY <2>4, <3>1, <3>2
  <2>6. q' \in Manager /\ HandlersFollow'
    BY <1>1, <2>2, <2>4, FollowsWhenKept DEF Keeps
  <2>7. packets' \in 0 .. 1
    BY <1>1, <2>4
  <2> QED BY <1>1, <2>4, <2>5, <2>6, <2>7 DEF Inv, TypeOK
<1>4. CASE SetEnabled
  <2>1. f' \in Filter
    BY <1>1, <1>4 DEF SetEnabled, Filter
  <2>2. UNCHANGED <<q, stats, update, history>> /\ calls' \in 0 .. MaxCalls
    BY <1>2, <1>4 DEF SetEnabled
  <2> QED BY <1>1, <2>1, <2>2
          DEF Inv, TypeOK, HandlersFollow, KeyframeOrAsked, history
<1>5. ASSUME NEW s \in Spatial \cup {-1}, NEW t \in Temporal \cup {-1}, SetQualityLayer(s, t)
      PROVE  Inv'
  <2>1. /\ q' = ForceLayers(q, s, t)
        /\ UNCHANGED <<f, stats, update, history>>
        /\ calls' \in 0 .. MaxCalls
    BY <1>2, <1>5 DEF SetQualityLayer
  <2>2. q' \in Manager /\ (Told(q') \/ Alike(q, q'))
    BY <1>1, <2>1, ForceLayersKeeps
  <2>3. HandlersFollow'
    BY <1>1, <2>1, <2>2, FollowsWhenKept
  <2> QED BY <1>1, <2>1, <2>2, <2>3 DEF Inv, TypeOK, KeyframeOrAsked, history
<1>6. ASSUME NEW s \in Spatial \cup {-1}, EnableSlideShowBelow(s)
      PROVE  Inv'
  <2>1. /\ q' = EnableSlideShow(q, stats, s)
        /\ UNCHANGED <<f, stats, update, history>>
        /\ calls' \in 0 .. MaxCalls
    BY <1>2, <1>6 DEF EnableSlideShowBelow
  <2> DEFINE u == Unfrozen(q)
  <2>2. Keeps(u, q') \/ Keeps(q, q')
    BY <1>1, <2>1, EnableSlideShowKeeps
  <2>3. /\ u.pads = q.pads /\ u.padding = q.padding /\ u.slides = q.slides
        /\ u.manual = q.manual /\ u.freeze = FALSE /\ u.untold = (q.untold \/ q.freeze)
    BY <1>1, UnfrozenType
  <2> HIDE DEF u
  <2>4. q' \in Manager /\ (Told(q') \/ Alike(u, q') \/ Alike(q, q'))
    BY <2>2 DEF Keeps
  <2>5. HandlersFollow'
    <3>1. CASE Told(q') \/ Alike(q, q')
      BY <1>1, <2>1, <3>1, FollowsWhenKept
    <3>2. CASE Alike(u, q')
      BY <1>1, <2>1, <2>3, <3>2 DEF HandlersFollow, Alike
    <3> QED BY <2>4, <3>1, <3>2
  <2> QED BY <1>1, <2>1, <2>4, <2>5 DEF Inv, TypeOK, KeyframeOrAsked, history
<1>7. ASSUME NEW l \in Layer, Constrain(l)
      PROVE  Inv'
  <2>1. /\ q' = SetVideoConstraints(q, stats, l)
        /\ UNCHANGED <<f, stats, update, history>>
        /\ calls' \in 0 .. MaxCalls
    BY <1>2, <1>7 DEF Constrain
  <2>2. Keeps(q, q')
    BY <1>1, <2>1, SetVideoConstraintsKeeps
  <2>3. q' \in Manager /\ HandlersFollow'
    BY <1>1, <2>1, <2>2, FollowsWhenKept DEF Keeps
  <2> QED BY <1>1, <2>1, <2>3 DEF Inv, TypeOK, KeyframeOrAsked, history
<1>8. ASSUME NEW on \in BOOLEAN, SetSlideShowMode(on)
      PROVE  Inv'
  <2>1. /\ q' = [q EXCEPT !.manual = on] /\ update' = TRUE
        /\ UNCHANGED <<f, stats, history>> /\ calls' \in 0 .. MaxCalls
    BY <1>2, <1>8 DEF SetSlideShowMode
  <2>2. q' \in Manager /\ q'.pads = q.pads /\ q'.padding = q.padding
    BY <1>1, <2>1 DEF Manager
  <2> QED BY <1>1, <2>1, <2>2 DEF Inv, TypeOK, HandlersFollow, KeyframeOrAsked, history
<1>13. CASE RunUpdate \/ MuteOrLimit
  <2>1. /\ q' = NotifyHandlers(q) /\ UNCHANGED <<f, stats, history>>
        /\ calls' \in 0 .. MaxCalls /\ update' \in BOOLEAN
    BY <1>1, <1>2, <1>13 DEF RunUpdate, MuteOrLimit
  <2>2. q' \in Manager /\ Told(q')
    BY <1>1, <2>1, NotifyHandlersTells
  <2>3. HandlersFollow'
    BY <2>2 DEF HandlersFollow, Told
  <2> QED BY <1>1, <2>1, <2>2, <2>3 DEF Inv, TypeOK, KeyframeOrAsked, history
<1>9. CASE StatsChange
  <2>1. /\ UNCHANGED <<q, f, update, history>> /\ stats' \in Profiles
        /\ calls' \in 0 .. MaxCalls
    BY <1>2, <1>9 DEF StatsChange
  <2> QED BY <1>1, <2>1
          DEF Inv, TypeOK, HandlersFollow, KeyframeOrAsked, history
<1>10. CASE Tick
  <2>1. q' = ManagerTick(q) /\ UNCHANGED <<stats, update, calls, history>>
    BY <1>10 DEF Tick
  <2>2. f' \in Filter
    BY <1>1, <1>10, QualityFilterAssumption DEF Tick, Filter
  <2>3. q' \in Manager /\ HandlersFollow'
    BY <1>1, <2>1, ManagerTickKeeps, FollowsWhenKept DEF Keeps
  <2> QED BY <1>1, <2>1, <2>2, <2>3 DEF Inv, TypeOK, KeyframeOrAsked, history
<1>11. CASE UNCHANGED vars
  BY <1>1, <1>11 DEF vars, Inv, TypeOK, HandlersFollow, KeyframeOrAsked, history
<1>12. WritePacket =>
         \E p \in Packet : \E e \in Estimates \cup {NoEstimate} : Write(p, e)
  BY DEF WritePacket
<1> QED
  BY <1>3, <1>4, <1>5, <1>6, <1>7, <1>8, <1>9, <1>10, <1>11, <1>12, <1>13 DEF Next

-----------------------------------------------------------------------------
\* The invariant holds always.
THEOREM Invariance == Spec => []Inv
<1> QED BY InitInv, StepInv, PTL DEF Spec

\* The manager, the filter and the handlers have values of their types; the
\* manager never selects a layer that does not exist.
THEOREM TypeOKTheorem == Spec => []TypeOK
<1>1. Inv => TypeOK
  BY DEF Inv
<1> QED BY <1>1, Invariance, PTL

\* Slideshow and padding follow QualityManager and setSlideShowMode as soon as
\* the posted update has run, except for the fallback that is ended silently.
THEOREM HandlersFollowTheorem == Spec => []HandlersFollow
<1>1. Inv => HandlersFollow
  BY DEF Inv
<1> QED BY <1>1, Invariance, PTL

\* A subscriber that QualityFilterHandler moves to a layer gets a keyframe
\* first or one has been asked for.
THEOREM KeyframeOrAskedTheorem == Spec => []KeyframeOrAsked
<1>1. Inv => KeyframeOrAsked
  BY DEF Inv
<1> QED BY <1>1, Invariance, PTL

\* Only setQualityLayer moves layers that it has forced.
THEOREM ForcedStaysTheorem == Spec => ForcedStays
<1> DEFINE Stays == q'.spatial = q.spatial /\ q'.temporal = q.temporal
           Forces == \E s \in Spatial, t \in Temporal : SetQualityLayer(s, t)
<1>1. ASSUME Inv, [Next]_vars, q.forced, q'.forced, ~Forces
      PROVE  Stays
  <2>1. q \in Manager /\ f \in Filter /\ stats \in Stats
    BY <1>1, QualityFilterAssumption DEF Inv, TypeOK
  <2>2. Keeps(q, q') => Stays
    BY <1>1 DEF Keeps
  <2> HIDE DEF Stays, Forces
  <2>3. ASSUME NEW p \in Packet, NEW e \in Estimates \cup {NoEstimate}, Write(p, e)
        PROVE  Keeps(q, q')
    <3> DEFINE noticed == NotifyQualityUpdate(q, stats, e)
    <3>1. Keeps(q, noticed) /\ noticed \in Manager
      BY <2>1, NotifyKeeps DEF Keeps
    <3>2. q' \in {noticed, Enable(noticed)}
      BY <2>3 DEF Write
    <3> HIDE DEF noticed
    <3>3. Keeps(q, Enable(noticed))
      BY <3>1, EnableKeeps, KeepsTransitive
    <3> QED BY <3>1, <3>2, <3>3
  <2>4. ASSUME NEW s \in Spatial \cup {-1}, NEW t \in Temporal \cup {-1},
               SetQualityLayer(s, t)
        PROVE  FALSE
    <3>1. q' = ForceLayers(q, s, t)
      BY <2>4 DEF SetQualityLayer
    <3>2. s \in Spatial /\ t \in Temporal
      BY <1>1, <2>1, <3>1, ForceLayersKeeps
    <3> QED BY <1>1, <2>4, <3>2 DEF Forces
  <2>5. ASSUME NEW s \in Spatial \cup {-1}, EnableSlideShowBelow(s)
        PROVE  Stays
    <3> DEFINE u == Unfrozen(q)
    <3>1. Keeps(u, q') \/ Keeps(q, q')
      BY <2>1, <2>5, EnableSlideShowKeeps DEF EnableSlideShowBelow
    <3>2. u.forced = q.forced /\ u.spatial = q.spatial /\ u.temporal = q.temporal
      BY <2>1, UnfrozenType
    <3> HIDE DEF u
    <3> QED BY <1>1, <2>2, <3>1, <3>2 DEF Keeps, Stays
  <2>6. ASSUME NEW l \in Layer, Constrain(l)
        PROVE  Keeps(q, q')
    BY <2>1, <2>6, SetVideoConstraintsKeeps DEF Constrain
  <2>7. Tick => Keeps(q, q')
    BY <2>1, ManagerTickKeeps DEF Tick
  <2>8. RunUpdate \/ MuteOrLimit => Stays
    BY <2>1, NotifyHandlersTells DEF RunUpdate, MuteOrLimit, Stays
  <2>11. ASSUME NEW on \in BOOLEAN, SetSlideShowMode(on)
         PROVE  Stays
    BY <2>1, <2>11 DEF SetSlideShowMode, Manager, Stays
  <2>9. SetEnabled \/ StatsChange \/ UNCHANGED vars => Stays
    BY DEF SetEnabled, StatsChange, vars, Stays
  <2>10. WritePacket =>
           \E p \in Packet : \E e \in Estimates \cup {NoEstimate} : Write(p, e)
    BY DEF WritePacket
  <2> QED BY <1>1, <2>2, <2>3, <2>4, <2>5, <2>6, <2>7, <2>8, <2>9, <2>10, <2>11 DEF Next
<1>2. Inv /\ [Next]_vars =>
        [q.forced /\ q'.forced /\ ~(\E s \in Spatial, t \in Temporal : SetQualityLayer(s, t))
           => q'.spatial = q.spatial /\ q'.temporal = q.temporal]_vars
  BY <1>1
<1> QED BY <1>2, Invariance, PTL DEF Spec, ForcedStays
=============================================================================
