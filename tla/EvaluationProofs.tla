-------------------------- MODULE EvaluationProofs --------------------------
(***************************************************************************)
(* What one evaluation decides, for every map, every set of hotspots,      *)
(* targets and zones, and every setting.  The argument rests on one        *)
(* lemma: evaluate() never opens an alert of a key that was open, because  *)
(* each reason to end an alert contradicts a condition to open it.  With   *)
(* it, the world after an evaluation is one the same evaluation leaves     *)
(* alone.                                                                  *)
(***************************************************************************)
EXTENDS EvaluationPasses, TLAPS

\* The reasons are those of the resolve_reason CHECK.
LEMMA ReasonType ==
    ASSUME NEW w, NEW k
    PROVE  ResolveReason(k, w) \in Reasons \cup {Keep}
BY DEF ResolveReason, Reasons, Keep

\* The distances and radii of a world are whole numbers of metres.
LEMMA MetresType ==
    ASSUME NEW w \in Worlds, NEW k \in Keys
    PROVE  /\ AlarmRadius(k[2], k[1], w.settings) \in Nat
           /\ w.at[k[2]] # NoPlace => Distance(k, w) \in Nat
<1>1. k[1] \in Hotspots /\ k[2] \in Targets
  BY DEF Keys
<1>2. w.settings \in AlarmSettings /\ w.at[k[2]] \in Places \cup {NoPlace}
  BY <1>1 DEF Worlds
<1>3. AlarmRadius(k[2], k[1], w.settings) \in Nat
  <2>1. w.settings.hqRadius \in Nat /\ w.settings.rescuerRadius \in Nat
    BY <1>2 DEF AlarmSettings
  <2>2. PixelHalf[k[1]] \in Nat
    BY <1>1, GeographyAssumption
  <2>. QED
    BY <2>1, <2>2 DEF AlarmRadius
<1>4. ASSUME w.at[k[2]] # NoPlace PROVE Distance(k, w) \in Nat
  <2>1. w.at[k[2]] \in Places /\ HotspotPlace[k[1]] \in Places
    BY <1>1, <1>2, <1>4, GeographyAssumption
  <2>. QED
    BY <2>1, GeographyAssumption DEF Distance
<1>. QED
  BY <1>3, <1>4

\* EXIT_HYSTERESIS > 1: no distance both opens an alert and ends it.
LEMMA HysteresisGap ==
    ASSUME NEW w \in Worlds, NEW k \in Keys, w.at[k[2]] # NoPlace, Within(k, w)
    PROVE  ~BeyondExit(k, w)
<1>. DEFINE D == Distance(k, w)
            R == AlarmRadius(k[2], k[1], w.settings)
<1>1. D \in Nat /\ R \in Nat
  BY MetresType
<1>2. D <= R
  BY DEF Within
<1>3. ~(5 * D > 6 * R)
  <2>. HIDE DEF D, R
  <2>. QED
    BY <1>1, <1>2
<1>. QED
  BY <1>3 DEF BeyondExit

\* A key evaluate() would open has no reason to end.
LEMMA OpenedHasNoReason ==
    ASSUME NEW w \in Worlds, NEW k \in ToOpen(w)
    PROVE  ResolveReason(k, w) = Keep
<1>1. /\ k \in Keys
      /\ k[1] \in w.loaded
      /\ IsCandidate(k[1], w)
      /\ ~SuppressedNow(k[1], w)
      /\ Enabled(k[2], w.settings)
      /\ w.at[k[2]] # NoPlace
      /\ Within(k, w)
  BY DEF ToOpen
<1>2. k[1] \notin w.dismissed
  BY <1>1 DEF IsCandidate
<1>3. ~GoneOutOfRange(k, w)
  BY <1>1, HysteresisGap DEF GoneOutOfRange
<1>. QED
  BY <1>1, <1>2, <1>3 DEF ResolveReason

\* An evaluation opens only keys that had no open alert, also not one that it ends itself.
LEMMA OpensOnlyNew ==
    ASSUME NEW w \in Worlds
    PROVE  ToOpen(w) \cap w.open = {}
<1>. SUFFICES ASSUME NEW k \in ToOpen(w), k \in w.open
              PROVE  FALSE
  OBVIOUS
<1>1. ResolveReason(k, w) = Keep
  BY OpenedHasNoReason
<1>2. k \in StillOpen(w)
  BY <1>1 DEF StillOpen, ToResolve
<1>. QED
  BY <1>2 DEF ToOpen

\* What an evaluation decides is about keys.
LEMMA DecisionTypes ==
    ASSUME NEW w \in Worlds
    PROVE  /\ ToOpen(w) \subseteq Keys
           /\ StillOpen(w) \subseteq Keys
           /\ OpenAfter(w) \subseteq Keys
BY DEF ToOpen, StillOpen, OpenAfter, Worlds

\* The decision looks at the open alerts only to know which keys have one: everything else it looks at is the same in
\* worlds that differ in their open alerts.
LEMMA ReasonIgnoresOpen ==
    ASSUME NEW w \in Worlds, NEW O, NEW k
    PROVE  ResolveReason(k, [w EXCEPT !.open = O]) = ResolveReason(k, w)
<1>. DEFINE v == [w EXCEPT !.open = O]
<1>1. /\ v.loaded = w.loaded /\ v.dismissed = w.dismissed /\ v.zones = w.zones
      /\ v.age = w.age /\ v.settings = w.settings /\ v.at = w.at
  BY DEF Worlds
<1>. HIDE DEF v
<1>2. ResolveReason(k, v) = ResolveReason(k, w)
  BY <1>1 DEF ResolveReason, SuppressedNow, IsCandidate, GoneOutOfRange, BeyondExit, Distance
<1>. QED
  BY <1>2 DEF v

\* A key that would be opened beside other open alerts would be opened beside those of w, unless it stays open there.
LEMMA OpeningIgnoresOpen ==
    ASSUME NEW w \in Worlds, NEW O, NEW k \in ToOpen([w EXCEPT !.open = O]), k \notin StillOpen(w)
    PROVE  k \in ToOpen(w)
<1>. DEFINE v == [w EXCEPT !.open = O]
<1>1. /\ v.loaded = w.loaded /\ v.dismissed = w.dismissed /\ v.zones = w.zones
      /\ v.age = w.age /\ v.settings = w.settings /\ v.at = w.at
  BY DEF Worlds
<1>2. k \in ToOpen(v)
  OBVIOUS
<1>. HIDE DEF v
<1>. QED
  BY <1>1, <1>2 DEF ToOpen, SuppressedNow, IsCandidate, Within, Distance

\* Carrying out the decisions gives a world that the same evaluation leaves alone.
LEMMA PassSettles ==
    ASSUME NEW w \in Worlds
    PROVE  LET v == [w EXCEPT !.open = OpenAfter(w)]
           IN  v \in Worlds /\ ToOpen(v) = {} /\ ToResolve(v) = {}
<1>. DEFINE v == [w EXCEPT !.open = OpenAfter(w)]
<1>1. v \in Worlds /\ v.open = OpenAfter(w)
  BY DecisionTypes DEF Worlds
<1>2. ASSUME NEW k \in OpenAfter(w)
      PROVE  ResolveReason(k, v) = Keep
  <2>1. ResolveReason(k, v) = ResolveReason(k, w)
    BY ReasonIgnoresOpen
  <2>2. CASE k \in StillOpen(w)
    BY <2>1, <2>2 DEF StillOpen, ToResolve
  <2>3. CASE k \in ToOpen(w)
    BY <2>1, <2>3, OpenedHasNoReason
  <2>. QED
    BY <2>2, <2>3 DEF OpenAfter
<1>3. ToResolve(v) = {}
  <2>. HIDE DEF v
  <2>. QED
    BY <1>1, <1>2 DEF ToResolve
<1>4. StillOpen(v) = OpenAfter(w)
  <2>. HIDE DEF v
  <2>. QED
    BY <1>1, <1>3 DEF StillOpen
<1>5. ASSUME NEW k \in ToOpen(v)
      PROVE  FALSE
  <2>1. k \notin OpenAfter(w)
    BY <1>4 DEF ToOpen
  <2>2. k \in ToOpen(w)
    BY <2>1, OpeningIgnoresOpen DEF OpenAfter
  <2>. QED
    BY <2>1, <2>2 DEF OpenAfter
<1>. QED
  BY <1>1, <1>3, <1>5

-----------------------------------------------------------------------------
(* The properties of EvaluationPasses.                                     *)

\* An evaluation of a well-formed world, followed by a move, gives a well-formed world.
LEMMA PassKeepsType ==
    ASSUME world \in Worlds, [Next]_world
    PROVE  world' \in Worlds
<1>1. CASE UNCHANGED world
  BY <1>1
<1>2. CASE Next
  <2>1. PICK t \in Targets, p \in Places \cup {NoPlace} : Pass(t, p)
    BY <1>2 DEF Next
  <2>2. OpenAfter(world) \in SUBSET Keys
    BY DecisionTypes
  <2>. QED
    BY <2>1, <2>2 DEF Pass, Worlds
<1>. QED
  BY <1>1, <1>2

\* The evaluation is only ever given well-formed worlds.
LEMMA WorldType == Spec => [](world \in Worlds)
<1>1. Init => world \in Worlds
  BY StartAssumption DEF Init
<1>2. world \in Worlds /\ [Next]_world => (world \in Worlds)'
  BY PassKeepsType
<1>. QED
  BY <1>1, <1>2, PTL DEF Spec

\* No evaluation ends an alert and opens it again, and every reason recorded is one of the CHECK's.
THEOREM Decisions == Spec => []DecisionsWellFormed
<1>1. world \in Worlds => DecisionsWellFormed
  BY ReasonType, OpensOnlyNew DEF DecisionsWellFormed
<1>. QED
  BY <1>1, WorldType, PTL

\* The correctness rule of proximity.py: no live hotspot within the radius of a known target is without an alert.
THEOREM Missed == Spec => []NeverMissed
<1>1. ASSUME world \in Worlds,
             NEW h \in Hotspots, NEW t \in Targets,
             h \in world.loaded \ (world.dismissed \cup FieldReports),
             world.age[h] < world.settings.maxAge,
             \A z \in world.zones : Dist[HotspotPlace[h], ZonePlace[z]] > ZoneRadius[z],
             (t = HQ /\ world.settings.hqOn) \/ (t # HQ /\ world.settings.rescuerOn),
             world.at[t] # NoPlace,
             Dist[HotspotPlace[h], world.at[t]]
                <= PixelHalf[h] + (IF t = HQ THEN world.settings.hqRadius ELSE world.settings.rescuerRadius)
      PROVE  <<h, t>> \in OpenAfter(world)
  <2>. DEFINE k == <<h, t>>
  <2>1. k \in Keys /\ k[1] = h /\ k[2] = t
    BY DEF Keys
  <2>2. IsCandidate(h, world) /\ Enabled(t, world.settings)
    BY <1>1 DEF IsCandidate, Enabled
  <2>3. ~SuppressedNow(h, world)
    <3>1. ASSUME NEW z \in world.zones
          PROVE  ~(Dist[HotspotPlace[h], ZonePlace[z]] <= ZoneRadius[z])
      <4>1. Dist[HotspotPlace[h], ZonePlace[z]] > ZoneRadius[z]
        BY <1>1
      <4>2. z \in Zones
        BY <1>1 DEF Worlds
      <4>3. ZonePlace[z] \in Places /\ HotspotPlace[h] \in Places /\ ZoneRadius[z] \in Nat
        BY <4>2, GeographyAssumption
      <4>4. Dist[HotspotPlace[h], ZonePlace[z]] \in Nat
        BY <4>3, GeographyAssumption
      <4>. DEFINE a == Dist[HotspotPlace[h], ZonePlace[z]]
                  b == ZoneRadius[z]
      <4>5. a \in Nat /\ b \in Nat /\ a > b
        BY <4>1, <4>3, <4>4
      <4>6. ~(a <= b)
        <5>. HIDE DEF a, b
        <5>. QED
          BY <4>5
      <4>. QED
        BY <4>6
    <3>. QED
      BY <3>1 DEF SuppressedNow, Covered
  <2>4. Within(k, world)
    <3>1. world.settings \in AlarmSettings
      BY <1>1 DEF Worlds
    <3>2. PixelHalf[h] \in Nat /\ world.settings.hqRadius \in Nat /\ world.settings.rescuerRadius \in Nat
      BY <3>1, GeographyAssumption DEF AlarmSettings
    <3>3. PixelHalf[h] + (IF t = HQ THEN world.settings.hqRadius ELSE world.settings.rescuerRadius)
            = AlarmRadius(t, h, world.settings)
      BY <3>2 DEF AlarmRadius
    <3>. QED
      BY <1>1, <2>1, <3>3 DEF Within, Distance
  <2>5. CASE k \in StillOpen(world)
    BY <2>5 DEF OpenAfter
  <2>6. CASE k \notin StillOpen(world)
    <3>. HIDE DEF k
    <3>1. k \in ToOpen(world)
      BY <1>1, <2>1, <2>2, <2>3, <2>4, <2>6 DEF ToOpen
    <3>. QED
      BY <3>1 DEF OpenAfter, k
  <2>. QED
    BY <2>5, <2>6
<1>2. world \in Worlds => NeverMissed
  BY <1>1 DEF NeverMissed
<1>. QED
  BY <1>2, WorldType, PTL

\* Missing data never closes an alert.
THEOREM Silence == Spec => []SilenceKeepsAlerts
<1>1. ASSUME world \in Worlds,
             NEW k \in world.open,
             k[1] \in world.loaded,
             IsCandidate(k[1], world),
             k[1] \notin Suppressed(world),
             Enabled(k[2], world.settings),
             world.at[k[2]] = NoPlace
      PROVE  k \in OpenAfter(world)
  <2>1. ResolveReason(k, world) = Keep
    BY <1>1 DEF ResolveReason, IsCandidate, Suppressed, GoneOutOfRange
  <2>. QED
    BY <2>1 DEF OpenAfter, StillOpen, ToResolve
<1>2. world \in Worlds => SilenceKeepsAlerts
  BY <1>1 DEF SilenceKeepsAlerts
<1>. QED
  BY <1>2, WorldType, PTL

\* An evaluation of an unchanged world, right after another, changes nothing.
THEOREM Settles == Spec => []OnePassSettles
<1>1. world \in Worlds => OnePassSettles
  BY PassSettles DEF OnePassSettles, Settled
<1>. QED
  BY <1>1, WorldType, PTL

\* The hysteresis: after an alert opened, a move within 1.2 times the radius leaves it open.
THEOREM Hysteresis == Spec => BoundaryDoesNotFlap
<1>1. ASSUME world \in Worlds, [Next]_world, world' # world,
             NEW k \in ToOpen(world),
             world'.at[k[2]] # NoPlace,
             5 * Distance(k, world') <= 6 * AlarmRadius(k[2], k[1], world.settings)
      PROVE  k \in OpenAfter(world')
  <2>1. PICK t \in Targets, p \in Places \cup {NoPlace} : Pass(t, p)
    BY <1>1 DEF Next
  <2>2. /\ world'.settings = world.settings /\ world'.loaded = world.loaded /\ world'.age = world.age
        /\ world'.dismissed = world.dismissed /\ world'.zones = world.zones
        /\ world'.open = OpenAfter(world)
    BY <1>1, <2>1 DEF Pass, Worlds
  <2>3. k \in Keys /\ k \in world'.open
    BY <2>2 DEF ToOpen, OpenAfter
  <2>4. ~BeyondExit(k, world')
    <3>. DEFINE D == Distance(k, world')
                R == AlarmRadius(k[2], k[1], world'.settings)
    <3>1. world' \in Worlds
      BY <1>1, PassKeepsType
    <3>2. D \in Nat /\ R \in Nat
      BY <1>1, <2>3, <3>1, MetresType
    <3>3. 5 * D <= 6 * R
      BY <1>1, <2>2
    <3>4. ~(5 * D > 6 * R)
      <4>. HIDE DEF D, R
      <4>. QED
        BY <3>2, <3>3
    <3>. QED
      BY <3>4 DEF BeyondExit
  <2>5. /\ k[1] \in world'.loaded
        /\ IsCandidate(k[1], world')
        /\ ~SuppressedNow(k[1], world')
        /\ Enabled(k[2], world'.settings)
    BY <2>2 DEF ToOpen, IsCandidate, SuppressedNow
  <2>6. ResolveReason(k, world') = Keep
    BY <2>4, <2>5 DEF ResolveReason, IsCandidate, GoneOutOfRange
  <2>. QED
    BY <2>3, <2>6 DEF OpenAfter, StillOpen, ToResolve
<1>2. world \in Worlds /\ [Next]_world =>
         [\A k \in ToOpen(world) :
             (/\ world'.at[k[2]] # NoPlace
              /\ 5 * Distance(k, world') <= 6 * AlarmRadius(k[2], k[1], world.settings))
             => k \in OpenAfter(world')]_world
  BY <1>1
<1>. QED
  BY <1>2, WorldType, PTL DEF Spec, BoundaryDoesNotFlap
=============================================================================
