-------------------------- MODULE EvaluationPasses --------------------------
(***************************************************************************)
(* One evaluation after another: the state is the world given to           *)
(* evaluate(); a step carries out its decisions and moves one target.  The *)
(* properties compare the decisions with what the docstrings of            *)
(* backend/fire/proximity.py promise.                                      *)
(***************************************************************************)
EXTENDS FireEvaluate

CONSTANT StartWorlds    \* what the first evaluation may be given

ASSUME StartAssumption == \A w \in StartWorlds : w \in Worlds

VARIABLE world

Init == world \in StartWorlds

\* The decisions are carried out, and before the next evaluation one target moves or is lost.
Pass(t, p) == world' = [world EXCEPT !.open = OpenAfter(world), !.at[t] = p]

Next == \E t \in Targets, p \in Places \cup {NoPlace} : Pass(t, p)

Spec == Init /\ [][Next]_world

-----------------------------------------------------------------------------
\* The world and the decisions are well-formed: the reasons recorded are those of the resolve_reason CHECK, and one
\* evaluation never ends an alert and opens it again (which would notify everybody about a fire they already know).
DecisionsWellFormed ==
    /\ world \in Worlds
    /\ \A k \in world.open : ResolveReason(k, world) \in Reasons \cup {Keep}
    /\ ToOpen(world) \cap world.open = {}

\* proximity.py:4-6, "never miss a hotspot that is inside the radius": a recent satellite hotspot that nobody
\* dismissed and no zone covers, no further from an enabled target than the radius plus half the pixel, has an
\* open alert after the evaluation, whatever was open before it.
NeverMissed ==
    \A h \in Hotspots, t \in Targets :
        ( /\ h \in world.loaded \ (world.dismissed \cup FieldReports)
          /\ world.age[h] < world.settings.maxAge
          /\ \A z \in world.zones : Dist[HotspotPlace[h], ZonePlace[z]] > ZoneRadius[z]
          /\ (t = HQ /\ world.settings.hqOn) \/ (t # HQ /\ world.settings.rescuerOn)
          /\ world.at[t] # NoPlace
          /\ Dist[HotspotPlace[h], world.at[t]]
                <= PixelHalf[h] + (IF t = HQ THEN world.settings.hqRadius ELSE world.settings.rescuerRadius) )
        => <<h, t>> \in OpenAfter(world)

\* _resolve_reason's docstring: missing data never closes an alert.  While the hotspot is live and the alarm type
\* is on, an open alert of a target nobody knows the position of stays open.
SilenceKeepsAlerts ==
    \A k \in world.open :
        ( /\ k[1] \in world.loaded
          /\ IsCandidate(k[1], world)
          /\ k[1] \notin Suppressed(world)
          /\ Enabled(k[2], world.settings)
          /\ world.at[k[2]] = NoPlace )
        => k \in OpenAfter(world)

Settled == [world EXCEPT !.open = OpenAfter(world)]

\* One pass settles: evaluating the same world again opens and ends nothing, so no alert flaps from tick to tick
\* while nothing moves.
OnePassSettles == ToOpen(Settled) = {} /\ ToResolve(Settled) = {}

\* The 1.2 hysteresis: an alert just opened survives any move of its target that stays within 1.2 times the
\* alarm radius, so a rescuer on the boundary does not flap it.
BoundaryDoesNotFlap ==
    [][\A k \in ToOpen(world) :
          (/\ world'.at[k[2]] # NoPlace
           /\ 5 * Distance(k, world') <= 6 * AlarmRadius(k[2], k[1], world.settings))
          => k \in OpenAfter(world')]_world
=============================================================================
