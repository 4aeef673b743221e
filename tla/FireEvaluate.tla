---------------------------- MODULE FireEvaluate ----------------------------
(***************************************************************************)
(* The decision of one fire-alarm evaluation (backend/fire/proximity.py).  *)
(* It is pure: a "world" holds everything the evaluation was given (the    *)
(* settings, the hotspots, the known targets, the active zones and the     *)
(* open alerts) and the operators below say which alerts it opens, which   *)
(* it ends and why.                                                        *)
(*                                                                         *)
(* Geography is a finite metric table Dist over Places (haversine_m of the *)
(* code, rounded to whole metres); a zone is identified with the area it   *)
(* covers, so editing a zone's area replaces it by another element of      *)
(* Zones.  Time since acquired_at is a whole number of hours, age.         *)
(***************************************************************************)
EXTENDS Naturals

CONSTANTS
    Hotspots,       \* fire_hotspots rows
    FieldReports,   \* those whose source is 'field_report'
    Devices,        \* rescuers' BEE devices
    HQ,             \* the headquarters target
    Zones,          \* suppression zones (areas)
    Places,         \* positions on the map
    NoPlace,        \* "no position known"
    Dist,           \* Dist[p, q]: metres from p to q
    HotspotPlace,   \* where each hotspot is
    PixelHalf,      \* half the satellite pixel of each hotspot's source
    ZonePlace,      \* the centre of each zone
    ZoneRadius      \* its radius

ASSUME GeographyAssumption ==
    /\ FieldReports \subseteq Hotspots
    /\ HQ \notin Devices
    /\ NoPlace \notin Places
    /\ Dist \in [Places \X Places -> Nat]
    /\ HotspotPlace \in [Hotspots -> Places]
    /\ PixelHalf \in [Hotspots -> Nat]
    /\ ZonePlace \in [Zones -> Places]
    /\ ZoneRadius \in [Zones -> Nat]

Targets == {HQ} \cup Devices
Keys == Hotspots \X Targets     \* what idx_fire_alerts_open_* makes unique among open alerts

Reasons == {"aged_out", "dismissed", "suppressed", "disabled", "out_of_range"}
Keep == "keep"

AlarmSettings ==
    [hqOn: BOOLEAN, rescuerOn: BOOLEAN, hqRadius: Nat, rescuerRadius: Nat, maxAge: Nat]

Worlds ==
    [settings: AlarmSettings,
     loaded: SUBSET Hotspots,                   \* rows load_evaluation_hotspots returned
     age: [Hotspots -> Nat],
     dismissed: SUBSET Hotspots,
     zones: SUBSET Zones,                       \* active ones only
     at: [Targets -> Places \cup {NoPlace}],    \* NoPlace: not among the targets loaded
     open: SUBSET Keys]

-----------------------------------------------------------------------------
\* Mutant of AlarmRadius: the satellite pixel is forgotten.
AlarmRadiusNoPixel(t, h, s) == IF t = HQ THEN s.hqRadius ELSE s.rescuerRadius

AlarmRadius(t, h, s) ==
    (IF t = HQ THEN s.hqRadius ELSE s.rescuerRadius) + PixelHalf[h]

\* suppressing_zone: some active zone covers the hotspot.
Covered(h, zones) ==
    \E z \in zones : Dist[HotspotPlace[h], ZonePlace[z]] <= ZoneRadius[z]

\* The entry of evaluate()'s `suppressed` dict: field reports have none.
SuppressedNow(h, w) == h \notin FieldReports /\ Covered(h, w.zones)

IsCandidate(h, w) ==
    /\ h \notin FieldReports
    /\ h \notin w.dismissed
    /\ w.age[h] < w.settings.maxAge

Enabled(t, s) == IF t = HQ THEN s.hqOn ELSE s.rescuerOn

Distance(k, w) == Dist[HotspotPlace[k[1]], w.at[k[2]]]

Within(k, w) == Distance(k, w) <= AlarmRadius(k[2], k[1], w.settings)

\* Mutant of BeyondExit: leaving range without the hysteresis, 20 % inside the radius instead.
BeyondExitEager(k, w) == 5 * Distance(k, w) > 4 * AlarmRadius(k[2], k[1], w.settings)

\* EXIT_HYSTERESIS = 1.2
BeyondExit(k, w) == 5 * Distance(k, w) > 6 * AlarmRadius(k[2], k[1], w.settings)

\* Mutant of GoneOutOfRange: an unknown position counts as having left.
GoneOutOfRangeSilent(k, w) == w.at[k[2]] = NoPlace \/ BeyondExit(k, w)

\* Only a known position beyond the exit threshold ends an alert for distance.
GoneOutOfRange(k, w) == w.at[k[2]] # NoPlace /\ BeyondExit(k, w)

\* Why an open alert ends, or Keep.  The order of the early returns decides which reason is recorded.
ResolveReason(k, w) ==
    LET h == k[1]
        t == k[2]
    IN  IF h \notin w.loaded THEN "aged_out"
        ELSE IF h \in w.dismissed THEN "dismissed"
        ELSE IF SuppressedNow(h, w) THEN "suppressed"
        ELSE IF ~IsCandidate(h, w) THEN "aged_out"
        ELSE IF ~Enabled(t, w.settings) THEN "disabled"
        ELSE IF GoneOutOfRange(k, w) THEN "out_of_range"
        ELSE Keep

ToResolve(w) == {k \in w.open : ResolveReason(k, w) # Keep}

StillOpen(w) == w.open \ ToResolve(w)

\* Mutant of ToOpen: the suppression zones are not consulted.
ToOpenUnderZone(w) ==
    {k \in (Keys \ StillOpen(w)) :
        /\ k[1] \in w.loaded
        /\ IsCandidate(k[1], w)
        /\ Enabled(k[2], w.settings)
        /\ w.at[k[2]] # NoPlace
        /\ Within(k, w)}

\* The rows evaluate() returns to be inserted.
ToOpen(w) ==
    {k \in (Keys \ StillOpen(w)) :
        /\ k[1] \in w.loaded
        /\ IsCandidate(k[1], w)
        /\ ~SuppressedNow(k[1], w)
        /\ Enabled(k[2], w.settings)
        /\ w.at[k[2]] # NoPlace
        /\ Within(k, w)}

\* The hotspots whose suppressed_by_zone_id evaluate() wants set; the column of the other loaded ones is cleared.
Suppressed(w) == {h \in w.loaded : SuppressedNow(h, w)}

\* The alerts that are open once the decisions are carried out.
OpenAfter(w) == StillOpen(w) \cup ToOpen(w)
=============================================================================
