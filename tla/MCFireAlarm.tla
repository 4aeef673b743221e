----------------------------- MODULE MCFireAlarm -----------------------------
(***************************************************************************)
(* Small instances of FireAlarm and the properties checked on them.  One   *)
(* hotspot at place 0 with a two-metre pixel; positions at 0 (inside), 3   *)
(* (beyond the exit threshold of 1.2 * (0 + 2)).                           *)
(***************************************************************************)
EXTENDS FireAlarm

CONSTANTS h1, d1, u1, z1

MCPlaces == {0, 3}
MCDist == [pq \in MCPlaces \X MCPlaces |-> IF pq[1] < pq[2] THEN pq[2] - pq[1] ELSE pq[1] - pq[2]]
MCHotspotPlace == [h \in Hotspots |-> 0]
MCPixelHalf == [h \in Hotspots |-> 2]
MCZonePlace == [z \in Zones |-> 0]
MCZoneRadius == [z \in Zones |-> 1]

AllOn == [hqOn |-> TRUE, rescuerOn |-> TRUE, hqRadius |-> 0, rescuerRadius |-> 0, maxAge |-> 1]
HqOff == [AllOn EXCEPT !.hqOn = FALSE]

RescuersOnly == {HqOff}
TwoSettings == {AllOn, HqOff}
=============================================================================
