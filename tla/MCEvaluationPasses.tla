------------------------- MODULE MCEvaluationPasses -------------------------
(***************************************************************************)
(* Every small world, for TLC.  The map is a line with positions on and    *)
(* just beyond each threshold: the radius is 8, the pixel adds 2, so the   *)
(* threshold to open is 10 and the one to leave is 12.                     *)
(***************************************************************************)
EXTENDS EvaluationPasses

CONSTANTS h1, h2, d1, z1

MCHotspots == {h1, h2}
MCPlaces == {0, 8, 10, 12, 13}
MCDist == [pq \in MCPlaces \X MCPlaces |-> IF pq[1] < pq[2] THEN pq[2] - pq[1] ELSE pq[1] - pq[2]]
MCHotspotPlace == [h \in MCHotspots |-> 0]
MCPixelHalf == [h \in MCHotspots |-> IF h = h1 THEN 2 ELSE 0]   \* h2 is a field report
MCZonePlace == [z \in {z1} |-> 8]
MCZoneRadius == [z \in {z1} |-> 8]

MCSettings == [hqOn: BOOLEAN, rescuerOn: BOOLEAN, hqRadius: {8}, rescuerRadius: {8}, maxAge: {1, 2}]

MCStartWorlds ==
    [settings: MCSettings,
     loaded: SUBSET MCHotspots,
     age: {[h \in MCHotspots |-> a] : a \in 0..2},
     dismissed: {{}, {h1}},
     zones: SUBSET {z1},
     at: [{HQ, d1} -> MCPlaces \cup {NoPlace}],
     open: {(o \X {HQ}) \cup (r \X {d1}) : o \in SUBSET MCHotspots, r \in SUBSET {h1}}]
=============================================================================
