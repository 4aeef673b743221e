CONSTANTS
    h1 = h1
    h2 = h2
    d1 = d1
    z1 = z1
    HQ = HQ
    NoPlace = NoPlace
    Hotspots <- MCHotspots
    FieldReports = {h2}
    Devices = {d1}
    Zones = {z1}
    Places <- MCPlaces
    Dist <- MCDist
    HotspotPlace <- MCHotspotPlace
    PixelHalf <- MCPixelHalf
    ZonePlace <- MCZonePlace
    ZoneRadius <- MCZoneRadius
    StartWorlds <- MCStartWorlds
SPECIFICATION Spec
INVARIANTS
    NeverMissed
    SilenceKeepsAlerts
    OnePassSettles
PROPERTY BoundaryDoesNotFlap
