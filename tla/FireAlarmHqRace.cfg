CONSTANTS
    h1 = h1
    d1 = d1
    u1 = u1
    z1 = z1
    HQ = HQ
    NoPlace = NoPlace
    NoUser = NoUser
    FieldReports = {}
    Places <- MCPlaces
    Dist <- MCDist
    HotspotPlace <- MCHotspotPlace
    PixelHalf <- MCPixelHalf
    ZonePlace <- MCZonePlace
    ZoneRadius <- MCZoneRadius
    Hotspots = {h1}
    Oldest = 1
    Devices = {}
    Users = {}
    Zones = {z1}
    SettingsChoices <- TwoSettings
    MaxFaults = 1
SPECIFICATION Spec
INVARIANT ClearedHqOwnsNoAlert
