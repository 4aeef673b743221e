CONSTANTS
    p1 = p1
    p2 = p2
    a = a
    b = b
    Procs = {p1, p2}
    Ids = {a, b}
    Responses <- MCResponses
    FeatureLimit = 3
    MaxEdition = 2
    MaxFaults = 2
SPECIFICATION LiveSpec
PROPERTIES
    RefreshesGoOn
    LastGoodCopy
    BackwardsOnlyWhenOvertaken
    NewestEditionArrives
    StatusRecovers
