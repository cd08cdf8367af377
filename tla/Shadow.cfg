CONSTANTS
    Fans = {f1, f2}
    Paired = {f1}
    MaxStarts = 2
    MaxDeaths = 1
    MaxResets = 1
    MaxFaults = 1
    p1 = p1
    p2 = p2
    ProbeFans = {p1, p2}
    Top = 3
    Grid = {0, 2}
    Floor <- OneFloor
    Polarities = {"normal"}
    MaxAborts = 2
    Consecutive = 2
    MaxDrives = 1
    MaxGone = 1
    MaxAges = 1
    MaxFlips = 1
    MaxErrors = 1
    Curves = {ca, cb}
    NoCurve = nocurve
    Factory = factory
    Theirs = theirs
    Anchors = 2
    MaxReloads = 2
    MaxRefusals = 2
    MaxSpawns = 1
CHECK_DEADLOCK FALSE
SPECIFICATION LiveParts
PROPERTY ShadowLeavesFanAlone
