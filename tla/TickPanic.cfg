CONSTANTS
    Top = 2
    CheckInterval = 1
    MaxReverts = 1
    MaxPresses = 1
    quiet = quiet
    cool = cool
    Gone = gone
    NoDuty = noduty
    Configs <- AllConfigs
    Curves <- TheCurves
    Levels = {0, 1, 2}
    Emergency = 2
    Margin = 1
    Hysteresis = 2
    Debounce = 1
    SentinelMax = 1
    Smart = FALSE
    Polarities = {"normal"}
    MaxReloads = 0
    MaxSweeps = 0
SPECIFICATION TickSpec
INVARIANT PanicPinsFans
CONSTANT MaxTrouble = 3
