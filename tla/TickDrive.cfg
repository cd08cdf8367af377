CONSTANTS
    Top = 2
    CheckInterval = 1
    MaxReverts = 1
    MaxPresses = 2
    quiet = quiet
    cool = cool
    Gone = gone
    NoDuty = noduty
    Configs <- ThreeConfigs
    Curves <- TheCurves
    Levels = {0, 2}
    Emergency = 2
    Margin = 1
    Hysteresis = 2
    Debounce = 1
    SentinelMax = 1
    Smart = FALSE
    Polarities = {"normal", "inverted", "phantom"}
    MaxReloads = 2
    MaxSweeps = 1
    Profiles = {1, 2}
    WeekDays = 2
    DayLen = 3
    Windows <- TwoWindows
    MaxClock = 1
    Interventions = 2
SPECIFICATION LiveTicks
INVARIANTS TicksTypeOK ScheduleIsKept
PROPERTIES TimedPanicEnds NoStaleWrite  BlindDriveEnds CriticalHeatWins ScheduleRules
CONSTANT MaxTrouble = 2
