CONSTANTS
    picky = picky
    Channel = {picky}
    EnablePath = {picky}
    Vendor = {}
    Mode = {0, 1, 2, 5, 99}
    Accepts <- MCAccepts
    Device <- MCDevice
    FirmwareMode = {0, 5}
    Faulty = {picky}
    Caller = {main}
    MaxEntries = 1
    Chips = {k1, k2}
    Configured = {k1}
    Shapes = {s1, s2}
    NoChip = nochip
    Rescan = 3
    Settle = 2
    RebindEvery = 3
    Uevents = TRUE
    MaxChanges = 3
    Keep = 2
    Full = 2
    Big = 3
    MaxRecords = 4
    MaxDays = 2
    MaxCrashes = 1
    MaxLogFaults = 1
    MaxReads = 1
    Fan = {f1, f2}
    Pump = {f1}
    Kinds = {"thinkpad", "legion", "lenovoideapad", "msiec", "pwmsys", "crosec", "amdgpu", "nvml", "nbfc", "ipmi", "corsair"}
    Duties = {0, 255}
    Modes = 3
    Quiet = TRUE
    Period = 40000
    MinSpeed = 200
    MaxSpeed = 20
    PumpMin = 128
    Loops = {l1, l2}
    Polls = {1, 2, 9}
    DefaultPoll = 2
    WatchdogSec = 2
    SlowTick = 5
    MaxSlow = 1
    MaxDrains = 2
    Ladder <- ThreeSteps
    TopDuty = 4
    EnvPolarities = {"normal", "inverted"}
    MaxLives = 3
    MaxHot = 1
    MaxContests = 1
    MaxEnvErrors = 2
    Starters = {daemon, setup}
    MaxValue = 1
    MaxKills = 2
    MaxStoreFaults = 1
    MaxKernel = 2
    MaxBoots = 2
    MaxInstallFaults = 1
    Cooled = cooled
    Others = {other}
    MinDuty = 1
    MaxDuty = 3
    Floor = 2
    Relax = 1
    WeightTop = 2
    Pinned = 1
    StallWindow = 1
    Margins <- CoolsOrWarms
    NoMargin = nomargin
CHECK_DEADLOCK FALSE
SPECIFICATION SafetySpec
INVARIANTS PartsTypeOK NoManualBaseline DeadlinesHold LogIsFaithful ReadBackIsStable EnvelopeIsSound DeathsAreSurvived BlendIsSafe
PROPERTIES RestoreHandsBack NoFalseAlarm ImplementsContract
