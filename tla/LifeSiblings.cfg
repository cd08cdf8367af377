CONSTANTS
    cpu = cpu
    aux = aux
    Main = main
    Channel = {cpu, aux}
    EnablePath = {cpu, aux}
    Vendor = {}
    Mode = {0, 1, 2, 99}
    Accepts <- MCAccepts
    Device <- MCDevice
    FirmwareMode = {2}
    Faulty = {}
    Caller = {main, cpu}
    MaxEntries = 2
    Fan = {cpu}
    Control = {cpu}
    ProbeList <- NoProbeList
    Sweepable = {aux}
    Slow = {aux}
SPECIFICATION LiveSpec
INVARIANT OwnBaseline
PROPERTIES NoStrandedSibling ExitEnds ExitHandsBack AbandonedAreNamed
