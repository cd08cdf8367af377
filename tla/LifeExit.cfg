CONSTANTS
    cpu = cpu
    aux = aux
    Main = main
    Channel = {cpu}
    EnablePath = {cpu}
    Vendor = {}
    Mode = {0, 1, 2, 99}
    Accepts <- MCAccepts
    Device <- MCDevice
    FirmwareMode = {2}
    Faulty = {}
    Caller = {main, cpu}
    MaxEntries = 3
    Fan = {cpu}
    Control = {cpu}
    ProbeList <- ProbeCpu
    Sweepable = {cpu}
    Slow = {}
SPECIFICATION LiveSpec
INVARIANTS LifeTypeOK EntriesAreOwned
PROPERTY ImplementsAuthority
