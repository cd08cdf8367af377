CONSTANTS
    cpu = cpu
    g1 = g1
    g2 = g2
    SweptFan = {cpu}
    Slot = {g1, g2}
    Slots <- TwoSlots
    Kinds = {"start", "sync"}
    Bytes = 10
    Steps = 3
    NoFanSteps = 2
    Mins = {0, 2}
    Floor = 3
    RotorStarts = {6, 10}
    StopsAt = 4
    MaxLost = 1
    Nobody = nobody
CHECK_DEADLOCK FALSE
SPECIFICATION CalSpec
INVARIANT SweepsAreExclusive
