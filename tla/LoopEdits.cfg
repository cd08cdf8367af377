CONSTANTS
    cpu = cpu
    aux = aux
    p1 = p1
    p2 = p2
    Fan = {cpu, aux}
    Path = {p1, p2, p3}
    Home <- MCHome
    Anchored = {cpu, aux}
    Named = {cpu, aux}
    Startup = {cpu}
    Bindings = {{cpu}, {cpu, aux}}
    Handlers = {"hand", "setup", "put", "patch"}
    Fragile = {cpu, web}
    Suppress = TRUE
    Web = web
    Gone = gone
    NoChip = nochip
    MaxEdits = 1
    MaxMoves = 1
    MaxStack = 2
CHECK_DEADLOCK FALSE
SPECIFICATION LiveLoopParts
INVARIANT PathsAreExclusive
  
