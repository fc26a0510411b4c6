\* Two failovers; a simulation of two steps, one poll in the loop.
SPECIFICATION FairSpec
CONSTANTS
    MaxFailovers = 2
    Calls = {c1}
    Tasks = {t1}
    LastStep = 1
    MaxPolls = 1
    None = None
INVARIANTS
    TypeOK
    ShownIsReported
    SimulationIsSafe
PROPERTIES
    DestroyLoopEnds
    TerminalEnds
CHECK_DEADLOCK FALSE
