CONSTANTS
    Clients = {c1, c2}
    Procs = {m1, m2, m3}
    NoProc = NoProc
    NoLimit = NoLimit
    GenerateAtStart = TRUE
    ThreadsAtStart = 1
SPECIFICATION Spec
INVARIANT MiningFollowsGenerate
\* After the interrupt handler the node process exits: a final state.
CHECK_DEADLOCK FALSE
