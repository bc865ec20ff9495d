\* Two clients and a second block accepted on a side chain.
CONSTANTS
    c1 = c1  c2 = c2
    Client = {c1, c2}
    NumBlocks = 2
    SideBlocks = {2}
    SubSec = 2
    RegenSeconds = 1
    MaxTick = 6
    MaxChan = 2
    CanFail = FALSE
SPECIFICATION Spec
INVARIANT NoOrphanWaiter
