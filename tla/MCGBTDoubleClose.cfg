\* One client, one main-chain block: the unlocked notifier of the block races
\* the woken handler's own notification.
CONSTANTS
    c1 = c1  c2 = c2
    Client = {c1}
    NumBlocks = 2
    SideBlocks = {}
    SubSec = 2
    RegenSeconds = 1
    MaxTick = 3
    MaxChan = 2
    CanFail = FALSE
SPECIFICATION Spec
INVARIANT NoDoubleClose
