\* Two long-polling clients, one block accepted on the main chain, two
\* ticks to a second: time enough for a template, a transaction and a
\* regeneration of the template for the same block.
CONSTANTS
    c1 = c1  c2 = c2
    Client = {c1, c2}
    NumBlocks = 2
    SideBlocks = {}
    SubSec = 2
    RegenSeconds = 1
    MaxTick = 4
    MaxChan = 2
    CanFail = TRUE

SPECIFICATION Spec
INVARIANT TypeOK
 
