\* Two controllers on the LAN, three worker processes, the watchdog's three
\* seconds: the election never switches controllers directly and a silent
\* controller is dropped.
SPECIFICATION Spec
CONSTANTS
    x = x  y = y
    None = None
    Ctrl = {x, y}
    NumWorkers = 3
    Silence = 3
INVARIANT TypeOK
PROPERTY  SilentControllerDropped
