\* getcfcheckpt served to two peers concurrently while the best chain
\* reorganises: the cache only grows and each slot holds its own height.
SPECIFICATION Spec
CONSTANTS
    p1 = p1
    p2 = p2
    a = a
    b = b
    NoPeer = NoPeer
    NoReply = NoReply
    Peer = {p1, p2}
    Branch = {a, b}
    MaxCk = 4
    MaxReorg = 1
    MaxCFHeadersPerMsg = 2
    MaxGetCFiltersReqRange = 2
SYMMETRY PeerBranchSymmetry
INVARIANT TypeOK  CFHeadersServed CFiltersServed
PROPERTY CacheNeverShrinks
