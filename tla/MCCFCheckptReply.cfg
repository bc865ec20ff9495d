\* One peer, sequential getcfcheckpt requests, the best chain reorganising
\* between IntervalBlockHashes and FilterHeadersByBlockHashes: does every
\* reply carry the headers of the requested chain?
SPECIFICATION Spec
CONSTANTS
    p1 = p1
    p2 = p2
    a = a
    b = b
    NoPeer = NoPeer
    NoReply = NoReply
    Peer = {p1}
    Branch = {a, b}
    MaxCk = 4
    MaxReorg = 2
    MaxCFHeadersPerMsg = 2
    MaxGetCFiltersReqRange = 2
INVARIANT ReplyCorrect
SYMMETRY PeerBranchSymmetry
