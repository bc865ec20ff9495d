\* The configuration of MCPeerHandler.cfg, checking that no disconnected
\* peer is left in the registry.
CONSTANTS
    i1 = i1  o1 = o1  s1 = s1
    hA = hA  hB = hB  gA = gA
    Peer = {i1, o1, s1}
    Host = {hA, hB}
    Group = {gA}
    PeerHost <- MCPeerHost
    PeerKind <- MCPeerKind
    GroupKey <- MCGroupKey
    Whitelisted = {}
    DisableBanning = FALSE
    MaxPeers = 2
    BanThreshold = 2
    BanDuration = 2
    ScoreIncrement = {2}
    MaxTime = 2
SPECIFICATION Spec
INVARIANT NoZombiePeer
CHECK_DEADLOCK FALSE
