\* One inbound, one outbound and one persistent connection, two of them from
\* the same host; MaxPeers below the number of connections; a ban that
\* takes two misbehaviours and lasts two ticks.
CONSTANTS
    i1 = i1  o1 = o1  s1 = s1
    hA = hA  hB = hB  gA = gA
    Peer = {i1, o1, s1}
    Host = {hA, hB}
    Group = {gA}
    PeerHost <- MCPeerHost
    PeerKind <- MCPeerKind
    GroupKey <- MCGroupKey
    Whitelisted = {}
    DisableBanning = FALSE
    MaxPeers = 2
    BanThreshold = 2
    BanDuration = 2
    ScoreIncrement = {2}
    MaxTime = 2
SPECIFICATION Spec
INVARIANT TypeOK OutboundGroupsConsistent PeerCountBounded
CHECK_DEADLOCK FALSE
