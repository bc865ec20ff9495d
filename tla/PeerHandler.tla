---------------------------- MODULE PeerHandler ----------------------------
(***************************************************************************)
(* The node's peer registry (PeerState) and the single goroutine that owns *)
(* it (Node.PeerHandler), src/cmd/node/rpc/server.go.                      *)
(*                                                                         *)
(* Each peer goroutine talks to the handler only through the buffered      *)
(* channels NewPeers, DonePeers and BanPeers (capacity MaxPeers) and the   *)
(* unbuffered Query channel.  The handler's select takes a message from    *)
(* any ready channel, so messages of one peer on two different channels    *)
(* may be handled in either order.                                         *)
(*                                                                         *)
(* A peer id stands for one connection (the peer package numbers every     *)
(* connection afresh); its host, its direction and whether it is a         *)
(* persistent (addnode) peer are fixed for its lifetime.  Wall-clock time  *)
(* is an integer clock `now' that only matters for ban expiry.             *)
(***************************************************************************)
EXTENDS Integers, Sequences, FiniteSets

CONSTANTS
    Peer,           \* connection ids (model values)
    Host,           \* remote hosts (the part of Addr() the ban map is keyed by)
    Group,          \* address-manager group keys (addrmgr.GroupKey)
    PeerHost,       \* [Peer -> Host]
    PeerKind,       \* [Peer -> {"inbound", "outbound", "persistent"}]
    GroupKey,       \* [Host -> Group]
    Whitelisted,    \* peers whose address is whitelisted (never scored)
    DisableBanning, \* Config.DisableBanning
    MaxPeers,       \* Config.MaxPeers, also the capacity of the peer channels
    BanThreshold,   \* Config.BanThreshold
    BanDuration,    \* Config.BanDuration, in clock ticks
    ScoreIncrement, \* the ban-score increases a message handler may apply
    MaxTime         \* bound of the clock

ASSUME /\ PeerHost \in [Peer -> Host]
       /\ PeerKind \in [Peer -> {"inbound", "outbound", "persistent"}]
       /\ GroupKey \in [Host -> Group]
       /\ Whitelisted \subseteq Peer
       /\ DisableBanning \in BOOLEAN
       /\ MaxPeers \in Nat \ {0}
       /\ BanThreshold \in Nat /\ BanDuration \in Nat \ {0}
       /\ ScoreIncrement \subseteq Nat \ {0}
       /\ MaxTime \in Nat

VARIABLES
    conn,           \* [Peer -> {"none", "open", "closed"}]: the connection
    pc,             \* [Peer -> {"none", "handshake", "active", "rejected"}]
    versionKnown,   \* [Peer -> BOOLEAN]: peer.VersionKnown()
    doneSent,       \* [Peer -> BOOLEAN]: PeerDoneHandler has sent on DonePeers
    banScore,       \* [Peer -> Nat]: NodePeer.BanScore
    newPeers,       \* Node.NewPeers channel contents
    donePeers,      \* Node.DonePeers channel contents
    banPeers,       \* Node.BanPeers channel contents
    inbound,        \* PeerState.InboundPeers (its key set)
    outbound,       \* PeerState.OutboundPeers
    persistent,     \* PeerState.PersistentPeers
    banned,         \* PeerState.Banned: a function from some hosts to ban end
    outboundGroups, \* PeerState.OutboundGroups
    shutdown,       \* Node.Shutdown != 0
    quit,           \* Node.Quit closed
    running,        \* the PeerHandler loop has not exited
    now,            \* the wall clock
    doneHandled     \* history: HandleDonePeerMsg has processed the peer

peerVars  == <<conn, pc, versionKnown, doneSent, banScore>>
chanVars  == <<newPeers, donePeers, banPeers>>
stateVars == <<inbound, outbound, persistent, banned, outboundGroups>>
nodeVars  == <<shutdown, quit, running, now, doneHandled>>
vars == <<peerVars, chanVars, stateVars, nodeVars>>

-----------------------------------------------------------------------------
(* Helpers of PeerState.                                                   *)

GroupOf(p) == GroupKey[PeerHost[p]]

IsOutbound(p) == PeerKind[p] # "inbound"

\* PeerState.Count
Count == Cardinality(inbound) + Cardinality(outbound) + Cardinality(persistent)

AllPeers == inbound \cup outbound \cup persistent

\* sp.Disconnect(): closes the connection if it is open.
Disconnect(S) == conn' = [p \in Peer |-> IF p \in S /\ conn[p] = "open"
                                         THEN "closed" ELSE conn[p]]

\* A buffered channel send that does not block.
CanSend(ch) == Len(ch) < MaxPeers

-----------------------------------------------------------------------------
(* Peer goroutines.                                                        *)

\* InboundPeerConnected / OutboundPeerConnected: the connection manager hands
\* over a new connection and PeerDoneHandler starts waiting on it.
PeerConnected(p) ==
    /\ running
    /\ pc[p] = "none"
    /\ pc' = [pc EXCEPT ![p] = "handshake"]
    /\ conn' = [conn EXCEPT ![p] = "open"]
    /\ UNCHANGED <<versionKnown, doneSent, banScore, chanVars, stateVars, nodeVars>>

\* OnVersion accepting the peer: the version is known and the peer is
\* announced on NewPeers (a blocking send on a buffered channel).
OnVersion(p) ==
    /\ pc[p] = "handshake"
    /\ conn[p] = "open"
    /\ CanSend(newPeers)
    /\ versionKnown' = [versionKnown EXCEPT ![p] = TRUE]
    /\ newPeers' = Append(newPeers, p)
    /\ pc' = [pc EXCEPT ![p] = "active"]
    /\ UNCHANGED <<conn, doneSent, banScore, donePeers, banPeers, stateVars, nodeVars>>

\* OnVersion returning without AddPeer: a protocol version that is too old,
\* an outbound peer without SFNodeNetwork, or a non-segwit outbound peer.
\* The negotiation (or OnVersion itself) then disconnects.
OnVersionRejected(p) ==
    /\ pc[p] = "handshake"
    /\ conn[p] = "open"
    /\ versionKnown' = [versionKnown EXCEPT ![p] = TRUE]
    /\ pc' = [pc EXCEPT ![p] = "rejected"]
    /\ conn' = [conn EXCEPT ![p] = "closed"]
    /\ UNCHANGED <<doneSent, banScore, chanVars, stateVars, nodeVars>>

\* The remote end hangs up, a read or write fails, or a timeout fires.
ConnectionLost(p) ==
    /\ conn[p] = "open"
    /\ conn' = [conn EXCEPT ![p] = "closed"]
    /\ UNCHANGED <<pc, versionKnown, doneSent, banScore, chanVars, stateVars, nodeVars>>

\* PeerDoneHandler: after WaitForDisconnect returns, send on DonePeers.
PeerDoneHandler(p) ==
    /\ conn[p] = "closed"
    /\ ~doneSent[p]
    /\ CanSend(donePeers)
    /\ donePeers' = Append(donePeers, p)
    /\ doneSent' = [doneSent EXCEPT ![p] = TRUE]
    /\ UNCHANGED <<conn, pc, versionKnown, banScore, newPeers, banPeers, stateVars, nodeVars>>

\* NodePeer.AddBanScore called by a message handler of an active peer.
\* Scores are kept without decay.  Crossing the threshold queues the peer on
\* BanPeers and disconnects it.
AddBanScore(p, inc) ==
    /\ pc[p] = "active"
    /\ conn[p] = "open"
    /\ ~DisableBanning
    /\ p \notin Whitelisted
    /\ LET score == banScore[p] + inc IN
       /\ banScore' = [banScore EXCEPT ![p] = score]
       /\ IF score > BanThreshold
          THEN /\ CanSend(banPeers)
               /\ banPeers' = Append(banPeers, p)
               /\ conn' = [conn EXCEPT ![p] = "closed"]
          ELSE UNCHANGED <<banPeers, conn>>
    /\ UNCHANGED <<pc, versionKnown, doneSent, newPeers, donePeers, stateVars, nodeVars>>

-----------------------------------------------------------------------------
(* The PeerHandler goroutine: one action per select case.                  *)

\* Mutation of HandleAddPeerMsg with the peer limit off by one
\* (PeerCountBounded detects it).
HandleAddPeerMsgOffByOne ==
    /\ running
    /\ newPeers # <<>>
    /\ LET p == Head(newPeers)
           h == PeerHost[p]
           isBanned == h \in DOMAIN banned /\ now < banned[h]
           expired  == h \in DOMAIN banned /\ ~(now < banned[h])
           banned1  == IF expired
                       THEN [x \in DOMAIN banned \ {h} |-> banned[x]]
                       ELSE banned
       IN
       /\ newPeers' = Tail(newPeers)
       /\ IF shutdown \/ isBanned
          THEN /\ Disconnect({p})
               /\ UNCHANGED stateVars
          ELSE /\ banned' = banned1
               /\ IF Count > MaxPeers
                  THEN /\ Disconnect({p})
                       /\ UNCHANGED <<inbound, outbound, persistent, outboundGroups>>
                  ELSE /\ inbound' = IF PeerKind[p] = "inbound"
                                     THEN inbound \cup {p} ELSE inbound
                       /\ outbound' = IF PeerKind[p] = "outbound"
                                      THEN outbound \cup {p} ELSE outbound
                       /\ persistent' = IF PeerKind[p] = "persistent"
                                        THEN persistent \cup {p} ELSE persistent
                       /\ outboundGroups' =
                            IF IsOutbound(p)
                            THEN [outboundGroups EXCEPT ![GroupOf(p)] = @ + 1]
                            ELSE outboundGroups
                       /\ UNCHANGED conn
    /\ UNCHANGED <<pc, versionKnown, doneSent, banScore, donePeers, banPeers, nodeVars>>

\* Node.HandleAddPeerMsg
HandleAddPeerMsg ==
    /\ running
    /\ newPeers # <<>>
    /\ LET p == Head(newPeers)
           h == PeerHost[p]
           isBanned == h \in DOMAIN banned /\ now < banned[h]
           expired  == h \in DOMAIN banned /\ ~(now < banned[h])
           banned1  == IF expired
                       THEN [x \in DOMAIN banned \ {h} |-> banned[x]]
                       ELSE banned
       IN
       /\ newPeers' = Tail(newPeers)
       /\ IF shutdown \/ isBanned
          THEN /\ Disconnect({p})
               /\ UNCHANGED stateVars
          ELSE /\ banned' = banned1
               /\ IF Count >= MaxPeers
                  THEN /\ Disconnect({p})
                       /\ UNCHANGED <<inbound, outbound, persistent, outboundGroups>>
                  ELSE /\ inbound' = IF PeerKind[p] = "inbound"
                                     THEN inbound \cup {p} ELSE inbound
                       /\ outbound' = IF PeerKind[p] = "outbound"
                                      THEN outbound \cup {p} ELSE outbound
                       /\ persistent' = IF PeerKind[p] = "persistent"
                                        THEN persistent \cup {p} ELSE persistent
                       /\ outboundGroups' =
                            IF IsOutbound(p)
                            THEN [outboundGroups EXCEPT ![GroupOf(p)] = @ + 1]
                            ELSE outboundGroups
                       /\ UNCHANGED conn
    /\ UNCHANGED <<pc, versionKnown, doneSent, banScore, donePeers, banPeers, nodeVars>>

\* Mutation of HandleDonePeerMsg that drops the `if _, ok := list[sp.ID()]'
\* check and decrements the group of a peer that was already removed.
HandleDonePeerMsgNotListed ==
    /\ running
    /\ donePeers # <<>>
    /\ LET p == Head(donePeers) IN
       /\ donePeers' = Tail(donePeers)
       /\ inbound' = inbound \ {p}
       /\ outbound' = outbound \ {p}
       /\ persistent' = persistent \ {p}
       /\ outboundGroups' =
            IF IsOutbound(p) /\ versionKnown[p]
            THEN [outboundGroups EXCEPT ![GroupOf(p)] = @ - 1]
            ELSE outboundGroups
       /\ doneHandled' = [doneHandled EXCEPT ![p] = TRUE]
    /\ UNCHANGED <<peerVars, newPeers, banPeers, banned, shutdown, quit, running, now>>

\* Node.HandleDonePeerMsg: remove the peer from the map its kind selects;
\* a peer that is not there is left alone.
HandleDonePeerMsg ==
    /\ running
    /\ donePeers # <<>>
    /\ LET p == Head(donePeers)
           inList == p \in AllPeers
       IN
       /\ donePeers' = Tail(donePeers)
       /\ inbound' = inbound \ {p}
       /\ outbound' = outbound \ {p}
       /\ persistent' = persistent \ {p}
       /\ outboundGroups' =
            IF inList /\ IsOutbound(p) /\ versionKnown[p]
            THEN [outboundGroups EXCEPT ![GroupOf(p)] = @ - 1]
            ELSE outboundGroups
       /\ doneHandled' = [doneHandled EXCEPT ![p] = TRUE]
    /\ UNCHANGED <<peerVars, newPeers, banPeers, banned, shutdown, quit, running, now>>

\* Node.HandleBanPeerMsg: (re)start the ban of the peer's host.
HandleBanPeerMsg ==
    /\ running
    /\ banPeers # <<>>
    /\ LET h == PeerHost[Head(banPeers)] IN
       /\ banPeers' = Tail(banPeers)
       /\ banned' = [x \in DOMAIN banned \cup {h} |->
                        IF x = h THEN now + BanDuration ELSE banned[x]]
    /\ UNCHANGED <<peerVars, newPeers, donePeers, inbound, outbound, persistent,
                   outboundGroups, nodeVars>>

\* DisconnectPeer(peerList, cmp, whenFound) on the peers of `list' whose
\* address is host h: removes one of them (map order) and disconnects it;
\* whenFound keeps the outbound group count.
DisconnectOne(list, h, countGroup, q) ==
    /\ q \in list
    /\ PeerHost[q] = h
    /\ Disconnect({q})
    /\ outboundGroups' = IF countGroup
                         THEN [outboundGroups EXCEPT ![GroupOf(q)] = @ - 1]
                         ELSE outboundGroups

\* Mutation of RemoveNodeMsg without the whenFound callback that keeps
\* the group count (OutboundGroupsConsistent detects it).
RemoveNodeMsgNoGroup(h) ==
    /\ running
    /\ \E q \in persistent :
         /\ DisconnectOne(persistent, h, FALSE, q)
         /\ persistent' = persistent \ {q}
    /\ UNCHANGED <<pc, versionKnown, doneSent, banScore, chanVars, inbound, outbound,
                   banned, nodeVars>>

\* HandleQuery, RemoveNodeMsg (node remove / addnode remove by address):
\* remove one matching persistent peer.
RemoveNodeMsg(h) ==
    /\ running
    /\ \E q \in persistent :
         /\ DisconnectOne(persistent, h, TRUE, q)
         /\ persistent' = persistent \ {q}
    /\ UNCHANGED <<pc, versionKnown, doneSent, banScore, chanVars, inbound, outbound,
                   banned, nodeVars>>

\* HandleQuery, DisconnectNodeMsg (node disconnect by address): one matching
\* inbound peer if there is one, otherwise every matching outbound peer.
\* Persistent peers are not looked at.
DisconnectNodeMsg(h) ==
    /\ running
    /\ LET inMatch  == {q \in inbound : PeerHost[q] = h}
           outMatch == {q \in outbound : PeerHost[q] = h}
       IN
       \/ \E q \in inMatch :
            /\ DisconnectOne(inbound, h, FALSE, q)
            /\ inbound' = inbound \ {q}
            /\ UNCHANGED outbound
       \/ /\ inMatch = {}
          /\ outMatch # {}
          /\ Disconnect(outMatch)
          /\ outbound' = outbound \ outMatch
          /\ outboundGroups' = [g \in Group |->
                 outboundGroups[g] - Cardinality({q \in outMatch : GroupOf(q) = g})]
          /\ UNCHANGED inbound
    /\ UNCHANGED <<pc, versionKnown, doneSent, banScore, chanVars, persistent,
                   banned, nodeVars>>

\* The Quit case of PeerHandler: disconnect every known peer, leave the loop,
\* stop the managers and drain the channels once, non-blockingly.  The
\* cleanup loop drains NewPeers and DonePeers but not BanPeers.
PeerHandlerQuit ==
    /\ running
    /\ quit
    /\ Disconnect(AllPeers)
    /\ running' = FALSE
    /\ newPeers' = <<>>
    /\ donePeers' = <<>>
    /\ UNCHANGED <<pc, versionKnown, doneSent, banScore, banPeers, stateVars,
                   shutdown, quit, now, doneHandled>>

-----------------------------------------------------------------------------
(* Node.Stop: set the Shutdown flag, stop the RPC servers and save the fee *)
(* estimator, then close Quit.                                             *)

NodeStop ==
    /\ ~shutdown
    /\ shutdown' = TRUE
    /\ UNCHANGED <<peerVars, chanVars, stateVars, quit, running, now, doneHandled>>

NodeCloseQuit ==
    /\ shutdown
    /\ ~quit
    /\ quit' = TRUE
    /\ UNCHANGED <<peerVars, chanVars, stateVars, shutdown, running, now, doneHandled>>

Tick ==
    /\ now < MaxTime
    /\ now' = now + 1
    /\ UNCHANGED <<peerVars, chanVars, stateVars, shutdown, quit, running, doneHandled>>

-----------------------------------------------------------------------------

Init ==
    /\ conn = [p \in Peer |-> "none"]
    /\ pc = [p \in Peer |-> "none"]
    /\ versionKnown = [p \in Peer |-> FALSE]
    /\ doneSent = [p \in Peer |-> FALSE]
    /\ banScore = [p \in Peer |-> 0]
    /\ newPeers = <<>> /\ donePeers = <<>> /\ banPeers = <<>>
    /\ inbound = {} /\ outbound = {} /\ persistent = {}
    /\ banned = [h \in {} |-> 0]
    /\ outboundGroups = [g \in Group |-> 0]
    /\ shutdown = FALSE /\ quit = FALSE /\ running = TRUE
    /\ now = 0
    /\ doneHandled = [p \in Peer |-> FALSE]

Next ==
    \/ \E p \in Peer :
         \/ PeerConnected(p)
         \/ OnVersion(p)
         \/ OnVersionRejected(p)
         \/ ConnectionLost(p)
         \/ PeerDoneHandler(p)
         \/ \E inc \in ScoreIncrement : AddBanScore(p, inc)
    \/ HandleAddPeerMsg
    \/ HandleDonePeerMsg
    \/ HandleBanPeerMsg
    \/ \E h \in Host : RemoveNodeMsg(h) \/ DisconnectNodeMsg(h)
    \/ PeerHandlerQuit
    \/ NodeStop
    \/ NodeCloseQuit
    \/ Tick

Spec == Init /\ [][Next]_vars

-----------------------------------------------------------------------------
(* Properties.                                                             *)

TypeOK ==
    /\ conn \in [Peer -> {"none", "open", "closed"}]
    /\ pc \in [Peer -> {"none", "handshake", "active", "rejected"}]
    /\ versionKnown \in [Peer -> BOOLEAN]
    /\ doneSent \in [Peer -> BOOLEAN]
    /\ banScore \in [Peer -> Nat]
    /\ \A ch \in {newPeers, donePeers, banPeers} : ch \in Seq(Peer) /\ Len(ch) <= MaxPeers
    /\ AllPeers \subseteq Peer
    /\ DOMAIN banned \subseteq Host /\ \A h \in DOMAIN banned : banned[h] \in Nat
    /\ outboundGroups \in [Group -> Nat]
    /\ {shutdown, quit, running} \subseteq BOOLEAN
    /\ now \in 0..MaxTime
    /\ doneHandled \in [Peer -> BOOLEAN]

\* OutboundGroups counts exactly the outbound and persistent peers of each
\* group that PeerState holds: HandleAddPeerMsg, HandleDonePeerMsg and the
\* RemoveNode/DisconnectNode queries all keep it in step with the maps.
OutboundGroupsConsistent ==
    \A g \in Group :
        outboundGroups[g] = Cardinality({p \in outbound \cup persistent : GroupOf(p) = g})

\* HandleAddPeerMsg never lets PeerState hold more than MaxPeers peers.
PeerCountBounded == Count <= MaxPeers

\* A peer that PeerState holds is either still connected or its DonePeers
\* message has not been handled yet: a disconnected peer is never left in
\* the registry after HandleDonePeerMsg ran for it.
NoZombiePeer ==
    \A p \in AllPeers : conn[p] = "open" \/ ~doneHandled[p]

=============================================================================
