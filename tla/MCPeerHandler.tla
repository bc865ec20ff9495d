--------------------------- MODULE MCPeerHandler ---------------------------
(* PeerHandler instantiated for TLC: an inbound, an outbound and a         *)
(* persistent connection.  The inbound and the persistent peer share a    *)
(* host, so a ban earned by one refuses the other; both hosts fall in one  *)
(* address group, so the group counter sees both outbound kinds.          *)
EXTENDS PeerHandler, TLC

CONSTANTS i1, o1, s1, hA, hB, gA

MCPeerHost == (i1 :> hA) @@ (o1 :> hB) @@ (s1 :> hA)
MCPeerKind == (i1 :> "inbound") @@ (o1 :> "outbound") @@ (s1 :> "persistent")
MCGroupKey == (hA :> gA) @@ (hB :> gA)
=============================================================================
