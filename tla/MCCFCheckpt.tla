---------------------------- MODULE MCCFCheckpt ----------------------------
(* Model-checking instance of CFCheckpt: peers and branches are model      *)
(* values.                                                                 *)
EXTENDS CFCheckpt, TLC

CONSTANTS p1, p2, a, b

\* Peers and branches are interchangeable; used only by runs without
\* liveness properties.
PeerBranchSymmetry == Permutations({p1, p2}) \cup Permutations({a, b})
=============================================================================
