---------------------------- MODULE MCWalletStore ----------------------------
(***************************************************************************)
(* Two transaction hashes and two blocks, at heights 1 and 256 so that a   *)
(* height's big-endian bytes carry into the second-lowest byte, and output *)
(* indices 1 and 256 for the same reason.  Hashes differ in their first    *)
(* byte, so keys of different transactions sort apart.                     *)
(***************************************************************************)
EXTENDS WalletStore

HashOf(n) == [i \in 1..HashSize |-> IF i = 1 THEN n ELSE 0]

MCTxH == {HashOf(1), HashOf(2)}
MCBlocks == {[height |-> 1, hash |-> HashOf(9), time |-> 10],
             [height |-> 256, hash |-> HashOf(8), time |-> 20]}
MCIdx == {1, 256}
MCAmounts == {7}
MCSpenders == {[tx |-> HashOf(2), block |-> [height |-> 256, hash |-> HashOf(8)],
                index |-> 1]}
MCReceived == {5}
MCSerTx == {<<1, 0, 0>>}
MCNow == 1600000000
====
