---------------------------- MODULE WalletRecords ----------------------------
(***************************************************************************)
(* What the wallet transaction store (src/pkg/chain/tx/mgr/db.go) keeps,  *)
(* as records rather than bytes: the layout comments of db.go say which   *)
(* fields each bucket's keys and values hold, and each put, append,        *)
(* spend, unspend and delete function says how one record changes.        *)
(* WalletStore.tla keeps the same records as bolt keys and values and is  *)
(* shown to implement this module by reading its buckets back through     *)
(* db.go's own read functions.                                            *)
(***************************************************************************)
EXTENDS Integers, Sequences, Functions

CONSTANTS
    TxH,        \* transaction hashes
    Blocks,     \* BlockMeta values: height, hash and time
    Idx,        \* output and input indices
    Amounts,    \* util.Amount values
    Spenders,   \* indexedIncidence values that spend a credit
    Received,   \* TxRecord.Received times
    SerTx       \* serialized transactions

None == <<>>

\* A Block (height and hash) of a BlockMeta.
BlockOf(b) == [height |-> b.height, hash |-> b.hash]

VARIABLES
    created,          \* openStore succeeds
    balance,          \* the mined balance
    blocks,           \* height -> [hash, time, txs]
    txRecs,           \* <<tx, block>> -> [received, tx]
    credits,          \* <<tx, block, index>> -> credit record
    unspent,          \* <<tx, index>> -> <<tx, block, index>>, the credit key
    debits,           \* <<tx, block, index>> -> [amount, credit]
    unmined,          \* tx -> [received, tx]
    unminedCredits,   \* <<tx, index>> -> [amount, change]
    unminedInputs     \* <<tx, index>> -> the unmined spenders, in order

rvars == <<created, balance, blocks, txRecs, credits, unspent, debits,
           unmined, unminedCredits, unminedInputs>>

Put(f, k, v) == [x \in DOMAIN f \cup {k} |-> IF x = k THEN v ELSE f[x]]
Del(f, k) == Restrict(f, DOMAIN f \ {k})
Empty == [x \in {} |-> 0]

CreateStore ==
    /\ ~created
    /\ created' = TRUE /\ balance' = 0
    /\ UNCHANGED <<blocks, txRecs, credits, unspent, debits, unmined,
                   unminedCredits, unminedInputs>>

\* The records of each kind one operation can leave behind.
BlockPuts ==
    {Put(blocks, b.height, [hash |-> b.hash, time |-> b.time, txs |-> <<tx>>]) :
        b \in Blocks, tx \in TxH}
      \cup {[blocks EXCEPT ![h].txs = Append(@, tx)] : h \in DOMAIN blocks, tx \in TxH}
      \cup {Del(blocks, h) : h \in DOMAIN blocks}

TxRecordPuts ==
    {Put(txRecs, <<tx, BlockOf(b)>>, [received |-> r, tx |-> s]) :
        tx \in TxH, b \in Blocks, r \in Received, s \in SerTx}
      \cup {Del(txRecs, k) : k \in DOMAIN txRecs}

\* A credit is put unspent; spending records its spender, unspending clears it.
CreditPuts ==
    {Put(credits, <<tx, BlockOf(b), i>>,
         [amount |-> a, change |-> c, spent |-> FALSE, spender |-> None]) :
        tx \in TxH, b \in Blocks, i \in Idx, a \in Amounts, c \in BOOLEAN}
      \cup {[credits EXCEPT ![k].spent = TRUE, ![k].spender = <<sp.tx, sp.block, sp.index>>] :
               k \in DOMAIN credits, sp \in Spenders}
      \cup {[credits EXCEPT ![k].spent = FALSE, ![k].spender = None] : k \in DOMAIN credits}
      \cup {Del(credits, k) : k \in DOMAIN credits}

UnspentPuts ==
    {Put(unspent, <<tx, i>>, <<tx, BlockOf(b), i>>) : tx \in TxH, i \in Idx, b \in Blocks}
      \cup {Del(unspent, k) : k \in DOMAIN unspent}

\* A debit names the credit it spends.
DebitPuts ==
    {Put(debits, <<sp.tx, sp.block, sp.index>>, [amount |-> a, credit |-> ck]) :
        sp \in Spenders, a \in Amounts, ck \in DOMAIN credits}
      \cup {Del(debits, k) : k \in DOMAIN debits}

UnminedPuts ==
    {Put(unmined, tx, [received |-> r, tx |-> s]) : tx \in TxH, r \in Received, s \in SerTx}
      \cup {Del(unmined, k) : k \in DOMAIN unmined}

UnminedCreditPuts ==
    {Put(unminedCredits, <<tx, i>>, [amount |-> a, change |-> c]) :
        tx \in TxH, i \in Idx, a \in Amounts, c \in BOOLEAN}
      \cup {Del(unminedCredits, k) : k \in DOMAIN unminedCredits}

\* An unmined spender is appended to those already recorded for the outpoint.
UnminedInputPuts ==
    {Put(unminedInputs, <<tx, i>>,
         (IF <<tx, i>> \in DOMAIN unminedInputs THEN unminedInputs[<<tx, i>>] ELSE <<>>)
            \o <<sp>>) : tx \in TxH, i \in Idx, sp \in TxH}
      \cup {Del(unminedInputs, k) : k \in DOMAIN unminedInputs}

\* All the records of an opened store.
Store == [balance |-> balance, blocks |-> blocks, txRecs |-> txRecs, credits |-> credits,
          unspent |-> unspent, debits |-> debits, unmined |-> unmined,
          unminedCredits |-> unminedCredits, unminedInputs |-> unminedInputs]

\* Every operation changes one kind of record.
RecordOp ==
    /\ UNCHANGED created
    /\ Store' \in {[Store EXCEPT !.balance = a] : a \in Amounts}
                    \cup {[Store EXCEPT !.blocks = x] : x \in BlockPuts}
                    \cup {[Store EXCEPT !.txRecs = x] : x \in TxRecordPuts}
                    \cup {[Store EXCEPT !.credits = x] : x \in CreditPuts}
                    \cup {[Store EXCEPT !.unspent = x] : x \in UnspentPuts}
                    \cup {[Store EXCEPT !.debits = x] : x \in DebitPuts}
                    \cup {[Store EXCEPT !.unmined = x] : x \in UnminedPuts}
                    \cup {[Store EXCEPT !.unminedCredits = x] : x \in UnminedCreditPuts}
                    \cup {[Store EXCEPT !.unminedInputs = x] : x \in UnminedInputPuts}

Next == CreateStore \/ (created /\ RecordOp)

Init ==
    /\ created = FALSE /\ balance = 0
    /\ blocks = Empty /\ txRecs = Empty /\ credits = Empty /\ unspent = Empty
    /\ debits = Empty /\ unmined = Empty /\ unminedCredits = Empty
    /\ unminedInputs = Empty

Spec == Init /\ [][Next]_rvars
=============================================================================
