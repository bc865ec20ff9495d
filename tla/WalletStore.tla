----------------------------- MODULE WalletStore -----------------------------
(***************************************************************************)
(* The wallet transaction store of src/pkg/chain/tx/mgr/db.go as bytes:   *)
(* the namespace's root keys and its eight nested bolt buckets hold byte   *)
(* sequences built by db.go's key and value functions.  Every put, append, *)
(* spend, unspend and delete function is an action.  Bolt's cursors visit  *)
(* keys in bytes.Compare order; the iterators and latestTxRecord are       *)
(* operators that walk that order the way their loops do.  The records     *)
(* module WalletRecords is implemented by reading every bucket back with   *)
(* db.go's read functions (the Records instance below).                   *)
(***************************************************************************)
EXTENDS Integers, Sequences, SequencesExt, FiniteSets, Functions, Bitwise

CONSTANTS
    TxH, Blocks, Idx, Amounts, Spenders, Received, SerTx,  \* as in WalletRecords
    Now,        \* time.Now().Unix() when createStore runs
    MaxOps      \* bound on the store operations of one behaviour

HashSize == 32          \* chainhash.HashSize
LatestVersion == 1

(***************************************************************************)
(* binary.BigEndian over the two's complement of n: PutUint32/PutUint64    *)
(* of uint32(n) or uint64(n).  Every number of the model is below 2^31 in  *)
(* magnitude, so the bytes above the fourth are 0 or, for n < 0, 255.      *)
(***************************************************************************)
PutUint(n, w) ==
    [k \in 1..w |-> LET e == w - k IN
                    IF e >= 4 THEN (IF n >= 0 THEN 0 ELSE 255)
                    ELSE IF n >= 0 THEN (n \div 256^e) % 256
                    ELSE 255 - (((-n - 1) \div 256^e) % 256)]

\* byteOrder.Uint32 / Uint64 of a byte sequence (its first i bytes).
RECURSIVE BigEndian(_, _)
BigEndian(s, i) == IF i = 0 THEN 0 ELSE BigEndian(s, i - 1) * 256 + s[i]
GetUint(s) == BigEndian(s, Len(s))

\* int32(byteOrder.Uint32(s)) and util.Amount(byteOrder.Uint64(s)).
GetInt(s) == IF s[1] >= 128
             THEN -(GetUint([k \in DOMAIN s |-> 255 - s[k]]) + 1)
             ELSE GetUint(s)

\* The Go slice s[a:b].
Slice(s, a, b) == SubSeq(s, a + 1, b)

\* newV := make([]byte, n); copy(newV, v)
CopyInto(v, n) == [k \in 1..n |-> IF k <= Len(v) THEN v[k] ELSE 0]

\* The storeError(ErrData, ...) a read function returns for a short key or value.
ReadError == [err |-> "ErrData"]

(***************************************************************************)
(* Keys and values (db.go's layout comments give the offsets).            *)
(***************************************************************************)
CanonicalOutPoint(h, i) == h \o PutUint(i, 4)
ReadCanonicalOutPoint(k) ==
    IF Len(k) < 36 THEN ReadError ELSE <<Slice(k, 0, 32), GetUint(Slice(k, 32, 36))>>

KeyBlockRecord(height) == PutUint(height, 4)
ValueBlockRecord(b, tx) == b.hash \o PutUint(b.time, 8) \o PutUint(1, 4) \o tx
\* (n+1 wraps at 2^32 in Go; the model's counts stay far below it.)
AppendRawBlockRecord(v, tx) ==
    IF Len(v) < 44 THEN ReadError
    ELSE LET nv == v \o tx IN
         Slice(nv, 0, 40) \o PutUint(GetUint(Slice(nv, 40, 44)) + 1, 4)
                          \o Slice(nv, 44, Len(nv))
ReadRawBlockRecord(k, v) ==
    IF Len(k) < 4 \/ Len(v) < 44 THEN ReadError
    ELSE LET n == GetUint(Slice(v, 40, 44)) IN
         IF Len(v) < 44 + HashSize * n THEN ReadError
         ELSE [height |-> GetInt(Slice(k, 0, 4)), hash |-> Slice(v, 0, 32),
               time |-> GetInt(Slice(v, 32, 40)),
               txs |-> [j \in 1..n |-> Slice(v, 44 + HashSize * (j - 1), 44 + HashSize * j)]]

KeyTxRecord(h, b) == h \o PutUint(b.height, 4) \o b.hash
\* valueTxRecord: the SerializedTx, or the MsgTx serialized to the same bytes.
ValueTxRecord(r, s) == PutUint(r, 8) \o s
\* readRawTxRecord; MsgTx.Deserialize is kept as the bytes it reads.
ReadRawTxRecord(v) ==
    IF Len(v) < 8 THEN ReadError
    ELSE [received |-> GetInt(Slice(v, 0, 8)), tx |-> Slice(v, 8, Len(v))]
ReadRawTxRecordBlock(k) ==
    IF Len(k) < 68 THEN ReadError
    ELSE [height |-> GetInt(Slice(k, 32, 36)), hash |-> Slice(k, 36, 68)]

KeyCredit(h, i, b) == h \o PutUint(b.height, 4) \o b.hash \o PutUint(i, 4)
ValueUnspentCredit(a, change) == PutUint(a, 8) \o <<IF change THEN 2 ELSE 0>>
ExtractRawCreditTxRecordKey(k) == Slice(k, 0, 68)
ExtractRawCreditIndex(k) == GetUint(Slice(k, 68, 72))
\* spendCredit: flag 0x01 and the spender's debit key in v[9:81].
SpendValue(v, sp) ==
    LET nv == CopyInto(v, 81) IN
    Slice(nv, 0, 8) \o <<nv[9] | 1>> \o sp.tx \o PutUint(sp.block.height, 4)
                    \o sp.block.hash \o PutUint(sp.index, 4)
\* Mutant: newV sized like v, so a spent credit keeps its debit key.
UnspendValueKeepSpender(v) ==
    LET nv == CopyInto(v, Len(v)) IN Slice(nv, 0, 8) \o <<nv[9] - (nv[9] & 1)>> \o Slice(nv, 9, Len(nv))
\* Mutant: the spent flag cleared by a decrement.
UnspendValueDecrement(v) ==
    LET nv == CopyInto(v, 9) IN Slice(nv, 0, 8) \o <<nv[9] - 1>>
\* unspendRawCredit: the first nine bytes, flag 0x01 cleared.
UnspendValue(v) ==
    LET nv == CopyInto(v, 9) IN Slice(nv, 0, 8) \o <<nv[9] - (nv[9] & 1)>>

ValueUnspent(b) == PutUint(b.height, 4) \o b.hash
ReadUnspentBlock(v) ==
    IF Len(v) < 36 THEN ReadError
    ELSE [height |-> GetInt(Slice(v, 0, 4)), hash |-> Slice(v, 4, 36)]

KeyDebit(h, i, b) == h \o PutUint(b.height, 4) \o b.hash \o PutUint(i, 4)
ValueDebit(a, ck) == PutUint(a, 8) \o CopyInto(ck, 72)
ExtractRawDebitCreditKey(v) == Slice(v, 8, 80)

ReadRawUnminedHash(k) == IF Len(k) < 32 THEN ReadError ELSE Slice(k, 0, 32)
ValueUnminedCredit(a, change) == PutUint(a, 8) \o <<IF change THEN 2 ELSE 0>>
FetchRawUnminedCreditIndex(k) ==
    IF Len(k) < 36 THEN ReadError ELSE GetUint(Slice(k, 32, 36))
FetchRawUnminedCreditAmountChange(v) ==
    IF Len(v) < 9 THEN ReadError
    ELSE [amount |-> GetInt(Slice(v, 0, 8)), change |-> (v[9] & 2) # 0]

(***************************************************************************)
(* State: the namespace's root keys and its nested buckets, by name.       *)
(***************************************************************************)
VARIABLES
    root,   \* rootVersion, rootCreateDate, rootMinedBalance -> bytes
    bk,     \* bucket name -> (key -> value)
    ops     \* store operations done so far

vars == <<root, bk, ops>>

BucketNames == {"b", "t", "c", "u", "d", "m", "mc", "mi"}
Empty == [x \in {} |-> <<>>]
Put(f, k, v) == [x \in DOMAIN f \cup {k} |-> IF x = k THEN v ELSE f[x]]

\* NestedReadBucket(name); Get returns nil (<<>>) for a missing key.
Bucket(n) == IF n \in DOMAIN bk THEN bk[n] ELSE Empty
Get(n, k) == IF k \in DOMAIN Bucket(n) THEN Bucket(n)[k] ELSE <<>>
RootGet(k) == IF k \in DOMAIN root THEN root[k] ELSE <<>>

FetchMinedBalance ==
    IF Len(RootGet("bal")) # 8 THEN ReadError ELSE GetInt(RootGet("bal"))

OpenStore ==
    LET v == RootGet("vers") IN
    IF Len(v) # 4 THEN "ErrNoExists"
    ELSE IF GetUint(v) < LatestVersion THEN "ErrNeedsUpgrade"
    ELSE IF GetUint(v) > LatestVersion THEN "ErrUnknownVersion"
    ELSE "ok"

ExistsBlockRecord(height) == Get("b", KeyBlockRecord(height))

ExistsRawUnspent(k) ==
    IF Len(k) < 36 THEN <<>>
    ELSE LET v == Get("u", k) IN
         IF Len(v) < 36 THEN <<>>
         ELSE Slice(k, 0, 32) \o Slice(v, 0, 36) \o Slice(k, 32, 36)

\* The loop panics on a trailing piece shorter than a hash.
FetchUnminedInputSpendTxHashes(k) ==
    LET raw == Get("mi", k) IN
    IF Len(raw) % HashSize # 0 THEN [err |-> "panic: slice bounds out of range"]
    ELSE [j \in 1..(Len(raw) \div HashSize) |-> Slice(raw, HashSize * (j - 1), HashSize * j)]

\* Point reads: a key built from the record's parts, one Get, one decode.
FetchBlockTime(height) ==
    LET v == Get("b", KeyBlockRecord(height)) IN
    IF Len(v) < 44 THEN ReadError ELSE GetInt(Slice(v, 32, 40))

ExistsTxRecord(h, b) == Get("t", KeyTxRecord(h, b))
FetchTxRecord(h, b) == ReadRawTxRecord(ExistsTxRecord(h, b))

\* The unspent value (height and block hash) held in a credit key.
FetchRawCreditUnspentValue(k) == IF Len(k) < 72 THEN ReadError ELSE Slice(k, 32, 68)

FetchRawCreditAmount(v) == IF Len(v) < 9 THEN ReadError ELSE GetInt(Slice(v, 0, 8))
\* Mutant: the spent flag read from the change bit.
FetchRawCreditAmountSpentBit1(v) ==
    IF Len(v) < 9 THEN ReadError
    ELSE [amount |-> GetInt(Slice(v, 0, 8)), spent |-> (v[9] & 2) # 0]
FetchRawCreditAmountSpent(v) ==
    IF Len(v) < 9 THEN ReadError
    ELSE [amount |-> GetInt(Slice(v, 0, 8)), spent |-> (v[9] & 1) # 0]
FetchRawCreditAmountChange(v) ==
    IF Len(v) < 9 THEN ReadError
    ELSE [amount |-> GetInt(Slice(v, 0, 8)), change |-> (v[9] & 2) # 0]

ExistsUnspent(h, i) == ExistsRawUnspent(CanonicalOutPoint(h, i))

ExistsDebit(h, i, b) ==
    LET v == Get("d", KeyDebit(h, i, b)) IN
    IF v = <<>> THEN <<>> ELSE IF Len(v) < 80 THEN ReadError ELSE Slice(v, 8, 80)

ExistsRawUnmined(k) == Get("m", k)
FetchRawUnminedCreditAmount(v) == IF Len(v) < 9 THEN ReadError ELSE GetInt(Slice(v, 0, 8))
ExistsRawUnminedCredit(k) == Get("mc", k)
ExistsRawUnminedInput(k) == Get("mi", k)

(***************************************************************************)
(* Bolt cursors: keys in bytes.Compare order; Seek(s) stops at the first   *)
(* key not below s, Next and Prev step from there.                         *)
(***************************************************************************)
\* bytes.Compare(a, b) < 0, compared from byte i on.
RECURSIVE LexLessFrom(_, _, _)
LexLessFrom(a, b, i) ==
    IF i > Len(a) \/ i > Len(b) THEN Len(a) < Len(b)
    ELSE IF a[i] # b[i] THEN a[i] < b[i]
    ELSE LexLessFrom(a, b, i + 1)
LexLess(a, b) == LexLessFrom(a, b, 1)

SortedKeys(f) == SetToSortSeq(DOMAIN f, LexLess)

Seek(ks, s) ==
    LET at == {i \in 1..Len(ks) : ~LexLess(ks[i], s)} IN
    IF at = {} THEN Len(ks) + 1 ELSE Min(at)

\* Seek(prefix), then Next while bytes.HasPrefix(ck, prefix).
RECURSIVE WalkPrefix(_, _, _)
WalkPrefix(ks, i, p) ==
    IF i > Len(ks) \/ ~IsPrefix(p, ks[i]) THEN <<>>
    ELSE <<ks[i]>> \o WalkPrefix(ks, i + 1, p)

\* Mutant: next() without the bytes.HasPrefix stop.
PrefixKeysNoStop(f, p) == LET ks == SortedKeys(f) IN SubSeq(ks, Seek(ks, p), Len(ks))
PrefixKeys(f, p) == LET ks == SortedKeys(f) IN WalkPrefix(ks, Seek(ks, p), p)

\* An iterator's elements: it stops after the first readElem error.
UpToError(es) ==
    LET bad == {i \in DOMAIN es : es[i] = ReadError} IN
    IF bad = {} THEN es ELSE SubSeq(es, 1, Min(bad))

ReadElems(f, ks, Read(_, _)) == UpToError([j \in DOMAIN ks |-> Read(ks[j], f[ks[j]])])

CreditReadElem(k, v) ==
    IF Len(k) < 72 \/ Len(v) < 9 THEN ReadError
    ELSE [index |-> GetUint(Slice(k, 68, 72)), amount |-> GetInt(Slice(v, 0, 8)),
          spent |-> (v[9] & 1) # 0, change |-> (v[9] & 2) # 0]
\* Mutant: the credit iterator without its bytes.HasPrefix stop.
CreditIteratorNoStop(prefix) ==
    ReadElems(Bucket("c"), PrefixKeysNoStop(Bucket("c"), prefix), CreditReadElem)
CreditIterator(prefix) ==
    ReadElems(Bucket("c"), PrefixKeys(Bucket("c"), prefix), CreditReadElem)

DebitReadElem(k, v) ==
    IF Len(k) < 72 \/ Len(v) < 80 THEN ReadError
    ELSE [index |-> GetUint(Slice(k, 68, 72)), amount |-> GetInt(Slice(v, 0, 8))]
DebitIterator(prefix) ==
    ReadElems(Bucket("d"), PrefixKeys(Bucket("d"), prefix), DebitReadElem)

UnminedCreditReadElem(k, v) ==
    LET i == FetchRawUnminedCreditIndex(k)
        ac == FetchRawUnminedCreditAmountChange(v)
    IN IF Len(k) < 36 \/ ac = ReadError THEN ReadError
       ELSE [index |-> i, amount |-> ac.amount, change |-> ac.change]
UnminedCreditIterator(h) ==
    ReadElems(Bucket("mc"), PrefixKeys(Bucket("mc"), h), UnminedCreditReadElem)

\* makeReadBlockIterator(height) and next(): from Seek to the last key.
ReadBlockIterator(height) ==
    LET ks == SortedKeys(Bucket("b"))
        i0 == Seek(ks, KeyBlockRecord(height))
    IN ReadElems(Bucket("b"), SubSeq(ks, i0, Len(ks)), ReadRawBlockRecord)

\* Mutant: prev() without the corrective Prev after Seek.
ReadReverseBlockIteratorNoFix ==
    LET ks == SortedKeys(Bucket("b"))
        i0 == Seek(ks, PutUint(-1, 4))
        start == IF i0 <= Len(ks) THEN i0 ELSE 0
    IN ReadElems(Bucket("b"), [j \in 1..start |-> ks[start - j + 1]], ReadRawBlockRecord)

\* makeReadReverseBlockIterator and prev(): Seek(0xffffffff), one Prev when
\* the key found lacks the seek prefix (or none was found), then Prev.
ReadReverseBlockIterator ==
    LET ks == SortedKeys(Bucket("b"))
        seek == PutUint(-1, 4)
        i0 == Seek(ks, seek)
        start == IF i0 <= Len(ks) /\ IsPrefix(seek, ks[i0]) THEN i0 ELSE i0 - 1
    IN ReadElems(Bucket("b"), [j \in 1..start |-> ks[start - j + 1]], ReadRawBlockRecord)

\* Mutant: the loop returns the first match.
LatestTxRecordFirst(h) ==
    LET ks == PrefixKeys(Bucket("t"), h) IN IF ks = <<>> THEN <<>> ELSE ks[1]
\* latestTxRecord: the last key of the run with the hash as prefix.
LatestTxRecord(h) ==
    LET ks == PrefixKeys(Bucket("t"), h) IN IF ks = <<>> THEN <<>> ELSE ks[Len(ks)]

(***************************************************************************)
(* Operations.  Each runs in one walletdb update of an opened store        *)
(* (openStore succeeded); ops bounds their number.                         *)
(***************************************************************************)
Step(a) == /\ ops < MaxOps /\ OpenStore = "ok"
           /\ a /\ ops' = ops + 1 /\ UNCHANGED root

\* bucket n's Put(k, v) and Delete(k)
PutIn(n, k, v) == bk' = [bk EXCEPT ![n] = Put(@, k, v)]
DeleteIn(n, k) == bk' = [bk EXCEPT ![n] = Restrict(@, DOMAIN @ \ {k})]

\* createStore: only in an empty namespace; version, date, zero balance and
\* the eight buckets.
CreateStore ==
    /\ DOMAIN root = {} /\ DOMAIN bk = {}
    /\ root' = ("vers" :> PutUint(LatestVersion, 4)) @@ ("date" :> PutUint(Now, 8))
                 @@ ("bal" :> CopyInto(<<>>, 8))
    /\ bk' = [n \in BucketNames |-> Empty]
    /\ UNCHANGED ops

PutMinedBalance(a) ==
    /\ ops < MaxOps /\ OpenStore = "ok"
    /\ root' = [root EXCEPT !["bal"] = PutUint(a, 8)]
    /\ ops' = ops + 1 /\ UNCHANGED bk

PutBlockRecord(b, tx) == Step(PutIn("b", KeyBlockRecord(b.height), ValueBlockRecord(b, tx)))

\* existsBlockRecord, appendRawBlockRecord, putRawBlockRecord
AppendBlockRecord(height, tx) ==
    LET v == ExistsBlockRecord(height) IN
    /\ v # <<>> /\ AppendRawBlockRecord(v, tx) # ReadError
    /\ Step(PutIn("b", KeyBlockRecord(height), AppendRawBlockRecord(v, tx)))

DeleteBlockRecord(height) == Step(DeleteIn("b", KeyBlockRecord(height)))

PutTxRecord(h, b, r, s) == Step(PutIn("t", KeyTxRecord(h, b), ValueTxRecord(r, s)))
DeleteTxRecord(h, b) == Step(DeleteIn("t", KeyTxRecord(h, b)))

PutUnspentCredit(h, b, i, a, c) ==
    Step(PutIn("c", KeyCredit(h, i, b), ValueUnspentCredit(a, c)))
SpendCredit(k, sp) == Step(PutIn("c", k, SpendValue(Get("c", k), sp)))
\* Returns without a write when no credit exists for k.
UnspendRawCredit(k) ==
    /\ Get("c", k) # <<>>
    /\ Step(PutIn("c", k, UnspendValue(Get("c", k))))
DeleteRawCredit(k) == Step(DeleteIn("c", k))

PutUnspent(h, i, b) == Step(PutIn("u", CanonicalOutPoint(h, i), ValueUnspent(b)))
DeleteRawUnspent(k) == Step(DeleteIn("u", k))

PutDebit(h, i, a, b, credKey) ==
    Step(PutIn("d", KeyDebit(h, i, b), ValueDebit(a, credKey)))
DeleteRawDebit(k) == Step(DeleteIn("d", k))

PutRawUnmined(k, v) == Step(PutIn("m", k, v))
DeleteRawUnmined(k) == Step(DeleteIn("m", k))

PutRawUnminedCredit(k, v) == Step(PutIn("mc", k, v))
DeleteRawUnminedCredit(k) == Step(DeleteIn("mc", k))

\* Appends the spender's hash to the ones already stored for k.
PutRawUnminedInput(k, v) == Step(PutIn("mi", k, Get("mi", k) \o v))
DeleteRawUnminedInput(k) == Step(DeleteIn("mi", k))

Init == root = Empty /\ bk = Empty /\ ops = 0

\* The callers' arguments: keys built from the model's hashes, blocks and
\* indices, and raw keys taken from the bucket they delete from.
Next ==
    \/ CreateStore
    \/ \E a \in Amounts : PutMinedBalance(a)
    \/ \E b \in Blocks, tx \in TxH : PutBlockRecord(b, tx) \/ AppendBlockRecord(b.height, tx)
    \/ \E b \in Blocks : DeleteBlockRecord(b.height)
    \/ \E h \in TxH, b \in Blocks :
          \/ \E r \in Received, s \in SerTx : PutTxRecord(h, b, r, s)
          \/ DeleteTxRecord(h, b)
    \/ \E h \in TxH, b \in Blocks, i \in Idx, a \in Amounts, c \in BOOLEAN :
          PutUnspentCredit(h, b, i, a, c)
    \/ \E k \in DOMAIN Bucket("c") :
          \/ \E sp \in Spenders : SpendCredit(k, sp)
          \/ UnspendRawCredit(k)
          \/ DeleteRawCredit(k)
    \/ \E h \in TxH, i \in Idx, b \in Blocks : PutUnspent(h, i, b)
    \/ \E k \in DOMAIN Bucket("u") : DeleteRawUnspent(k)
    \/ \E sp \in Spenders, a \in Amounts, ck \in DOMAIN Bucket("c") :
          PutDebit(sp.tx, sp.index, a, sp.block, ck)
    \/ \E k \in DOMAIN Bucket("d") : DeleteRawDebit(k)
    \/ \E h \in TxH, r \in Received, s \in SerTx : PutRawUnmined(h, ValueTxRecord(r, s))
    \/ \E k \in DOMAIN Bucket("m") : DeleteRawUnmined(k)
    \/ \E h \in TxH, i \in Idx, a \in Amounts, c \in BOOLEAN :
          PutRawUnminedCredit(CanonicalOutPoint(h, i), ValueUnminedCredit(a, c))
    \/ \E k \in DOMAIN Bucket("mc") : DeleteRawUnminedCredit(k)
    \/ \E h \in TxH, i \in Idx, sp \in TxH : PutRawUnminedInput(CanonicalOutPoint(h, i), sp)
    \/ \E k \in DOMAIN Bucket("mi") : DeleteRawUnminedInput(k)

Spec == Init /\ [][Next]_vars

(***************************************************************************)
(* Reading the buckets back.  Each bucket decodes, through db.go's read    *)
(* functions, to the records WalletRecords keeps.                          *)
(***************************************************************************)
Decode(f, KeyOf(_), ValOf(_, _)) ==
    LET kv == {<<KeyOf(e[1]), ValOf(e[1], e[2])>> : e \in {<<k, f[k]>> : k \in DOMAIN f}} IN
    [x \in {p[1] : p \in kv} |-> (CHOOSE p \in kv : p[1] = x)[2]]

\* A credit or debit key (the same 72-byte layout) as <<tx, block, index>>.
CreditKeyOf(k) ==
    IF Len(k) < 72 THEN ReadError
    ELSE <<Slice(k, 0, 32), ReadRawTxRecordBlock(ExtractRawCreditTxRecordKey(k)),
           ExtractRawCreditIndex(k)>>

BlockValue(k, v) ==
    LET r == ReadRawBlockRecord(k, v) IN
    IF r = ReadError THEN r ELSE [hash |-> r.hash, time |-> r.time, txs |-> r.txs]

CreditValue(k, v) ==
    LET e == CreditReadElem(k, v) IN
    IF e = ReadError THEN e
    ELSE [amount |-> e.amount, change |-> e.change, spent |-> e.spent,
          spender |-> IF Len(v) >= 81 THEN CreditKeyOf(Slice(v, 9, 81)) ELSE <<>>]

DebitValue(k, v) ==
    LET e == DebitReadElem(k, v) IN
    IF e = ReadError THEN e
    ELSE [amount |-> e.amount, credit |-> CreditKeyOf(ExtractRawDebitCreditKey(v))]

\* The records each bucket reads back as.
RBlocks == Decode(Bucket("b"), LAMBDA k : GetInt(k), BlockValue)
RTxRecs == Decode(Bucket("t"), LAMBDA k : <<Slice(k, 0, 32), ReadRawTxRecordBlock(k)>>,
                  LAMBDA k, v : ReadRawTxRecord(v))
RCredits == Decode(Bucket("c"), CreditKeyOf, CreditValue)
RUnspent == Decode(Bucket("u"), ReadCanonicalOutPoint,
                   LAMBDA k, v : CreditKeyOf(ExistsRawUnspent(k)))
RDebits == Decode(Bucket("d"), CreditKeyOf, DebitValue)
RUnmined == Decode(Bucket("m"), ReadRawUnminedHash, LAMBDA k, v : ReadRawTxRecord(v))
RUnminedCredits == Decode(Bucket("mc"),
                          LAMBDA k : <<Slice(k, 0, 32), FetchRawUnminedCreditIndex(k)>>,
                          LAMBDA k, v : FetchRawUnminedCreditAmountChange(v))
RUnminedInputs == Decode(Bucket("mi"), ReadCanonicalOutPoint,
                         LAMBDA k, v : FetchUnminedInputSpendTxHashes(k))

Records == INSTANCE WalletRecords WITH
    created <- OpenStore = "ok",
    balance <- IF OpenStore = "ok" THEN FetchMinedBalance ELSE 0,
    blocks <- RBlocks, txRecs <- RTxRecs, credits <- RCredits, unspent <- RUnspent,
    debits <- RDebits, unmined <- RUnmined, unminedCredits <- RUnminedCredits,
    unminedInputs <- RUnminedInputs

(***************************************************************************)
(* Properties                                                              *)
(***************************************************************************)
Byte == 0..255

\* Every root and bucket value and key is a byte string, and the namespace
\* holds either nothing or all eight buckets.
TypeOK ==
    /\ ops \in 0..MaxOps
    /\ DOMAIN root \subseteq {"vers", "date", "bal"}
    /\ \A x \in DOMAIN root : Range(root[x]) \subseteq Byte
    /\ DOMAIN bk \in {{}, BucketNames}
    /\ \A n \in DOMAIN bk : \A k \in DOMAIN bk[n] :
          Range(k) \subseteq Byte /\ Range(bk[n][k]) \subseteq Byte

\* Every sequence of db.go's put, append, spend, unspend and delete calls
\* leaves buckets that read back (readRawBlockRecord, readRawTxRecord,
\* creditIterator.readElem, existsRawUnspent, fetchUnminedInputSpendTxHashes,
\* ...) as the records those calls were meant to write: the byte-level store
\* implements WalletRecords.
StoreRecordsKept == Records!Spec

SortedNats(S) == SetToSortSeq(S, LAMBDA x, y : x < y)
Indexes(es) == [j \in DOMAIN es |-> IF es[j] = ReadError THEN -1 ELSE es[j].index]

\* The credit and debit iterators over a transaction record's key, and the
\* unmined credit iterator over a hash, visit exactly that transaction's
\* credits or debits, once each, in increasing index: the bytes.HasPrefix
\* stop of next() and the big-endian index make bolt's key order the
\* order callers rely on.
PrefixScansInOrder ==
    /\ \A h \in TxH, b \in Blocks :
          LET inc(c) == c[1] = h /\ c[2] = Records!BlockOf(b) IN
          /\ Indexes(CreditIterator(KeyTxRecord(h, b)))
                = SortedNats({c[3] : c \in {c \in DOMAIN RCredits : inc(c)}})
          /\ Indexes(DebitIterator(KeyTxRecord(h, b)))
                = SortedNats({d[3] : d \in {d \in DOMAIN RDebits : inc(d)}})
    /\ \A h \in TxH :
          Indexes(UnminedCreditIterator(h))
             = SortedNats({c[2] : c \in {c \in DOMAIN RUnminedCredits : c[1] = h}})

Heights(es) == [j \in DOMAIN es |-> IF es[j] = ReadError THEN -1 ELSE es[j].height]

\* The forward block iterator from any height visits every block record at
\* or above it in increasing height, and the reverse iterator (Seek to
\* 0xffffffff, one corrective Prev) visits every block record from the
\* newest down.
BlockIteratorsInOrder ==
    LET hs == DOMAIN RBlocks IN
    /\ Heights(ReadReverseBlockIterator) = Reverse(SortedNats(hs))
    /\ \A h \in {0} \cup {b.height : b \in Blocks} \cup {b.height + 1 : b \in Blocks} :
          Heights(ReadBlockIterator(h)) = SortedNats({x \in hs : x >= h})

Decoded(r) == r # ReadError

\* Every record the iterators and cursors decode is also found by the keyed
\* reads callers use (fetchBlockTime, fetchTxRecord, fetchRawCreditAmount*,
\* fetchRawCreditUnspentValue,
\* existsUnspent, existsDebit, existsRawUnmined*, fetchRawUnminedCreditAmount):
\* keys rebuilt from the decoded parts hit the same entry, and the reads'
\* offsets and flag bits decode the same value.
PointReadsAgree ==
    /\ \A x \in DOMAIN RBlocks :
          Decoded(RBlocks[x]) => FetchBlockTime(x) = RBlocks[x].time
    /\ \A k \in DOMAIN RTxRecs :
          Decoded(k[2]) => FetchTxRecord(k[1], k[2]) = RTxRecs[k]
    /\ \A c \in DOMAIN RCredits :
          Decoded(c[2]) /\ Decoded(RCredits[c]) =>
             LET v == Get("c", KeyCredit(c[1], c[3], c[2])) IN
             /\ FetchRawCreditAmount(v) = RCredits[c].amount
             /\ FetchRawCreditAmountSpent(v).spent = RCredits[c].spent
             /\ FetchRawCreditAmountChange(v).change = RCredits[c].change
             /\ ReadUnspentBlock(FetchRawCreditUnspentValue(KeyCredit(c[1], c[3], c[2])))
                  = c[2]
    /\ \A op \in DOMAIN RUnspent :
          Decoded(op) => CreditKeyOf(ExistsUnspent(op[1], op[2])) = RUnspent[op]
    /\ \A d \in DOMAIN RDebits :
          Decoded(d[2]) /\ Decoded(RDebits[d]) =>
             CreditKeyOf(ExistsDebit(d[1], d[3], d[2])) = RDebits[d].credit
    /\ \A h \in DOMAIN RUnmined :
          Decoded(h) => ReadRawTxRecord(ExistsRawUnmined(h)) = RUnmined[h]
    /\ \A c \in DOMAIN RUnminedCredits :
          Decoded(RUnminedCredits[c]) =>
             FetchRawUnminedCreditAmount(ExistsRawUnminedCredit(CanonicalOutPoint(c[1], c[2])))
                = RUnminedCredits[c].amount
    /\ \A op \in DOMAIN RUnminedInputs :
          Decoded(op) => ExistsRawUnminedInput(CanonicalOutPoint(op[1], op[2])) # <<>>

\* latestTxRecord returns the record of the hash from the highest block it
\* is recorded in, and nothing when there is none.
LatestTxRecordNewest ==
    \A h \in TxH :
       LET hs == {k[2].height : k \in {k \in DOMAIN RTxRecs : k[1] = h}} IN
       IF hs = {} THEN LatestTxRecord(h) = <<>>
       ELSE ReadRawTxRecordBlock(LatestTxRecord(h)).height = Max(hs)
====
