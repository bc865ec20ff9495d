------------------------------ MODULE CFCheckpt ------------------------------
(***************************************************************************)
(* The committed-filter checkpoint cache of the node server:               *)
(* NodePeer.OnGetCFCheckpt (src/cmd/node/rpc/server.go 1463-1595) serving  *)
(* getcfcheckpt requests of several peers concurrently from                *)
(* Node.CFCheckptCaches, guarded by CFCheckptCachesMtx (a sync.RWMutex).   *)
(*                                                                         *)
(* A block hash is abstracted to the sequence of branch choices of the     *)
(* checkpoints leading to it: a hash commits to its ancestors, so two      *)
(* hashes at the same checkpoint index are equal iff their chains agree up *)
(* to it.  The filter header of a block is a function of its hash, so a    *)
(* cache entry CFHeaderKV{BlockHash, FilterHeader} is kept as its hash.    *)
(* The zero CFHeaderKV is the empty sequence.                              *)
(*                                                                         *)
(* The same chains serve getcfheaders and getcfilters (OnGetCFHeaders and  *)
(* OnGetCFilters, 1597-1748): there a sequence of length i is a block at   *)
(* height i and the empty sequence is the genesis block.  Their replies    *)
(* are operators of the chain state, checked in every state reached.      *)
(*                                                                         *)
(* Go slices are modelled with their backing arrays: CFCheckptCaches[t] is *)
(* [len, cap, arr], and a peer's checkptCache either aliases that backing  *)
(* array or holds an array of its own, as append decides: in place while   *)
(* the capacity allows, a new array otherwise.  Entries of the live array  *)
(* beyond its length are kept zero: append zeroes them before they become  *)
(* visible, so their contents cannot be observed.                          *)
(***************************************************************************)
EXTENDS Integers, Sequences, SequencesExt, FiniteSets

CONSTANTS
    Peer,       \* peers sending getcfcheckpt (model values)
    Branch,     \* the forks a chain may take at each checkpoint
    MaxCk,      \* the most checkpoints a chain has
    MaxReorg,   \* bound on the chain tip changes
    NoPeer,     \* no peer holds the write lock (a model value)
    NoReply,    \* no checkpoint message was queued (a model value)
    MaxCFHeadersPerMsg,     \* wire.MaxCFHeadersPerMsg
    MaxGetCFiltersReqRange  \* wire.MaxGetCFiltersReqRange

ASSUME MaxCk \in Nat \ {0} /\ MaxReorg \in Nat
ASSUME MaxCFHeadersPerMsg \in Nat \ {0} /\ MaxGetCFiltersReqRange \in Nat \ {0}


Zero == <<>>                         \* the zero CFHeaderKV
Hash == SeqOf(Branch, MaxCk) \ {Zero}
MaxCap == 2 * MaxCk

VARIABLES
    mainTip,     \* the last checkpoint block of the best chain
    valid,       \* blocks that are known valid: connected at some time
    reorgs,      \* number of tip changes so far (bounded by MaxReorg)
    cache,       \* CFCheckptCaches[GCSFilterRegular] as [len, cap, arr]
    readers,     \* peers holding CFCheckptCachesMtx for reading
    writer,      \* the peer holding it for writing, or NoPeer
    pc,          \* where each peer's OnGetCFCheckpt is
    hashes,      \* blockHashes of each peer's request
    local,       \* each peer's checkptCache slice
    upd,         \* each peer's updateCache
    answer       \* the headers of each peer's last reply (as hashes)

chainVars == <<mainTip, valid, reorgs>>
vars == <<mainTip, valid, reorgs, cache, readers, writer, pc, hashes,
          local, upd, answer>>

Entry == Hash \cup {Zero}
ZeroArr == [i \in 1..MaxCap |-> Zero]
NilCache == [len |-> 0, cap |-> 0, arr |-> ZeroArr]
NilLocal == [alias |-> FALSE, len |-> 0, cap |-> 0, arr |-> ZeroArr]

\* Blockchain.IntervalBlockHashes: the checkpoint hashes of the chain that
\* ends in the stop block.
IntervalBlockHashes(stop) == [i \in 1..Len(stop) |-> SubSeq(stop, 1, i)]

\* The CF index holds the filters of the blocks of the best chain: it
\* stores them when a block is connected and deletes them when it is
\* disconnected, so FilterHeadersByBlockHashes returns an empty header for
\* any other block.
Indexed(h) == IsPrefix(h, mainTip)

\* The contents of a peer's slice: the live backing array when it aliases it.
Content(s) == IF s.alias THEN cache.arr ELSE s.arr

\* The slice of the live cache.
CacheSlice == [alias |-> TRUE, len |-> cache.len, cap |-> cache.cap, arr |-> ZeroArr]

\* append(s, make([]CFHeaderKV, n - len(s))...).  Within the capacity the
\* result shares s's backing array; beyond it growslice allocates an array
\* of twice the capacity (or n, if that is more) and copies s into it.
GrownCap(s, n) == IF n > 2 * s.cap THEN n ELSE 2 * s.cap
GrowSlice(s, n) ==
    IF n <= s.cap
    THEN [s EXCEPT !.len = n]
    ELSE [alias |-> FALSE, len |-> n, cap |-> GrownCap(s, n),
          arr |-> [i \in 1..MaxCap |-> IF i <= s.len THEN Content(s)[i] ELSE Zero]]

\* The backward walk for the fork point: the largest k with
\* checkptCache[k-1].BlockHash = blockHashes[k-1], or 0.
ForkIdx(c, bh) ==
    LET matches == {k \in 1..Len(bh) : c[k] = bh[k]}
    IN IF matches = {} THEN 0 ELSE Max(matches)

(***************************************************************************)
(* The handler, in four steps.  The IsCurrent and filter-type early        *)
(* returns change no state and are left out.                               *)
(***************************************************************************)

\* IntervalBlockHashes for a stop hash the peer names.
Request(p) ==
    /\ pc[p] = "idle"
    /\ \E stop \in valid :
          hashes' = [hashes EXCEPT ![p] = IntervalBlockHashes(stop)]
    /\ pc' = [pc EXCEPT ![p] = "rlock"]
    /\ answer' = [answer EXCEPT ![p] = NoReply]
    /\ UNCHANGED <<chainVars, cache, readers, writer, local, upd>>

\* Read the cache without taking the read lock.
RLockReadUnlocked(p) ==
    /\ pc[p] = "rlock"
    /\ local' = [local EXCEPT ![p] = CacheSlice]
    /\ IF Len(hashes[p]) > cache.len
       THEN /\ pc' = [pc EXCEPT ![p] = "lock"]
            /\ UNCHANGED readers
       ELSE /\ readers' = readers \cup {p}
            /\ pc' = [pc EXCEPT ![p] = "serve"]
    /\ UNCHANGED <<chainVars, cache, writer, hashes, upd, answer>>

\* RLock and read the cache; release the read lock at once if it must grow.
RLockRead(p) ==
    /\ pc[p] = "rlock"
    /\ writer = NoPeer
    /\ local' = [local EXCEPT ![p] = CacheSlice]
    /\ IF Len(hashes[p]) > cache.len
       THEN /\ pc' = [pc EXCEPT ![p] = "lock"]
            /\ UNCHANGED readers
       ELSE /\ readers' = readers \cup {p}
            /\ pc' = [pc EXCEPT ![p] = "serve"]
    /\ UNCHANGED <<chainVars, cache, writer, hashes, upd, answer>>

\* Lock; grow the slice read under the read lock, without looking again.
LockGrowNoRecheck(p) ==
    /\ pc[p] = "lock"
    /\ writer = NoPeer /\ readers = {}
    /\ local' = [local EXCEPT ![p] = GrowSlice(local[p], Len(hashes[p]))]
    /\ upd' = [upd EXCEPT ![p] = TRUE]
    /\ writer' = p
    /\ pc' = [pc EXCEPT ![p] = "serve"]
    /\ UNCHANGED <<chainVars, cache, readers, hashes, answer>>

\* Lock, check the length again and grow the cache if it is still short.
LockGrow(p) ==
    /\ pc[p] = "lock"
    /\ writer = NoPeer /\ readers = {}
    /\ LET n == Len(hashes[p]) IN
       IF n > cache.len
       THEN /\ local' = [local EXCEPT ![p] = GrowSlice(CacheSlice, n)]
            /\ upd' = [upd EXCEPT ![p] = TRUE]
       ELSE /\ local' = [local EXCEPT ![p] = CacheSlice]
            /\ upd' = [upd EXCEPT ![p] = FALSE]
    /\ writer' = p
    /\ pc' = [pc EXCEPT ![p] = "serve"]
    /\ UNCHANGED <<chainVars, cache, readers, hashes, answer>>

WriteBack(c, bh, written) ==
    [i \in 1..MaxCap |-> IF i \in written THEN bh[i] ELSE c[i]]

\* Walk back to the fork point, reply with the cached prefix, fetch the
\* filter headers of the rest and write them into the local slice as they
\* come.  An empty header returns at once: nothing is queued and the cache
\* is not stored, but the entries written so far stay in the backing array,
\* which is the live one when append grew the cache in place.  The deferred
\* unlock ends the step.
Serve(p) ==
    /\ pc[p] = "serve"
    /\ LET s == local[p]
           c == Content(s)
           bh == hashes[p]
           f == ForkIdx(c, bh)
           missing == {i \in f+1..Len(bh) : ~Indexed(bh[i])}
           stop == IF missing = {} THEN Len(bh) + 1 ELSE Min(missing)
           written == {i \in f+1..stop-1 : upd[p]}
           nc == WriteBack(c, bh, written)
       IN /\ cache' =
               CASE missing = {} /\ upd[p] ->
                      [len |-> s.len, cap |-> s.cap, arr |-> nc]
                 [] s.alias ->
                      [cache EXCEPT !.arr =
                         [i \in 1..MaxCap |-> IF i <= cache.len THEN nc[i] ELSE Zero]]
                 [] OTHER -> cache
          /\ answer' = [answer EXCEPT ![p] =
                          IF missing = {}
                          THEN SubSeq(c, 1, f) \o SubSeq(bh, f+1, Len(bh))
                          ELSE NoReply]
    /\ IF p \in readers
       THEN readers' = readers \ {p} /\ UNCHANGED writer
       ELSE writer' = NoPeer /\ UNCHANGED readers
    /\ local' = [local EXCEPT ![p] = NilLocal]
    /\ upd' = [upd EXCEPT ![p] = FALSE]
    /\ pc' = [pc EXCEPT ![p] = "idle"]
    /\ UNCHANGED <<chainVars, hashes>>

\* The best chain is MaxCk checkpoints high: its tip is any block at that
\* height.
Tip == {h \in Hash : Len(h) = MaxCk}

\* The best chain changes: blocks are connected (and, in a reorganisation,
\* disconnected) by the blockchain, concurrently with the handlers.
Reorg ==
    /\ reorgs < MaxReorg
    /\ \E h \in Tip \ {mainTip} :
          /\ mainTip' = h
          /\ valid' = valid \cup (Prefixes(h) \ {Zero})
    /\ reorgs' = reorgs + 1
    /\ UNCHANGED <<cache, readers, writer, pc, hashes, local, upd, answer>>

-----------------------------------------------------------------------------
(* getcfheaders and getcfilters for a regular filter while the sync        *)
(* manager is current (the other early returns queue nothing).             *)

\* The blocks a request may name as its stop hash: the genesis block and
\* every block ever connected.
StopHashes == valid \cup {Zero}

\* Blockchain.HeightToHashRange(startHeight, &stopHash, maxResults): the
\* hashes of heights startHeight up to the stop block on the stop block's
\* own chain; an error (no hashes) for a block that is not known valid, a
\* start above it, or more than maxResults hashes.
HeightToHashRange(start, stop, max) ==
    IF stop \notin StopHashes \/ start > Len(stop) \/ Len(stop) - start + 1 > max
    THEN <<>>
    ELSE [i \in 1..Len(stop) - start + 1 |-> SubSeq(stop, 1, start + i - 1)]

\* Mutation of OnGetCFHeaders that widens the range by the predecessor
\* without raising maxResults.
CFHeadersReplyNoWiden(start, stop) ==
    LET widen == start > 0
        hl == HeightToHashRange(IF widen THEN start - 1 ELSE start, stop,
                                MaxCFHeadersPerMsg)
        served == IF widen THEN Tail(hl) ELSE hl
    IN IF \/ hl = <<>>
          \/ widen /\ Len(hl) = 1
          \/ widen /\ ~Indexed(hl[1])
          \/ \E i \in DOMAIN served : ~Indexed(served[i])
       THEN NoReply
       ELSE [prev |-> IF widen THEN {hl[1]} ELSE {}, headers |-> served]

\* OnGetCFHeaders: widen the range by the predecessor when StartHeight > 0;
\* no reply for an empty range or one holding only the predecessor, nor
\* when a filter header or hash is missing (a block off the best chain).
\* A reply is [prev, headers]: prev is {} for the zero PrevFilterHeader.
CFHeadersReply(start, stop) ==
    LET widen == start > 0
        hl == HeightToHashRange(IF widen THEN start - 1 ELSE start, stop,
                                IF widen THEN MaxCFHeadersPerMsg + 1
                                ELSE MaxCFHeadersPerMsg)
        served == IF widen THEN Tail(hl) ELSE hl
    IN IF \/ hl = <<>>
          \/ widen /\ Len(hl) = 1
          \/ widen /\ ~Indexed(hl[1])
          \/ \E i \in DOMAIN served : ~Indexed(served[i])
       THEN NoReply
       ELSE [prev |-> IF widen THEN {hl[1]} ELSE {}, headers |-> served]

\* Mutation of OnGetCFilters that queues the message before checking the
\* filter bytes.
CFiltersReplyEmptyFilter(start, stop) ==
    LET hl == HeightToHashRange(start, stop, MaxGetCFiltersReqRange)
        missing == {i \in DOMAIN hl : ~Indexed(hl[i])}
    IN IF missing = {} THEN hl ELSE SubSeq(hl, 1, Min(missing))

\* OnGetCFilters: one cfilter message per block of the range, queued in
\* order until the first block whose filter is missing.
CFiltersReply(start, stop) ==
    LET hl == HeightToHashRange(start, stop, MaxGetCFiltersReqRange)
        missing == {i \in DOMAIN hl : ~Indexed(hl[i])}
    IN IF missing = {} THEN hl ELSE SubSeq(hl, 1, Min(missing) - 1)

Init ==
    /\ mainTip \in Tip
    /\ valid = Prefixes(mainTip) \ {Zero}
    /\ reorgs = 0
    /\ cache = NilCache
    /\ readers = {}
    /\ writer = NoPeer
    /\ pc = [p \in Peer |-> "idle"]
    /\ hashes = [p \in Peer |-> <<>>]
    /\ local = [p \in Peer |-> NilLocal]
    /\ upd = [p \in Peer |-> FALSE]
    /\ answer = [p \in Peer |-> NoReply]

Next ==
    \/ \E p \in Peer : Request(p) \/ RLockRead(p) \/ LockGrow(p) \/ Serve(p)
    \/ Reorg

Spec == Init /\ [][Next]_vars

-----------------------------------------------------------------------------
TypeOK ==
    /\ mainTip \in Hash /\ valid \subseteq Hash /\ reorgs \in 0..MaxReorg
    /\ cache \in [len : 0..MaxCap, cap : 0..MaxCap, arr : [1..MaxCap -> Entry]]
    /\ cache.len <= cache.cap
    /\ readers \subseteq Peer /\ writer \in Peer \cup {NoPeer}
    /\ writer = NoPeer \/ readers = {}
    /\ pc \in [Peer -> {"idle", "rlock", "lock", "serve"}]
    /\ local \in [Peer -> [alias : BOOLEAN, len : 0..MaxCap, cap : 0..MaxCap,
                           arr : [1..MaxCap -> Entry]]]
    /\ upd \in [Peer -> BOOLEAN]

\* The cache is grown but never shrinks (the double-checked locking of
\* OnGetCFCheckpt re-reads the length under the write lock, so a peer that
\* lost the race to grow it does not store a shorter slice).
CacheNeverShrinks == [][cache'.len >= cache.len]_vars

ChainRange(lo, hi, stop) == [i \in 1..hi - lo + 1 |-> SubSeq(stop, 1, lo + i - 1)]

\* The replies depend on the chain state only, and Reorg does not depend on
\* the handlers: every chain state is reached before any request is made.
\* The properties below check the replies in those states, which covers
\* every chain state.

\* getcfheaders as the protocol states it: a reply exactly when the stop
\* block is known, the start is at most its height, at most
\* MaxCFHeadersPerMsg headers are asked for, and the filters of the start's
\* predecessor and of every requested block are on the best chain; the
\* reply holds the headers of heights start..stop of the stop block's chain
\* and the header before them.  OnGetCFHeaders' widening of the range by
\* one, its off-by-one checks and the reorganisations that remove filters
\* from the index all bear on it.
CFHeadersCorrect ==
    \A start \in 0..MaxCk + 1, stop \in StopHashes :
        LET lo == IF start > 0 THEN start - 1 ELSE 0
            ok == /\ start <= Len(stop)
                  /\ Len(stop) - start + 1 <= MaxCFHeadersPerMsg
                  /\ \A k \in lo..Len(stop) : Indexed(SubSeq(stop, 1, k))
        IN CFHeadersReply(start, stop) =
              IF ok THEN [prev |-> IF start > 0 THEN {SubSeq(stop, 1, start - 1)} ELSE {},
                          headers |-> ChainRange(start, Len(stop), stop)]
              ELSE NoReply

\* getcfilters: the filters sent for a request are those of the first
\* requested blocks in height order, each one a filter the index holds
\* (never an empty one for a block a reorganisation removed), and all of
\* them whenever the range is within MaxGetCFiltersReqRange and on the
\* best chain.
CFiltersCorrect ==
    \A start \in 0..MaxCk + 1, stop \in StopHashes :
        LET want == IF start <= Len(stop) /\ Len(stop) - start + 1 <= MaxGetCFiltersReqRange
                    THEN ChainRange(start, Len(stop), stop) ELSE <<>>
            got == CFiltersReply(start, stop)
        IN /\ IsPrefix(got, want)
           /\ \A i \in DOMAIN got : Indexed(got[i])
           /\ (\A i \in DOMAIN want : Indexed(want[i])) => got = want

\* Before any request, in the states a chain alone reaches.
ChainOnly == cache = NilCache /\ \A p \in Peer : pc[p] = "idle" /\ hashes[p] = <<>>

CFHeadersServed == ChainOnly => CFHeadersCorrect
CFiltersServed == ChainOnly => CFiltersCorrect

\* Every reply carries, for each requested checkpoint, the filter header of
\* the block the peer asked about: the cached prefix served up to the fork
\* point agrees with the chain of the stop hash.
ReplyCorrect ==
    \A p \in Peer : answer[p] # NoReply => answer[p] = hashes[p]
=============================================================================
