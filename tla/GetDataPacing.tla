---------------------------- MODULE GetDataPacing ----------------------------
(***************************************************************************)
(* The send pacing of getdata replies (src/cmd/node/rpc/server.go):        *)
(* NodePeer.OnGetData (1749-1829) runs on the peer's input goroutine and   *)
(* calls PushTxMsg, PushBlockMsg or PushMerkleBlockMsg (1004-1143) for each *)
(* inventory vector.  Each push fetches the data, waits on the channel of  *)
(* the previous third item, and queues its messages on the peer's output   *)
(* queue together with a done channel; the peer's output goroutine sends   *)
(* the queue in order and signals each done channel after the send.  The   *)
(* handler finally waits on doneChan, given to the last message.           *)
(* The same goroutine handles getblocks (OnGetBlocks, 1426-1460), which    *)
(* sets ContinueHash, and the bloom filter messages (OnFilterAdd,          *)
(* OnFilterClear, OnFilterLoad, 1344-1396, through EnforceNodeBloomFlag,   *)
(* 2132-2152), which load and clear the filter a merkle block needs.       *)
(*                                                                         *)
(* Hashes, payloads and encodings are abstracted away: an inventory vector *)
(* is its kind and the outcome of its fetch.  Channels are numbered: 0 is  *)
(* nil, i is the pacing channel made for item i, Done is doneChan; every   *)
(* channel has a buffer of one.  The ban score increase of OnGetData is    *)
(* length*99/MaxInvPerMsg, which is 0 for the request sizes checked here.  *)
(***************************************************************************)
EXTENDS Integers, Sequences, SequencesExt, FiniteSets

CONSTANTS
    Kinds,        \* inventory types the peer may request
    MaxItems,     \* the longest InvList checked
    MaxMatched,   \* the most transactions a filtered block matches
    Blocks,       \* hashes of the blocks the peer may ask for (model values)
    NoHash,       \* sp.ContinueHash = nil (a model value)
    BloomService  \* Server.Services includes SFNodeBloom

ASSUME Kinds \subseteq {"tx", "block", "filtered", "unknown"}
ASSUME MaxItems \in Nat \ {0} /\ MaxMatched \in Nat /\ BloomService \in BOOLEAN

Done == MaxItems + 1
Chan == 0..Done

\* An inventory vector: its kind, whether the mempool or the database has
\* it, how many transactions a filtered block matches and, for a block,
\* its hash, compared with ContinueHash.
Item ==
    [kind : Kinds \ {"filtered", "block"}, found : BOOLEAN, matched : {0}]
    \cup [kind : Kinds \cap {"block"}, found : BOOLEAN, matched : {0}, hash : Blocks]
    \cup [kind : Kinds \cap {"filtered"}, found : {TRUE}, matched : 0..MaxMatched]
    \cup [kind : Kinds \cap {"filtered"}, found : {FALSE}, matched : {0}]

\* The getdata requests checked: every non-empty InvList of up to MaxItems
\* vectors.
Request == SeqOf(Item, MaxItems) \ {<<>>}

\* A queued message: the item it belongs to (0 for notfound) and its done
\* channel.
Msg == [item : 0..MaxItems, dc : Chan]

VARIABLES
    hpc,        \* the input goroutine: idle, item, wait, end or await
    inv,        \* msg.InvList of the getdata being handled
    filterLoaded, \* sp.Filter.IsLoaded()
    cont,       \* sp.ContinueHash, or NoHash
    relayOff,   \* sp.DisableRelayTx
    conn,       \* the connection: open, or closed by Disconnect
    i,          \* the index of the current item
    numAdded,   \* numAdded
    notFound,   \* len(notFound.InvList)
    waitChan,   \* waitChan
    cur,        \* the channel c of the current item
    buf,        \* the number of signals buffered in each channel
    outq        \* the peer's output queue

peerVars == <<filterLoaded, cont, relayOff, conn>>
vars == <<hpc, inv, peerVars, i, numAdded, notFound, waitChan, cur, buf, outq>>

\* The channel c of item k: doneChan for the last item when nothing was
\* missing so far, a fresh pacing channel for every third item, else nil.
ChanOf(k) ==
    IF k = Len(inv) /\ notFound = 0 THEN Done
    ELSE IF k % 3 = 0 THEN k ELSE 0

\* A send on a buffered channel (blocks while the buffer is full), and a
\* receive (blocks while it is empty).  Channel 0 is never sent on.
Signal(b, c) == IF c = 0 THEN b ELSE [b EXCEPT ![c] = @ + 1]
CanSignal(b, c) == IF c = 0 THEN TRUE ELSE b[c] < 1

\* The messages a successful push queues for item k with done channel c.
PushedMsgs(k, c) ==
    CASE inv[k].kind = "tx" -> <<[item |-> k, dc |-> c]>>
      [] inv[k].kind = "block" /\ cont = inv[k].hash ->
            <<[item |-> k, dc |-> 0], [item |-> k, dc |-> c]>>
      [] inv[k].kind = "block" -> <<[item |-> k, dc |-> c]>>
      [] inv[k].matched = 0 -> <<[item |-> k, dc |-> c]>>
      [] OTHER -> <<[item |-> k, dc |-> 0]>> \o
                  [j \in 1..inv[k].matched |->
                     [item |-> k, dc |-> IF j = inv[k].matched THEN c ELSE 0]]

\* The end of one iteration of the range loop.
NextItem ==
    /\ i' = i + 1
    /\ hpc' = IF i = Len(inv) THEN "end" ELSE "item"

\* OnGetData returns: its locals and channels are gone.
Return ==
    /\ hpc' = "idle"
    /\ inv' = <<>>
    /\ i' = 1 /\ numAdded' = 0 /\ notFound' = 0 /\ waitChan' = 0 /\ cur' = 0
    /\ buf' = [c \in 1..Done |-> 0]
    /\ UNCHANGED peerVars

(***************************************************************************)
(* The input goroutine.                                                    *)
(***************************************************************************)

\* A getdata message arrives.  The model takes the next request once the
\* reply to the previous one is sent, which the wait on doneChan ensures
\* except after a merkle block request that was ignored (see README).
GetData ==
    /\ hpc = "idle"
    /\ outq = <<>>
    /\ conn = "open"
    /\ \E req \in Request : inv' = req
    /\ hpc' = "item"
    /\ i' = 1 /\ numAdded' = 0 /\ notFound' = 0 /\ waitChan' = 0 /\ cur' = 0
    /\ buf' = [c \in 1..Done |-> 0]
    /\ UNCHANGED <<outq, peerVars>>

\* The input goroutine reads the next message only while no handler runs
\* and the connection is open; the handlers below leave OnGetData's state
\* alone.
Unchanged == UNCHANGED <<hpc, inv, i, numAdded, notFound, waitChan, cur, buf>>

\* A getblocks message: LocateBlocks finds none, fewer than
\* MaxBlocksPerMsg, or a full message, whose last hash becomes ContinueHash.
\* The inv is queued without a done channel.
OnGetBlocks ==
    /\ hpc = "idle" /\ conn = "open"
    /\ outq = <<>>
    /\ \/ UNCHANGED <<outq, cont>>
       \/ /\ outq' = <<[item |-> 0, dc |-> 0]>>
          /\ UNCHANGED cont
       \/ \E last \in Blocks :
             /\ outq' = <<[item |-> 0, dc |-> 0]>>
             /\ cont' = last
    /\ Unchanged
    /\ UNCHANGED <<filterLoaded, relayOff, conn>>

\* EnforceNodeBloomFlag: without the bloom service the peer is disconnected
\* (and banned when its protocol version knows better).
EnforceNodeBloomFlag == BloomService

\* Disconnect: the input goroutine reads no further message.
Disconnect ==
    /\ conn' = "closed"
    /\ Unchanged
    /\ UNCHANGED <<outq, filterLoaded, cont, relayOff>>

\* filterload: relaying is switched on and the filter is (re)loaded.
OnFilterLoad ==
    /\ hpc = "idle" /\ conn = "open"
    /\ IF EnforceNodeBloomFlag
          THEN /\ relayOff' = FALSE
               /\ filterLoaded' = TRUE
               /\ Unchanged
               /\ UNCHANGED <<outq, cont, conn>>
          ELSE Disconnect

\* filterclear: unload the filter; a peer without one is disconnected.
OnFilterClear ==
    /\ hpc = "idle" /\ conn = "open"
    /\ IF EnforceNodeBloomFlag /\ filterLoaded
          THEN /\ filterLoaded' = FALSE
               /\ Unchanged
               /\ UNCHANGED <<outq, cont, relayOff, conn>>
          ELSE Disconnect

\* filteradd: the data added to the filter is not modelled; a peer without
\* a filter is disconnected.
OnFilterAdd ==
    /\ hpc = "idle" /\ conn = "open"
    /\ ~(EnforceNodeBloomFlag /\ filterLoaded)
    /\ Disconnect

\* The error path of a push and of OnGetData: the push signals c and
\* returns the error; OnGetData adds the item to notFound and, for the last
\* item, takes the signal back from c, then counts the item.
PushFailedNoConsume(c) ==
    /\ CanSignal(buf, c)
    /\ buf' = Signal(buf, c)
    /\ numAdded' = numAdded + 1 /\ waitChan' = c
    /\ notFound' = notFound + 1
    /\ NextItem

PushFailedUncounted(c) ==
    /\ CanSignal(buf, c)
    /\ buf' = IF i = Len(inv) /\ c # 0 THEN buf ELSE Signal(buf, c)
    /\ waitChan' = c
    /\ notFound' = notFound + 1
    /\ NextItem
    /\ UNCHANGED numAdded

PushFailed(c) ==
    /\ CanSignal(buf, c)
    /\ buf' = IF i = Len(inv) /\ c # 0 THEN buf ELSE Signal(buf, c)
    /\ numAdded' = numAdded + 1 /\ waitChan' = c
    /\ notFound' = notFound + 1
    /\ NextItem

\* The switch on the inventory type and the fetch of the push function.
\* An unknown type continues the loop without counting the item.  A merkle
\* block for a peer without a filter just signals c.  A successful fetch
\* goes on to wait and queue.
Fetch ==
    /\ hpc = "item"
    /\ LET it == inv[i]
           c == ChanOf(i)
       IN CASE it.kind = "unknown" ->
                 /\ NextItem
                 /\ UNCHANGED <<numAdded, notFound, waitChan, buf>>
            [] it.kind = "filtered" /\ ~filterLoaded ->
                 /\ CanSignal(buf, c)
                 /\ buf' = Signal(buf, c)
                 /\ numAdded' = numAdded + 1 /\ waitChan' = c
                 /\ NextItem
                 /\ UNCHANGED notFound
            [] ~it.found -> PushFailed(c)
            [] OTHER ->
                 /\ hpc' = "wait"
                 /\ UNCHANGED <<i, numAdded, notFound, waitChan, buf>>
    /\ cur' = ChanOf(i)
    /\ UNCHANGED <<inv, peerVars, outq>>

\* <-waitChan, then queue the messages of the item (clearing ContinueHash
\* after the inv that follows the continue block).
WaitQueue ==
    /\ hpc = "wait"
    /\ IF waitChan = 0 THEN TRUE ELSE buf[waitChan] >= 1
    /\ buf' = IF waitChan = 0 THEN buf ELSE [buf EXCEPT ![waitChan] = @ - 1]
    /\ outq' = outq \o PushedMsgs(i, cur)
    /\ cont' = IF inv[i].kind = "block" /\ cont = inv[i].hash THEN NoHash ELSE cont
    /\ numAdded' = numAdded + 1
    /\ waitChan' = cur
    /\ NextItem
    /\ UNCHANGED <<inv, filterLoaded, relayOff, conn, notFound, cur>>

\* After the loop: queue notfound with doneChan, and wait on doneChan if
\* anything was added.
LoopEnd ==
    /\ hpc = "end"
    /\ outq' = IF notFound > 0 THEN Append(outq, [item |-> 0, dc |-> Done]) ELSE outq
    /\ IF numAdded > 0
          THEN /\ hpc' = "await"
               /\ UNCHANGED <<inv, peerVars, i, numAdded, notFound, waitChan, cur, buf>>
          ELSE Return

AwaitDone ==
    /\ hpc = "await"
    /\ buf[Done] >= 1
    /\ Return
    /\ UNCHANGED outq

(***************************************************************************)
(* The peer's output goroutine: send the head of the queue, then signal    *)
(* its done channel.                                                       *)
(***************************************************************************)
Send ==
    /\ outq # <<>>
    /\ CanSignal(buf, Head(outq).dc)
    /\ buf' = Signal(buf, Head(outq).dc)
    /\ outq' = Tail(outq)
    /\ UNCHANGED <<hpc, inv, peerVars, i, numAdded, notFound, waitChan, cur>>

Init ==
    /\ hpc = "idle"
    /\ inv = <<>>
    /\ filterLoaded = FALSE
    /\ cont = NoHash
    /\ relayOff \in BOOLEAN
    /\ conn = "open"
    /\ i = 1 /\ numAdded = 0 /\ notFound = 0 /\ waitChan = 0 /\ cur = 0
    /\ buf = [c \in 1..Done |-> 0]
    /\ outq = <<>>

\* A closed connection sends what is queued and then nothing happens.
Closed ==
    /\ conn = "closed" /\ outq = <<>>
    /\ UNCHANGED vars

Next == OnGetBlocks \/ OnFilterLoad \/ OnFilterClear \/ OnFilterAdd \/ Closed
    \/ GetData \/ Fetch \/ WaitQueue \/ LoopEnd \/ AwaitDone \/ Send

\* The input and output goroutines of a connected peer keep running; the
\* remote peer is not obliged to send anything.
Fairness ==
    /\ WF_vars(Fetch) /\ WF_vars(WaitQueue) /\ WF_vars(LoopEnd)
    /\ WF_vars(AwaitDone) /\ WF_vars(Send)

Spec == Init /\ [][Next]_vars /\ Fairness

-----------------------------------------------------------------------------
TypeOK ==
    /\ hpc \in {"idle", "item", "wait", "end", "await"}
    /\ inv \in Request \cup {<<>>}
    /\ filterLoaded \in BOOLEAN /\ relayOff \in BOOLEAN
    /\ cont \in Blocks \cup {NoHash} /\ conn \in {"open", "closed"}
    /\ i \in 1..MaxItems+1
    /\ numAdded \in 0..MaxItems /\ notFound \in 0..numAdded
    /\ waitChan \in Chan /\ cur \in Chan
    /\ buf \in [1..Done -> 0..1]
    /\ outq \in Seq(Msg)

\* The pacing bounds the data queued for one getdata ("we wait on this wait
\* channel periodically to prevent queuing far more data than we can send"):
\* the output queue never holds messages of more than three inventory
\* items, however long the InvList is.
PendingBounded ==
    Cardinality({outq[k].item : k \in 1..Len(outq)} \ {0}) <= 3

\* The output goroutine never blocks on a done channel whose buffer is
\* still full: each done channel is signalled at most once before it is
\* received from.
OutputNeverBlocked ==
    outq # <<>> /\ Head(outq).dc # 0 => buf[Head(outq).dc] = 0
=============================================================================
