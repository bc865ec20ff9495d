---------------------------- MODULE GBTWorkState ----------------------------
(***************************************************************************)
(* The getblocktemplate work state of the RPC server and its long-poll     *)
(* notification map (GBTWorkState in src/cmd/kopach/main.go, rpc part).    *)
(*                                                                         *)
(* State.NotifyMap maps a previous-block hash and the Unix second a        *)
(* template was generated in to a channel that is closed when that         *)
(* template goes stale.  Long-poll handlers register channels under the    *)
(* state lock and wait on them unlocked.  Three notifiers close them:      *)
(* UpdateBlockTemplate after generating a template (locked), the           *)
(* goroutine NotifyMempoolTx starts (locked), and the goroutine            *)
(* NotifyBlockConnected starts, which reads LastTxUpdate under the lock    *)
(* but runs NotifyLongPollers after unlocking it.                          *)
(*                                                                         *)
(* Blocks are numbered 1..NumBlocks, 1 being the tip when the server       *)
(* starts; hash 0 stands for a nil *chainhash.Hash.  Time is counted in    *)
(* ticks, SubSec ticks to a second; time 0 is the zero time.Time.  The     *)
(* template's contents are abstracted to the block it builds on.           *)
(***************************************************************************)
EXTENDS Integers, FiniteSets

CONSTANTS
    Client,        \* long-polling RPC clients (model values)
    NumBlocks,     \* blocks the chain accepts, including the initial tip
    SideBlocks,    \* blocks accepted on a side chain (never become the tip)
    SubSec,        \* ticks per second of time.Time
    RegenSeconds,  \* GBTRegenerateSeconds
    MaxTick,       \* bound of the clock
    MaxChan,       \* bound of the channels TemplateUpdateChan makes
    CanFail        \* whether generator.NewBlockTemplate may fail

ASSUME /\ NumBlocks \in Nat \ {0}
       /\ SideBlocks \subseteq 2..NumBlocks
       /\ SubSec \in Nat \ {0} /\ RegenSeconds \in Nat
       /\ MaxTick \in Nat /\ MaxChan \in Nat
       /\ CanFail \in BOOLEAN

Block == 1..NumBlocks
ChanId == 1..MaxChan
NoId == [h |-> 0, g |-> 0]

VARIABLES
    tip,            \* Chain.BestSnapshot().Hash
    nextBlock,      \* the next block the chain will accept
    now,            \* time.Now(), in ticks
    txUpdated,      \* TxMemPool.LastUpdated()
    mempoolNtfns,   \* lastUpdated of NotifyMempoolTx goroutines not yet run
    tmplPrev,       \* State.Template.Block.Header.PrevBlock, 0 if no template
    prevHash,       \* State.prevHash
    lastGenerated,  \* State.LastGenerated
    lastTxUpdate,   \* State.LastTxUpdate
    notifyMap,      \* State.NotifyMap as a set of [h, g, ch] entries
    nextChan,       \* channels made so far
    closeCount,     \* [ChanId -> Nat]: close() calls on each channel
    nbc,            \* [Block -> ...]: the NotifyBlockConnected goroutine of a block
    cpc,            \* [Client -> {"idle", "wait"}]
    cid,            \* [Client -> longpollid]: the ID of the client's last template
    cchan           \* [Client -> channel]: the channel a waiting client selects on

chainVars  == <<tip, nextBlock, now, txUpdated, mempoolNtfns>>
workVars   == <<tmplPrev, prevHash, lastGenerated, lastTxUpdate>>
mapVars    == <<notifyMap, nextChan, closeCount>>
clientVars == <<cpc, cid, cchan>>
vars == <<chainVars, workVars, mapVars, nbc, clientVars>>

-----------------------------------------------------------------------------
(* Helpers.                                                                *)

\* time.Time.Unix(): the whole seconds of a time.
Unix(t) == t \div SubSec

HashesIn(nm) == {e.h : e \in nm}

ChansOf(S) == {e.ch : e \in S}

\* close(c) on every channel of the entries S.
CloseChans(S) ==
    closeCount' = [c \in ChanId |-> IF c \in ChansOf(S) THEN closeCount[c] + 1
                                                      ELSE closeCount[c]]

\* The entries NotifyLongPollers(latestHash, lastGen) closes and deletes:
\* every entry under another hash, and, unless lastGen is the zero time,
\* the entries under latestHash generated in an earlier second.
NotifiedBy(nm, latestHash, lastGen) ==
    {e \in nm : e.h # latestHash}
    \cup {e \in nm : lastGen # 0 /\ e.h = latestHash /\ e.g < Unix(lastGen)}

\* NotifyLongPollers run under the state lock.
NotifyLongPollers(latestHash, lastGen) ==
    LET gone == NotifiedBy(notifyMap, latestHash, lastGen) IN
    /\ CloseChans(gone)
    /\ notifyMap' = notifyMap \ gone

-----------------------------------------------------------------------------
(* UpdateBlockTemplate, called with the state locked.  `ok' is FALSE when  *)
(* generator.NewBlockTemplate fails.  It is written as operators on the    *)
(* pre-state so that a caller can go on using the updated work state in    *)
(* the same locked step.                                                   *)

\* lastTxUpdate: the mempool's LastUpdated, or time.Now() if that is zero.
LastTx == IF txUpdated = 0 THEN now ELSE txUpdated

\* The condition for generating a new template.
Regen ==
    \/ tmplPrev = 0
    \/ prevHash = 0
    \/ prevHash # tip
    \/ lastTxUpdate # LastTx /\ now > lastGenerated + RegenSeconds * SubSec

Outcome == IF CanFail THEN BOOLEAN ELSE {TRUE}

\* Whether UpdateBlockTemplate returns nil.
Succeeds(ok) == ok \/ ~Regen

\* The work state UpdateBlockTemplate leaves: a new template, or prevHash
\* reset to nil by a failed generation, or the old state (the block time
\* and nonce it updates are not modelled).
Updated(ok) ==
    IF Regen /\ ok
    THEN [tmpl |-> tip, prev |-> tip, gen |-> now, tx |-> LastTx]
    ELSE [tmpl |-> tmplPrev, prev |-> IF Regen THEN 0 ELSE prevHash,
          gen |-> lastGenerated, tx |-> lastTxUpdate]

\* The notification after a generation: NotifyLongPollers(latestHash,
\* lastTxUpdate).  Note the second argument is the mempool time, not the
\* new LastGenerated.
Notified(ok) == IF Regen /\ ok THEN NotifiedBy(notifyMap, tip, LastTx) ELSE {}

SetWork(w) ==
    /\ tmplPrev' = w.tmpl
    /\ prevHash' = w.prev
    /\ lastGenerated' = w.gen
    /\ lastTxUpdate' = w.tx

\* EncodeTemplateID(state.prevHash, state.LastGenerated)
TemplateID(w) == [h |-> w.prev, g |-> Unix(w.gen)]

-----------------------------------------------------------------------------
(* RPC handlers.                                                           *)

\* Mutation of GetBlockTemplate that ignores the error of
\* UpdateBlockTemplate and replies with the ID of the state it left.
GetBlockTemplateIgnoreErr(c) ==
    /\ cpc[c] = "idle"
    /\ \E ok \in Outcome :
         LET w == Updated(ok)  gone == Notified(ok) IN
         /\ SetWork(w)
         /\ CloseChans(gone)
         /\ notifyMap' = notifyMap \ gone
         /\ cid' = [cid EXCEPT ![c] = TemplateID(w)]
    /\ UNCHANGED <<chainVars, nextChan, nbc, cpc, cchan>>

\* HandleGetBlockTemplateRequest without a long-poll ID: lock, update the
\* template and reply with it.
GetBlockTemplate(c) ==
    /\ cpc[c] = "idle"
    /\ \E ok \in Outcome :
         LET w == Updated(ok)  gone == Notified(ok) IN
         /\ SetWork(w)
         /\ CloseChans(gone)
         /\ notifyMap' = notifyMap \ gone
         /\ cid' = IF Succeeds(ok) THEN [cid EXCEPT ![c] = TemplateID(w)] ELSE cid
    /\ UNCHANGED <<chainVars, nextChan, nbc, cpc, cchan>>

\* Mutation of TemplateUpdateChan that always makes a new channel and
\* overwrites the entry of the ID (NoOrphanWaiter detects it).
TemplateUpdateChanNoReuse(nm, id) ==
    [ch |-> nextChan + 1,
     map |-> {e \in nm : e.h # id.h \/ e.g # id.g}
             \cup {[h |-> id.h, g |-> id.g, ch |-> nextChan + 1]}]

\* TemplateUpdateChan(prevHash, lastGenerated) on the map nm: the channel
\* registered for the ID, or a new one added to the map.
TemplateUpdateChan(nm, id) ==
    LET found == {e \in nm : e.h = id.h /\ e.g = id.g} IN
    IF found # {}
    THEN [ch |-> (CHOOSE e \in found : TRUE).ch, map |-> nm]
    ELSE [ch |-> nextChan + 1,
          map |-> nm \cup {[h |-> id.h, g |-> id.g, ch |-> nextChan + 1]}]

\* HandleGetBlockTemplateLongPoll up to the wait: lock, update the template;
\* reply at once if the ID names a template that is no longer current,
\* otherwise wait on the channel of TemplateUpdateChan and unlock.
LongPoll(c) ==
    /\ cpc[c] = "idle"
    /\ cid[c] # NoId
    /\ \E ok \in Outcome :
         LET w     == Updated(ok)
             gone  == Notified(ok)
             nm    == notifyMap \ gone
             id    == cid[c]
             stale == id.h # w.tmpl \/ id.g # Unix(w.gen)
             r     == TemplateUpdateChan(nm, id)
         IN
         /\ SetWork(w)
         /\ CloseChans(gone)
         /\ \/ /\ ~Succeeds(ok)
               /\ notifyMap' = nm
               /\ UNCHANGED <<nextChan, clientVars>>
            \/ /\ Succeeds(ok) /\ stale
               /\ notifyMap' = nm
               /\ cid' = [cid EXCEPT ![c] = TemplateID(w)]
               /\ UNCHANGED <<nextChan, cpc, cchan>>
            \/ /\ Succeeds(ok) /\ ~stale
               /\ r.ch <= MaxChan
               /\ notifyMap' = r.map
               /\ nextChan' = IF r.ch > nextChan THEN r.ch ELSE nextChan
               /\ cpc' = [cpc EXCEPT ![c] = "wait"]
               /\ cchan' = [cchan EXCEPT ![c] = r.ch]
               /\ UNCHANGED cid
    /\ UNCHANGED <<chainVars, nbc>>

\* The rest of HandleGetBlockTemplateLongPoll once the channel is closed:
\* lock, update the template and reply with it.
LongPollReturn(c) ==
    /\ cpc[c] = "wait"
    /\ closeCount[cchan[c]] > 0
    /\ \E ok \in Outcome :
         LET w == Updated(ok)  gone == Notified(ok) IN
         /\ SetWork(w)
         /\ CloseChans(gone)
         /\ notifyMap' = notifyMap \ gone
         /\ cid' = IF Succeeds(ok) THEN [cid EXCEPT ![c] = TemplateID(w)] ELSE cid
    /\ cpc' = [cpc EXCEPT ![c] = "idle"]
    /\ UNCHANGED <<chainVars, nextChan, nbc, cchan>>

\* The client goes away while waiting: closeChan wins the select and the
\* handler returns ErrClientQuit; its channel stays registered.
ClientQuit(c) ==
    /\ cpc[c] = "wait"
    /\ cpc' = [cpc EXCEPT ![c] = "idle"]
    /\ UNCHANGED <<chainVars, workVars, mapVars, nbc, cid, cchan>>

-----------------------------------------------------------------------------
(* Chain and mempool notifications.                                        *)

\* The chain accepts the next block (HandleBlockchainNotification with
\* NTBlockAccepted while the chain is current): a main-chain block becomes
\* the tip; either way a NotifyBlockConnected goroutine is started.
BlockAccepted ==
    /\ nextBlock <= NumBlocks
    /\ tip' = IF nextBlock \in SideBlocks THEN tip ELSE nextBlock
    /\ nextBlock' = nextBlock + 1
    /\ nbc' = [nbc EXCEPT ![nextBlock].st = "lock"]
    /\ UNCHANGED <<now, txUpdated, mempoolNtfns, workVars, mapVars, clientVars>>

\* The goroutine of NotifyBlockConnected(b): lock, read LastTxUpdate, unlock.
NBCRead(b) ==
    /\ nbc[b].st = "lock"
    /\ nbc' = [nbc EXCEPT ![b].st = "range", ![b].snap = lastTxUpdate]
    /\ UNCHANGED <<chainVars, workVars, mapVars, clientVars>>

(* Then NotifyLongPollers(b, snap), unlocked.  Its first loop ranges over  *)
(* the NotifyMap, closing the channels of each hash other than b and then  *)
(* deleting the hash; the other goroutines may run between any two of     *)
(* these steps.                                                            *)

NBCClose(b, h) ==
    /\ nbc[b].st = "range"
    /\ nbc[b].pend = 0
    /\ h \in HashesIn(notifyMap) \ (nbc[b].visited \cup {b})
    /\ CloseChans({e \in notifyMap : e.h = h})
    /\ nbc' = [nbc EXCEPT ![b].pend = h, ![b].visited = @ \cup {h}]
    /\ UNCHANGED <<chainVars, workVars, notifyMap, nextChan, clientVars>>

NBCDelete(b) ==
    /\ nbc[b].pend # 0
    /\ notifyMap' = {e \in notifyMap : e.h # nbc[b].pend}
    /\ nbc' = [nbc EXCEPT ![b].pend = 0]
    /\ UNCHANGED <<chainVars, workVars, nextChan, closeCount, clientVars>>

\* The end of the range loop and the rest of NotifyLongPollers: unless
\* snap is zero, close and delete the channels under b of earlier seconds.
NBCLatest(b) ==
    /\ nbc[b].st = "range"
    /\ nbc[b].pend = 0
    /\ HashesIn(notifyMap) \subseteq nbc[b].visited \cup {b}
    /\ LET gone == {e \in notifyMap : nbc[b].snap # 0 /\ e.h = b
                                      /\ e.g < Unix(nbc[b].snap)}
       IN /\ CloseChans(gone)
          /\ notifyMap' = notifyMap \ gone
    /\ nbc' = [nbc EXCEPT ![b].st = "done"]
    /\ UNCHANGED <<chainVars, workVars, nextChan, clientVars>>

\* A transaction enters the mempool (at most one per tick):
\* NotifyNewTransactions starts NotifyMempoolTx(TxMemPool.LastUpdated()).
TxAccepted ==
    /\ txUpdated < now
    /\ txUpdated' = now
    /\ mempoolNtfns' = mempoolNtfns \cup {now}
    /\ UNCHANGED <<tip, nextBlock, now, workVars, mapVars, nbc, clientVars>>

\* The goroutine of NotifyMempoolTx(t), all of it under the lock.
NotifyMempoolTx(t) ==
    /\ t \in mempoolNtfns
    /\ mempoolNtfns' = mempoolNtfns \ {t}
    /\ IF prevHash # 0 /\ lastGenerated # 0
          /\ now > lastGenerated + RegenSeconds * SubSec
       THEN NotifyLongPollers(prevHash, t)
       ELSE UNCHANGED <<notifyMap, closeCount>>
    /\ UNCHANGED <<tip, nextBlock, now, txUpdated, workVars, nextChan, nbc, clientVars>>

Tick ==
    /\ now < MaxTick
    /\ now' = now + 1
    /\ UNCHANGED <<tip, nextBlock, txUpdated, mempoolNtfns, workVars, mapVars,
                   nbc, clientVars>>

-----------------------------------------------------------------------------

Init ==
    /\ tip = 1
    /\ nextBlock = 2
    /\ now = 1
    /\ txUpdated = 0
    /\ mempoolNtfns = {}
    /\ tmplPrev = 0 /\ prevHash = 0 /\ lastGenerated = 0 /\ lastTxUpdate = 0
    /\ notifyMap = {}
    /\ nextChan = 0
    /\ closeCount = [c \in ChanId |-> 0]
    /\ nbc = [b \in Block |-> [st |-> "none", snap |-> 0, visited |-> {}, pend |-> 0]]
    /\ cpc = [c \in Client |-> "idle"]
    /\ cid = [c \in Client |-> NoId]
    /\ cchan = [c \in Client |-> 0]

Next ==
    \/ \E c \in Client :
         GetBlockTemplate(c) \/ LongPoll(c) \/ LongPollReturn(c) \/ ClientQuit(c)
    \/ BlockAccepted
    \/ \E b \in Block :
         \/ NBCRead(b)
         \/ \E h \in Block : NBCClose(b, h)
         \/ NBCDelete(b)
         \/ NBCLatest(b)
    \/ TxAccepted
    \/ \E t \in mempoolNtfns : NotifyMempoolTx(t)
    \/ Tick

\* The server's goroutines run: the notifier goroutines and a long-poll
\* handler whose channel was closed.  Clients, the chain, the mempool and
\* the clock are not required to do anything.
Fairness ==
    /\ \A b \in Block : WF_vars(NBCRead(b)) /\ WF_vars(NBCDelete(b))
                        /\ WF_vars(NBCLatest(b))
                        /\ WF_vars(\E h \in Block : NBCClose(b, h))
    /\ WF_vars(\E t \in mempoolNtfns : NotifyMempoolTx(t))
    /\ \A c \in Client : WF_vars(LongPollReturn(c))

Spec == Init /\ [][Next]_vars /\ Fairness

-----------------------------------------------------------------------------
(* Properties.                                                             *)

TypeOK ==
    /\ tip \in Block /\ nextBlock \in 2..NumBlocks + 1
    /\ now \in 1..MaxTick /\ txUpdated \in 0..MaxTick
    /\ mempoolNtfns \subseteq 1..MaxTick
    /\ tmplPrev \in 0..NumBlocks /\ prevHash \in 0..NumBlocks
    /\ lastGenerated \in 0..MaxTick /\ lastTxUpdate \in 0..MaxTick
    /\ notifyMap \subseteq [h : Block, g : 0..Unix(MaxTick), ch : ChanId]
    /\ nextChan \in 0..MaxChan
    /\ closeCount \in [ChanId -> Nat]
    /\ cpc \in [Client -> {"idle", "wait"}]
    /\ cid \in [Client -> {NoId} \cup [h : Block, g : 0..Unix(MaxTick)]]
    /\ cchan \in [Client -> 0..MaxChan]

\* close() is called at most once on every channel: a second close of a
\* long-poll channel panics the RPC server.  The notifiers of
\* UpdateBlockTemplate, NotifyMempoolTx and NotifyBlockConnected all close
\* what they find in the NotifyMap.
NoDoubleClose == \A c \in ChanId : closeCount[c] <= 1

\* A waiting long-poll handler can still be woken: its channel is closed
\* or is still in the NotifyMap, where a notifier will find it.
NoOrphanWaiter ==
    \A c \in Client :
        cpc[c] = "wait" => closeCount[cchan[c]] > 0 \/ cchan[c] \in ChansOf(notifyMap)

\* NotifyLongPollers: "Notify anything that is waiting for a block template
\* update from a block template generated before the most recently
\* generated block template."  No handler keeps waiting on an older
\* template of the current previous block.
WaitersOnLatestTemplate ==
    \A c \in Client :
        (cpc[c] = "wait" /\ closeCount[cchan[c]] = 0 /\ cid[c].h = prevHash)
            => cid[c].g = Unix(lastGenerated)

=============================================================================
