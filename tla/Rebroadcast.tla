----------------------------- MODULE Rebroadcast -----------------------------
(***************************************************************************)
(* The rebroadcast of transactions sent through the RPC server, and how    *)
(* it ends at shutdown (src/cmd/node/rpc/server.go, src/cmd/kopach/main.go).*)
(*                                                                         *)
(* Goroutines:                                                             *)
(*   rb    Node.RebroadcastHandler: owns pendingInvs; takes Add/Del        *)
(*         messages from the unbuffered ModifyRebroadcastInv, relays every *)
(*         pending inventory when its timer fires, drains at Quit;         *)
(*   ph    the RelayInv and Quit cases of Node.PeerHandler, with its drain;*)
(*   rpc   one HTTP request per transaction: the RPC server's handler     *)
(*         (LimitConnections, IncrementClients, CheckAuth, JSONRPCRead,    *)
(*         the deferred DecrementClients) running HandleSendRawTransaction *)
(*         (mempool, RelayTransactions, AddRebroadcastInventory);          *)
(*   sync  the block notification path calling TransactionConfirmed;      *)
(*   stop  Node.Stop: Shutdown flag, RPC server Stop (its own Shutdown     *)
(*         flag, then the listeners closed), close(Quit).                  *)
(* RelayInv (capacity MaxPeers) is a count of queued messages; the content *)
(* does not matter to PeerHandler's relay.                                 *)
(***************************************************************************)
EXTENDS Naturals, FiniteSets

CONSTANTS
    Txs,        \* transactions submitted through sendrawtransaction
    MaxPeers,   \* capacity of the RelayInv channel (cx.Config.MaxPeers)
    MaxClients  \* Config.RPCMaxClients

VARIABLES
    pending,    \* pendingInvs of RebroadcastHandler
    rb,         \* "loop", "relay", "drain", "done"
    toRelay,    \* inventories the timer's range loop has still to relay
    relayInv,   \* messages queued on RelayInv
    ph,         \* "run", "drain", "done"
    rpc,        \* per transaction: the handler's position
    inPool,     \* accepted into the mempool
    confirmed,  \* included in a connected block
    sync,       \* <<>> (idle), or <<t, at>>: TransactionConfirmed(t) at its
                \* Shutdown check ("check"), past it ("checked"), or
                \* blocked in the send of Del ("send")
    stopPc,     \* "run", "rpc", "close", "quit", "done"
    numClients  \* the RPC server's NumClients

vars == <<pending, rb, toRelay, relayInv, ph, rpc, inPool, confirmed, sync, stopPc,
          numClients>>

None == <<>>

(* atomic.LoadInt32(&n.Shutdown) != 0 *)
Shutdown == stopPc # "run"
(* atomic.LoadInt32(&s.Shutdown) != 0 for the RPC server *)
RPCShutdown == stopPc \in {"close", "quit", "done"}
(* the RPC listeners are closed: no new request is served *)
ListenersClosed == stopPc \in {"quit", "done"}
(* close(n.Quit) has happened *)
Quit == stopPc = "done"

-----------------------------------------------------------------------------
(* RebroadcastHandler, select case ModifyRebroadcastInv: the receive is a  *)
(* rendezvous with one waiting sender (the channel is unbuffered).         *)
RecvAdd(t) ==
    /\ rpc[t] = "sendAdd"
    /\ pending' = pending \cup {t}
    /\ rpc' = [rpc EXCEPT ![t] = "reply"]
    /\ UNCHANGED sync

RecvDel ==
    /\ sync # None
    /\ sync[2] = "send"
    /\ pending' = pending \ {sync[1]}
    /\ sync' = None
    /\ UNCHANGED rpc

RebroadcastRecv ==
    /\ rb = "loop"
    /\ \/ \E t \in Txs : RecvAdd(t)
       \/ RecvDel
    /\ UNCHANGED <<rb, toRelay, relayInv, ph, inPool, confirmed, stopPc, numClients>>

(* select case timer.C: range over pendingInvs, relaying each one. A timer *)
(* that fires with nothing pending only resets itself.                      *)
RebroadcastTimer ==
    /\ rb = "loop"
    /\ pending # {}
    /\ rb' = "relay"
    /\ toRelay' = pending
    /\ UNCHANGED <<pending, relayInv, ph, rpc, inPool, confirmed, sync, stopPc, numClients>>

(* n.RelayInventory(&ivCopy, data): a send on RelayInv, blocking while it  *)
(* is full; after the last one, timer.Reset and back to the select.        *)
RebroadcastRelay ==
    /\ rb = "relay"
    /\ relayInv < MaxPeers
    /\ \E t \in toRelay :
         /\ toRelay' = toRelay \ {t}
         /\ rb' = IF toRelay' = {} THEN "loop" ELSE "relay"
    /\ relayInv' = relayInv + 1
    /\ UNCHANGED <<pending, ph, rpc, inPool, confirmed, sync, stopPc, numClients>>

(* select case <-n.Quit: break out, timer.Stop *)
RebroadcastQuit ==
    /\ rb = "loop"
    /\ Quit
    /\ rb' = "drain"
    /\ UNCHANGED <<pending, toRelay, relayInv, ph, rpc, inPool, confirmed, sync, stopPc, numClients>>

(* cleanup: receive from ModifyRebroadcastInv while a sender is ready,     *)
(* break at the default case, then n.WG.Done().                            *)
SenderWaiting ==
    \/ sync # None /\ sync[2] = "send"
    \/ \E t \in Txs : rpc[t] = "sendAdd"

RebroadcastDrain ==
    /\ rb = "drain"
    /\ IF SenderWaiting
         THEN /\ \/ \E t \in Txs : RecvAdd(t)
                 \/ RecvDel
              /\ UNCHANGED rb
         ELSE /\ rb' = "done"
              /\ UNCHANGED <<pending, rpc, sync>>
    /\ UNCHANGED <<toRelay, relayInv, ph, inPool, confirmed, stopPc, numClients>>

-----------------------------------------------------------------------------
(* PeerHandler, select case RelayInv: HandleRelayInvMsg queues the         *)
(* inventory to the peers.                                                 *)
HandleRelayInvMsg ==
    /\ ph = "run"
    /\ relayInv > 0
    /\ relayInv' = relayInv - 1
    /\ UNCHANGED <<pending, rb, toRelay, ph, rpc, inPool, confirmed, sync, stopPc, numClients>>

(* select case <-n.Quit: disconnect the peers, stop the managers. *)
PeerHandlerQuit ==
    /\ ph = "run"
    /\ Quit
    /\ ph' = "drain"
    /\ UNCHANGED <<pending, rb, toRelay, relayInv, rpc, inPool, confirmed, sync, stopPc, numClients>>

(* cleanup: empty RelayInv (and the other channels), then n.WG.Done(). *)
PeerHandlerDrain ==
    /\ ph = "drain"
    /\ IF relayInv > 0
         THEN relayInv' = relayInv - 1 /\ UNCHANGED ph
         ELSE ph' = "done" /\ UNCHANGED relayInv
    /\ UNCHANGED <<pending, rb, toRelay, rpc, inPool, confirmed, sync, stopPc, numClients>>

-----------------------------------------------------------------------------
(* The RPC server's "/" handler takes a sendrawtransaction request while  *)
(* a listener is open.                                                     *)
Request(t) ==
    /\ rpc[t] = "idle"
    /\ ~ListenersClosed
    /\ rpc' = [rpc EXCEPT ![t] = "limit"]
    /\ UNCHANGED <<pending, rb, toRelay, relayInv, ph, inPool, confirmed, sync, stopPc,
                   numClients>>

(* LimitConnections loads NumClients and answers 503 when one more client  *)
(* would exceed RPCMaxClients; the handler increments NumClients in a step *)
(* of its own.                                                             *)
LimitConnections(t) ==
    /\ rpc[t] = "limit"
    /\ rpc' = [rpc EXCEPT ![t] = IF numClients + 1 > MaxClients THEN "closed" ELSE "inc"]
    /\ UNCHANGED <<pending, rb, toRelay, relayInv, ph, inPool, confirmed, sync, stopPc,
                   numClients>>

(* IncrementClients, and DecrementClients deferred to the handler's return *)
IncrementClients(t) ==
    /\ rpc[t] = "inc"
    /\ numClients' = numClients + 1
    /\ rpc' = [rpc EXCEPT ![t] = "auth"]
    /\ UNCHANGED <<pending, rb, toRelay, relayInv, ph, inPool, confirmed, sync, stopPc>>

(* CheckAuth(r, true): a missing or wrong Authorization header fails      *)
(* (JSONAuthFail); the admin and the limited user may both send raw       *)
(* transactions (RPCLimited).                                              *)
CheckAuth(t) ==
    /\ rpc[t] = "auth"
    /\ \E ok \in BOOLEAN : rpc' = [rpc EXCEPT ![t] = IF ok THEN "read" ELSE "reply"]
    /\ UNCHANGED <<pending, rb, toRelay, relayInv, ph, inPool, confirmed, sync, stopPc,
                   numClients>>

(* JSONRPCRead: nothing once the RPC server is shutting down; otherwise a  *)
(* body, hijack or parse failure, a notification (no id) or an unknown     *)
(* command ends the request, and StandardCmdResult runs                   *)
(* HandleSendRawTransaction.                                               *)
JSONRPCRead(t) ==
    /\ rpc[t] = "read"
    /\ IF RPCShutdown
          THEN rpc' = [rpc EXCEPT ![t] = "reply"]
          ELSE \E r \in {"reply", "process"} : rpc' = [rpc EXCEPT ![t] = r]
    /\ UNCHANGED <<pending, rb, toRelay, relayInv, ph, inPool, confirmed, sync, stopPc,
                   numClients>>

DecrementClients(t) ==
    /\ rpc[t] = "reply"
    /\ numClients' = numClients - 1
    /\ rpc' = [rpc EXCEPT ![t] = "closed"]
    /\ UNCHANGED <<pending, rb, toRelay, relayInv, ph, inPool, confirmed, sync, stopPc>>

(* TxMemPool.ProcessTransaction: accepted, or rejected with an RPC error   *)
(* (a transaction already in a block is rejected).                         *)
ProcessTransaction(t) ==
    /\ rpc[t] = "process"
    /\ \/ /\ ~confirmed[t]
          /\ inPool' = [inPool EXCEPT ![t] = TRUE]
          /\ rpc' = [rpc EXCEPT ![t] = "relay"]
       \/ /\ rpc' = [rpc EXCEPT ![t] = "reply"]
          /\ UNCHANGED inPool
    /\ UNCHANGED <<pending, rb, toRelay, relayInv, ph, confirmed, sync, stopPc, numClients>>

(* ConnMgr.RelayTransactions: RelayInventory sends on RelayInv, blocking   *)
(* while it is full; NotifyNewTransactions only wakes long pollers.        *)
RelayTransactions(t) ==
    /\ rpc[t] = "relay"
    /\ relayInv < MaxPeers
    /\ relayInv' = relayInv + 1
    /\ rpc' = [rpc EXCEPT ![t] = "add"]
    /\ UNCHANGED <<pending, rb, toRelay, ph, inPool, confirmed, sync, stopPc, numClients>>

(* AddRebroadcastInventory: ignored once shutting down, otherwise a send   *)
(* of BroadcastInventoryAdd on ModifyRebroadcastInv. The load of Shutdown  *)
(* and the send are two steps: "checked" is the handler between them.     *)
AddRebroadcastInventory(t) ==
    /\ rpc[t] = "add"
    /\ rpc' = [rpc EXCEPT ![t] = IF Shutdown THEN "reply" ELSE "checked"]
    /\ UNCHANGED <<pending, rb, toRelay, relayInv, ph, inPool, confirmed, sync, stopPc, numClients>>

AddRebroadcastSend(t) ==
    /\ rpc[t] = "checked"
    /\ rpc' = [rpc EXCEPT ![t] = "sendAdd"]
    /\ UNCHANGED <<pending, rb, toRelay, relayInv, ph, inPool, confirmed, sync, stopPc, numClients>>

(* A block containing t is connected while the sync manager runs (it is   *)
(* stopped by PeerHandler at Quit), and TransactionConfirmed(t) is called. *)
(* The notification goroutine finishes the call before the next block.    *)
TransactionConfirmed(t) ==
    /\ sync = None
    /\ ph = "run"
    /\ inPool[t]
    /\ ~confirmed[t]
    /\ confirmed' = [confirmed EXCEPT ![t] = TRUE]
    /\ sync' = <<t, "check">>
    /\ UNCHANGED <<pending, rb, toRelay, relayInv, ph, rpc, inPool, stopPc, numClients>>

(* RemoveRebroadcastInventory: ignored once shutting down, otherwise a    *)
(* send of BroadcastInventoryDel; the load and the send are two steps.     *)
RemoveRebroadcastInventory ==
    /\ sync # None
    /\ sync[2] = "check"
    /\ sync' = IF Shutdown THEN None ELSE <<sync[1], "checked">>
    /\ UNCHANGED <<pending, rb, toRelay, relayInv, ph, rpc, inPool, confirmed, stopPc, numClients>>

RemoveRebroadcastSend ==
    /\ sync # None
    /\ sync[2] = "checked"
    /\ sync' = <<sync[1], "send">>
    /\ UNCHANGED <<pending, rb, toRelay, relayInv, ph, rpc, inPool, confirmed, stopPc, numClients>>

-----------------------------------------------------------------------------
(* Node.Stop: only the first call acts; it sets Shutdown, ...             *)
StopBegin ==
    /\ stopPc = "run"
    /\ stopPc' = "rpc"
    /\ UNCHANGED <<pending, rb, toRelay, relayInv, ph, rpc, inPool, confirmed, sync,
                   numClients>>

(* ... stops the RPC server: Server.Stop sets the server's own Shutdown    *)
(* flag, ...                                                               *)
RPCServerStop ==
    /\ stopPc = "rpc"
    /\ stopPc' = "close"
    /\ UNCHANGED <<pending, rb, toRelay, relayInv, ph, rpc, inPool, confirmed, sync,
                   numClients>>

(* ... closes the listeners, stops the notification manager and waits for  *)
(* the Serve goroutines, not for the handlers in flight; Node.Stop then    *)
(* saves the fee estimator ...                                             *)
CloseListeners ==
    /\ stopPc = "close"
    /\ stopPc' = "quit"
    /\ UNCHANGED <<pending, rb, toRelay, relayInv, ph, rpc, inPool, confirmed, sync,
                   numClients>>

(* ... and closes Quit. *)
CloseQuit ==
    /\ stopPc = "quit"
    /\ stopPc' = "done"
    /\ UNCHANGED <<pending, rb, toRelay, relayInv, ph, rpc, inPool, confirmed, sync,
                   numClients>>

-----------------------------------------------------------------------------
(* After Node.Start with the RPC server enabled: both handlers run. *)
Init ==
    /\ pending = {}
    /\ rb = "loop"
    /\ toRelay = {}
    /\ relayInv = 0
    /\ ph = "run"
    /\ rpc = [t \in Txs |-> "idle"]
    /\ inPool = [t \in Txs |-> FALSE]
    /\ confirmed = [t \in Txs |-> FALSE]
    /\ sync = None
    /\ stopPc = "run"
    /\ numClients = 0

RebroadcastStep ==
    RebroadcastRecv \/ RebroadcastTimer \/ RebroadcastRelay \/ RebroadcastQuit \/ RebroadcastDrain

PeerHandlerStep == HandleRelayInvMsg \/ PeerHandlerQuit \/ PeerHandlerDrain

HandlerStep(t) ==
    \/ LimitConnections(t) \/ IncrementClients(t) \/ CheckAuth(t) \/ JSONRPCRead(t)
    \/ DecrementClients(t)
    \/ ProcessTransaction(t) \/ RelayTransactions(t)
    \/ AddRebroadcastInventory(t) \/ AddRebroadcastSend(t)

Next ==
    \/ RebroadcastStep
    \/ PeerHandlerStep
    \/ \E t \in Txs : Request(t) \/ HandlerStep(t) \/ TransactionConfirmed(t)
    \/ RemoveRebroadcastInventory \/ RemoveRebroadcastSend
    \/ StopBegin \/ RPCServerStop \/ CloseListeners \/ CloseQuit

(* Goroutines that can proceed do; the timer fires within 30 minutes.     *)
(* Clients, blocks and the call of Stop are the environment: not fair.    *)
Fairness ==
    /\ WF_vars(RebroadcastStep)
    /\ WF_vars(PeerHandlerStep)
    /\ \A t \in Txs : WF_vars(HandlerStep(t))
    /\ WF_vars(RemoveRebroadcastInventory \/ RemoveRebroadcastSend)
    /\ WF_vars(RPCServerStop) /\ WF_vars(CloseListeners)
    /\ WF_vars(CloseQuit)

Spec == Init /\ [][Next]_vars /\ Fairness

-----------------------------------------------------------------------------
TypeOK ==
    /\ pending \subseteq Txs
    /\ rb \in {"loop", "relay", "drain", "done"}
    /\ toRelay \subseteq Txs
    /\ relayInv \in 0..MaxPeers
    /\ ph \in {"run", "drain", "done"}
    /\ rpc \in [Txs -> {"idle", "limit", "inc", "auth", "read", "process", "relay", "add",
                        "checked", "sendAdd", "reply", "closed"}]
    /\ inPool \in [Txs -> BOOLEAN]
    /\ confirmed \in [Txs -> BOOLEAN]
    /\ sync \in {None} \cup (Txs \X {"check", "checked", "send"})
    /\ stopPc \in {"run", "rpc", "close", "quit", "done"}
    /\ numClients \in 0..Cardinality(Txs)

(* WaitForShutdown (server.go 535) returns once Stop has closed Quit: the *)
(* goroutines it waits for, PeerHandler and RebroadcastHandler, both reach *)
(* n.WG.Done() after their drain ("so nothing is left waiting around to    *)
(* send", 1181).                                                           *)
ShutdownCompletes == Quit ~> (ph = "done" /\ rb = "done")
=============================================================================
