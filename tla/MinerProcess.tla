---------------------------- MODULE MinerProcess ----------------------------
(***************************************************************************)
(* The CPU miner as a child process of the node: started by Node.Start    *)
(* when Config.Generate is set (src/cmd/node/rpc/server.go 448-465),       *)
(* killed by the interrupt handler registered there, and started and      *)
(* killed by the RPC server's setgenerate handler (HandleSetGenerate,      *)
(* src/cmd/kopach/main.go 4322-4381) through the server's own handle       *)
(* s.Cfg.CPUMiner.                                                         *)
(*                                                                         *)
(* NewNode builds the RPC server's config with CPUMiner: s.CPUMiner        *)
(* (server.go 2897) before Node.Start has assigned it, so the two handles  *)
(* are separate variables: nodeMiner and cpuMiner here.                    *)
(*                                                                         *)
(* Each setgenerate call runs in its own HTTP handler goroutine, without   *)
(* a lock: its config write, its kill and its start are three steps that  *)
(* other calls may interleave.  A process is a model value; exec.Cmd's     *)
(* Start may fail, which leaves a handle whose Process is nil ("failed").  *)
(***************************************************************************)
EXTENDS Naturals, FiniteSets

CONSTANTS
    Clients,          \* concurrent setgenerate callers (model values)
    Procs,            \* process ids: bounds the number of miners started
    NoProc,           \* a nil *exec.Cmd (a model value)
    NoLimit,          \* GenProcLimit not given (a model value)
    GenerateAtStart,  \* Config.Generate when the node starts
    ThreadsAtStart    \* Config.GenThreads when the node starts

ASSUME GenerateAtStart \in BOOLEAN /\ ThreadsAtStart \in {0, 1}

\* GenThreads is 0 or some positive count, which the model writes as 1.
Threads == {0, 1}

VARIABLES
    generate,   \* *Config.Generate
    genThreads, \* *Config.GenThreads
    nodeMiner,  \* Node.CPUMiner
    cpuMiner,   \* the RPC server's s.Cfg.CPUMiner
    alive,      \* miner processes running
    failed,     \* handles whose Start failed (Process == nil)
    used,       \* process ids handed out so far
    node,       \* "new", "starting", "running", "stopped"
    call        \* each client's setgenerate handler: pc and its request

vars == <<generate, genThreads, nodeMiner, cpuMiner, alive, failed, used, node, call>>

Idle == [pc |-> "idle"]

\* exec.Command(...).Start() for a fresh process id: it runs, or Start
\* fails and the handle has no Process.
StartProcess(m) ==
    /\ used' = used \cup {m}
    /\ \/ alive' = alive \cup {m} /\ UNCHANGED failed
       \/ failed' = failed \cup {m} /\ UNCHANGED alive

\* Handler goroutines in flight, each of which may still start a process.
InFlight == {c \in Clients : call[c].pc # "idle"}

\* Node states in which the RPC server takes requests.
Serving == {"starting", "running"}

-----------------------------------------------------------------------------
(* Node.Start, end: the RPC servers are started, and only then, reading  *)
(* the same Config that setgenerate writes, the CPU miner is started if   *)
(* Config.Generate is set.                                                *)
NodeStartRPC ==
    /\ node = "new"
    /\ node' = "starting"
    /\ UNCHANGED <<generate, genThreads, nodeMiner, cpuMiner, alive, failed, used, call>>

NodeStartMiner ==
    /\ node = "starting"
    /\ node' = "running"
    /\ IF generate
         THEN \E m \in Procs \ used :
                 /\ nodeMiner' = m
                 /\ StartProcess(m)
         ELSE UNCHANGED <<nodeMiner, alive, failed, used>>
    /\ UNCHANGED <<generate, genThreads, cpuMiner, call>>

(* HandleSetGenerate, first step: take generate and GenProcLimit from the *)
(* request (GenThreads when no limit is given), turn generation off for a *)
(* limit of 0, and write both into the shared config.  A request is taken *)
(* only while a process id is left for every handler in flight.           *)
SetGenerateConfig(c) ==
    /\ node \in Serving
    /\ call[c].pc = "idle"
    /\ Cardinality(Procs \ used) > Cardinality(InFlight)
    /\ \E gen \in BOOLEAN, lim \in Threads \cup {NoLimit} :
         LET limit == IF lim = NoLimit THEN genThreads ELSE lim IN
         /\ generate' = (gen /\ limit # 0)
         /\ genThreads' = limit
    /\ call' = [call EXCEPT ![c] = [pc |-> "kill"]]
    /\ UNCHANGED <<nodeMiner, cpuMiner, alive, failed, used, node>>

(* Second step: kill the process s.Cfg.CPUMiner names.  Kill on a handle  *)
(* without a Process dereferences nil: the panic ends the handler, which  *)
(* net/http recovers, before the handle is replaced.  Kill of a process   *)
(* that has already exited only returns an error, which is logged.        *)
SetGenerateKill(c) ==
    /\ call[c].pc = "kill"
    /\ IF cpuMiner \in failed
         THEN /\ call' = [call EXCEPT ![c] = Idle]
              /\ UNCHANGED alive
         ELSE /\ alive' = alive \ {cpuMiner}
              /\ call' = [call EXCEPT ![c] = [pc |-> "spawn"]]
    /\ UNCHANGED <<generate, genThreads, nodeMiner, cpuMiner, failed, used, node>>

(* Third step: save the config and read it back from the shared pointers: *)
(* start a new miner and keep it in s.Cfg.CPUMiner, or set the handle to  *)
(* nil.                                                                   *)
SetGenerateSpawn(c) ==
    /\ call[c].pc = "spawn"
    /\ IF generate /\ genThreads # 0
         THEN \E m \in Procs \ used :
                 /\ cpuMiner' = m
                 /\ StartProcess(m)
         ELSE /\ cpuMiner' = NoProc
              /\ UNCHANGED <<alive, failed, used>>
    /\ call' = [call EXCEPT ![c] = Idle]
    /\ UNCHANGED <<generate, genThreads, nodeMiner, node>>

(* Interrupt: the handler Node.Start registered when it started a miner  *)
(* kills Node.CPUMiner and waits for it; the node then exits.             *)
InterruptHandler ==
    /\ node = "running"
    /\ node' = "stopped"
    /\ alive' = alive \ {nodeMiner}
    /\ UNCHANGED <<generate, genThreads, nodeMiner, cpuMiner, failed, used, call>>

-----------------------------------------------------------------------------
Init ==
    /\ generate = GenerateAtStart
    /\ genThreads = ThreadsAtStart
    /\ nodeMiner = NoProc
    /\ cpuMiner = NoProc
    /\ alive = {} /\ failed = {} /\ used = {}
    /\ node = "new"
    /\ call = [c \in Clients |-> Idle]

Next ==
    \/ NodeStartRPC
    \/ NodeStartMiner
    \/ \E c \in Clients :
         SetGenerateConfig(c) \/ SetGenerateKill(c) \/ SetGenerateSpawn(c)
    \/ InterruptHandler

Spec == Init /\ [][Next]_vars

-----------------------------------------------------------------------------
TypeOK ==
    /\ generate \in BOOLEAN /\ genThreads \in Threads
    /\ nodeMiner \in Procs \cup {NoProc} /\ cpuMiner \in Procs \cup {NoProc}
    /\ alive \cup failed \subseteq used /\ alive \cap failed = {}
    /\ used \subseteq Procs
    /\ node \in {"new", "starting", "running", "stopped"}
    /\ call \in [Clients -> [pc : {"idle", "kill", "spawn"}]]

\* setgenerate false stops mining: while the node runs and no setgenerate
\* call is in flight, no miner process runs unless Config.Generate says
\* so.  HandleSetGenerate kills only the process its own handle names.
MiningFollowsGenerate ==
    (node \in Serving /\ InFlight = {} /\ ~generate) => alive = {}
=============================================================================
