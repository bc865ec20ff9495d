-------------------------- MODULE KopachController --------------------------
(***************************************************************************)
(* The kopach miner controller (src/cmd/kopach/main.go 46-186) and the     *)
(* blocking RPC client it drives its worker processes with                 *)
(* (src/cmd/kopach/client/wrapper.go).                                     *)
(*                                                                         *)
(* Three goroutines share the Worker: the broadcast listener, which runs   *)
(* the job, pause and solution handlers one datagram at a time; the        *)
(* watchdog, woken by a one-second ticker; and the interrupt handler.  The *)
(* handlers call the workers one after another, each call blocking until   *)
(* the worker process acknowledges it, so a call is one step and the       *)
(* other goroutine may act between two calls.                              *)
(*                                                                         *)
(* Time is kept as age, the whole seconds since lastSent, capped at        *)
(* Silence: the watchdog only asks whether since > 3s.  Controllers and    *)
(* their datagrams are not modelled as state: any controller may send any  *)
(* message at any time, or nothing (UDP loses and repeats datagrams).      *)
(***************************************************************************)
EXTENDS Naturals, FiniteSets

CONSTANTS
    Ctrl,         \* controller addresses (model values)
    None,         \* the empty FirstSender ""
    NumWorkers,   \* *cx.Config.GenThreads
    Silence       \* the watchdog's three seconds

ASSUME NumWorkers \in Nat \ {0} /\ Silence \in Nat \ {0}

Wk == 1..NumWorkers

VARIABLES
    active,   \* w.active
    halted,   \* cx.KillAll is closed
    fs,       \* w.FirstSender
    age,      \* seconds since w.lastSent, capped at Silence
    tick,     \* a tick is buffered in the ticker's channel
    lpc,      \* the listener: recv, the job handler's two stores, or
              \* calling NewJob or Pause
    lc,       \* the controller whose job the listener is handing out
    li,       \* the worker the listener calls next
    wpc,      \* the watchdog: off, idle, load, clear or pause
    wi,       \* the worker the watchdog pauses next
    ws        \* each worker process: its state and its job

vars == <<active, halted, fs, age, tick, lpc, lc, li, wpc, wi, ws>>
listenerVars == <<lpc, lc, li>>
watchdogVars == <<wpc, wi>>

\* A worker process, as it answers the RPCs (spec 4.5).
WState == [st : {"idle", "working", "paused", "dead"}, job : Ctrl \cup {None}]

\* Worker.NewJob and Worker.Pause as seen by the process; a killed process
\* no longer answers, and the call returns an error that is logged.
NewJob(w, c) ==
    ws' = IF ws[w].st = "dead" THEN ws
          ELSE [ws EXCEPT ![w] = [st |-> "working", job |-> c]]
Pause(w) ==
    ws' = IF ws[w].st = "dead" THEN ws ELSE [ws EXCEPT ![w].st = "paused"]

(***************************************************************************)
(* Start-up and shutdown.                                                  *)
(***************************************************************************)

\* Workers spawned and given the password, then active and the watchdog
\* started.
Start ==
    /\ ~active /\ wpc = "off" /\ ~halted
    /\ active' = TRUE
    /\ wpc' = "idle"
    /\ UNCHANGED <<halted, fs, age, tick, listenerVars, wi, ws>>

\* The interrupt handler: clear active and kill every worker process;
\* KillAll then stops the listener and the watchdog.
Interrupt ==
    /\ active /\ ~halted
    /\ active' = FALSE
    /\ halted' = TRUE
    /\ ws' = [w \in Wk |-> [ws[w] EXCEPT !.st = "dead"]]
    /\ UNCHANGED <<fs, age, tick, listenerVars, watchdogVars>>

(***************************************************************************)
(* The listener's handlers.                                                *)
(***************************************************************************)

JobMsg(c) ==
    /\ lpc = "recv" /\ ~halted
    /\ IF active /\ fs \in {c, None}
          THEN lpc' = "store" /\ lc' = c
          ELSE UNCHANGED <<lpc, lc>>
    /\ UNCHANGED <<active, halted, fs, age, tick, li, watchdogVars, ws>>

\* w.FirstSender.Store(addr).
JobStore ==
    /\ lpc = "store"
    /\ fs' = lc
    /\ lpc' = "stamp"
    /\ UNCHANGED <<active, halted, age, tick, lc, li, watchdogVars, ws>>

\* w.lastSent.Store(time.Now().UnixNano()); then the loop over the workers.
JobStamp ==
    /\ lpc = "stamp"
    /\ age' = 0
    /\ lpc' = "job" /\ li' = 1
    /\ UNCHANGED <<active, halted, fs, tick, lc, watchdogVars, ws>>

\* pause.Magic from controller c: pause every worker if c is FirstSender.
PauseMsg(c) ==
    /\ lpc = "recv" /\ ~halted
    /\ IF fs = c
          THEN lpc' = "pause" /\ li' = 1 /\ UNCHANGED lc
          ELSE UNCHANGED listenerVars
    /\ UNCHANGED <<active, halted, fs, age, tick, watchdogVars, ws>>

\* sol.SolutionMagic from anyone: forget FirstSender.
SolMsg ==
    /\ lpc = "recv" /\ ~halted
    /\ fs' = None
    /\ UNCHANGED <<active, halted, age, tick, listenerVars, watchdogVars, ws>>

\* One blocking call of the loop over w.workers.
ListenerCallOffByOne ==
    /\ lpc \in {"job", "pause"}
    /\ IF li \notin Wk THEN UNCHANGED ws
       ELSE IF lpc = "job" THEN NewJob(li, lc) ELSE Pause(li)
    /\ li' = li + 1
    /\ lpc' = IF li > NumWorkers THEN "recv" ELSE lpc
    /\ UNCHANGED <<active, halted, fs, age, tick, lc, watchdogVars>>

ListenerCall ==
    /\ lpc \in {"job", "pause"}
    /\ IF lpc = "job" THEN NewJob(li, lc) ELSE Pause(li)
    /\ li' = li + 1
    /\ lpc' = IF li = NumWorkers THEN "recv" ELSE lpc
    /\ UNCHANGED <<active, halted, fs, age, tick, lc, watchdogVars>>

(***************************************************************************)
(* Time and the watchdog.                                                  *)
(***************************************************************************)

\* A second passes; the ticker buffers one tick and drops the rest.
Tick ==
    /\ ~halted
    /\ age' = IF age < Silence THEN age + 1 ELSE age
    /\ tick' = TRUE
    /\ ~(age = Silence /\ tick)
    /\ UNCHANGED <<active, halted, fs, listenerVars, watchdogVars, ws>>

\* <-ticker.C: since := now - lastSent; go on if since > 3s.
WdTick ==
    /\ wpc = "idle" /\ tick /\ ~halted
    /\ tick' = FALSE
    /\ wpc' = IF age = Silence THEN "load" ELSE "idle"
    /\ UNCHANGED <<active, halted, fs, age, listenerVars, wi, ws>>

\* ... && w.FirstSender.Load() != "".
WdLoad ==
    /\ wpc = "load"
    /\ wpc' = IF fs # None THEN "clear" ELSE "idle"
    /\ UNCHANGED <<active, halted, fs, age, tick, listenerVars, wi, ws>>

\* w.FirstSender.Store(""), then pause the workers.
WdClearNoStore ==
    /\ wpc = "clear"
    /\ wpc' = "pause" /\ wi' = 1
    /\ UNCHANGED <<active, halted, fs, age, tick, listenerVars, ws>>

WdClear ==
    /\ wpc = "clear"
    /\ fs' = None
    /\ wpc' = "pause" /\ wi' = 1
    /\ UNCHANGED <<active, halted, age, tick, listenerVars, ws>>

\* One blocking Pause call of the watchdog's loop.
WdPause ==
    /\ wpc = "pause"
    /\ Pause(wi)
    /\ wi' = wi + 1
    /\ wpc' = IF wi = NumWorkers THEN "idle" ELSE "pause"
    /\ UNCHANGED <<active, halted, fs, age, tick, listenerVars>>

\* After KillAll the process has exited.
Exited ==
    /\ halted /\ lpc = "recv"
    /\ UNCHANGED vars

Init ==
    /\ active = FALSE /\ halted = FALSE
    /\ fs = None /\ age = 0 /\ tick = FALSE
    /\ lpc = "recv" /\ lc = None /\ li = 1
    /\ wpc = "off" /\ wi = 1
    /\ ws = [w \in Wk |-> [st |-> "idle", job |-> None]]

Next ==
    \/ Start \/ Interrupt
    \/ \E c \in Ctrl : JobMsg(c) \/ PauseMsg(c)
    \/ JobStore \/ JobStamp \/ SolMsg \/ ListenerCall
    \/ Tick \/ WdTick \/ WdLoad \/ WdClear \/ WdPause
    \/ Exited

\* The goroutines run while they have work, and time passes; controllers
\* need not send anything and nobody need interrupt.
Fairness ==
    /\ WF_vars(Start) /\ WF_vars(JobStore) /\ WF_vars(JobStamp)
    /\ WF_vars(ListenerCall) /\ WF_vars(Tick)
    /\ WF_vars(WdTick) /\ WF_vars(WdLoad) /\ WF_vars(WdClear) /\ WF_vars(WdPause)

Spec == Init /\ [][Next]_vars /\ Fairness

-----------------------------------------------------------------------------
TypeOK ==
    /\ active \in BOOLEAN /\ halted \in BOOLEAN
    /\ fs \in Ctrl \cup {None} /\ age \in 0..Silence /\ tick \in BOOLEAN
    /\ lpc \in {"recv", "store", "stamp", "job", "pause"} /\ lc \in Ctrl \cup {None}
    /\ li \in 1..NumWorkers+1
    /\ wpc \in {"off", "idle", "load", "clear", "pause"} /\ wi \in 1..NumWorkers+1
    /\ ws \in [Wk -> WState]

\* "First sender wins": FirstSender only ever goes from empty to a
\* controller and back, never from one controller straight to another,
\* whatever the watchdog does between the job handler's load of
\* FirstSender, its store and its store of lastSent.
Election == INSTANCE KopachElection WITH leader <- fs
SilentControllerDropped ==
    (fs # None /\ age = Silence) ~> (fs = None \/ age < Silence \/ halted)
=============================================================================
