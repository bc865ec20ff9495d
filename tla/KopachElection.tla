--------------------------- MODULE KopachElection ---------------------------
(***************************************************************************)
(* What the kopach miner controller promises about the controller it       *)
(* follows ("first sender wins", spec 4.5): it follows no controller until *)
(* a job arrives, then follows the sender of that job until the controller *)
(* is dropped (silence or a solution), and only then may another be        *)
(* elected.  It never switches from one controller straight to another.   *)
(***************************************************************************)
CONSTANTS
    Ctrl,   \* controller addresses
    None    \* no controller is followed

VARIABLE leader

Init == leader = None

\* The first job seen since the last drop elects its sender.
Elect(c) ==
    /\ leader = None
    /\ leader' = c

\* The followed controller is forgotten.
Drop ==
    /\ leader # None
    /\ leader' = None

Next == Drop \/ \E c \in Ctrl : Elect(c)

Spec == Init /\ [][Next]_leader
=============================================================================
