------------------------------ MODULE Workers ------------------------------
(***************************************************************************)
(* The goroutines of a running system and the three places where they      *)
(* meet: the scheduler and workers over arrays of queues (Handover), the   *)
(* scheduler and the clones of an instance over channels (Clones), and     *)
(* SystemStart, SystemStop and the Stop thread over a flag (Lifecycle).    *)
(* The three share no state.                                               *)
(***************************************************************************)
EXTENDS Handover

CONSTANTS NumCores, NumFF, NumPorts, MaxCycles, Threads, Faults

VARIABLES
    cloneNumber, clone, reports, cPc, cK, ending, ticked,
    stopFlag, start, started, thread, stop, ports, cycle, err

clonesVars == <<cloneNumber, clone, reports, cPc, cK, ending, ticked>>
lifeVars == <<stopFlag, start, started, thread, stop, ports, cycle, err>>

C == INSTANCE Clones WITH pc <- cPc, k <- cK
L == INSTANCE Lifecycle

\* Clones: while the scheduler sends or waits, no clone waits to report.
NobodyWaitsToReport == C!NobodyWaitsToReport
\* Clones: the clones that exist are those the scheduler knows of.
ClonesSound == C!ClonesSound
\* Lifecycle: when SystemStop is done nothing of the stopped system runs.
CleanStop == L!CleanStop
=============================================================================
