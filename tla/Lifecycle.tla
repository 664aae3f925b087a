----------------------------- MODULE Lifecycle -----------------------------
(***************************************************************************)
(* SystemStart, run in a goroutine of its own as the stability tests do,   *)
(* SystemStop, and the Stop thread in C, which meet over one integer,      *)
(* scheduler.stopFlag.  The system is started and stopped several times.   *)
(***************************************************************************)
EXTENDS Integers, FiniteSets

CONSTANTS
    NumFF,          \* flow functions of a graph
    NumPorts,       \* ports with a KNI device
    MaxCycles,      \* bound on the calls of SystemStart
    Threads,        \* names for Stop threads, one more than MaxCycles
    Faults          \* of "early": SystemStop may come before SystemStart has begun,
                    \* "start": SystemStart may fail, "kni": FreeKNI may fail

LifecycleAssumption == NumFF \in Nat /\ NumPorts \in Nat /\ MaxCycles \in Nat

process == 1
stopRequest == 2
wasStopped == 9

VARIABLES
    stopFlag,
    start,          \* where SystemStart is; "down" when it does not run
    started,        \* instances that run
    thread,         \* Stop threads: "none", "loop" or "leaving"
    stop,           \* where SystemStop is
    ports,          \* ports it still has to free
    cycle, err      \* calls of SystemStart; what the last one returned
vars == <<stopFlag, start, started, thread, stop, ports, cycle, err>>

Init ==
    /\ stopFlag = 0 /\ start = "down" /\ started = 0
    /\ thread = [t \in Threads |-> "none"]
    /\ stop = "idle" /\ ports = NumPorts
    /\ cycle = 0 /\ err = "nil"

\* The caller builds a graph and starts it; the next one when SystemStop is done.
CallStart ==
    /\ start = "down" /\ cycle < MaxCycles
    /\ cycle = 0 \/ stop = "done"
    /\ stop' = IF stop = "done" THEN "idle" ELSE stop
    /\ start' = "flag" /\ cycle' = cycle + 1 /\ ports' = NumPorts /\ err' = "nil"
    /\ UNCHANGED <<stopFlag, started, thread>>

\* systemStart.  getCore fails before the Stop thread and at any instance.
SetFlag ==
    /\ start = "flag" /\ stopFlag' = process
    /\ start' \in IF "start" \in Faults THEN {"thread", "error"} ELSE {"thread"}
    /\ UNCHANGED <<started, thread, stop, ports, cycle, err>>
StartThread ==
    /\ start = "thread"
    /\ \E t \in Threads : thread[t] = "none" /\ thread' = [thread EXCEPT ![t] = "loop"]
    /\ start' = "instances"
    /\ UNCHANGED <<stopFlag, started, stop, ports, cycle, err>>
StartInstance ==
    /\ start = "instances"
    /\ \/ started < NumFF /\ started' = started + 1 /\ UNCHANGED start
       \/ started = NumFF /\ start' = "schedule" /\ UNCHANGED started
       \/ "start" \in Faults /\ start' = "error" /\ UNCHANGED started
    /\ UNCHANGED <<stopFlag, thread, stop, ports, cycle, err>>
StartFails ==
    /\ start = "error" /\ start' = "down" /\ err' = "error"
    /\ UNCHANGED <<stopFlag, started, thread, stop, ports, cycle>>

\* Faulty: the loop's end does not hand the flag on.
SchedulePassSilent ==
    /\ start = "schedule" /\ stopFlag # process
    /\ start' = "down"
    /\ UNCHANGED <<stopFlag, started, thread, stop, ports, cycle, err>>
\* The test of the loop of schedule, and the store that follows its end.
SchedulePass ==
    /\ start = "schedule" /\ stopFlag # process
    /\ start' = "last"
    /\ UNCHANGED <<stopFlag, started, thread, stop, ports, cycle, err>>
ScheduleEnds ==
    /\ start = "last"
    /\ stopFlag' = stopRequest + 1 /\ start' = "down"
    /\ UNCHANGED <<started, thread, stop, ports, cycle, err>>

\* nff_go_stop.
ThreadLeaves(t) ==
    /\ thread[t] = "loop" /\ stopFlag \notin {process, stopRequest}
    /\ thread' = [thread EXCEPT ![t] = "leaving"]
    /\ UNCHANGED <<stopFlag, start, started, stop, ports, cycle, err>>
ThreadStopped(t) ==
    /\ thread[t] = "leaving"
    /\ stopFlag' = wasStopped /\ thread' = [thread EXCEPT ![t] = "none"]
    /\ UNCHANGED <<start, started, stop, ports, cycle, err>>

\* SystemStop, after SystemStart has set the flag and not failed; with the
\* faults also before, after a failed start, and again after an error.
CallStop ==
    /\ stop = "idle"
    /\ \/ start \notin {"down", "flag", "error"}
       \/ "early" \in Faults /\ cycle > 0
       \/ err = "error"
    /\ stop' = "request"
    /\ UNCHANGED <<stopFlag, start, started, thread, ports, cycle, err>>
Request ==
    /\ stop = "request" /\ stopFlag' = stopRequest /\ stop' = "wait"
    /\ UNCHANGED <<start, started, thread, ports, cycle, err>>

\* Faulty: only one look at the flag.
WaitOnce ==
    /\ stop = "wait" /\ stop' = "instances"
    /\ UNCHANGED <<stopFlag, start, started, thread, ports, cycle, err>>
Wait ==
    /\ stop = "wait" /\ stopFlag = wasStopped /\ stop' = "instances"
    /\ UNCHANGED <<stopFlag, start, started, thread, ports, cycle, err>>
StopInstance ==
    /\ stop = "instances"
    /\ \/ started > 0 /\ started' = started - 1 /\ UNCHANGED stop
       \/ started = 0 /\ stop' = "ports" /\ UNCHANGED started
    /\ UNCHANGED <<stopFlag, start, thread, ports, cycle, err>>
\* The ports, each with StopPort and FreeKNI; an error returns.
FreePort ==
    /\ stop = "ports"
    /\ \/ ports > 0 /\ ports' = ports - 1 /\ UNCHANGED stop
       \/ ports = 0 /\ stop' = "done" /\ UNCHANGED ports
       \/ "kni" \in Faults /\ ports > 0 /\ stop' = "idle" /\ UNCHANGED ports
    /\ UNCHANGED <<stopFlag, start, started, thread, cycle, err>>
CallStopAgain ==
    /\ stop = "idle" /\ "kni" \in Faults /\ start = "down" /\ stopFlag = wasStopped
    /\ stop' = "request"
    /\ UNCHANGED <<stopFlag, start, started, thread, ports, cycle, err>>

Running ==
    \/ SetFlag \/ StartThread \/ StartInstance \/ StartFails \/ SchedulePass \/ ScheduleEnds
    \/ Request \/ Wait \/ StopInstance \/ FreePort
    \/ \E t \in Threads : ThreadLeaves(t) \/ ThreadStopped(t)
Next == CallStart \/ CallStop \/ CallStopAgain \/ Running

\* Every goroutine and the Stop thread keep running; the caller need not call.
Fairness ==
    /\ WF_vars(SetFlag) /\ WF_vars(StartThread) /\ WF_vars(StartInstance) /\ WF_vars(StartFails)
    /\ WF_vars(SchedulePass) /\ WF_vars(ScheduleEnds)
    /\ WF_vars(Request) /\ WF_vars(Wait) /\ WF_vars(StopInstance) /\ WF_vars(FreePort)
    /\ \A t \in Threads : WF_vars(ThreadLeaves(t)) /\ WF_vars(ThreadStopped(t))
Spec == Init /\ [][Next]_vars /\ Fairness
-----------------------------------------------------------------------------
\* "SystemStop stops the system": every call returns, with or without an error.
StopReturns == stop = "request" ~> stop \in {"done", "idle"}

\* When SystemStop is done no instance, no Stop thread and no scheduler loop of
\* the system that was stopped is left.
CleanStop ==
    stop = "done" => started = 0 /\ start = "down" /\ \A t \in Threads : thread[t] = "none"
=============================================================================
