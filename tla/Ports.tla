------------------------------- MODULE Ports --------------------------------
(***************************************************************************)
(* Configuration, start and stop of the system as its ports see it:        *)
(* SystemInit, the queues and KNI devices the construction calls ask for,  *)
(* SystemStart creating ports one after the other, SystemStop giving       *)
(* everything back, and the calls that fail half way.  Whether flows are   *)
(* left open is the subject of Graph, what the scheduler does of Scheduler.*)
(***************************************************************************)
EXTENDS Naturals, FiniteSets, Sequences, FiniteSetsExt

CONSTANTS
    NumPorts,       \* low.GetPortsNumber()
    MaxRxQueues,    \* MaxRxQueues[p]: what check_port_rss says of port p
    NumCores,
    ArgSets,        \* configurations given to SystemInit
    MaxTx,          \* bound: senders of one port
    MaxErrors       \* bound: calls that fail

PortIds == 0 .. NumPorts - 1
Core == 0 .. NumCores - 1

VARIABLES
    conf,       \* the settings SystemInit derives, and the arguments
    phase,      \* "none", "config", "ports", "run", "stop", "stuck"
    port,       \* createdPorts
    up,         \* up[p]: receive and send queues port p was started with
    at,         \* index of the loops over createdPorts
    senders,    \* the port and queue of each sender
    busy, usedCores,        \* cores whose isfree is false; their counter
    coreIndex, stopCore,    \* core of the scheduler, core of the Stop thread
    workers,    \* cores of the flow functions
    errors      \* CreateKni and FreeKNI calls that failed so far

vars == <<conf, phase, port, up, at, senders, busy, usedCores, coreIndex, stopCore, workers, errors>>
coreVars == <<busy, usedCores, coreIndex, stopCore, workers>>

Nobody == NumCores
Down == [rx |-> 0, tx |-> 0]
Or(arg, default) == IF arg # 0 THEN arg ELSE default

\* The settings of SystemInit; a zero argument asks for the default value.
Settings(a) ==
    [args |-> a,
     sizeMultiplier |-> Or(a.RingSize, 64),
     schedTime |-> Or(a.ScaleTime, 500),
     debugTime |-> Or(a.DebugTime, 1000),
     needKNI |-> Or(a.MaxRecv, IF a.NeedKNI THEN 1 ELSE 0),
     maxRecv |-> 2,
     maxInIndex |-> Or(a.MaxInIndex, IF a.DisableScheduler THEN 1 ELSE 16),
     stopDedicatedCore |-> a.StopOnDedicatedCore]

\* Receive queues of port p.
InIndex(c, p) == IF c.maxInIndex > MaxRxQueues[p] THEN MaxRxQueues[p] ELSE c.maxInIndex

NewPort(c, p) == [wasRequested |-> FALSE, tx |-> 0, willReceive |-> FALSE, willKNI |-> FALSE,
                  core |-> Nobody, inIndex |-> InIndex(c, p)]

Init ==
    /\ phase = "none"
    /\ conf = Settings(CHOOSE a \in ArgSets : TRUE)
    /\ port = [p \in PortIds |-> NewPort(conf, p)]
    /\ up = [p \in PortIds |-> Down]
    /\ at = 0 /\ senders = <<>> /\ errors = 0
    /\ busy = {} /\ usedCores = 0 /\ coreIndex = Nobody /\ stopCore = Nobody /\ workers = {}

\* SystemInit: an error when statistics are shown more often than schedule runs.
SystemInit(a) ==
    /\ phase = "none"
    /\ Settings(a).debugTime >= Settings(a).schedTime
    /\ conf' = Settings(a)
    /\ port' = [p \in PortIds |-> NewPort(Settings(a), p)]
    /\ phase' = "config"
    /\ UNCHANGED <<up, at, senders, coreVars, errors>>

\* SetReceiver: one receive function per port.
SetReceiver(p) ==
    /\ phase = "config" /\ ~port[p].willReceive
    /\ port' = [port EXCEPT ![p].wasRequested = TRUE, ![p].willReceive = TRUE]
    /\ UNCHANGED <<conf, phase, up, at, senders, coreVars, errors>>

\* SetSender: the next send queue of the port.
SetSender(p) ==
    /\ phase = "config" /\ port[p].tx < MaxTx
    /\ senders' = Append(senders, [port |-> p, queue |-> port[p].tx])
    /\ port' = [port EXCEPT ![p].wasRequested = TRUE, ![p].tx = @ + 1]
    /\ UNCHANGED <<conf, phase, up, at, coreVars, errors>>

Free == Core \ busy
TakeCore == busy' = busy \cup {Min(Free)} /\ usedCores' = usedCores + 1

\* CreateKniDevice: takes a core, then asks the driver, which may fail.
CreateKniDevice(p) ==
    /\ phase = "config" /\ ~port[p].willKNI
    /\ Free # {}
    /\ TakeCore
    /\ \/ /\ port' = [port EXCEPT ![p].willKNI = TRUE, ![p].core = Min(Free)]
          /\ UNCHANGED errors
       \/ /\ errors < MaxErrors /\ errors' = errors + 1
          /\ UNCHANGED port
    /\ UNCHANGED <<conf, phase, up, at, senders, coreIndex, stopCore, workers>>

SystemStart ==
    /\ phase = "config"
    /\ phase' = "ports" /\ at' = 0
    /\ UNCHANGED <<conf, port, up, senders, coreVars, errors>>

\* port_init: a port that receives has a send queue for ARP answers.
TxQueues(p) == IF port[p].willReceive /\ port[p].tx = 0 THEN 1 ELSE port[p].tx

\* The queues port_init configures and starts.
Configured(p) == [rx |-> IF port[p].willReceive THEN port[p].inIndex ELSE 0, tx |-> TxQueues(p)]

\* One turn of the loop of SystemInitPortsAndMemory; CreatePort may fail.
CreatePort ==
    /\ phase = "ports" /\ at < NumPorts
    /\ \/ /\ up' = [up EXCEPT ![at] = IF port[at].wasRequested THEN Configured(at) ELSE @]
          /\ at' = at + 1
          /\ UNCHANGED <<phase, errors>>
       \/ /\ port[at].wasRequested
          /\ errors < MaxErrors /\ errors' = errors + 1
          /\ phase' = "config"
          /\ UNCHANGED <<up, at>>
    /\ UNCHANGED <<conf, port, senders, coreVars>>

\* The cores systemStart takes, in this order: scheduler, Stop thread, functions.
Wanted == (IF conf.stopDedicatedCore THEN 2 ELSE 1)
            + Len(senders) + Cardinality({p \in PortIds : port[p].willReceive})
Nth(S, n) == CHOOSE c \in S : Cardinality({d \in S : d <= c}) = n

StartScheduler ==
    /\ phase = "ports" /\ at = NumPorts
    /\ LET mine == {c \in Free : Cardinality({d \in Free : d < c}) < Wanted}
           sys == {c \in mine : Cardinality({d \in mine : d < c}) < IF conf.stopDedicatedCore THEN 2 ELSE 1} IN
       /\ busy' = busy \cup mine /\ usedCores' = usedCores + Cardinality(mine)
       /\ coreIndex' = IF sys = {} THEN coreIndex ELSE Nth(sys, 1)
       /\ stopCore' = IF Cardinality(sys) = 2 THEN Nth(sys, 2) ELSE Nobody
       /\ workers' = mine \ sys
       /\ phase' = IF Cardinality(mine) = Wanted THEN "run" ELSE "stuck"
    /\ UNCHANGED <<conf, port, up, at, senders, errors>>

\* systemStop gives back the scheduler's core and the one after it.
Released == {coreIndex} \cup IF conf.stopDedicatedCore THEN {coreIndex + 1} ELSE {}

SystemStop ==
    /\ phase = "run"
    /\ busy' = (busy \ workers) \ Released
    /\ usedCores' = usedCores - Cardinality(workers) - Cardinality(Released)
    /\ coreIndex' = Nobody /\ stopCore' = Nobody /\ workers' = {}
    /\ senders' = <<>>
    /\ phase' = "stop" /\ at' = 0
    /\ UNCHANGED <<conf, port, up, errors>>

StoppedPortKept(p) == [port[p] EXCEPT !.wasRequested = FALSE, !.willReceive = FALSE]    \* Faulty

StoppedPort(p) == [port[p] EXCEPT !.wasRequested = FALSE, !.tx = 0, !.willReceive = FALSE]

\* One turn of its loop over the ports; FreeKNI may fail and ends the call.
StopPort ==
    /\ phase = "stop" /\ at < NumPorts
    /\ up' = [up EXCEPT ![at] = IF port[at].wasRequested THEN Down ELSE @]
    /\ \/ /\ ~port[at].willKNI
          /\ port' = [port EXCEPT ![at] = StoppedPort(at)]
          /\ at' = at + 1
          /\ UNCHANGED <<phase, busy, usedCores, errors>>
       \/ /\ port[at].willKNI
          /\ port' = [port EXCEPT ![at] = [StoppedPort(at) EXCEPT !.willKNI = FALSE, !.core = Nobody]]
          /\ busy' = busy \ {port[at].core} /\ usedCores' = usedCores - 1
          /\ at' = at + 1
          /\ UNCHANGED <<phase, errors>>
       \/ /\ port[at].willKNI
          /\ port' = [port EXCEPT ![at] = StoppedPort(at)]
          /\ errors < MaxErrors /\ errors' = errors + 1
          /\ phase' = "config"
          /\ UNCHANGED <<at, busy, usedCores>>
    /\ UNCHANGED <<conf, senders, coreIndex, stopCore, workers>>

\* The loop is over: the mempools are freed, the user may configure again.
FreeMempools ==
    /\ phase = "stop" /\ at = NumPorts
    /\ phase' = "config" /\ at' = 0
    /\ UNCHANGED <<conf, port, up, senders, coreVars, errors>>

\* A start that ran out of cores leaves nothing that would answer SystemStop.
Stuck == phase = "stuck" /\ UNCHANGED vars

Next ==
    \/ \E a \in ArgSets : SystemInit(a)
    \/ \E p \in PortIds : SetReceiver(p) \/ SetSender(p) \/ CreateKniDevice(p)
    \/ SystemStart \/ CreatePort \/ StartScheduler \/ SystemStop \/ StopPort \/ FreeMempools
    \/ Stuck

Spec == Init /\ [][Next]_vars
-----------------------------------------------------------------------------
TypeOK ==
    /\ phase \in {"none", "config", "ports", "run", "stop", "stuck"}
    /\ at \in 0 .. NumPorts
    /\ busy \subseteq Core /\ workers \subseteq Core
    /\ \A p \in PortIds : port[p].inIndex \in 1 .. MaxRxQueues[p]

\* Two senders never share a send queue of a port, which would need a lock the
\* driver does not have, also after a stop that failed half way.
SendQueuesDistinct ==
    \A i, j \in DOMAIN senders : i # j => senders[i] # senders[j]

\* In a running system every sender's queue was set up by port_init, every port
\* that receives has its queues, and one send queue for DirectSend.
QueuesSetUp ==
    phase = "run" =>
        /\ \A i \in DOMAIN senders : senders[i].queue < up[senders[i].port].tx
        /\ \A p \in PortIds : port[p].willReceive => up[p].rx = port[p].inIndex /\ up[p].tx > 0

Held == {port[p].core : p \in {q \in PortIds : port[q].willKNI}}
          \cup workers \cup ({coreIndex, stopCore} \ {Nobody})

\* Cores are taken exactly by the scheduler, the Stop thread, the functions and
\* the KNI devices, and all are given back, however often the system is
\* started and stopped, as long as no KNI call fails (a failed CreateKni keeps
\* its core, and after a failed FreeKNI the core next to the scheduler's is not
\* the Stop thread's any more).
CoresReturned ==
    errors = 0 /\ phase # "stuck" => busy = Held /\ usedCores = Cardinality(Held)

\* A port that is asked for nothing is down between a stop and the next start,
\* and starts with no queue left over from the previous configuration.
StopForgets ==
    [][phase = "stop" /\ phase' = "config" /\ errors' = errors =>
         \A p \in PortIds : up'[p] = Down /\ port'[p] = NewPort(conf, p)]_vars

\* The documentation of Config.MaxRecv: "Maximum simultaneous receives that
\* should handle all input at your network card".
MaxRecvHonoured == phase = "config" /\ conf.args.MaxRecv # 0 => conf.maxRecv = conf.args.MaxRecv

\* The documentation of Config.RingSize and ScaleTime: "Default value is 256",
\* "Default value is 1500".
DocumentedDefaults ==
    phase = "config" =>
        /\ conf.args.RingSize = 0 => conf.sizeMultiplier = 256
        /\ conf.args.ScaleTime = 0 => conf.schedTime = 1500
=============================================================================
