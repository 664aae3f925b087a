------------------------------- MODULE MCApps -------------------------------
(***************************************************************************)
(* Package devices and two of the programs built on the library, in one    *)
(* run: binding of a PCI and of a VMBus device, the anti-DDoS example, and *)
(* nffPktgen's configuration and generator.  They share no state.  part    *)
(* names the one that moves in a behaviour; the others stay where they     *)
(* begin.                                                                  *)
(***************************************************************************)
EXTENDS Devices, Sequences, TLC

VARIABLES
    part,
    now, flowTable, numOfFlows, numOfOnePktFlows, packetsWithSmallIAT, allPackets, lastTime, isDdos,
    dPc, currentTime, hash, flow, seen,
    level, object, todo, slots, out,
    table, have, next, portCurrent, addrCurrent, gPc, nextPort, addr, count, sent

ddosVars == <<now, flowTable, numOfFlows, numOfOnePktFlows, packetsWithSmallIAT, allPackets, lastTime, isDdos,
              dPc, currentTime, hash, flow, seen>>
configVars == <<level, object, todo, slots, out>>
genVars == <<table, have, next, portCurrent, addrCurrent, gPc, nextPort, addr, count, sent>>
-----------------------------------------------------------------------------
GenClones == {"g1", "g2"}

V == INSTANCE Devices WITH Bus <- "vmbus", HasOverride <- FALSE
D == INSTANCE AntiDDoS WITH Clones <- {"c1"}, Hashes <- {"h1", "h2"}, MonitoringWindow <- 3,
        IatThreshold <- 70, PpfThreshold <- 60, TimeMod <- 16, MaxNow <- 8, MaxPackets <- 4, pc <- dPc
J == INSTANCE PktgenConfig WITH Readers <- {"r1", "r2"}, MaxKeys <- 3, Uint16 <- 2, MaxNumber <- 2
K == INSTANCE Pktgen WITH Clones <- GenClones, Need <- <<3, 2, 1>>, Uint16 <- 16,
        PortMin <- 2, PortMax <- 7, PortIncr <- 3, Byte <- 4, AddrMin <- 1, AddrMax <- 2, AddrIncr <- 1,
        MaxPackets <- 8, pc <- gPc
-----------------------------------------------------------------------------
AppsInit ==
    /\ part \in {"pci", "vmbus", "antiddos", "config", "pktgen", "one generator"}
    /\ IF part = "vmbus" THEN V!Init ELSE Init /\ (part # "pci" => bound = None)
    /\ D!Init /\ J!Init
    /\ K!Init /\ (part \notin {"pktgen", "one generator"} => table = <<1, 2, 3>>)

Pci(A) == part = "pci" /\ A /\ UNCHANGED <<part, ddosVars, configVars, genVars>>
\* The VMBus device has one caller, any of them.
Vmbus(c, A) ==
    /\ part = "vmbus"
    /\ \A b \in Callers \ {c} : pc[b] = "idle" /\ want[b] = None /\ result[b] = "none"
    /\ A /\ UNCHANGED <<part, ddosVars, configVars, genVars>>
Watching(A) == part = "antiddos" /\ A /\ UNCHANGED <<part, vars, configVars, genVars>>
Reading(A) == part = "config" /\ A /\ UNCHANGED <<part, vars, ddosVars, genVars>>
\* With one generator the other clone never runs.
Generating(c, A) ==
    /\ part = "pktgen" \/ (part = "one generator" /\ c = "g1")
    /\ A /\ UNCHANGED <<part, vars, ddosVars, configVars>>

AppsNext ==
    \/ \E c \in Callers :
          \/ Pci(Bind(c)) \/ Pci(Unbind(c)) \/ Pci(Probe(c)) \/ Pci(Query(c)) \/ Pci(UnbindDriver(c))
          \/ Pci(CheckUnbound(c)) \/ Pci(OverrideDriver(c)) \/ Pci(BindDriver(c)) \/ Pci(VerifyBound(c))
          \/ Pci(CleanOverride(c)) \/ Pci(AddToDriver(c)) \/ Pci(ProbeDriver(c))
          \/ Vmbus(c, V!Bind(c)) \/ Vmbus(c, V!Unbind(c)) \/ Vmbus(c, V!Query(c)) \/ Vmbus(c, V!UnbindDriver(c))
          \/ Vmbus(c, V!BindDriver(c)) \/ Vmbus(c, V!AddToDriver(c))
    \/ Watching(D!Tick) \/ Watching(D!calculateMetrics)
    \/ Watching(D!Read("c1")) \/ Watching(D!Count("c1")) \/ Watching(D!Write("c1"))
    \/ \E h \in D!getPacketHash : Watching(D!Arrive("c1", h))
    \/ Reading(J!Decode)
    \/ \E r \in {"r1", "r2"} : Reading(J!Return(r)) \/ \E k \in todo[r] : Reading(J!TakeKey(r, k))
    \/ \E c \in GenClones :
          \/ Generating(c, K!Choose(c)) \/ Generating(c, K!TakeAddr(c)) \/ Generating(c, K!CheckPort(c))
          \/ Generating(c, K!ReadPort(c)) \/ Generating(c, K!AddPort(c)) \/ Generating(c, K!Count(c))

AppsSymmetry == Permutations(Callers)

AppsSpec == AppsInit /\ [][AppsNext]_<<part, vars, ddosVars, configVars, genVars>>
-----------------------------------------------------------------------------
\* Devices: a Bind of a VMBus device that returned no error left it with the
\* driver asked for, and Unbind returns no error only if it saw the device free.
BindSound == [](part = "vmbus" => NilMeansDone) /\ UnbindSeesFree
\* Anti-DDoS: between packets the counters agree with the table of flows, a flow
\* is new again exactly when the window has passed, and a dropped packet is
\* recorded and lets the next one through.
DDoSRight == [](D!CountersMatch /\ D!ExpiresAfterWindow) /\ D!RecordedForFuture
\* Configuration: what is read does not depend on the order of a Go map, and a
\* range that is accepted holds its start.
ConfigSound == J!AnyOrder /\ J!RangeSound
\* Generator: every clone repeats the chain of quantities, and with one
\* generator ports and addresses stay in their ranges.
GeneratorSound == K!ChainRepeats /\ (part = "one generator" => K!InRange)
=============================================================================
