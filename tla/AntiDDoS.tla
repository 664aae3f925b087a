------------------------------ MODULE AntiDDoS ------------------------------
(***************************************************************************)
(* examples/antiddos: clones of the handler share a table of flows (number *)
(* of packets in 2 bits, time of the last packet in 14 bits of a uint16)   *)
(* and the counters from which calculateMetrics decides whether to drop.   *)
(* The handler reads the table entry, updates counters and writes the      *)
(* entry back in separate steps.                                           *)
(***************************************************************************)
EXTENDS Integers, FiniteSets

CONSTANTS
    Clones,
    Hashes,             \* entries of flowTable
    MonitoringWindow,
    IatThreshold, PpfThreshold, \* in percent; lower than the code's 90 and 80, so that few packets reach them
    TimeMod,            \* 2^bitsForTime, scaled down
    MaxNow,             \* bound on the seconds that pass
    MaxPackets          \* bound on the packets handled

VARIABLES
    now,
    flowTable,                          \* entry -> [pkts, time]
    numOfFlows, numOfOnePktFlows, packetsWithSmallIAT, allPackets, lastTime, isDdos,
    pc, currentTime, hash, flow,        \* of each handler
    seen                                \* real time of the last packet of an entry, -1 if none
counters == <<numOfFlows, numOfOnePktFlows>>
iat == <<packetsWithSmallIAT, allPackets, lastTime>>
locals == <<currentTime, hash, flow>>
vars == <<now, flowTable, counters, iat, isDdos, pc, locals, seen>>

Uint16 == 4 * TimeMod
setFlowData(time, pkts) == [pkts |-> pkts, time |-> time]
getNumOfPkts(f) == f.pkts
getTimestamp(f) == f.time
NoFlow == setFlowData(0, 0)
\* The FNV hash of source address and port, masked to the table's size: any
\* packet may have any hash, and different flows may share one.
getPacketHash == Hashes

Init ==
    /\ now = 0 /\ flowTable = [h \in Hashes |-> NoFlow]
    /\ numOfFlows = 1 /\ numOfOnePktFlows = 0
    /\ packetsWithSmallIAT = 0 /\ allPackets = 1 /\ lastTime = 0 /\ isDdos = 0
    /\ pc = [c \in Clones |-> "idle"]
    /\ currentTime = [c \in Clones |-> 0]
    /\ hash = [c \in Clones |-> CHOOSE h \in Hashes : TRUE]
    /\ flow = [c \in Clones |-> NoFlow]
    /\ seen = [h \in Hashes |-> -1]

Tick == now < MaxNow /\ now' = now + 1
        /\ UNCHANGED <<flowTable, counters, iat, isDdos, pc, locals, seen>>

\* Time, IAT counters and hash.  Two packets of one second, or of two seconds in
\* a row, may or may not be within iatValueNanos.  The counters are taken in one
\* step: only calculateMetrics reads them, and it may run between any two packets.
Arrive(c, h) ==
    /\ pc[c] = "idle" /\ allPackets <= MaxPackets
    /\ currentTime' = [currentTime EXCEPT ![c] = now]
    /\ \/ now - lastTime <= 1 /\ packetsWithSmallIAT' = packetsWithSmallIAT + 1
       \/ UNCHANGED packetsWithSmallIAT
    /\ lastTime' = now /\ allPackets' = allPackets + 1
    /\ hash' = [hash EXCEPT ![c] = h]
    /\ pc' = [pc EXCEPT ![c] = "read"]
    /\ UNCHANGED <<now, flowTable, counters, isDdos, flow, seen>>

Read(c) ==
    /\ pc[c] = "read"
    /\ flow' = [flow EXCEPT ![c] = flowTable[hash[c]]]
    /\ pc' = [pc EXCEPT ![c] = "count"]
    /\ UNCHANGED <<now, flowTable, counters, iat, isDdos, currentTime, hash, seen>>

timeTo14Bit(t) == t % TimeMod

\* The difference of two uint16.
Expired(c) == (timeTo14Bit(currentTime[c]) - getTimestamp(flow[c])) % Uint16 > MonitoringWindow
IsNew(c) == getNumOfPkts(flow[c]) = 0 \/ Expired(c)

\* Faulty: a flow that gets its second packet is not taken out of the count.
CountNewOnly(c) ==
    /\ pc[c] = "count"
    /\ numOfFlows' = numOfFlows + IF getNumOfPkts(flow[c]) = 0 THEN 1 ELSE 0
    /\ numOfOnePktFlows' = numOfOnePktFlows + IF IsNew(c) /\ getNumOfPkts(flow[c]) # 1 THEN 1 ELSE 0
    /\ pc' = [pc EXCEPT ![c] = "write"]
    /\ UNCHANGED <<now, flowTable, iat, isDdos, locals, seen>>
Count(c) ==
    /\ pc[c] = "count"
    /\ numOfFlows' = numOfFlows + IF getNumOfPkts(flow[c]) = 0 THEN 1 ELSE 0
    /\ numOfOnePktFlows' = numOfOnePktFlows +
          CASE IsNew(c) /\ getNumOfPkts(flow[c]) # 1 -> 1
            [] ~IsNew(c) /\ getNumOfPkts(flow[c]) = 1 -> -1
            [] OTHER -> 0
    /\ pc' = [pc EXCEPT ![c] = "write"]
    /\ UNCHANGED <<now, flowTable, iat, isDdos, locals, seen>>

Pass(c) == ~(IsNew(c) /\ isDdos = 1)

\* The store to the table; the verdict Pass(c) reads isDdos after it.
Write(c) ==
    /\ pc[c] = "write"
    /\ flowTable' = [flowTable EXCEPT ![hash[c]] =
          setFlowData(timeTo14Bit(currentTime[c]), IF IsNew(c) THEN 1 ELSE 2)]
    /\ seen' = [seen EXCEPT ![hash[c]] = currentTime[c]]
    /\ pc' = [pc EXCEPT ![c] = "idle"]
    /\ UNCHANGED <<now, counters, iat, isDdos, locals>>

\* float64(x) / float64(y) >= percent; 0 / 0 is not a number and not larger.
Reaches(x, y, percent) == (x # 0 \/ y # 0) /\ 100 * x >= percent * y

calculateMetrics ==
    /\ isDdos' = IF \/ Reaches(packetsWithSmallIAT, allPackets, IatThreshold)
                    \/ Reaches(numOfOnePktFlows, numOfFlows, PpfThreshold)
                 THEN 1 ELSE 0
    /\ UNCHANGED <<now, flowTable, counters, iat, pc, locals, seen>>

Next ==
    \/ Tick \/ calculateMetrics
    \/ \E c \in Clones : Read(c) \/ Count(c) \/ Write(c) \/ \E h \in getPacketHash : Arrive(c, h)
Spec == Init /\ [][Next]_vars
-----------------------------------------------------------------------------
\* When no packet is in a handler the counters agree with the table: one more
\* than the flows in it, and the flows with one packet.
CountersMatch ==
    (\A c \in Clones : pc[c] = "idle") =>
        /\ numOfFlows = 1 + Cardinality({h \in Hashes : flowTable[h].pkts > 0})
        /\ numOfOnePktFlows = Cardinality({h \in Hashes : flowTable[h].pkts = 1})

\* "6s - expiration time of flow in a table": a packet is treated as the first
\* of its flow if and only if none came in the last MonitoringWindow seconds.
ExpiresAfterWindow ==
    \A c \in Clones :
        pc[c] \in {"count", "write"} =>
            LET last == seen[hash[c]]
            IN  IsNew(c) <=> (last = -1 \/ currentTime[c] - last > MonitoringWindow)

\* "we drop incoming packets that were not seen earlier, but record them for
\* future": a dropped packet leaves the entry that lets the next one through.
RecordedForFuture ==
    [][\A c \in Clones :
        (Write(c) /\ ~Pass(c)) =>
            flowTable'[hash[c]] = [pkts |-> 1, time |-> timeTo14Bit(currentTime[c])]]_vars
=============================================================================
