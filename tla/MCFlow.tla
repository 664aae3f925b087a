------------------------------- MODULE MCFlow -------------------------------
(***************************************************************************)
(* The parts of package flow that build and steer a graph, in one run:     *)
(* partitioners, the walk through a segment, timers, the construction of   *)
(* the graph, and ports.  They share no state.  part names the one that    *)
(* moves in a behaviour; the others stay where they begin.                 *)
(***************************************************************************)
EXTENDS Partition, Sequences

VARIABLES
    part,
    phase, burst, verdict, i, currentFunc, sContext, sOut, def, answers, vContext, vOut,
    list, contexts, checks, check, ticked, adding, unused, stopped, pc, j, n, t, range, handled, panicked,
    g, started, calls,
    conf, state, port, up, at, senders, busy, usedCores, coreIndex, stopCore, workers, errors

routingVars == <<phase, burst, verdict, i, currentFunc, sContext, sOut, def, answers, vContext, vOut>>
timerVars == <<list, contexts, checks, check, ticked, adding, unused, stopped, pc, j, n, t, range, handled, panicked>>
graphVars == <<g, started, calls>>
portsVars == <<conf, state, port, up, at, senders, busy, usedCores, coreIndex, stopCore, workers, errors>>
-----------------------------------------------------------------------------
\* A splitter over a handler with a separator, a partitioner and a slice.
Node(kind, next, o) == [kind |-> kind, next |-> next, bufIndex |-> o]
Segment ==
    [split  |-> Node("split", <<"handle", "part", "s5">>, 0),
     handle |-> Node("handle", <<"sep">>, 0),
     sep    |-> Node("separate", <<"s1", "s2">>, 0),
     part   |-> Node("partition", <<"s3", "s4">>, 0),
     s1 |-> Node("slice", <<>>, 0), s2 |-> Node("slice", <<>>, 1),
     s3 |-> Node("slice", <<>>, 2), s4 |-> Node("slice", <<>>, 3),
     s5 |-> Node("slice", <<>>, 4)]

\* The separator is asked only about what the splitter sends its way.
UserAnswers == [{"split", "sep"} -> [1..3 -> 0..2]]
Legal == {v \in UserAnswers : \A p \in 1..3 : v["sep"][p] < IF v["split"][p] = 0 THEN 2 ELSE 1}

\* Configurations that ask for defaults or for other values.
Args ==
    {[RingSize |-> 0, ScaleTime |-> 0, DebugTime |-> 0, NeedKNI |-> TRUE, MaxRecv |-> 0,
      MaxInIndex |-> x, DisableScheduler |-> FALSE, StopOnDedicatedCore |-> s] :
        x \in {0, 2}, s \in BOOLEAN}

R == INSTANCE Routing WITH Tree <- Segment, Verdicts <- Legal, FirstFunc <- "split",
                           BurstSize <- 3, N <- 2, M <- 3, n <- burst
T == INSTANCE Timer WITH Timers <- 1, Variants <- {"v1", "v2", "v3"}, None <- "none"
G == INSTANCE Graph WITH Widths <- {1, 2}, MaxInIndex <- 2, MaxSplit <- 2, MaxCalls <- 4
\* Two ports, one with more receive queues than wanted.
P == INSTANCE Ports WITH NumPorts <- 2, MaxRxQueues <- [p \in 0..1 |-> IF p = 0 THEN 1 ELSE 4],
                         NumCores <- 6, ArgSets <- Args, MaxTx <- 2, MaxErrors <- 1, phase <- state
-----------------------------------------------------------------------------
FlowInit ==
    /\ part \in {"partition", "routing", "timer", "graph", "ports"}
    /\ Init /\ R!Init /\ T!Init /\ G!Init /\ P!Init

Partitioning(A) == part = "partition" /\ A /\ UNCHANGED <<part, routingVars, timerVars, graphVars, portsVars>>
Routing(A) == part = "routing" /\ A /\ UNCHANGED <<part, vars, timerVars, graphVars, portsVars>>
Timing(A) == part = "timer" /\ A /\ UNCHANGED <<part, vars, routingVars, graphVars, portsVars>>
Building(A) == part = "graph" /\ A /\ UNCHANGED <<part, vars, routingVars, timerVars, portsVars>>
Porting(A) == part = "ports" /\ A /\ UNCHANGED <<part, vars, routingVars, timerVars, graphVars>>

FlowNext ==
    \/ \E c \in Clones : Partitioning(Switch(c)) \/ Partitioning(Stay(c))
    \/ Routing(R!Dequeue) \/ Routing(R!Scalar) \/ Routing(R!ToVector) \/ Routing(R!Vector) \/ Routing(R!Done)
    \/ \E x \in T!Timer :
          Timing(T!Stop(x)) \/ Timing(T!Tick(x)) \/ \E v \in {"v1", "v2", "v3"} : Timing(T!AddContext(x, v))
    \/ \E v \in {"v1", "v2", "v3"} : Timing(T!Reset(v))
    \/ Timing(T!AddCheck) \/ Timing(T!Wake) \/ Timing(T!NextTimer) \/ Timing(T!EndChecks) \/ Timing(T!ClearCheck)
    \/ Timing(T!CallHandler) \/ Timing(T!RemoveVariant) \/ Timing(T!Dead)
    \/ \E kind \in {"receiver", "generator"}, w \in {1, 2} : Building(G!SetSource(kind, w))
    \/ \E f \in G!Flows :
          \/ Building(G!SetSink(f)) \/ Building(G!SetCopier(f)) \/ Building(G!SetPartitioner(f))
          \/ Building(G!SetStopper(f))
          \/ \E type \in G!Types :
                \/ Building(G!SetHandler(f, type)) \/ Building(G!SetSeparator(f, type))
                \/ Building(G!SetHandlerDrop(f, type))
                \/ \E w \in 1..2 : Building(G!SetSplitter(f, type, w))
          \/ \E h \in G!Flows : Building(G!SetMerger(<<f, h>>))
    \/ Building(G!SystemStart) \/ Building(G!SystemStop)
    \/ \E a \in Args : Porting(P!SystemInit(a))
    \/ \E p \in 0..1 : Porting(P!SetReceiver(p)) \/ Porting(P!SetSender(p)) \/ Porting(P!CreateKniDevice(p))
    \/ Porting(P!SystemStart) \/ Porting(P!CreatePort) \/ Porting(P!StartScheduler) \/ Porting(P!SystemStop)
    \/ Porting(P!StopPort) \/ Porting(P!FreeMempools) \/ Porting(P!Stuck)

FlowSpec == FlowInit /\ [][FlowNext]_<<part, vars, routingVars, timerVars, graphVars, portsVars>>
-----------------------------------------------------------------------------
\* Routing: scalar and vector code send the same packets to the same outputs;
\* on the way every packet is in one mask or one output slice, and the stack of
\* segmentProcess stays within the burst and the tree.
RoutedRight == R!SameRouting /\ R!OnePlaceEach /\ R!StackFits
\* Timer: a variant's handler is called at most once and with its own context;
\* contexts and checks stay parallel while variants come and expire.
TimersSound == T!TypeOK /\ T!HandledOnce /\ T!PairsAligned
\* Graph: after every call, failed ones included, openFlowsNumber counts the
\* open flows, one open flow holds each branch, a segment does not mix scalar
\* and vector functions, no ring has two readers, and a function finds as many
\* queues in the rings it writes as it has.
GraphSound ==
    /\ G!TypeOK /\ G!OpenFlowsCounted /\ G!BranchesHeldOnce
    /\ G!SegmentsOfOneType /\ G!OneReader /\ G!WidthsFit
\* Graph: in a system SystemStart accepts, no packet gets stuck.
StartedComplete == G!StartedComplete
\* Ports: two senders never share a send queue of a port, the queues a running
\* system uses were set up when its ports started, all cores come back, and
\* nothing of one configuration is left for the next after SystemStop.
PortsRight ==
    /\ [](P!TypeOK /\ P!SendQueuesDistinct /\ P!QueuesSetUp /\ P!CoresReturned)
    /\ P!StopForgets
=============================================================================
