------------------------------ MODULE MCWorkers -----------------------------
(***************************************************************************)
(* What has to come to an end while goroutines run side by side, in one    *)
(* run: SystemStop, a pass of the scheduler over the clones of an          *)
(* instance, queues that move between workers, bursts in a ring, and mbufs *)
(* on their way.  They share no state.  part names the one that moves in a *)
(* behaviour; the others stay where they begin.  The ring is met twice:    *)
(* two producers with one consumer, and one producer with two consumers.   *)
(***************************************************************************)
EXTENDS Workers

VARIABLES
    part,
    prodHead, prodTail, consHead, consTail, slots, rPc, head, room, done, buf, want, got,
    ring, free, todo, wire, lost, label, made, pos, sent, exited

ringVars == <<prodHead, prodTail, consHead, consTail, slots, rPc, head, room, done, buf, want, got>>
pipelineVars == <<ring, free, todo, wire, lost, label, made, pos, sent, exited>>
allVars == <<part, vars, clonesVars, lifeVars, ringVars, pipelineVars>>
-----------------------------------------------------------------------------
\* receive -> segment -> send, one branch stopped.
StopKind == [rx |-> "receive", seg |-> "segment", tx |-> "send", stop |-> "stop"]
StopWorkers == DOMAIN StopKind
StopIn == [rx |-> 0, seg |-> 1, tx |-> 2, stop |-> 0]
StopOuts == [rx |-> <<1>>, seg |-> <<0, 2>>, tx |-> <<>>, stop |-> <<>>]
StopPool == [w \in StopWorkers |-> IF w = "rx" THEN 1 .. 3 ELSE {}]

AllFaults == INSTANCE Lifecycle WITH Faults <- {"early", "start", "kni"}
Ring == INSTANCE Ring WITH Producers <- {"p1", "p2"}, Consumers <- {"c1", "c2"}, Item <- {"a"}, NoItem <- "none",
        Size <- 2, Word <- 4, MaxBurst <- 1, pc <- rPc
B == INSTANCE Pipeline WITH Workers <- StopWorkers, Kind <- StopKind, In <- StopIn, Outs <- StopOuts,
        Pool <- StopPool, Rings <- 0 .. 2, StopRing <- 0, Cap <- 2, Burst <- 2, Numbered <- FALSE,
        MaxPackets <- 0, FileLen <- 1, Repcount <- 1
-----------------------------------------------------------------------------
WorkersInit ==
    /\ part \in {"stop", "faults", "clones", "handover", "enqueue", "dequeue", "pipeline"}
    /\ L!Init /\ C!Init /\ Init /\ B!Init
    /\ Ring!Init /\ prodHead = 0

Stopping(A) == part = "stop" /\ A /\ UNCHANGED <<part, clonesVars, vars, ringVars, pipelineVars>>
Failing(A) == part = "faults" /\ A /\ UNCHANGED <<part, clonesVars, vars, ringVars, pipelineVars>>
Cloning(A) == part = "clones" /\ A /\ UNCHANGED <<part, lifeVars, vars, ringVars, pipelineVars>>
Moving(A) == part = "handover" /\ A /\ UNCHANGED <<part, lifeVars, clonesVars, ringVars, pipelineVars>>
Queueing(A) == part \in {"enqueue", "dequeue"} /\ A /\ UNCHANGED <<part, lifeVars, clonesVars, vars, pipelineVars>>
Forwarding(A) == part = "pipeline" /\ A /\ UNCHANGED <<part, lifeVars, clonesVars, vars, ringVars>>

\* The caller need not call again.
Over == part \in {"stop", "faults"} /\ UNCHANGED allVars

WorkersNext ==
    \/ Stopping(L!CallStart) \/ Stopping(L!CallStop) \/ Stopping(L!SetFlag) \/ Stopping(L!StartThread)
    \/ Stopping(L!StartInstance) \/ Stopping(L!SchedulePass) \/ Stopping(L!ScheduleEnds) \/ Stopping(L!Request)
    \/ Stopping(L!Wait) \/ Stopping(L!StopInstance) \/ Stopping(L!FreePort)
    \/ \E t \in Threads : Stopping(L!ThreadLeaves(t)) \/ Stopping(L!ThreadStopped(t))
    \/ Failing(AllFaults!CallStart) \/ Failing(AllFaults!CallStop) \/ Failing(AllFaults!CallStopAgain)
    \/ Failing(AllFaults!SetFlag) \/ Failing(AllFaults!StartThread) \/ Failing(AllFaults!StartInstance)
    \/ Failing(AllFaults!StartFails) \/ Failing(AllFaults!SchedulePass) \/ Failing(AllFaults!ScheduleEnds)
    \/ Failing(AllFaults!Request) \/ Failing(AllFaults!Wait) \/ Failing(AllFaults!StopInstance)
    \/ Failing(AllFaults!FreePort)
    \/ \E t \in Threads : Failing(AllFaults!ThreadLeaves(t)) \/ Failing(AllFaults!ThreadStopped(t))
    \/ Over
    \/ Cloning(C!Wake) \/ Cloning(C!Drop) \/ Cloning(C!Collect) \/ Cloning(C!Drain) \/ Cloning(C!Decide)
    \/ Cloning(C!EndPass) \/ Cloning(C!Ready) \/ Cloning(C!UpdatePause) \/ Cloning(C!StopClone)
    \/ Cloning(C!Answer) \/ Cloning(C!StartNewInstance) \/ \E c \in C!Slot : Cloning(C!Tick(c))
    \/ \E i \in Instance :
          \/ Moving(Select(i)) \/ Moving(Loop(i)) \/ Moving(Take(i)) \/ Moving(Put(i))
          \/ \E j \in Instance : Moving(StartNewInstance(i, j)) \/ Moving(StopFrom(i, j))
    \/ Moving(CopyToNew) \/ Moving(ShortenOld) \/ Moving(UpdatePause) \/ Moving(MergeInto)
    \/ \E p \in {"p1", "p2"} :
          \/ (part = "enqueue" \/ p = "p1") /\ Queueing(Ring!EnqueueBurst(p, <<"a">>))
          \/ Queueing(Ring!RetryEnqueue(p)) \/ Queueing(Ring!LoadConsTail(p)) \/ Queueing(Ring!CasProdHead(p)) \/ Queueing(Ring!WriteSlot(p))
          \/ Queueing(Ring!PublishProdTail(p))
    \/ \E c \in {"c1", "c2"} :
          \/ (part = "dequeue" \/ c = "c1") /\ Queueing(Ring!DequeueBurst(c, 1))
          \/ Queueing(Ring!RetryDequeue(c)) \/ Queueing(Ring!LoadProdTail(c))
          \/ Queueing(Ring!CasConsHead(c)) \/ Queueing(Ring!ReadSlot(c)) \/ Queueing(Ring!PublishConsTail(c))
    \/ \E w \in StopWorkers :
          \/ Forwarding(B!Receive(w)) \/ Forwarding(B!Segment(w)) \/ Forwarding(B!Send(w)) \/ Forwarding(B!Stop(w))
          \/ Forwarding(B!Push(w)) \/ Forwarding(B!SafeEnqueue(w)) \/ Forwarding(B!Spill(w))
          \/ Forwarding(B!Transmit(w)) \/ Forwarding(B!FreeAll(w))
    \/ (\E m \in B!Mbufs : Forwarding(B!TxDone(m))) \/ Forwarding(B!Poll)

\* What each component's own specification assumes (without faults).
WorkersFairness ==
    /\ WF_allVars(Stopping(L!SetFlag)) /\ WF_allVars(Stopping(L!StartThread))
    /\ WF_allVars(Stopping(L!StartInstance)) /\ WF_allVars(Stopping(L!SchedulePass)) /\ WF_allVars(Stopping(L!ScheduleEnds))
    /\ WF_allVars(Stopping(L!Request)) /\ WF_allVars(Stopping(L!Wait)) /\ WF_allVars(Stopping(L!StopInstance))
    /\ WF_allVars(Stopping(L!FreePort))
    /\ \A t \in Threads : WF_allVars(Stopping(L!ThreadLeaves(t))) /\ WF_allVars(Stopping(L!ThreadStopped(t)))
    /\ WF_allVars(Cloning(C!SchedulerStep)) /\ \A c \in C!Slot : WF_allVars(Cloning(C!Tick(c)))
    /\ \A i \in Instance : WF_allVars(Moving(Worker(i)))
    /\ SF_allVars(Moving(SchedulerStep))
    /\ \A p \in {"p1", "p2"} : WF_allVars(Queueing(Ring!EnqueueStep(p)))
    /\ \A c \in {"c1", "c2"} : WF_allVars(Queueing(Ring!DequeueStep(c)))
    /\ \A w \in StopWorkers : WF_allVars(Forwarding(B!Step(w)))
    /\ \A m \in B!Mbufs : WF_allVars(Forwarding(B!TxDone(m)))

WorkersSpec == WorkersInit /\ [][WorkersNext]_allVars /\ WorkersFairness
-----------------------------------------------------------------------------
\* Clones: a pass that has begun ends.
PassEnds == C!PassEnds
\* Handover: every packet that came in is put into an output ring in the end.
PacketsLeave == part = "handover" => AllPacketsLeave
\* Ring: a burst that has claimed its range is published.
ClaimsGetPublished == Ring!ClaimsGetPublished
\* Pipeline: every mbuf that leaves its mempool comes back.
MbufsReturn == B!MbufsReturn
\* Lifecycle: without faults every call of SystemStop returns.
EveryStopReturns == part = "stop" => L!StopReturns
=============================================================================
