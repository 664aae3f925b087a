------------------------------ MODULE Pipeline ------------------------------
(***************************************************************************)
(* The data path: packet buffers (mbufs) travel from receivers, generators *)
(* and readers through segments and copiers to senders, writers and the    *)
(* stop thread.  Workers run side by side; a ring is the bounded FIFO      *)
(* queue that RingFIFO promises.  A worker's loop is cut into taking       *)
(* buffers and, one step each, what it does with them.                     *)
(***************************************************************************)
EXTENDS Integers, Sequences, FiniteSets, SequencesExt

CONSTANTS
    Workers,    \* the running flow functions and the stop thread
    Kind,       \* Kind[w]: which function worker w runs
    In,         \* In[w]: the ring w reads
    Outs,       \* Outs[w]: the rings w writes
    Pool,       \* Pool[w]: the mbufs of the mempool w allocates from
    Rings, StopRing,
    Cap,        \* objects a ring holds
    Burst,      \* burstSize
    MaxPackets, \* bound: packets a source takes in, if they are numbered
    Numbered,   \* FALSE: packets are not told apart and there is no bound
    FileLen,    \* packets in the file a reader reads
    Repcount    \* how often a reader reads it

VARIABLES
    ring,   \* mbufs in each ring, oldest first
    free,   \* mbufs in their mempools
    todo,   \* todo[w]: bursts in the hands of w, with what is to be done
    wire,   \* mbufs the driver sends
    lost,   \* mbufs nobody holds any more
    label,  \* label[m]: the packet in mbuf m: its source and number
    made,   \* made[w]: packets source w took in so far
    pos,    \* pos[w]: place in the file and passes through it
    sent,   \* packets handed to the driver or written, in order
    exited  \* LogFatal ended the program

vars == <<ring, free, todo, wire, lost, label, made, pos, sent, exited>>

Mbufs == UNION {Pool[w] : w \in Workers}
Packets == [from : Workers, n : 0 .. MaxPackets]

Init ==
    /\ ring = [r \in Rings |-> <<>>]
    /\ free = Mbufs
    /\ todo = [w \in Workers |-> <<>>]
    /\ wire = {} /\ lost = {}
    /\ label = [m \in Mbufs |-> [from |-> CHOOSE w \in Workers : TRUE, n |-> 0]]
    /\ made = [w \in Workers |-> 0]
    /\ pos = [w \in Workers |-> [at |-> 0, count |-> 0]]
    /\ sent = [w \in Workers |-> <<>>]
    /\ exited = FALSE

Running(w, k) == ~exited /\ Kind[w] = k /\ todo[w] = <<>>

\* Any n free mbufs of w's mempool; they differ in nothing, so the first n.
Available(w) == free \cap Pool[w]
Allocated(w, n) == SubSeq(SetToSortSeq(Available(w), <), 1, n)

Job(stage, to, bufs) == [stage |-> stage, to |-> to, bufs |-> bufs]

Number(n) == IF Numbered THEN n ELSE 0
InBound(w, n) == Number(made[w] + n) <= MaxPackets

\* The next packets of source w are written into the mbufs bufs.
TakeIn(w, bufs) ==
    /\ free' = free \ ToSet(bufs)
    /\ label' = [m \in Mbufs |->
         IF m \in ToSet(bufs)
         THEN [from |-> w, n |-> Number(made[w] + (CHOOSE i \in DOMAIN bufs : bufs[i] = m))]
         ELSE label[m]]
    /\ made' = [made EXCEPT ![w] = Number(@ + Len(bufs))]

\* Faulty: the last mbufs of a mempool are never given out.
ExhaustedEarly(w, n) ==
    /\ Cardinality(Available(w)) <= n
    /\ exited' = TRUE
    /\ UNCHANGED <<ring, free, todo, wire, lost, label, made, pos, sent>>
\* Mempool exhausted: AllocateMbufs fails and the caller ends the program.
Exhausted(w, n) ==
    /\ Cardinality(Available(w)) < n
    /\ exited' = TRUE
    /\ UNCHANGED <<ring, free, todo, wire, lost, label, made, pos, sent>>

\* receiveRSS, receiveKNI: the driver fills what mbufs there are.
Receive(w) ==
    /\ Running(w, "receive")
    /\ \E n \in 1 .. Burst :
          /\ n <= Cardinality(Available(w)) /\ InBound(w, n)
          /\ todo' = [todo EXCEPT ![w] = <<Job("push", Outs[w][1], Allocated(w, n))>>]
          /\ TakeIn(w, Allocated(w, n))
    /\ UNCHANGED <<ring, wire, lost, pos, sent, exited>>

Emit(w, n) ==
    /\ Cardinality(Available(w)) >= n
    /\ todo' = [todo EXCEPT ![w] = <<Job("enqueue", Outs[w][1], Allocated(w, n))>>]
    /\ TakeIn(w, Allocated(w, n))
    /\ UNCHANGED <<ring, wire, lost, sent, exited>>

\* pGenerate makes one packet, pFastGenerate a burst.
PGenerate(w) ==
    /\ Running(w, "generate") /\ InBound(w, 1)
    /\ (Emit(w, 1) /\ UNCHANGED pos) \/ Exhausted(w, 1)

PFastGenerate(w) ==
    /\ Running(w, "fastGenerate") /\ InBound(w, Burst)
    /\ (Emit(w, Burst) /\ UNCHANGED pos) \/ Exhausted(w, Burst)

LastPass(w) == pos[w].count + 1 = Repcount

\* read allocates an mbuf and reads the next packet into it.  At the end of the
\* file it starts over and the mbuf takes the first packet; at the last end the
\* loop is left with the mbuf in hand.
Read(w) ==
    /\ Running(w, "read") /\ pos[w].count < Repcount
    /\ \/ /\ pos[w].at < FileLen /\ InBound(w, 1)
          /\ Emit(w, 1)
          /\ pos' = [pos EXCEPT ![w].at = @ + 1]
       \/ /\ pos[w].at = FileLen /\ ~LastPass(w) /\ InBound(w, 1)
          /\ Emit(w, 1)
          /\ pos' = [pos EXCEPT ![w] = [at |-> 1, count |-> @.count + 1]]
       \/ /\ pos[w].at = FileLen /\ LastPass(w) /\ Available(w) # {}
          /\ free' = free \ ToSet(Allocated(w, 1))
          /\ lost' = lost \cup ToSet(Allocated(w, 1))
          /\ pos' = [pos EXCEPT ![w].count = @ + 1]
          /\ UNCHANGED <<ring, todo, wire, label, made, sent, exited>>
       \/ Exhausted(w, 1)

Taken(w, n) == SubSeq(ring[In[w]], 1, n)
Full(w, n) == IF Len(ring[In[w]]) < n THEN Len(ring[In[w]]) ELSE n
TakeFrom(w, n) ==
    /\ ring[In[w]] # <<>>
    /\ ring' = [ring EXCEPT ![In[w]] = SubSeq(@, n + 1, Len(@))]

\* The slice of output k when packet i of the burst goes to way[i].
BackwardSlice(burst, way, k) ==    \* Faulty: filled from its end
    LET mine == {i \in DOMAIN burst : way[i] = k}
    IN  [j \in 1 .. Cardinality(mine) |-> burst[SetToSortSeq(mine, >)[j]]]

Slice(burst, way, k) ==
    LET mine == {i \in DOMAIN burst : way[i] = k}
    IN  [j \in 1 .. Cardinality(mine) |-> burst[SetToSortSeq(mine, <)[j]]]

\* segmentProcess: every packet ends in one output slice; the slices are
\* enqueued one after the other, empty ones skipped.
Segment(w) ==
    /\ Running(w, "segment")
    /\ LET n == Full(w, Burst) IN
       /\ TakeFrom(w, n)
       /\ \E way \in [1 .. n -> DOMAIN Outs[w]] :
             todo' = [todo EXCEPT ![w] = SelectSeq(
                [k \in DOMAIN Outs[w] |-> Job("enqueue", Outs[w][k], Slice(Taken(w, n), way, k))],
                LAMBDA job : job.bufs # <<>>)]
    /\ UNCHANGED <<free, wire, lost, label, made, pos, sent, exited>>

\* pcopy: as many new mbufs as were taken, with the same packets.
Copy(w) ==
    /\ Running(w, "copy")
    /\ LET n == Full(w, Burst) IN
       \/ /\ Cardinality(Available(w)) >= n
          /\ TakeFrom(w, n)
          /\ LET copies == Allocated(w, n) IN
             /\ todo' = [todo EXCEPT ![w] = <<Job("enqueue", Outs[w][1], Taken(w, n)),
                                              Job("enqueue", Outs[w][2], copies)>>]
             /\ free' = free \ ToSet(copies)
             /\ label' = [m \in Mbufs |-> IF m \in ToSet(copies)
                                          THEN label[Taken(w, n)[CHOOSE i \in 1 .. n : copies[i] = m]]
                                          ELSE label[m]]
          /\ UNCHANGED <<wire, lost, made, pos, sent, exited>>
       \/ ring[In[w]] # <<>> /\ Exhausted(w, n)

\* nff_go_send and nff_go_stop take a burst, write takes one mbuf.
Sink(w, k, n, stage) ==
    /\ Running(w, k)
    /\ TakeFrom(w, Full(w, n))
    /\ todo' = [todo EXCEPT ![w] = <<Job(stage, In[w], Taken(w, Full(w, n)))>>]
    /\ UNCHANGED <<free, wire, lost, label, made, pos, sent, exited>>

Send(w) == Sink(w, "send", Burst, "tx")
Stop(w) == Sink(w, "stop", Burst, "free")
Write(w) == Sink(w, "write", 1, "write")
-----------------------------------------------------------------------------
Holds(w, stage) == ~exited /\ todo[w] # <<>> /\ Head(todo[w]).stage = stage
Room(r) == Cap - Len(ring[r])

\* What EnqueueBurst returns: as many as there is room for.
Done(w, r) == LET n == Len(Head(todo[w]).bufs) IN IF Room(r) < n THEN Room(r) ELSE n
Rest(s, n) == SubSeq(s, n + 1, Len(s))

\* A receiver frees what its ring does not take (handleUnpushed).
Push(w) ==
    /\ Holds(w, "push")
    /\ LET job == Head(todo[w])  n == Done(w, job.to) IN
       /\ ring' = [ring EXCEPT ![job.to] = @ \o SubSeq(job.bufs, 1, n)]
       /\ free' = free \cup ToSet(Rest(job.bufs, n))
    /\ todo' = [todo EXCEPT ![w] = Tail(@)]
    /\ UNCHANGED <<wire, lost, label, made, pos, sent, exited>>

SafeEnqueueAllTwice(w) ==    \* Faulty: spills the whole burst
    /\ Holds(w, "enqueue")
    /\ LET job == Head(todo[w])  n == Done(w, job.to) IN
       /\ ring' = [ring EXCEPT ![job.to] = @ \o SubSeq(job.bufs, 1, n)]
       /\ todo' = [todo EXCEPT ![w] =
             IF n = Len(job.bufs) THEN Tail(@)
             ELSE <<Job("spill", StopRing, job.bufs)>> \o Tail(@)]
    /\ UNCHANGED <<free, wire, lost, label, made, pos, sent, exited>>

\* safeEnqueue: what the ring does not take goes to the stop ring ...
SafeEnqueue(w) ==
    /\ Holds(w, "enqueue")
    /\ LET job == Head(todo[w])  n == Done(w, job.to) IN
       /\ ring' = [ring EXCEPT ![job.to] = @ \o SubSeq(job.bufs, 1, n)]
       /\ todo' = [todo EXCEPT ![w] =
             IF n = Len(job.bufs) THEN Tail(@)
             ELSE <<Job("spill", StopRing, Rest(job.bufs, n))>> \o Tail(@)]
    /\ UNCHANGED <<free, wire, lost, label, made, pos, sent, exited>>

\* ... and what the stop ring does not take is freed at once.
Spill(w) ==
    /\ Holds(w, "spill")
    /\ LET job == Head(todo[w])  n == Done(w, StopRing) IN
       /\ ring' = [ring EXCEPT ![StopRing] = @ \o SubSeq(job.bufs, 1, n)]
       /\ free' = free \cup ToSet(Rest(job.bufs, n))
    /\ todo' = [todo EXCEPT ![w] = Tail(@)]
    /\ UNCHANGED <<wire, lost, label, made, pos, sent, exited>>

Labels(bufs) == IF Numbered THEN [i \in DOMAIN bufs |-> label[bufs[i]]] ELSE <<>>

\* nff_go_send: the driver takes the first n, the others are freed.
Transmit(w) ==
    /\ Holds(w, "tx")
    /\ LET job == Head(todo[w]) IN \E n \in 0 .. Len(job.bufs) :
          /\ wire' = wire \cup ToSet(SubSeq(job.bufs, 1, n))
          /\ sent' = [sent EXCEPT ![w] = @ \o Labels(SubSeq(job.bufs, 1, n))]
          /\ free' = free \cup ToSet(Rest(job.bufs, n))
    /\ todo' = [todo EXCEPT ![w] = Tail(@)]
    /\ UNCHANGED <<ring, lost, label, made, pos, exited>>

\* write frees the mbuf once its packet is in the file.
WriteFile(w) ==
    /\ Holds(w, "write")
    /\ sent' = [sent EXCEPT ![w] = @ \o Labels(Head(todo[w]).bufs)]
    /\ free' = free \cup ToSet(Head(todo[w]).bufs)
    /\ todo' = [todo EXCEPT ![w] = Tail(@)]
    /\ UNCHANGED <<ring, wire, lost, label, made, pos, exited>>

FreeAllButLast(w) ==    \* Faulty: off by one
    /\ Holds(w, "free")
    /\ free' = free \cup ToSet(Front(Head(todo[w]).bufs))
    /\ todo' = [todo EXCEPT ![w] = Tail(@)]
    /\ UNCHANGED <<ring, wire, lost, label, made, pos, sent, exited>>

\* nff_go_stop and directStop free each mbuf of the burst.
FreeAll(w) ==
    /\ Holds(w, "free")
    /\ free' = free \cup ToSet(Head(todo[w]).bufs)
    /\ todo' = [todo EXCEPT ![w] = Tail(@)]
    /\ UNCHANGED <<ring, wire, lost, label, made, pos, sent, exited>>

\* The driver gives a sent mbuf back.
TxDone(m) ==
    /\ ~exited /\ m \in wire
    /\ wire' = wire \ {m} /\ free' = free \cup {m}
    /\ UNCHANGED <<ring, todo, lost, label, made, pos, sent, exited>>

Step(w) ==
    \/ Receive(w) \/ PGenerate(w) \/ PFastGenerate(w) \/ Read(w)
    \/ Segment(w) \/ Copy(w) \/ Send(w) \/ Stop(w) \/ Write(w)
    \/ Push(w) \/ SafeEnqueue(w) \/ Spill(w) \/ Transmit(w) \/ WriteFile(w) \/ FreeAll(w)

\* Nothing in hand, or no program any more: the loops poll on.
Poll ==
    /\ exited \/ \A w \in Workers : todo[w] = <<>>
    /\ UNCHANGED vars

Next == (\E w \in Workers : Step(w)) \/ (\E m \in Mbufs : TxDone(m)) \/ Poll

\* A worker has a core of its own and never blocks; the driver sends each mbuf.
Fairness == (\A w \in Workers : WF_vars(Step(w))) /\ (\A m \in Mbufs : WF_vars(TxDone(m)))

Spec == Init /\ [][Next]_vars
FairSpec == Spec /\ Fairness
-----------------------------------------------------------------------------
TypeOK ==
    /\ ring \in [Rings -> Seq(Mbufs)]
    /\ free \subseteq Mbufs /\ wire \subseteq Mbufs /\ lost \subseteq Mbufs
    /\ label \in [Mbufs -> Packets]
    /\ \A r \in Rings : Len(ring[r]) <= Cap
    /\ exited \in BOOLEAN

\* The mbufs in the hands of worker w, and their number.
InHand(w) == UNION {ToSet(todo[w][j].bufs) : j \in DOMAIN todo[w]}
HandLen(w) == FoldSeq(LAMBDA job, n : n + Len(job.bufs), 0, todo[w])
Total(f) == FoldFunction(+, 0, f)

\* Each mbuf is in one place, whatever rings are full: it is not enqueued
\* twice, freed while in use, freed twice or forgotten by safeEnqueue,
\* handleUnpushed, pcopy and the sinks.  (Every mbuf is somewhere, and all
\* places together hold no more than there are.)
OwnedOnce ==
    /\ Mbufs = free \cup wire \cup lost \cup UNION {ToSet(ring[r]) : r \in Rings}
                    \cup UNION {InHand(w) : w \in Workers}
    /\ Cardinality(Mbufs) = Cardinality(free) + Cardinality(wire) + Cardinality(lost)
            + Total([r \in Rings |-> Len(ring[r])]) + Total([w \in Workers |-> HandLen(w)])

\* Only the reader forgets an mbuf, at its last end of file, and only one.
OnlyReadersLose ==
    Cardinality(lost) <= Cardinality({w \in Workers : Kind[w] = "read" /\ pos[w].count = Repcount})

\* Each sender and each writer passes on the packets of a source in the order
\* in which it took them in, also when bursts are cut and their rests dropped.
FlowsInOrder ==
    \A w \in Workers : \A i, j \in DOMAIN sent[w] :
        i < j /\ sent[w][i].from = sent[w][j].from => sent[w][i].n < sent[w][j].n

\* A mempool that holds what the rings and workers after it can hold is
\* never exhausted: AllocateMbufs does not end the program.
NeverExhausted == ~exited

\* Every mbuf that leaves its mempool comes back, unless a reader lost it.
MbufsReturn == \A m \in Mbufs : (m \notin free) ~> (m \in free \cup lost)

\* The documentation of SetReceiverFile: "If repcount = -1, file is read
\* infinitely in circle", so a reader told so reads a packet.
ReadsInCircle == \A w \in Workers : Kind[w] = "read" /\ Repcount = -1 => <>(made[w] > 0)
=============================================================================
