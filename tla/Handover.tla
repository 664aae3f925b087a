------------------------------ MODULE Handover ------------------------------
(***************************************************************************)
(* How queues change hands between the instances of one segment while the  *)
(* workers run (flow/scheduler.go: constructDuplicatedIndex, stopInstance, *)
(* updatePause; flow/flow.go: the loop of segmentProcess).  An instance is *)
(* an array inIndex: the number of its queues and then the queues.  Its    *)
(* worker reads the array at every turn, without a lock, while the         *)
(* scheduler writes it.  A worker meets the scheduler only at the top of   *)
(* its loop, where it takes a pause or a stop request.                     *)
(*                                                                         *)
(* Bursts have one packet.  Rings are FIFO queues (module Ring).  Reports  *)
(* are left to module Clones, several clones per queue to Scheduler.       *)
(***************************************************************************)
EXTENDS Integers, Sequences

CONSTANTS
    NumQueues,      \* ff.inIndexNumber
    MaxInstances,   \* cores that instances of this function can get
    MaxPackets,     \* packets that arrive in each queue
    MaxChanges      \* splits and merges

HandoverAssumption ==
    /\ NumQueues \in Nat \ {0} /\ MaxInstances \in Nat \ {0}
    /\ MaxPackets \in Nat /\ MaxChanges \in Nat

Queue == 0 .. NumQueues - 1
Instance == 1 .. MaxInstances
Packet == Queue \X (1 .. MaxPackets)    \* the queue it came in, and its place there

VARIABLES
    inIndex,    \* inIndex[i]: position 0 is the length, then the queues
    at,         \* where the worker of each instance is, "off" when it does not run
    q,          \* its position in the array
    held,       \* the packet it has dequeued, <<>> when it has none
    taken,      \* how many packets of each queue have been dequeued
    out,        \* what is in each output ring
    pc,         \* what the scheduler does
    old, new,   \* the instances it splits, or merges from "new" into "old"
    k,          \* position it copies
    changes     \* splits and merges so far

vars == <<inIndex, at, q, held, taken, out, pc, old, new, k, changes>>

\* constructZeroIndex and constructNewIndex
ZeroIndex == [p \in 0 .. NumQueues |-> 0]
NewIndex == [p \in 0 .. NumQueues |-> IF p = 0 THEN NumQueues ELSE p - 1]

Init ==
    /\ inIndex = [i \in Instance |-> IF i = 1 THEN NewIndex ELSE ZeroIndex]
    /\ at = [i \in Instance |-> IF i = 1 THEN "select" ELSE "off"]
    /\ q = [i \in Instance |-> 0]
    /\ held = [i \in Instance |-> <<>>]
    /\ taken = [n \in Queue |-> 0]
    /\ out = [n \in Queue |-> <<>>]
    /\ pc = "idle" /\ old = 1 /\ new = 1 /\ k = 0 /\ changes = 0

Live == {i \in Instance : at[i] # "off"}

-----------------------------------------------------------------------------
(* Workers: segmentProcess.                                                *)

scheduler == <<pc, old, new, k, changes>>

Select(i) ==
    /\ at[i] = "select"
    /\ at' = [at EXCEPT ![i] = "loop"]
    /\ q' = [q EXCEPT ![i] = 1]
    /\ UNCHANGED <<inIndex, held, taken, out, scheduler>>

\* Faulty: the last queue is left out.
LoopShort(i) ==
    /\ at[i] = "loop"
    /\ at' = [at EXCEPT ![i] = IF q[i] < inIndex[i][0] THEN "take" ELSE "select"]
    /\ UNCHANGED <<inIndex, q, held, taken, out, scheduler>>

\* q < inIndex[0]+1
Loop(i) ==
    /\ at[i] = "loop"
    /\ at' = [at EXCEPT ![i] = IF q[i] <= inIndex[i][0] THEN "take" ELSE "select"]
    /\ UNCHANGED <<inIndex, q, held, taken, out, scheduler>>

\* IN[inIndex[q]].DequeueBurst; an empty ring is skipped.
Take(i) ==
    /\ at[i] = "take"
    /\ LET n == inIndex[i][q[i]] IN
       \/ /\ taken[n] < MaxPackets
          /\ taken' = [taken EXCEPT ![n] = @ + 1]
          /\ held' = [held EXCEPT ![i] = <<n, taken[n] + 1>>]
          /\ at' = [at EXCEPT ![i] = "put"]
          /\ UNCHANGED q
       \/ /\ taken[n] = MaxPackets
          /\ q' = [q EXCEPT ![i] = @ + 1]
          /\ at' = [at EXCEPT ![i] = "loop"]
          /\ UNCHANGED <<taken, held>>
    /\ UNCHANGED <<inIndex, out, scheduler>>

\* The burst is processed and put into OUT[index][inIndex[q]]: inIndex[q] is
\* read a second time.
Put(i) ==
    /\ at[i] = "put"
    /\ out' = [out EXCEPT ![inIndex[i][q[i]]] = Append(@, held[i])]
    /\ at' = [at EXCEPT ![i] = "loop"]
    /\ q' = [q EXCEPT ![i] = @ + 1]
    /\ held' = [held EXCEPT ![i] = <<>>]
    /\ UNCHANGED <<inIndex, taken, scheduler>>

Worker(i) == Select(i) \/ Loop(i) \/ Take(i) \/ Put(i)

-----------------------------------------------------------------------------
(* Splitting an instance.                                                  *)

workers == <<at, q, held, taken, out>>

OldLen(n) == (n \div 2) + (n % 2)
NewLen(n) == n \div 2

\* startNewInstance(constructZeroIndex(...)): the new worker runs at once.
StartNewInstance(i, j) ==
    /\ pc = "idle" /\ changes < MaxChanges
    /\ i \in Live /\ inIndex[i][0] > 1
    /\ j \in Instance \ Live
    /\ inIndex' = [inIndex EXCEPT ![j] = ZeroIndex]
    /\ at' = [at EXCEPT ![j] = "select"]
    /\ pc' = "copy" /\ old' = i /\ new' = j /\ k' = 0 /\ changes' = changes + 1
    /\ UNCHANGED <<q, held, taken, out>>

\* constructDuplicatedIndex, one write after the other.
CopyToNew ==
    /\ pc = "copy"
    /\ \/ /\ k < NewLen(inIndex[old][0])
          /\ inIndex' = [inIndex EXCEPT ![new][k + 1] =
                            inIndex[old][k + 1 + OldLen(inIndex[old][0])]]
          /\ k' = k + 1 /\ UNCHANGED pc
       \/ /\ k = NewLen(inIndex[old][0])
          /\ inIndex' = [inIndex EXCEPT ![new][0] = NewLen(inIndex[old][0])]
          /\ pc' = "shorten" /\ UNCHANGED k
    /\ UNCHANGED <<workers, old, new, changes>>

ShortenOld ==
    /\ pc = "shorten"
    /\ inIndex' = [inIndex EXCEPT ![old][0] = OldLen(@)]
    /\ pc' = "pause"
    /\ UNCHANGED <<workers, old, new, k, changes>>

\* Faulty: the pause is sent without waiting for the worker.
UpdatePauseAtOnce ==
    /\ pc = "pause"
    /\ pc' = "idle"
    /\ UNCHANGED <<workers, inIndex, old, new, k, changes>>

\* updatePause(0) waits until the worker is at the top of its loop.
UpdatePause ==
    /\ pc = "pause"
    /\ at[old] = "select"
    /\ pc' = "idle"
    /\ UNCHANGED <<workers, inIndex, old, new, k, changes>>

-----------------------------------------------------------------------------
(* Merging one instance into another: stopInstance.                        *)

StopFrom(i, j) ==
    /\ pc = "idle" /\ changes < MaxChanges
    /\ i \in Live /\ j \in Live /\ i # j
    /\ at[j] = "select"
    /\ at' = [at EXCEPT ![j] = "off"]
    /\ q' = [q EXCEPT ![j] = 0]
    /\ pc' = "merge" /\ old' = i /\ new' = j /\ k' = 0 /\ changes' = changes + 1
    /\ UNCHANGED <<held, taken, out, inIndex>>

MergeInto ==
    /\ pc = "merge"
    /\ \/ /\ k < inIndex[new][0]
          /\ inIndex' = [inIndex EXCEPT ![old][inIndex[old][0] + k + 1] = inIndex[new][k + 1]]
          /\ k' = k + 1 /\ UNCHANGED pc
       \/ /\ k = inIndex[new][0]
          /\ inIndex' = [inIndex EXCEPT ![old][0] = @ + inIndex[new][0]]
          /\ pc' = "pause" /\ UNCHANGED k
    /\ UNCHANGED <<workers, old, new, changes>>

-----------------------------------------------------------------------------
SchedulerStep == CopyToNew \/ ShortenOld \/ UpdatePause \/ MergeInto

Next ==
    \/ \E i \in Instance : Worker(i)
    \/ \E i, j \in Instance : StartNewInstance(i, j) \/ StopFrom(i, j)
    \/ SchedulerStep

Spec == Init /\ [][Next]_vars

\* Every worker has a core of its own, and the scheduler finishes what it began
\* (a worker is at "select" again and again, and takes the pause eventually).
FairSpec ==
    /\ Spec
    /\ \A i \in Instance : WF_vars(Worker(i))
    /\ SF_vars(SchedulerStep)

-----------------------------------------------------------------------------
(* Properties.                                                             *)

TypeOK ==
    /\ inIndex \in [Instance -> [0 .. NumQueues -> 0 .. NumQueues]]
    /\ at \in [Instance -> {"off", "select", "loop", "take", "put"}]
    /\ q \in [Instance -> 0 .. NumQueues + 1]
    /\ held \in [Instance -> Packet \cup {<<>>}]
    /\ taken \in [Queue -> 0 .. MaxPackets]
    /\ out \in [Queue -> Seq(Packet)]
    /\ pc \in {"idle", "copy", "shorten", "pause", "merge"}
    /\ old \in Instance /\ new \in Instance /\ k \in 0 .. NumQueues
    /\ changes \in 0 .. MaxChanges

Serves(i) == {inIndex[i][p] : p \in 1 .. inIndex[i][0]}

\* Whenever no split or merge is under way, the live instances hold each queue
\* once: constructDuplicatedIndex and stopInstance lose no queue, leave none in
\* two instances, and never write past the array.
QueuesHaveOneOwner ==
    pc = "idle" =>
        \A n \in Queue :
            \E i \in Live : \E p \in 1 .. inIndex[i][0] :
                \A j \in Live : \A r \in 1 .. inIndex[j][0] :
                    (inIndex[j][r] = n) = (j = i /\ r = p)

\* A packet leaves through the ring of the queue it came in by, although the
\* worker reads inIndex[q] once to take it and again to put it: updatePause
\* waits until nobody works on a position that a later merge overwrites.
RingsMatch == \A n \in Queue : \A p \in DOMAIN out[n] : out[n][p][1] = n

\* Two workers are on the same queue at most from the moment a split gives the
\* queue to the new instance until the old worker has taken its pause.
OneWorkerPerQueue ==
    pc \notin {"shorten", "pause"} =>
        \A i, j \in Live :
            i # j /\ at[i] = "put" /\ at[j] = "put" => held[i][1] # held[j][1]

\* Everything together: splits and merges lose no queue, leave none to two
\* workers, and move no packet to another ring.
HandoverSound == TypeOK /\ QueuesHaveOneOwner /\ OneWorkerPerQueue /\ RingsMatch

\* The packets of a queue leave in the order they came in.  Without clones this
\* is what segmentProcess is expected to do when Config.RestrictedCloning asks
\* the scheduler not to reorder.
PacketsInOrder ==
    \A n \in Queue : \A p, r \in DOMAIN out[n] : p < r => out[n][p][2] < out[n][r][2]

\* No queue is forgotten: whatever the scheduler moves, every packet that came
\* in is put into an output ring in the end.
AllPacketsLeave == <>(\A n \in Queue : Len(out[n]) = MaxPackets)
=============================================================================
