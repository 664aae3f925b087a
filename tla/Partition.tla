----------------------------- MODULE Partition ------------------------------
(***************************************************************************)
(* SetPartitioner: N packets stay in the flow, the next M go to a new one. *)
(* Each clone of the segment that holds the partitioner gets its own copy  *)
(* of the context; a packet is taken by any clone.  The scalar and the     *)
(* vector function change the context alike.                               *)
(***************************************************************************)
EXTENDS Naturals

CONSTANTS N, M, Clones
ASSUME PartitionAssumption == N \in Nat \ {0} /\ M \in Nat \ {0}

VARIABLES
    currentAnswer, currentCompare, currentPacketNumber,  \* context of each clone
    last, run, first    \* answer to the last packet, how many packets in a row
                        \* had it, and whether no answer came before that
ctx == <<currentAnswer, currentCompare, currentPacketNumber>>
vars == <<currentAnswer, currentCompare, currentPacketNumber, last, run, first>>

\* partitionCtx.Copy
Init ==
    /\ currentAnswer = [c \in Clones |-> 0]
    /\ currentCompare = [c \in Clones |-> N]
    /\ currentPacketNumber = [c \in Clones |-> 0]
    /\ last = 0 /\ run = 0 /\ first = TRUE

Answered(a) ==
    /\ last' = a
    /\ run' = IF a = last THEN run + 1 ELSE 1
    /\ first' = IF a = last THEN first ELSE FALSE

FullEarly(c) == currentPacketNumber[c] + 2 = currentCompare[c]   \* Faulty: one packet early
Full(c) == currentPacketNumber[c] + 1 = currentCompare[c]

\* partition and vPartition
Switch(c) ==
    /\ Full(c)
    /\ currentAnswer' = [currentAnswer EXCEPT ![c] = 1 - @]
    /\ currentCompare' = [currentCompare EXCEPT ![c] = N + M - @]
    /\ currentPacketNumber' = [currentPacketNumber EXCEPT ![c] = 0]
    /\ Answered(1 - currentAnswer[c])

Stay(c) ==
    /\ ~Full(c)
    /\ currentPacketNumber' = [currentPacketNumber EXCEPT ![c] = @ + 1]
    /\ Answered(currentAnswer[c])
    /\ UNCHANGED <<currentAnswer, currentCompare>>

Next == \E c \in Clones : Switch(c) \/ Stay(c)
Spec == Init /\ [][Next]_vars
-----------------------------------------------------------------------------
\* With one clone, once the first packets are through, exactly N packets in a
\* row stay in the flow and exactly M go to the new one; the first time only
\* N - 1 stay, because partition switches before it answers the N-th packet.
RunsExact ==
    [][last' # last => run = IF first THEN N - 1 ELSE IF last = 0 THEN N ELSE M]_vars

\* Types of the contexts and of the history.
TypeOK ==
    /\ currentAnswer \in [Clones -> {0, 1}]
    /\ currentCompare \in [Clones -> {N, M}]
    /\ currentPacketNumber \in [Clones -> Nat]
    /\ last \in {0, 1} /\ run \in Nat /\ first \in BOOLEAN

\* The context of a clone that answered every packet so far.
InStepOf(c) ==
    /\ currentAnswer[c] = last
    /\ currentCompare[c] = IF last = 0 THEN N ELSE M
    /\ currentPacketNumber[c] < currentCompare[c]
    /\ run = IF first THEN currentPacketNumber[c] ELSE currentPacketNumber[c] + 1
    /\ first => last = 0

\* The inductive invariant behind RunsExact: the only clone and the packets
\* answered so far stay in step.
InStep == TypeOK /\ \A c \in Clones : InStepOf(c)

\* The documentation of SetPartitioner: "Each loop N packets will be remained in
\* input flow, next M packets will be sent to new flow", the first loop too.
EachLoopExact ==
    [][last' # last => run = IF last = 0 THEN N ELSE M]_vars
=============================================================================
