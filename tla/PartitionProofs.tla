-------------------------- MODULE PartitionProofs ---------------------------
(***************************************************************************)
(* For every N and M a partitioner that is not cloned cuts its flow into   *)
(* runs of N and M packets.                                                *)
(***************************************************************************)
EXTENDS Partition, TLAPS

\* The context starts in step with the packets answered.
LEMMA InStepInit == ASSUME NEW c0, Clones = {c0}, Init PROVE InStep
  BY PartitionAssumption DEF Init, InStep, InStepOf, TypeOK

\* partition and vPartition keep it in step.
LEMMA InStepNext ==
  ASSUME NEW c0, Clones = {c0}, InStep, [Next]_vars
  PROVE  InStep'
<1> USE PartitionAssumption
<1>1. c0 \in Clones /\ \A c \in Clones : c = c0
  OBVIOUS
<1>2. TypeOK /\ InStepOf(c0)
  BY <1>1 DEF InStep
<1>3. ASSUME TypeOK', InStepOf(c0)' PROVE InStep'
  BY <1>1, <1>3 DEF InStep
<1>4. CASE Switch(c0)
  <2>1. /\ currentAnswer'[c0] = 1 - currentAnswer[c0]
        /\ currentCompare'[c0] = N + M - currentCompare[c0]
        /\ currentPacketNumber'[c0] = 0
    BY <1>1, <1>2, <1>4 DEF Switch, TypeOK
  <2>2. last' = 1 - last /\ run' = 1 /\ first' = FALSE
    <3>1. Answered(1 - last)
      BY <1>2, <1>4 DEF Switch, InStepOf
    <3>2. 1 - last # last
      BY <1>2 DEF TypeOK
    <3>3. QED
      BY <3>1, <3>2 DEF Answered
  <2>0. 1 - currentAnswer[c0] \in {0, 1} /\ N + M - currentCompare[c0] \in {N, M}
    BY <1>1, <1>2 DEF TypeOK
  <2>3. TypeOK'
    <3>1. currentAnswer' \in [Clones -> {0, 1}]
      BY <1>2, <1>4, <2>0 DEF Switch, TypeOK
    <3>2. currentCompare' \in [Clones -> {N, M}]
      BY <1>2, <1>4, <2>0 DEF Switch, TypeOK
    <3>3. currentPacketNumber' \in [Clones -> Nat]
      BY <1>2, <1>4 DEF Switch, TypeOK
    <3>4. last' \in {0, 1} /\ run' \in Nat
      BY <1>2, <2>2 DEF TypeOK
    <3>5. first' \in BOOLEAN
      BY <2>2
    <3>6. QED
      BY <3>1, <3>2, <3>3, <3>4, <3>5 DEF TypeOK
  <2>4. InStepOf(c0)'
    BY <1>2, <2>1, <2>2 DEF InStepOf, TypeOK
  <2>5. QED
    BY <1>3, <2>3, <2>4
<1>5. CASE Stay(c0)
  <2>1. /\ currentPacketNumber'[c0] = currentPacketNumber[c0] + 1
        /\ currentPacketNumber[c0] + 1 # currentCompare[c0]
        /\ UNCHANGED <<currentAnswer, currentCompare>>
    BY <1>1, <1>2, <1>5 DEF Stay, Full, TypeOK
  <2>2. last' = last /\ run' = run + 1 /\ first' = first
    BY <1>2, <1>5 DEF Stay, Answered, TypeOK, InStepOf
  <2>3. TypeOK'
    BY <1>1, <1>2, <1>5, <2>1, <2>2 DEF Stay, TypeOK
  <2>4. currentCompare[c0] \in Nat /\ currentPacketNumber[c0] \in Nat
    BY <1>1, <1>2 DEF TypeOK
  <2>5. InStepOf(c0)'
    BY <1>2, <2>1, <2>2, <2>4 DEF InStepOf, TypeOK
  <2>6. QED
    BY <1>3, <2>3, <2>5
<1>6. CASE UNCHANGED vars
  BY <1>2, <1>3, <1>6 DEF vars, InStepOf, TypeOK
<1>7. QED
  BY <1>1, <1>4, <1>5, <1>6 DEF Next

\* A step that ends a run ends one of the right length.
LEMMA RunEnds ==
  ASSUME NEW c0, Clones = {c0}, InStep, [Next]_vars
  PROVE  [last' # last => run = IF first THEN N - 1 ELSE IF last = 0 THEN N ELSE M]_vars
<1> USE PartitionAssumption
<1>1. c0 \in Clones /\ \A c \in Clones : c = c0
  OBVIOUS
<1>2. CASE Switch(c0)
  BY <1>1, <1>2 DEF Switch, Full, InStep, InStepOf, TypeOK
<1>3. CASE Stay(c0)
  BY <1>1, <1>3 DEF Stay, Answered, InStep, InStepOf, TypeOK
<1>4. CASE UNCHANGED vars
  BY <1>4 DEF vars
<1>5. QED
  BY <1>1, <1>2, <1>3, <1>4 DEF Next

\* A partitioner with one clone answers N packets with 0, then M packets with
\* 1, and so on, after a first run of N - 1.
THEOREM OneCloneRunsExact ==
  ASSUME NEW CONSTANT c0, Clones = {c0}
  PROVE  Spec => RunsExact
<1>1. Init => InStep
  BY InStepInit
<1>2. InStep /\ [Next]_vars => InStep'
  BY InStepNext
<1>3. InStep /\ [Next]_vars => [last' # last => run = IF first THEN N - 1 ELSE IF last = 0 THEN N ELSE M]_vars
  BY RunEnds
<1>4. QED
  BY <1>1, <1>2, <1>3, PTL DEF Spec, RunsExact
=============================================================================
