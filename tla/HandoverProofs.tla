---- MODULE HandoverProofs ----
EXTENDS Handover, FiniteSetTheorems, TLAPS

\* The instances that own queues: the live ones, and the one being merged away.
Owners == Live \cup (IF pc = "merge" THEN {new} ELSE {})

\* How many of the first positions of its array an instance owns: an instance
\* that is being split has given the others away before its length says so.
Owned(i) == IF pc = "shorten" /\ i = old THEN OldLen(inIndex[i][0]) ELSE inIndex[i][0]

\* Every queue is owned, at one position of one instance.
Split ==
    /\ \A i, j \in Owners : \A p \in 1 .. Owned(i), r \in 1 .. Owned(j) :
          inIndex[i][p] = inIndex[j][r] => i = j /\ p = r
    /\ \A n \in Queue : \E i \in Owners : \E p \in 1 .. Owned(i) : inIndex[i][p] = n

\* Where the scheduler is in a split or a merge, and what it has copied.
Progress ==
    /\ pc \in {"copy", "shorten"} => old # new /\ old \in Live /\ new \in Live /\ inIndex[old][0] > 1
    /\ pc = "copy" => inIndex[new][0] = 0 /\ k <= NewLen(inIndex[old][0])
          /\ \A p \in 1 .. k : inIndex[new][p] = inIndex[old][p + OldLen(inIndex[old][0])]
    /\ pc = "pause" => old \in Live
    /\ pc = "merge" => old \in Live /\ new \notin Live /\ k <= inIndex[new][0]
          /\ \A p \in 1 .. k : inIndex[old][inIndex[old][0] + p] = inIndex[new][p]

\* The arrays hold queues.
Arrays == \A i \in Instance : \A p \in 1 .. NumQueues : inIndex[i][p] \in Queue

\* A worker that handles a queue is at a position its instance owns, or took it
\* before the last split and has not taken its pause yet; the packet it holds is
\* from the queue at that position.
Place(i) ==
    /\ at[i] \in {"loop", "take", "put"} => q[i] >= 1
    /\ at[i] \in {"take", "put"} =>
          q[i] <= NumQueues /\ (q[i] <= inIndex[i][0] \/ (pc = "pause" /\ i = old))
    /\ at[i] = "put" => held[i] \in Packet /\ held[i][1] = inIndex[i][q[i]]
Places == \A i \in Instance : Place(i)

HandoverInv == TypeOK /\ Arrays /\ Split /\ Progress /\ Places /\ RingsMatch


\* A split halves the queues of an instance.
LEMMA Halves ==
    \A n \in Nat : /\ OldLen(n) \in Nat /\ NewLen(n) \in Nat /\ OldLen(n) + NewLen(n) = n
                   /\ OldLen(n) <= n
BY DEF OldLen, NewLen

\* What the positions in an array are.
LEMMA Lengths ==
    ASSUME HandoverAssumption, HandoverInv
    PROVE  \A i \in Instance : /\ inIndex[i] \in [0 .. NumQueues -> 0 .. NumQueues]
                               /\ inIndex[i][0] \in Nat /\ inIndex[i][0] <= NumQueues
                               /\ Owned(i) \in Nat /\ Owned(i) <= NumQueues
<1>1. \A i \in Instance : inIndex[i] \in [0 .. NumQueues -> 0 .. NumQueues]
  BY Zenon DEF HandoverInv, TypeOK
<1>2. \A i \in Instance : inIndex[i][0] \in Nat /\ inIndex[i][0] <= NumQueues
  BY <1>1 DEF HandoverAssumption
<1>3. ASSUME NEW i \in Instance PROVE Owned(i) \in Nat /\ Owned(i) <= NumQueues
  <2>1. OldLen(inIndex[i][0]) \in Nat /\ OldLen(inIndex[i][0]) <= inIndex[i][0]
    BY Zenon, <1>2, Halves
  <2>2. QED
    BY <1>2, <2>1 DEF Owned, HandoverAssumption
<1>4. QED
  BY Zenon, <1>1, <1>2, <1>3

\* No two owners have more positions than there are queues, so a merge never
\* writes past the array.
LEMMA RoomToMerge ==
    ASSUME HandoverAssumption, HandoverInv, NEW i \in Owners, NEW j \in Owners, i # j
    PROVE  Owned(i) + Owned(j) <= NumQueues
<1> DEFINE a == Owned(i)
           b == Owned(j)
           f == [x \in 1 .. (a + b) |-> IF x <= a THEN inIndex[i][x] ELSE inIndex[j][x - a]]
<1>1. i \in Instance /\ j \in Instance
  BY Zenon DEF Owners, Live, HandoverInv, TypeOK
<1>3. a \in Nat /\ b \in Nat /\ a <= NumQueues /\ b <= NumQueues
  BY Zenon, <1>1, Lengths
<1>4. \A x \in 1 .. (a + b) : f[x] \in Queue
  BY <1>1, <1>3 DEF HandoverInv, Arrays, HandoverAssumption
<1>5. ASSUME NEW x \in 1 .. (a + b), NEW y \in 1 .. (a + b), f[x] = f[y]
      PROVE  x = y
  BY <1>3, <1>5 DEF HandoverInv, Split
<1>6. f \in Injection(1 .. (a + b), Queue)
  BY Zenon, <1>4, <1>5 DEF Injection, IsInjective
<1>7. IsFiniteSet(Queue) /\ Cardinality(Queue) = NumQueues
  BY FS_Interval DEF Queue, HandoverAssumption
<1>8. Cardinality(1 .. (a + b)) <= NumQueues
  BY Zenon, <1>6, <1>7, FS_Injection
<1>9. Cardinality(1 .. (a + b)) = a + b
  BY <1>3, FS_Interval
<1>10. QED
  BY Zenon, <1>8, <1>9

\* A step of a worker that stays alive leaves the arrays to the scheduler.
LEMMA WorkerFrame ==
    ASSUME HandoverInv, NEW i \in Instance, UNCHANGED <<inIndex, scheduler>>,
           at[i] # "off", at'[i] # "off", Place(i)',
           \A j \in Instance \ {i} : at'[j] = at[j] /\ q'[j] = q[j] /\ held'[j] = held[j]
    PROVE  Arrays' /\ Split' /\ Progress' /\ Places'
<1> USE DEF HandoverInv
<1>2. inIndex' = inIndex /\ pc' = pc /\ old' = old /\ new' = new /\ k' = k
  BY Zenon DEF scheduler
<1>3. Live' = Live
  BY Zenon DEF Live
<1>4. Owners' = Owners /\ \A j \in Instance : Owned(j)' = Owned(j)
  BY Zenon, <1>2, <1>3 DEF Owners, Owned, OldLen
<1>5. Owners \in SUBSET Instance
  BY Zenon DEF Owners, Live, TypeOK
<1>6. Split' /\ Arrays'
  BY <1>2, <1>4, <1>5 DEF Split, Queue, Arrays
<1>7. Progress'
  BY Zenon, <1>2, <1>3 DEF Progress, NewLen, OldLen
<1>8. ASSUME NEW j \in Instance PROVE Place(j)'
  <2>1. CASE j = i
    BY Zenon, <2>1
  <2>2. CASE j # i
    BY Zenon, <1>2, <2>2 DEF Places, Place, Packet, Queue
  <2>3. QED
    BY Zenon, <2>1, <2>2
<1>9. QED
  BY Zenon, <1>6, <1>7, <1>8 DEF Places, Instance

\* Every step of a worker (segmentProcess) keeps the invariant.
LEMMA WorkerStep ==
    ASSUME HandoverAssumption, HandoverInv, NEW i \in Instance, Worker(i)
    PROVE  HandoverInv'
<1> USE DEF HandoverInv
<1>1. /\ q[i] \in 0 .. NumQueues + 1 /\ inIndex[i][0] \in Nat /\ inIndex[i][0] <= NumQueues
      /\ at[i] \in {"off", "select", "loop", "take", "put"} /\ NumQueues \in Nat
      /\ MaxPackets \in Nat
  BY Zenon, Lengths DEF TypeOK, HandoverAssumption
<1>2. UNCHANGED <<inIndex, scheduler>> /\ pc' = pc /\ old' = old
  BY Zenon DEF Worker, Select, Loop, Take, Put, scheduler
<1>3. Place(i)
  BY Zenon DEF Places
<1>4. CASE Select(i)
  <2>1. TypeOK' /\ RingsMatch'
    <3>1. TypeOK'
      <4>1. 1 \in 0 .. NumQueues + 1
        BY <1>1
      <4>2. q' \in [Instance -> 0 .. NumQueues + 1]
        BY Zenon, <1>4, <4>1 DEF Select, TypeOK
      <4>3. at' \in [Instance -> {"off", "select", "loop", "take", "put"}]
        BY Zenon, <1>4 DEF Select, TypeOK
      <4>4. QED
        BY Zenon, <1>2, <1>4, <4>2, <4>3 DEF Select, TypeOK, scheduler
    <3>2. RingsMatch'
      BY Zenon, <1>2, <1>4 DEF Select, RingsMatch
    <3>3. QED
      BY Zenon, <3>1, <3>2
  <2>2. Place(i)'
    BY <1>1, <1>2, <1>4 DEF Select, TypeOK, Place
  <2>3. QED
    BY Zenon, <1>2, <1>4, <2>1, <2>2, WorkerFrame DEF Select, TypeOK
<1>5. CASE Loop(i)
  <2>1. TypeOK' /\ RingsMatch'
    BY Zenon, <1>1, <1>2, <1>5 DEF Loop, TypeOK, RingsMatch, scheduler
  <2>2. Place(i)'
    <3>1. q' = q /\ held' = held /\ inIndex' = inIndex
          /\ at'[i] = (IF q[i] <= inIndex[i][0] THEN "take" ELSE "select") /\ q[i] >= 1
      BY Zenon, <1>2, <1>3, <1>5 DEF Loop, TypeOK, Place
    <3>2. QED
      BY <1>1, <3>1 DEF Place
  <2>3. QED
    BY Zenon, <1>2, <1>5, <2>1, <2>2, WorkerFrame DEF Loop, TypeOK
<1>6. CASE Take(i)
  <2> DEFINE n == inIndex[i][q[i]]
  <2>1. q[i] \in 1 .. NumQueues /\ n \in Queue /\ taken[n] \in 0 .. MaxPackets
    <3>1. q[i] \in 1 .. NumQueues
      BY <1>1, <1>3, <1>6 DEF Take, Place
    <3>2. n \in Queue
      BY Zenon, <3>1 DEF Arrays
    <3>3. QED
      BY Zenon, <3>1, <3>2 DEF TypeOK
  <2> HIDE DEF n
  <2>2. TypeOK' /\ Place(i)' /\ RingsMatch'
    <3>1. CASE taken[n] < MaxPackets
      <4>1. <<n, taken[n] + 1>> \in Packet
        BY <1>1, <2>1, <3>1 DEF Packet
      <4>2. /\ taken' = [taken EXCEPT ![n] = @ + 1] /\ held' = [held EXCEPT ![i] = <<n, taken[n] + 1>>]
            /\ at' = [at EXCEPT ![i] = "put"] /\ q' = q /\ out' = out
        BY <1>1, <1>6, <2>1, <3>1 DEF Take, n
      <4>3. taken' \in [Queue -> 0 .. MaxPackets]
        <5>1. taken \in [Queue -> 0 .. MaxPackets]
          BY Zenon DEF TypeOK
        <5>2. taken[n] + 1 \in 0 .. MaxPackets
          BY <1>1, <2>1, <3>1
        <5>3. QED
          BY Zenon, <2>1, <4>2, <5>1, <5>2
      <4>4. held' \in [Instance -> Packet \cup {<<>>}] /\ at' \in [Instance -> {"off", "select", "loop", "take", "put"}]
        BY Zenon, <4>1, <4>2 DEF TypeOK
      <4>5. TypeOK' /\ RingsMatch'
        BY Zenon, <1>2, <4>2, <4>3, <4>4 DEF TypeOK, RingsMatch, scheduler
      <4>6. at'[i] = "put" /\ held'[i] = <<n, taken[n] + 1>>
        BY Zenon, <4>2 DEF TypeOK
      <4>7. Place(i)'
        <5>1. q' = q /\ inIndex' = inIndex /\ inIndex[i][q[i]] = n /\ at[i] = "take"
          BY Zenon, <1>2, <1>6, <4>2 DEF Take, n
        <5>2. held'[i] \in Packet /\ held'[i][1] = n
          BY <4>1, <4>6
        <5>3. QED
          BY Zenon, <1>2, <1>3, <4>6, <5>1, <5>2 DEF Place
      <4>8. QED
        BY Zenon, <4>5, <4>7
    <3>2. CASE ~(taken[n] < MaxPackets)
      <4>1. q' = [q EXCEPT ![i] = @ + 1] /\ at' = [at EXCEPT ![i] = "loop"] /\ UNCHANGED <<taken, held, out>>
        BY Zenon, <1>6, <3>2 DEF Take, n
      <4>2. q' \in [Instance -> 0 .. NumQueues + 1] /\ at' \in [Instance -> {"off", "select", "loop", "take", "put"}]
        <5>1. q \in [Instance -> 0 .. NumQueues + 1]
          BY Zenon DEF TypeOK
        <5>2. q[i] + 1 \in 0 .. NumQueues + 1
          BY <1>1, <2>1
        <5>3. QED
          BY Zenon, <4>1, <5>1, <5>2 DEF TypeOK
      <4>3. TypeOK' /\ RingsMatch'
        BY Zenon, <1>2, <4>1, <4>2 DEF TypeOK, RingsMatch, scheduler
      <4>4. at'[i] = "loop" /\ q'[i] = q[i] + 1
        BY Zenon, <4>1 DEF TypeOK
      <4>5. QED
        BY <1>1, <4>3, <4>4 DEF Place
    <3>3. QED
      BY Zenon, <3>1, <3>2
  <2>3. QED
    BY Zenon, <1>2, <1>6, <2>2, WorkerFrame DEF Take, TypeOK
<1>7. CASE Put(i)
  <2> DEFINE n == inIndex[i][q[i]]
  <2>1. q[i] \in 1 .. NumQueues /\ n \in Queue /\ held[i] \in Packet /\ held[i][1] = n
    <3>1. q[i] \in 1 .. NumQueues /\ held[i] \in Packet /\ held[i][1] = n
      BY <1>1, <1>3, <1>7 DEF Put, Place
    <3>2. QED
      BY Zenon, <3>1 DEF Arrays
  <2>2. out[n] \in Seq(Packet) /\ out'[n] = Append(out[n], held[i])
        /\ \A m \in Queue \ {n} : out'[m] = out[m]
    BY Zenon, <1>7, <2>1 DEF Put, TypeOK
  <2> HIDE DEF n
  <2>3. TypeOK'
    <3>1. at' \in [Instance -> {"off", "select", "loop", "take", "put"}] /\ q' \in [Instance -> 0 .. NumQueues + 1]
      <4>1. q \in [Instance -> 0 .. NumQueues + 1]
        BY Zenon DEF TypeOK
      <4>2. q[i] + 1 \in 0 .. NumQueues + 1
        BY <1>1, <2>1
      <4>3. QED
        BY Zenon, <1>7, <4>1, <4>2 DEF Put, TypeOK
    <3>2. held' \in [Instance -> Packet \cup {<<>>}] /\ taken' = taken
      BY Zenon, <1>7 DEF Put, TypeOK
    <3>3. Append(out[n], held[i]) \in Seq(Packet)
      BY <2>1, <2>2
    <3>4. out' \in [Queue -> Seq(Packet)]
      BY Zenon, <1>7, <3>3 DEF Put, n, TypeOK
    <3>5. QED
      BY Zenon, <1>2, <3>1, <3>2, <3>4 DEF TypeOK, scheduler
  <2>4. ASSUME NEW m \in Queue, NEW p \in DOMAIN out'[m] PROVE out'[m][p][1] = m
    <3>1. CASE m # n
      BY Zenon, <2>2, <2>4, <3>1 DEF RingsMatch
    <3>2. CASE m = n /\ p \in DOMAIN out[n]
      BY <2>1, <2>2, <3>2 DEF RingsMatch
    <3>3. CASE m = n /\ p \notin DOMAIN out[n]
      BY <2>1, <2>2, <2>4, <3>3
    <3>4. QED
      BY Zenon, <3>1, <3>2, <3>3
  <2>5. Place(i)'
    <3>1. at'[i] = "loop" /\ q'[i] = q[i] + 1
      BY Zenon, <1>7 DEF Put, TypeOK
    <3>2. QED
      BY <1>1, <3>1 DEF Place
  <2>7. RingsMatch'
    BY Zenon, <2>4 DEF RingsMatch, Queue
  <2>6. QED
    BY Zenon, <1>2, <1>7, <2>3, <2>5, <2>7, WorkerFrame DEF Put, TypeOK
<1>8. QED
  BY Zenon, <1>4, <1>5, <1>6, <1>7 DEF Worker

\* The type of the arrays.
IndexOK == inIndex \in [Instance -> [0 .. NumQueues -> 0 .. NumQueues]]

\* One write to an array keeps it.
LEMMA ArrayWrite ==
    ASSUME IndexOK, NEW i \in Instance, NEW p \in 0 .. NumQueues, NEW v \in 0 .. NumQueues,
           inIndex' = [inIndex EXCEPT ![i][p] = v]
    PROVE  IndexOK'
<1>1. inIndex[i] \in [0 .. NumQueues -> 0 .. NumQueues]
  BY Zenon DEF IndexOK
<1>2. [inIndex[i] EXCEPT ![p] = v] \in [0 .. NumQueues -> 0 .. NumQueues]
  BY Zenon, <1>1
<1>3. QED
  BY Zenon, <1>2 DEF IndexOK, Instance

\* A step of the scheduler leaves the workers alone.
LEMMA SchedulerFrame ==
    ASSUME HandoverInv, UNCHANGED workers, TypeOK', Arrays', Split', Progress',
           \A i \in Instance : Place(i) => Place(i)'
    PROVE  HandoverInv'
<1>1. RingsMatch' /\ Places'
  BY Zenon DEF HandoverInv, workers, RingsMatch, Places, Instance, Queue
<1>2. QED
  BY Zenon, <1>1 DEF HandoverInv

\* A new instance starts with an empty array.
LEMMA StartStep ==
    ASSUME HandoverAssumption, HandoverInv, NEW i \in Instance, NEW j \in Instance, StartNewInstance(i, j)
    PROVE  HandoverInv'
<1> USE DEF HandoverInv
<1>1. /\ pc = "idle" /\ i \in Live /\ inIndex[i][0] > 1 /\ j \in Instance /\ j \notin Live /\ i # j
      /\ inIndex' = [inIndex EXCEPT ![j] = ZeroIndex] /\ at' = [at EXCEPT ![j] = "select"]
      /\ pc' = "copy" /\ old' = i /\ new' = j /\ k' = 0 /\ changes' = changes + 1 /\ changes < MaxChanges
      /\ UNCHANGED <<q, held, taken, out>>
  BY Zenon DEF StartNewInstance
<1>2. /\ ZeroIndex \in [0 .. NumQueues -> 0 .. NumQueues] /\ ZeroIndex[0] = 0
      /\ \A p \in 1 .. NumQueues : ZeroIndex[p] \in Queue
  BY DEF ZeroIndex, Queue, HandoverAssumption
<1>3. inIndex'[j] = ZeroIndex /\ at'[j] = "select" /\ \A l \in Instance \ {j} : inIndex'[l] = inIndex[l] /\ at'[l] = at[l]
  BY Zenon, <1>1 DEF TypeOK
<1>4. TypeOK'
  <2>1. changes' \in 0 .. MaxChanges /\ k' \in 0 .. NumQueues
    BY <1>1 DEF TypeOK, HandoverAssumption
  <2>2. inIndex' \in [Instance -> [0 .. NumQueues -> 0 .. NumQueues]]
    BY Zenon, <1>1, <1>2 DEF TypeOK
  <2>3. QED
    BY Zenon, <1>1, <2>1, <2>2 DEF TypeOK
<1>5. Live' = Live \cup {j}
  BY Zenon, <1>1, <1>3 DEF Live
<1>6. Owners' = Owners \cup {j} /\ Owners \in SUBSET Instance /\ j \notin Owners
  BY Zenon, <1>1, <1>5 DEF Owners, Live
<1>7. /\ \A l \in Owners : Owned(l)' = Owned(l) /\ inIndex'[l] = inIndex[l]
      /\ Owned(j)' = 0
  <2>1. \A l \in Instance : Owned(l) = inIndex[l][0] /\ Owned(l)' = inIndex'[l][0]
    BY Zenon, <1>1 DEF Owned
  <2>2. \A l \in Owners : l \in Instance \ {j}
    BY Zenon, <1>6
  <2>3. ASSUME NEW l \in Owners PROVE Owned(l)' = Owned(l) /\ inIndex'[l] = inIndex[l]
    BY <1>3, <2>1, <2>2
  <2>4. QED
    BY Zenon, <1>2, <1>3, <2>1, <2>3
<1>8. Split'
  BY <1>6, <1>7 DEF Split, Queue
<1>9. Arrays'
  BY Zenon, <1>2, <1>3 DEF Arrays, Queue, Instance
<1>10. Progress'
  <2>1. inIndex'[i] = inIndex[i] /\ i \in Live' /\ j \in Live' /\ 0 <= NewLen(inIndex[i][0])
    <3>1. i \in Instance /\ inIndex[i][0] \in Nat
      BY Zenon, Lengths
    <3>2. NewLen(inIndex[i][0]) \in Nat
      BY Zenon, <3>1, Halves
    <3>3. QED
      BY <1>1, <1>3, <1>5, <3>2
  <2>2. inIndex'[old'] = inIndex[i] /\ inIndex'[new'][0] = 0
    BY Zenon, <1>1, <1>2, <1>3
  <2>3. 0 <= NewLen(inIndex'[old'][0])
    BY Zenon, <2>1, <2>2
  <2>4. QED
    BY <1>1, <2>1, <2>2, <2>3 DEF Progress
<1>11. ASSUME NEW l \in Instance PROVE Place(l)'
  <2>1. CASE l = j
    BY Zenon, <1>3, <2>1 DEF Place
  <2>2. CASE l # j
    BY Zenon, <1>1, <1>3, <2>2 DEF Place, Places, Packet, Queue
  <2>3. QED
    BY Zenon, <2>1, <2>2
<1>12. RingsMatch'
  BY Zenon, <1>1 DEF RingsMatch, Queue
<1>13. QED
  BY Zenon, <1>4, <1>8, <1>9, <1>10, <1>11, <1>12 DEF Places, Instance

\* A worker takes its stop request; its queues are not lost.
LEMMA StopStep ==
    ASSUME HandoverAssumption, HandoverInv, NEW i \in Instance, NEW j \in Instance, StopFrom(i, j)
    PROVE  HandoverInv'
<1> USE DEF HandoverInv
<1>1. /\ pc = "idle" /\ i \in Live /\ j \in Live /\ i # j
      /\ at' = [at EXCEPT ![j] = "off"] /\ q' = [q EXCEPT ![j] = 0]
      /\ pc' = "merge" /\ old' = i /\ new' = j /\ k' = 0 /\ changes' = changes + 1 /\ changes < MaxChanges
      /\ UNCHANGED <<held, taken, out, inIndex>>
  BY Zenon DEF StopFrom
<1>2. at'[j] = "off" /\ \A l \in Instance \ {j} : at'[l] = at[l] /\ q'[l] = q[l]
  BY Zenon, <1>1 DEF TypeOK
<1>3. TypeOK'
  <2>1. changes' \in 0 .. MaxChanges /\ k' \in 0 .. NumQueues /\ 0 \in 0 .. NumQueues + 1
    BY <1>1 DEF TypeOK, HandoverAssumption
  <2>2. QED
    BY Zenon, <1>1, <2>1 DEF TypeOK
<1>4. Live' = Live \ {j}
  BY Zenon, <1>1, <1>2 DEF Live
<1>5. Owners' = Owners /\ Owners \in SUBSET Instance
  BY Zenon, <1>1, <1>4 DEF Owners, Live
<1>6. \A l \in Instance : Owned(l)' = Owned(l)
  BY Zenon, <1>1 DEF Owned
<1>7. Split' /\ Arrays'
  BY <1>1, <1>5, <1>6 DEF Split, Arrays, Queue, Instance
<1>8. Progress'
  BY <1>1, <1>4, Lengths DEF Progress
<1>9. ASSUME NEW l \in Instance PROVE Place(l)'
  <2>1. CASE l = j
    BY Zenon, <1>2, <2>1 DEF Place
  <2>2. CASE l # j
    BY Zenon, <1>1, <1>2, <2>2 DEF Place, Places, Packet, Queue
  <2>3. QED
    BY Zenon, <2>1, <2>2
<1>10. RingsMatch'
  BY Zenon, <1>1 DEF RingsMatch, Queue
<1>11. QED
  BY Zenon, <1>3, <1>7, <1>8, <1>9, <1>10 DEF Places, Instance

\* The queues that are being copied to the new instance stay with the old one
\* until its length is written.
LEMMA CopyStep ==
    ASSUME HandoverAssumption, HandoverInv, CopyToNew
    PROVE  HandoverInv'
<1> USE DEF HandoverInv
<1> DEFINE len == inIndex[old][0]
<1>0. IndexOK
  BY Zenon DEF TypeOK, IndexOK
<1>1. /\ pc = "copy" /\ UNCHANGED <<workers, old, new, changes>> /\ at' = at /\ q' = q /\ held' = held
      /\ old # new /\ old \in Live /\ new \in Live /\ old \in Instance /\ new \in Instance
      /\ len > 1 /\ inIndex[new][0] = 0 /\ k \in Nat /\ k <= NewLen(len) /\ len \in Nat /\ len <= NumQueues
      /\ NumQueues \in Nat
  <2>1. pc = "copy" /\ UNCHANGED <<workers, old, new, changes>> /\ at' = at /\ q' = q /\ held' = held
    BY Zenon DEF CopyToNew, workers
  <2>2. old \in Instance /\ new \in Instance /\ k \in Nat /\ NumQueues \in Nat
    BY DEF TypeOK, HandoverAssumption
  <2>3. /\ old # new /\ old \in Live /\ new \in Live
        /\ len > 1 /\ inIndex[new][0] = 0 /\ k <= NewLen(len)
    BY Zenon, <2>1 DEF Progress
  <2>4. len \in Nat /\ len <= NumQueues
    BY Zenon, <2>2, Lengths
  <2>5. QED
    BY Zenon, <2>1, <2>2, <2>3, <2>4
<1>2. OldLen(len) \in Nat /\ NewLen(len) \in Nat /\ OldLen(len) + NewLen(len) = len
  BY Zenon, <1>1, Halves
<1>3. Live' = Live /\ Owners' = Live /\ Owners = Live
  BY Zenon, <1>1 DEF CopyToNew, Live, Owners
<1>4. \A i \in Instance : Owned(i) = inIndex[i][0]
  BY Zenon, <1>1 DEF Owned
<1>8. at[new] \notin {"take", "put"}
  <2>1. Place(new) /\ q[new] \in Nat
    BY <1>1 DEF Places, TypeOK
  <2>2. QED
    BY <1>1, <2>1 DEF Place
<1>5. CASE k < NewLen(len)
  <2> DEFINE x == inIndex[old][k + 1 + OldLen(len)]
  <2>1. inIndex' = [inIndex EXCEPT ![new][k + 1] = x] /\ k' = k + 1 /\ pc' = pc
    BY <1>1, <1>2, <1>5 DEF CopyToNew
  <2>2. k + 1 \in 1 .. NumQueues /\ k + 1 + OldLen(len) \in 1 .. NumQueues /\ k + 1 <= NewLen(len)
    BY <1>1, <1>2, <1>5
  <2>3. x \in Queue /\ x \in 0 .. NumQueues
    BY <1>1, <2>2 DEF Arrays, Queue, HandoverAssumption
  <2> HIDE DEF x
  <2>4. IndexOK' /\ k + 1 \in 0 .. NumQueues
    <3>1. k + 1 \in 0 .. NumQueues
      BY <1>1, <2>2
    <3>2. QED
      BY Zenon, <1>0, <1>1, <2>1, <2>3, <3>1, ArrayWrite
  <2>5. /\ \A i \in Instance \ {new} : inIndex'[i] = inIndex[i]
        /\ inIndex'[new][k + 1] = x
        /\ \A p \in 0 .. NumQueues : p # k + 1 => inIndex'[new][p] = inIndex[new][p]
    <3>1. inIndex'[new] = [inIndex[new] EXCEPT ![k + 1] = x] /\ \A i \in Instance \ {new} : inIndex'[i] = inIndex[i]
      BY Zenon, <1>0, <1>1, <2>1 DEF IndexOK
    <3>2. inIndex[new] \in [0 .. NumQueues -> 0 .. NumQueues]
      BY Zenon, <1>0, <1>1, <2>1 DEF IndexOK
    <3>3. QED
      BY Zenon, <2>4, <3>1, <3>2
  <2>6. TypeOK'
    BY Zenon, <1>1, <2>1, <2>4 DEF TypeOK, workers, IndexOK
  <2>7. inIndex'[new][0] = 0
    BY <1>1, <2>2, <2>5 DEF HandoverAssumption
  <2>8. Arrays'
    <3>1. ASSUME NEW i \in Instance, NEW p \in 1 .. NumQueues PROVE inIndex'[i][p] \in Queue
      <4>1. CASE i = new /\ p # k + 1
        BY <1>1, <2>5, <4>1 DEF Arrays
      <4>2. CASE i = new /\ p = k + 1
        BY Zenon, <2>3, <2>5, <4>2
      <4>3. CASE i # new
        BY Zenon, <2>5, <4>3 DEF Arrays
      <4>4. QED
        BY Zenon, <4>1, <4>2, <4>3
    <3>2. QED
      BY Zenon, <3>1 DEF Arrays, Queue, Instance
  <2>9. \A i \in Live : Owned(i)' = Owned(i) /\ \A p \in 1 .. Owned(i) : inIndex'[i][p] = inIndex[i][p]
    BY <1>1, <1>4, <2>1, <2>5, <2>7 DEF Owned, Live
  <2>10. Split'
    BY <1>3, <2>9 DEF Split, Queue
  <2>11. Progress'
    <3>1. inIndex'[old] = inIndex[old]
      BY Zenon, <1>1, <2>5
    <3>2. \A p \in 1 .. (k + 1) : inIndex'[new][p] = inIndex[old][p + OldLen(len)]
      <4>1. \A p \in 1 .. k : inIndex'[new][p] = inIndex[new][p]
        BY <1>1, <2>2, <2>5
      <4>2. \A p \in 1 .. k : inIndex[new][p] = inIndex[old][p + OldLen(len)]
        BY Zenon, <1>1 DEF Progress
      <4>3. QED
        BY <1>1, <1>2, <2>5, <4>1, <4>2 DEF x
    <3>3. QED
      BY Zenon, <1>1, <1>3, <2>1, <2>2, <2>7, <3>1, <3>2 DEF Progress, NewLen, OldLen
  <2>12. ASSUME NEW i \in Instance, Place(i) PROVE Place(i)'
    <3>1. CASE i = new
      BY Zenon, <1>1, <1>8, <2>12, <3>1 DEF Place
    <3>2. CASE i # new
      BY Zenon, <1>1, <2>1, <2>5, <2>12, <3>2 DEF Place, Packet, Queue
    <3>3. QED
      BY Zenon, <3>1, <3>2
  <2>13. QED
    BY Zenon, <1>1, <2>6, <2>8, <2>10, <2>11, <2>12, SchedulerFrame
<1>6. CASE ~(k < NewLen(len))
  <2>1. inIndex' = [inIndex EXCEPT ![new][0] = NewLen(len)] /\ k' = k /\ pc' = "shorten" /\ k = NewLen(len)
    BY Zenon, <1>1, <1>2, <1>6 DEF CopyToNew
  <2>3. 0 \in 0 .. NumQueues /\ NewLen(len) \in 0 .. NumQueues
    BY <1>1, <1>2
  <2>2. IndexOK'
    BY Zenon, <1>0, <1>1, <2>1, <2>3, ArrayWrite
  <2>4. /\ \A i \in Instance \ {new} : inIndex'[i] = inIndex[i]
        /\ inIndex'[new][0] = NewLen(len)
        /\ \A p \in 0 .. NumQueues : p # 0 => inIndex'[new][p] = inIndex[new][p]
    <3>1. inIndex'[new] = [inIndex[new] EXCEPT ![0] = NewLen(len)] /\ \A i \in Instance \ {new} : inIndex'[i] = inIndex[i]
      BY Zenon, <1>0, <1>1, <2>1 DEF IndexOK
    <3>2. inIndex[new] \in [0 .. NumQueues -> 0 .. NumQueues]
      BY Zenon, <1>0, <1>1, <2>1 DEF IndexOK
    <3>3. QED
      BY Zenon, <2>3, <3>1, <3>2
  <2>5. /\ inIndex'[new][0] = NewLen(len)
        /\ \A p \in 1 .. NumQueues : inIndex'[new][p] = inIndex[new][p]
    BY <1>1, <2>4
  <2>6. TypeOK'
    BY Zenon, <1>1, <2>1, <2>2 DEF TypeOK, workers, IndexOK
  <2>7. Arrays'
    BY Zenon, <2>4, <2>5 DEF Arrays, Queue, Instance
  <2>8. /\ Owned(old)' = OldLen(len) /\ Owned(new)' = NewLen(len)
        /\ \A i \in Live \ {old, new} : Owned(i)' = Owned(i) /\ inIndex'[i] = inIndex[i]
        /\ inIndex'[old] = inIndex[old] /\ Owned(old) = len /\ Owned(new) = 0
        /\ Live \subseteq Instance
    BY <1>1, <1>4, <2>1, <2>4, <2>5 DEF Owned, OldLen, Live
  <2>9. \A p \in 1 .. NewLen(len) : /\ p + OldLen(len) \in 1 .. len /\ p \in 1 .. NumQueues
                                    /\ inIndex'[new][p] = inIndex[old][p + OldLen(len)]
    <3>1. \A p \in 1 .. k : inIndex[new][p] = inIndex[old][p + OldLen(len)]
      BY Zenon, <1>1 DEF Progress
    <3>2. QED
      BY <1>1, <1>2, <2>1, <2>5, <3>1
  <2>10. Split'
    <3>2. ASSUME NEW i \in Live, NEW j \in Live, NEW p \in 1 .. Owned(i)', NEW r \in 1 .. Owned(j)',
                 inIndex'[i][p] = inIndex'[j][r]
          PROVE  i = j /\ p = r
      BY <1>1, <1>2, <1>3, <2>8, <2>9, <3>2 DEF Split
    <3>3. ASSUME NEW n \in Queue
          PROVE  \E i \in Live : \E p \in 1 .. Owned(i)' : inIndex'[i][p] = n
      <4>1. PICK i \in Live : \E p \in 1 .. Owned(i) : inIndex[i][p] = n
        BY Zenon, <1>3 DEF Split
      <4>2. PICK p \in 1 .. Owned(i) : inIndex[i][p] = n
        BY Zenon, <4>1
      <4>3. CASE i # old \/ p <= OldLen(len)
        BY <1>1, <1>2, <2>8, <4>2, <4>3
      <4>4. CASE i = old /\ ~(p <= OldLen(len))
        <5>1. p - OldLen(len) \in 1 .. NewLen(len) /\ (p - OldLen(len)) + OldLen(len) = p
          BY <1>1, <1>2, <2>8, <4>4
        <5>2. inIndex'[new][p - OldLen(len)] = n
          BY Zenon, <2>9, <4>2, <4>4, <5>1
        <5>3. QED
          BY Zenon, <1>1, <2>8, <5>1, <5>2
      <4>5. QED
        BY Zenon, <4>3, <4>4
    <3>4. QED
      BY Zenon, <1>3, <3>2, <3>3 DEF Split, Queue
  <2>11. Progress'
    BY Zenon, <1>1, <1>3, <2>1, <2>8 DEF Progress
  <2>12. ASSUME NEW i \in Instance, Place(i) PROVE Place(i)'
    <3>1. CASE i = new
      BY Zenon, <1>1, <1>8, <2>12, <3>1 DEF Place
    <3>2. CASE i # new
      BY Zenon, <1>1, <2>1, <2>4, <2>12, <3>2 DEF Place, Packet, Queue
    <3>3. QED
      BY Zenon, <3>1, <3>2
  <2>13. QED
    BY Zenon, <1>1, <2>6, <2>7, <2>10, <2>11, <2>12, SchedulerFrame
<1>7. QED
  BY Zenon, <1>5, <1>6

\* The old instance gives up the queues that were copied.
LEMMA ShortenStep ==
    ASSUME HandoverAssumption, HandoverInv, ShortenOld
    PROVE  HandoverInv'
<1> USE DEF HandoverInv
<1> DEFINE len == inIndex[old][0]
<1>1. /\ pc = "shorten" /\ pc' = "pause" /\ UNCHANGED <<workers, old, new, k, changes>>
      /\ at' = at /\ q' = q /\ held' = held
      /\ inIndex' = [inIndex EXCEPT ![old][0] = OldLen(len)]
  BY Zenon DEF ShortenOld, workers
<1>2. old \in Instance /\ new \in Instance /\ NumQueues \in Nat /\ old \in Live /\ len \in Nat /\ len <= NumQueues
  BY Zenon, <1>1, Lengths DEF Progress, TypeOK, HandoverAssumption
<1>3. OldLen(len) \in Nat /\ OldLen(len) <= len
  BY Zenon, <1>2, Halves
<1>4. Live' = Live /\ Owners' = Live /\ Owners = Live /\ Live \subseteq Instance
  BY Zenon, <1>1 DEF Live, Owners
<1>5. 0 \in 0 .. NumQueues /\ OldLen(len) \in 0 .. NumQueues
  BY <1>2, <1>3
<1>0. IndexOK
  BY Zenon DEF TypeOK, IndexOK
<1>6. /\ \A i \in Instance \ {old} : inIndex'[i] = inIndex[i]
      /\ inIndex'[old][0] = OldLen(len)
      /\ \A p \in 0 .. NumQueues : p # 0 => inIndex'[old][p] = inIndex[old][p]
  <2>1. inIndex'[old] = [inIndex[old] EXCEPT ![0] = OldLen(len)] /\ \A i \in Instance \ {old} : inIndex'[i] = inIndex[i]
    BY Zenon, <1>0, <1>1, <1>2 DEF IndexOK
  <2>2. inIndex[old] \in [0 .. NumQueues -> 0 .. NumQueues]
    BY Zenon, <1>0, <1>1, <1>2 DEF IndexOK
  <2>3. QED
    BY Zenon, <1>5, <2>1, <2>2
<1>7. inIndex'[old][0] = OldLen(len) /\ \A p \in 1 .. NumQueues : inIndex'[old][p] = inIndex[old][p]
  BY <1>2, <1>6
<1>8. TypeOK'
  <2>1. IndexOK'
    BY Zenon, <1>0, <1>1, <1>2, <1>5, ArrayWrite
  <2>2. QED
    BY Zenon, <1>1, <2>1 DEF TypeOK, workers, IndexOK
<1>9. Arrays'
  BY Zenon, <1>6, <1>7 DEF Arrays, Queue, Instance
<1>10. \A i \in Live : Owned(i)' = Owned(i) /\ \A p \in 1 .. NumQueues : inIndex'[i][p] = inIndex[i][p]
  BY <1>1, <1>4, <1>6, <1>7 DEF Owned
<1>11. \A i \in Live : Owned(i) \in Nat /\ Owned(i) <= NumQueues
  BY Zenon, <1>4, Lengths
<1>12. Split'
  <2>1. \A i \in Live : \A p \in 1 .. Owned(i) : inIndex'[i][p] = inIndex[i][p]
    BY <1>2, <1>10, <1>11
  <2>2. QED
    BY <1>4, <1>10, <2>1 DEF Split, Queue
<1>13. Progress'
  BY Zenon, <1>1, <1>2, <1>4 DEF Progress
<1>14. ASSUME NEW i \in Instance, Place(i) PROVE Place(i)'
  <2>1. CASE i = old
    <3>1. q[i] \in Nat
      BY DEF TypeOK
    <3>2. QED
      BY <1>1, <1>2, <1>7, <1>14, <2>1, <3>1 DEF Place, Packet, Queue
  <2>2. CASE i # old
    BY Zenon, <1>1, <1>6, <1>14, <2>2 DEF Place, Packet, Queue
  <2>3. QED
    BY Zenon, <2>1, <2>2
<1>15. QED
  BY Zenon, <1>1, <1>8, <1>9, <1>12, <1>13, <1>14, SchedulerFrame

\* The pause is taken where the worker handles no queue.
LEMMA PauseStep ==
    ASSUME HandoverAssumption, HandoverInv, UpdatePause
    PROVE  HandoverInv'
<1> USE DEF HandoverInv
<1>1. /\ pc = "pause" /\ pc' = "idle" /\ UNCHANGED <<workers, inIndex, old, new, k, changes>>
      /\ at[old] = "select" /\ at' = at /\ q' = q /\ held' = held
  BY Zenon DEF UpdatePause, workers
<1>2. Live' = Live /\ Owners' = Owners /\ Owners \in SUBSET Instance
  BY Zenon, <1>1 DEF Live, Owners
<1>3. \A i \in Instance : Owned(i)' = Owned(i)
  BY Zenon, <1>1 DEF Owned
<1>4. TypeOK' /\ Progress' /\ Arrays'
  BY Zenon, <1>1 DEF TypeOK, Progress, Arrays, workers, Queue, Instance
<1>5. Split'
  BY <1>1, <1>2, <1>3 DEF Split, Queue
<1>6. ASSUME NEW i \in Instance, Place(i) PROVE Place(i)'
  BY Zenon, <1>1, <1>6 DEF Place, Packet, Queue
<1>7. QED
  BY Zenon, <1>1, <1>4, <1>5, <1>6, SchedulerFrame

\* A merge writes behind the queues of the instance that goes on.
LEMMA MergeStep ==
    ASSUME HandoverAssumption, HandoverInv, MergeInto
    PROVE  HandoverInv'
<1> USE DEF HandoverInv
<1> DEFINE len == inIndex[old][0]
           more == inIndex[new][0]
<1>1. pc = "merge" /\ UNCHANGED <<workers, old, new, changes>> /\ at' = at /\ q' = q /\ held' = held
  BY Zenon DEF MergeInto, workers
<1>2. old \in Instance /\ new \in Instance /\ k \in Nat /\ NumQueues \in Nat
  BY DEF TypeOK, HandoverAssumption
<1>3. old \in Live /\ new \notin Live /\ k <= more /\ old # new
  BY Zenon, <1>1 DEF Progress
<1>4. len \in Nat /\ more \in Nat /\ len <= NumQueues /\ more <= NumQueues
  BY Zenon, <1>2, Lengths
<1>5. Owners = Live \cup {new} /\ Live \subseteq Instance /\ \A i \in Instance : Owned(i) = inIndex[i][0]
  BY Zenon, <1>1 DEF Owners, Live, Owned
<1>6. len + more <= NumQueues
  <2>1. Owned(old) + Owned(new) <= NumQueues
    BY Zenon, <1>3, <1>5, RoomToMerge
  <2>2. QED
    BY Zenon, <1>2, <1>5, <2>1
<1>7. IndexOK
  BY Zenon DEF TypeOK, IndexOK
<1>8. Live' = Live
  BY Zenon, <1>1 DEF Live
<1>9. CASE k < more
  <2> DEFINE x == inIndex[new][k + 1]
  <2>1. inIndex' = [inIndex EXCEPT ![old][len + k + 1] = x] /\ k' = k + 1 /\ pc' = pc
    BY <1>2, <1>4, <1>9 DEF MergeInto
  <2>2. k + 1 \in 1 .. NumQueues /\ len + k + 1 \in 1 .. NumQueues /\ k + 1 <= more
    BY <1>2, <1>4, <1>6, <1>9
  <2>3. x \in Queue
    BY Zenon, <1>2, <2>2 DEF Arrays
  <2>4. x \in 0 .. NumQueues /\ len + k + 1 \in 0 .. NumQueues
    BY <1>2, <2>2, <2>3 DEF Queue
  <2> HIDE DEF x
  <2>6. IndexOK'
    BY Zenon, <1>2, <1>7, <2>1, <2>4, ArrayWrite
  <2>5. /\ \A i \in Instance \ {old} : inIndex'[i] = inIndex[i]
        /\ inIndex'[old][len + k + 1] = x
        /\ \A p \in 0 .. NumQueues : p # len + k + 1 => inIndex'[old][p] = inIndex[old][p]
    <3>1. inIndex'[old] = [inIndex[old] EXCEPT ![len + k + 1] = x] /\ \A i \in Instance \ {old} : inIndex'[i] = inIndex[i]
      BY Zenon, <1>2, <1>7, <2>1 DEF IndexOK
    <3>2. inIndex[old] \in [0 .. NumQueues -> 0 .. NumQueues]
      BY Zenon, <1>2, <1>7, <2>1 DEF IndexOK
    <3>3. QED
      BY Zenon, <2>4, <3>1, <3>2
  <2>7. inIndex'[old][0] = len /\ \A p \in 1 .. len : inIndex'[old][p] = inIndex[old][p]
    BY <1>2, <1>4, <2>2, <2>5
  <2>8. TypeOK'
    <3>1. k' \in 0 .. NumQueues
      BY <1>2, <2>1, <2>2
    <3>2. QED
      BY Zenon, <1>1, <2>1, <2>6, <3>1 DEF TypeOK, workers, IndexOK
  <2>9. Arrays'
    <3>1. ASSUME NEW i \in Instance, NEW p \in 1 .. NumQueues PROVE inIndex'[i][p] \in Queue
      <4>1. CASE i = old /\ p # len + k + 1
        BY <1>2, <2>5, <4>1 DEF Arrays
      <4>2. CASE i = old /\ p = len + k + 1
        BY Zenon, <2>3, <2>5, <4>2
      <4>3. CASE i # old
        BY Zenon, <2>5, <4>3 DEF Arrays
      <4>4. QED
        BY Zenon, <4>1, <4>2, <4>3
    <3>2. QED
      BY Zenon, <3>1 DEF Arrays, Queue, Instance
  <2>10. Owners' = Owners /\ \A i \in Instance : Owned(i)' = Owned(i)
    BY <1>1, <1>5, <1>8, <2>1, <2>5, <2>7 DEF Owners, Owned
  <2>11. \A i \in Owners : \A p \in 1 .. Owned(i) : inIndex'[i][p] = inIndex[i][p]
    BY Zenon, <1>2, <1>5, <2>5, <2>7
  <2>12. Split'
    <3>1. \A i, j \in Owners : \A p \in 1 .. Owned(i), r \in 1 .. Owned(j) :
             inIndex'[i][p] = inIndex'[j][r] => i = j /\ p = r
      BY <2>11 DEF Split
    <3>2. \A n \in Queue : \E i \in Owners : \E p \in 1 .. Owned(i) : inIndex'[i][p] = n
      BY <2>11 DEF Split
    <3>3. \A i \in Owners : Owned(i)' = Owned(i)
      BY Zenon, <1>2, <1>5, <2>10
    <3>4. QED
      BY <2>10, <3>1, <3>2, <3>3 DEF Split, Queue
  <2>13. Progress'
    <3>1. \A p \in 1 .. (k + 1) : inIndex'[old][len + p] = inIndex[new][p]
      <4>1. \A p \in 1 .. k : inIndex'[old][len + p] = inIndex[old][len + p]
        BY <1>2, <1>4, <2>2, <2>5
      <4>2. \A p \in 1 .. k : inIndex[old][len + p] = inIndex[new][p]
        BY Zenon, <1>1 DEF Progress
      <4>3. QED
        BY <1>2, <1>4, <2>5, <4>1, <4>2 DEF x
    <3>2. QED
      BY <1>1, <1>2, <1>3, <1>8, <2>1, <2>2, <2>5, <2>7, <3>1 DEF Progress
  <2>14. ASSUME NEW i \in Instance, Place(i) PROVE Place(i)'
    <3>1. CASE i = old
      <4>1. q[i] \in Nat
        BY DEF TypeOK
      <4>2. QED
        BY <1>1, <1>2, <1>4, <2>1, <2>7, <2>14, <3>1, <4>1 DEF Place, Packet, Queue
    <3>2. CASE i # old
      BY Zenon, <1>1, <2>1, <2>5, <2>14, <3>2 DEF Place, Packet, Queue
    <3>3. QED
      BY Zenon, <3>1, <3>2
  <2>15. QED
    BY Zenon, <1>1, <2>8, <2>9, <2>12, <2>13, <2>14, SchedulerFrame
<1>10. CASE ~(k < more)
  <2>1. inIndex' = [inIndex EXCEPT ![old][0] = len + more] /\ k' = k /\ pc' = "pause" /\ k = more
    BY Zenon, <1>2, <1>3, <1>4, <1>10 DEF MergeInto
  <2>2. 0 \in 0 .. NumQueues /\ len + more \in 0 .. NumQueues
    BY <1>2, <1>4, <1>6
  <2>3. /\ \A i \in Instance \ {old} : inIndex'[i] = inIndex[i]
        /\ inIndex'[old][0] = len + more
        /\ \A p \in 0 .. NumQueues : p # 0 => inIndex'[old][p] = inIndex[old][p]
    <3>1. inIndex'[old] = [inIndex[old] EXCEPT ![0] = len + more] /\ \A i \in Instance \ {old} : inIndex'[i] = inIndex[i]
      BY Zenon, <1>2, <1>7, <2>1 DEF IndexOK
    <3>2. inIndex[old] \in [0 .. NumQueues -> 0 .. NumQueues]
      BY Zenon, <1>2, <1>7, <2>1 DEF IndexOK
    <3>3. QED
      BY Zenon, <2>2, <3>1, <3>2
  <2>4. inIndex'[old][0] = len + more /\ \A p \in 1 .. NumQueues : inIndex'[old][p] = inIndex[old][p]
    BY <1>2, <2>3
  <2>5. TypeOK'
    <3>1. IndexOK'
      BY Zenon, <1>2, <1>7, <2>1, <2>2, ArrayWrite
    <3>2. QED
      BY Zenon, <1>1, <2>1, <3>1 DEF TypeOK, workers, IndexOK
  <2>6. Arrays'
    BY Zenon, <2>3, <2>4 DEF Arrays, Queue, Instance
  <2>7. Owners' = Live /\ \A i \in Instance : Owned(i)' = inIndex'[i][0]
    BY Zenon, <1>8, <2>1 DEF Owners, Owned
  <2>8. \A p \in 1 .. more : inIndex[old][len + p] = inIndex[new][p]
    BY Zenon, <1>1, <2>1 DEF Progress
  <2>9. \A p \in 1 .. (len + more) : inIndex'[old][p] =
            IF p <= len THEN inIndex[old][p] ELSE inIndex[new][p - len]
    <3>1. ASSUME NEW p \in 1 .. (len + more), ~(p <= len) PROVE inIndex'[old][p] = inIndex[new][p - len]
      <4>1. p - len \in 1 .. more /\ len + (p - len) = p /\ p \in 1 .. NumQueues
        BY <1>2, <1>4, <1>6, <3>1
      <4>2. QED
        BY Zenon, <2>4, <2>8, <4>1
    <3>2. ASSUME NEW p \in 1 .. (len + more), p <= len PROVE inIndex'[old][p] = inIndex[old][p]
      BY <1>2, <1>4, <1>6, <2>4, <3>2
    <3>3. QED
      BY Zenon, <3>1, <3>2
  <2>10. Split'
    <3>1. \A i, j \in Live \cup {new} : \A p \in 1 .. inIndex[i][0], r \in 1 .. inIndex[j][0] :
             inIndex[i][p] = inIndex[j][r] => i = j /\ p = r
      BY <1>2, <1>5 DEF Split
    <3>2. \A p \in 1 .. (len + more) : \/ p \in 1 .. len /\ inIndex'[old][p] = inIndex[old][p]
                                       \/ /\ p - len \in 1 .. more /\ p = len + (p - len)
                                          /\ inIndex'[old][p] = inIndex[new][p - len]
      BY <1>4, <2>9
    <3>5. ASSUME NEW p \in 1 .. (len + more), NEW j \in Live, j # old, NEW r \in 1 .. inIndex[j][0]
          PROVE  inIndex'[old][p] # inIndex[j][r]
      BY <1>3, <3>1, <3>2, <3>5
    <3>8. /\ \A p, r \in 1 .. len : inIndex[old][p] = inIndex[old][r] => p = r
          /\ \A p, r \in 1 .. more : inIndex[new][p] = inIndex[new][r] => p = r
      BY <1>3, <3>1
    <3>6. ASSUME NEW p \in 1 .. (len + more), NEW r \in 1 .. (len + more), inIndex'[old][p] = inIndex'[old][r]
          PROVE  p = r
      <4>1. CASE p \in 1 .. len /\ r \in 1 .. len /\ inIndex'[old][p] = inIndex[old][p] /\ inIndex'[old][r] = inIndex[old][r]
        BY Zenon, <3>6, <3>8, <4>1
      <4>2. CASE /\ p - len \in 1 .. more /\ inIndex'[old][p] = inIndex[new][p - len]
                 /\ r - len \in 1 .. more /\ inIndex'[old][r] = inIndex[new][r - len]
        <5>1. p - len = r - len
          BY Zenon, <3>6, <3>8, <4>2
        <5>2. QED
          BY <1>4, <5>1
      <4>3. QED
        BY <1>3, <3>1, <3>2, <3>6, <4>1, <4>2
    <3>7. ASSUME NEW i \in Live, NEW p \in 1 .. inIndex'[i][0],
                 NEW j \in Live, NEW r \in 1 .. inIndex'[j][0], inIndex'[i][p] = inIndex'[j][r]
          PROVE  i = j /\ p = r
      <4>1. CASE i # old /\ j # old
        BY <1>5, <2>3, <3>1, <3>7, <4>1
      <4>2. CASE i = old /\ j # old
        BY <1>5, <2>3, <3>5, <3>7, <4>2
      <4>3. CASE i # old /\ j = old
        BY <1>5, <2>3, <3>5, <3>7, <4>3
      <4>4. CASE i = old /\ j = old
        BY Zenon, <2>3, <3>6, <3>7, <4>4
      <4>5. QED
        BY Zenon, <4>1, <4>2, <4>3, <4>4
    <3>3. ASSUME NEW n \in Queue
          PROVE  \E i \in Live : \E p \in 1 .. inIndex'[i][0] : inIndex'[i][p] = n
      <4>1. PICK i \in Live \cup {new} : \E p \in 1 .. inIndex[i][0] : inIndex[i][p] = n
        BY <1>2, <1>5 DEF Split
      <4>2. PICK p \in 1 .. inIndex[i][0] : inIndex[i][p] = n
        BY Zenon, <4>1
      <4>3. CASE i = new
        <5>1. len + p \in 1 .. (len + more) /\ ~(len + p <= len) /\ (len + p) - len = p
          BY <1>4, <4>2, <4>3
        <5>2. inIndex'[old][len + p] = n
          BY Zenon, <2>9, <4>2, <4>3, <5>1
        <5>3. QED
          BY Zenon, <1>3, <2>4, <5>1, <5>2
      <4>4. CASE i = old
        <5>1. p \in 1 .. (len + more) /\ p <= len
          BY <1>4, <4>2, <4>4
        <5>2. QED
          BY Zenon, <1>3, <2>4, <2>9, <4>2, <4>4, <5>1
      <4>5. CASE i # new /\ i # old
        BY Zenon, <1>5, <2>3, <4>2, <4>5
      <4>6. QED
        BY Zenon, <4>3, <4>4, <4>5
    <3>4. QED
      BY <1>5, <2>7, <3>3, <3>7 DEF Split, Queue
  <2>11. Progress'
    BY Zenon, <1>1, <1>3, <1>8, <2>1 DEF Progress
  <2>12. ASSUME NEW i \in Instance, Place(i) PROVE Place(i)'
    <3>1. CASE i = old
      <4>1. q[i] \in Nat
        BY DEF TypeOK
      <4>2. QED
        BY <1>1, <1>2, <1>4, <2>1, <2>4, <2>12, <3>1, <4>1 DEF Place, Packet, Queue
    <3>2. CASE i # old
      BY Zenon, <1>1, <2>1, <2>3, <2>12, <3>2 DEF Place, Packet, Queue
    <3>3. QED
      BY Zenon, <3>1, <3>2
  <2>13. QED
    BY Zenon, <1>1, <2>5, <2>6, <2>10, <2>11, <2>12, SchedulerFrame
<1>11. QED
  BY Zenon, <1>9, <1>10

\* Init: one instance has all the queues.
LEMMA HandoverInit ==
    ASSUME HandoverAssumption, Init
    PROVE  HandoverInv
<1>1. NumQueues \in Nat /\ 1 \in Instance /\ MaxPackets \in Nat /\ MaxChanges \in Nat
  BY DEF HandoverAssumption, Instance
<1>2. ZeroIndex \in [0 .. NumQueues -> 0 .. NumQueues] /\ NewIndex \in [0 .. NumQueues -> 0 .. NumQueues]
  BY <1>1 DEF ZeroIndex, NewIndex
<1>3. TypeOK
  <2>1. out \in [Queue -> Seq(Packet)]
    BY DEF Init
  <2>2. taken \in [Queue -> 0 .. MaxPackets]
    BY <1>1 DEF Init
  <2>3. inIndex \in [Instance -> [0 .. NumQueues -> 0 .. NumQueues]]
    BY Zenon, <1>2 DEF Init
  <2>4. q \in [Instance -> 0 .. NumQueues + 1] /\ k \in 0 .. NumQueues /\ changes \in 0 .. MaxChanges
    BY <1>1 DEF Init
  <2>5. held \in [Instance -> Packet \cup {<<>>}] /\ at \in [Instance -> {"off", "select", "loop", "take", "put"}]
    BY Zenon DEF Init
  <2>6. QED
    BY Zenon, <1>1, <2>1, <2>2, <2>3, <2>4, <2>5 DEF Init, TypeOK
<1>4. Live = {1} /\ Owners = {1} /\ inIndex[1] = NewIndex /\ pc = "idle"
  <2>1. pc = "idle" /\ inIndex[1] = NewIndex /\ \A i \in Instance : at[i] # "off" <=> i = 1
    BY Zenon, <1>1 DEF Init
  <2>2. Live = {1}
    BY Zenon, <1>1, <2>1 DEF Live
  <2>3. QED
    BY Zenon, <2>1, <2>2 DEF Owners
<1>5. Owned(1) = NumQueues /\ \A p \in 1 .. NumQueues : inIndex[1][p] = p - 1
  <2>1. 0 \in 0 .. NumQueues /\ \A p \in 1 .. NumQueues : p \in 0 .. NumQueues /\ p # 0
    BY <1>1
  <2>2. NewIndex[0] = NumQueues /\ \A p \in 1 .. NumQueues : NewIndex[p] = p - 1
    BY Zenon, <2>1 DEF NewIndex
  <2>3. QED
    BY Zenon, <1>4, <2>2 DEF Owned
<1>6. Split
  <2>1. ASSUME NEW n \in Queue PROVE \E p \in 1 .. NumQueues : inIndex[1][p] = n
    <3>1. n + 1 \in 1 .. NumQueues /\ (n + 1) - 1 = n
      BY <1>1 DEF Queue
    <3>2. QED
      BY Zenon, <1>5, <3>1
  <2>2. \A p, r \in 1 .. NumQueues : inIndex[1][p] = inIndex[1][r] => p = r
    BY <1>1, <1>5
  <2>3. QED
    BY <1>4, <1>5, <2>1, <2>2 DEF Split
<1>7. Arrays
  <2>1. ASSUME NEW i \in Instance, NEW p \in 1 .. NumQueues PROVE inIndex[i][p] \in Queue
    <3>1. p - 1 \in Queue /\ 0 \in Queue
      BY <1>1 DEF Queue
    <3>2. CASE i = 1
      BY Zenon, <1>5, <3>1, <3>2
    <3>3. CASE i # 1
      BY <1>1, <3>1, <3>3 DEF Init, ZeroIndex
    <3>4. QED
      BY Zenon, <3>2, <3>3
  <2>2. QED
    BY Zenon, <2>1 DEF Arrays
<1>8. Progress
  BY Zenon, <1>4 DEF Progress
<1>9. Places /\ RingsMatch
  BY DEF Init, Places, Place, RingsMatch
<1>10. QED
  BY Zenon, <1>3, <1>6, <1>7, <1>8, <1>9 DEF HandoverInv

\* Every step keeps the invariant.
LEMMA HandoverStep ==
    ASSUME HandoverAssumption, HandoverInv, [Next]_vars
    PROVE  HandoverInv'
<1>1. ASSUME NEW i \in Instance, Worker(i) PROVE HandoverInv'
  BY Zenon, <1>1, WorkerStep
<1>2. ASSUME NEW i \in Instance, NEW j \in Instance, StartNewInstance(i, j) PROVE HandoverInv'
  BY Zenon, <1>2, StartStep
<1>3. ASSUME NEW i \in Instance, NEW j \in Instance, StopFrom(i, j) PROVE HandoverInv'
  BY Zenon, <1>3, StopStep
<1>4. CASE SchedulerStep
  BY Zenon, <1>4, CopyStep, ShortenStep, PauseStep, MergeStep DEF SchedulerStep
<1>5. CASE UNCHANGED vars
  <2>1. Live' = Live /\ Owners' = Owners
    BY Zenon, <1>5 DEF vars, Live, Owners
  <2>2. TypeOK' /\ Arrays' /\ RingsMatch'
    BY Zenon, <1>5 DEF vars, HandoverInv, TypeOK, Arrays, RingsMatch
  <2>3. Split'
    BY <1>5, <2>1 DEF vars, HandoverInv, Split, Owned, OldLen, Queue
  <2>4. Progress'
    BY Zenon, <1>5, <2>1 DEF vars, HandoverInv, Progress, NewLen, OldLen
  <2>5. Places'
    BY Zenon, <1>5 DEF vars, HandoverInv, Places, Place, Packet, Queue
  <2>6. QED
    BY Zenon, <2>2, <2>3, <2>4, <2>5 DEF HandoverInv
<1>6. QED
  BY Zenon, <1>1, <1>2, <1>3, <1>4, <1>5 DEF Next

\* What the invariant says of the queues and of the workers.
LEMMA HandoverConclusion ==
    ASSUME HandoverAssumption, HandoverInv
    PROVE  HandoverSound
<1>1. QueuesHaveOneOwner
  <2>1. SUFFICES ASSUME pc = "idle", NEW n \in Queue
                 PROVE  \E i \in Live : \E p \in 1 .. inIndex[i][0] :
                            \A j \in Live : \A r \in 1 .. inIndex[j][0] :
                                (inIndex[j][r] = n) = (j = i /\ r = p)
    BY Zenon DEF QueuesHaveOneOwner
  <2>2. Owners = Live /\ \A i \in Live : Owned(i) = inIndex[i][0]
    BY Zenon, <2>1 DEF Owners, Owned
  <2>6. PICK i \in Live : \E p \in 1 .. inIndex[i][0] : inIndex[i][p] = n
    BY <2>2 DEF HandoverInv, Split
  <2>3. PICK p \in 1 .. inIndex[i][0] : inIndex[i][p] = n
    BY Zenon, <2>6
  <2>4. ASSUME NEW j \in Live, NEW r \in 1 .. inIndex[j][0]
        PROVE  (inIndex[j][r] = n) = (j = i /\ r = p)
    BY <2>2, <2>3 DEF HandoverInv, Split
  <2>5. QED
    BY Zenon, <2>3, <2>4
<1>2. OneWorkerPerQueue
  <2>1. SUFFICES ASSUME pc \notin {"shorten", "pause"}, NEW i \in Live, NEW j \in Live, i # j,
                        at[i] = "put", at[j] = "put"
                 PROVE  held[i][1] # held[j][1]
    BY Zenon DEF OneWorkerPerQueue
  <2>2. i \in Instance /\ j \in Instance /\ i \in Owners /\ j \in Owners
    BY Zenon DEF Live, Owners
  <2>3. Owned(i) = inIndex[i][0] /\ Owned(j) = inIndex[j][0]
    BY Zenon, <2>1 DEF Owned
  <2>4. q[i] \in 1 .. Owned(i) /\ q[j] \in 1 .. Owned(j)
    BY <2>1, <2>2, <2>3, Lengths DEF HandoverInv, Places, Place, TypeOK, HandoverAssumption
  <2>5. held[i][1] = inIndex[i][q[i]] /\ held[j][1] = inIndex[j][q[j]]
    BY Zenon, <2>1, <2>2 DEF HandoverInv, Places, Place
  <2>6. QED
    BY <2>1, <2>2, <2>4, <2>5 DEF HandoverInv, Split
<1>3. QED
  BY Zenon, <1>1, <1>2 DEF HandoverInv, HandoverSound

\* constructDuplicatedIndex, stopInstance and updatePause hand the queues over:
\* whatever the numbers of queues and instances, at rest every queue has one
\* owner, two workers hold packets of one queue only until the pause that ends a
\* split, and a packet leaves by the ring of the queue it came in by.
THEOREM HandoverStaysSound == ASSUME HandoverAssumption PROVE Spec => []HandoverSound
<1>1. Init => HandoverInv
  BY Zenon, HandoverInit
<1>2. HandoverInv /\ [Next]_vars => HandoverInv'
  BY Zenon, HandoverStep
<1>3. HandoverInv => HandoverSound
  BY Zenon, HandoverConclusion
<1>4. QED
  BY <1>1, <1>2, <1>3, PTL DEF Spec
====
