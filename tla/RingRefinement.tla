-------------------------- MODULE RingRefinement ----------------------------
(***************************************************************************)
(* The ring implements the bounded queue of RingFIFO, for every number of  *)
(* threads, ring size, word size and burst size.                           *)
(***************************************************************************)
EXTENDS RingProofs

\* The slot of a position does not depend on where one counts from.
LEMMA SlotShift ==
    ASSUME NEW h \in Index, NEW n \in Nat, NEW j \in Nat, n + j <= Mask
    PROVE  Add(h, n) \in Index /\ SlotOf(Add(h, n), j) = SlotOf(h, n + j)
<1>1. n \in 0 .. (Word - 1) /\ j \in 0 .. Mask /\ n + j \in 0 .. Mask
  BY Sizes
<1>2. Add(h, n) \in Index
  BY Zenon, <1>1, WordArithmetic
<1>3. PICK k \in Int : SlotOf(h, n + j) = h + (n + j) + Size * k
  BY Zenon, <1>1, SlotCongruent
<1>4. PICK m \in Int : SlotOf(Add(h, n), j) = Add(h, n) + j + Size * m
  BY Zenon, <1>1, <1>2, SlotCongruent
<1>5. PICK laps \in 2 .. Word : Word = Size * laps
  BY Zenon, RingAssumption
<1>6. PICK a \in Int : Add(h, n) = h + n + Size * a
  <2>1. Add(h, n) = h + n + Size * 0 \/ Add(h, n) = h + n + Size * (-laps)
    BY <1>5, Sizes DEF Add, Index
  <2>2. QED
    BY <1>5, <2>1
<1> DEFINE x == SlotOf(Add(h, n), j)
           y == SlotOf(h, n + j)
           d == a + m - k
<1>7. x \in 0 .. Mask /\ y \in 0 .. Mask /\ d \in Int
  BY <1>1, <1>2, SlotCongruent
<1>8. x - y = Size * d
  <2>1. Size * d = Size * a + Size * m - Size * k
    BY Sizes
  <2>2. Size * a \in Int /\ Size * m \in Int /\ Size * k \in Int /\ h \in Int
    BY Sizes DEF Index
  <2>3. x = h + n + Size * a + j + Size * m /\ y = h + (n + j) + Size * k
    BY Zenon, <1>3, <1>4, <1>6
  <2>4. QED
    BY <2>1, <2>2, <2>3
<1> HIDE DEF x, y, d
<1>9. d = 0
  <2>1. d >= 1 => Size * d >= Size
    BY <1>7, Sizes
  <2>2. d <= -1 => Size * d <= -Size
    BY <1>7, Sizes
  <2>3. QED
    BY <1>7, <1>8, <2>1, <2>2, Sizes
<1>10. x = y
  BY <1>7, <1>8, <1>9, Sizes
<1>11. QED
  BY Zenon, <1>2, <1>10 DEF x, y

\* The queue and its length.
LEMMA QueueLength ==
    ASSUME IInv
    PROVE  /\ Sub(prodTail, consHead) \in Nat /\ Sub(prodTail, consHead) <= Mask
           /\ DOMAIN Published = 1 .. Sub(prodTail, consHead)
           /\ Published \in Seq(Item \cup {NoItem})
           /\ Len(Published) = Sub(prodTail, consHead)
<1>1. /\ Sub(prodTail, consHead) \in Nat /\ Sub(consHead, consTail) \in Nat
      /\ Sub(prodHead, prodTail) \in Nat
  BY Zenon, Distances DEF IInv
<1>2. Sub(prodTail, consHead) <= Mask
  BY <1>1, Sizes DEF IInv, IndicesInOrder
<1>3. \A i \in 1 .. Sub(prodTail, consHead) : slots[SlotOf(consHead, i - 1)] \in Item \cup {NoItem}
  <2> SUFFICES ASSUME NEW i \in 1 .. Sub(prodTail, consHead)
               PROVE  slots[SlotOf(consHead, i - 1)] \in Item \cup {NoItem}
    BY Zenon
  <2>1. i - 1 \in 0 .. Mask /\ consHead \in Index
    BY <1>1, <1>2, Sizes DEF IInv, TypeOK
  <2>2. SlotOf(consHead, i - 1) \in 0 .. Mask
    BY Zenon, <2>1, SlotCongruent
  <2>3. QED
    BY Zenon, <2>2 DEF IInv, TypeOK
<1>4. Published \in [1 .. Sub(prodTail, consHead) -> Item \cup {NoItem}]
  BY Zenon, <1>3 DEF Published
<1>5. QED
  BY <1>1, <1>2, <1>4

\* A step that leaves the published slots alone leaves the queue alone.
LEMMA QueueSame ==
    ASSUME IInv, UNCHANGED <<prodTail, consHead>>,
           \A j \in Nat : j < Sub(prodTail, consHead) =>
               slots'[SlotOf(consHead, j)] = slots[SlotOf(consHead, j)]
    PROVE  Published' = Published
<1>1. \A i \in 1 .. Sub(prodTail, consHead) : i - 1 \in Nat /\ i - 1 < Sub(prodTail, consHead)
  BY QueueLength
<1>2. QED
  BY Zenon, <1>1 DEF Published, Sub, SlotOf

\* A step that leaves a consumer and the slots of its claim alone leaves what it
\* has taken alone.
LEMMA ClaimSame ==
    ASSUME IInv, NEW c \in Consumers, Same(c), got'[c] = got[c],
           pc[c] = "copy" => \A j \in Nat : j < Count(c) =>
               slots'[SlotOf(head[c], j)] = slots[SlotOf(head[c], j)]
    PROVE  Claimed(c)' = Claimed(c)
<1>1. Count(c) \in Nat /\ Count(c)' = Count(c)
  BY Zenon, Distances DEF Same, Count, Clip, IInv, Thread
<1>2. \A i \in 1 .. Count(c) : i - 1 \in Nat /\ i - 1 < Count(c)
  BY <1>1
<1>3. QED
  BY Zenon, <1>1, <1>2 DEF Claimed, Same, SlotOf

\* The queue, the calls and the claims are as they were: a step RingFIFO does
\* not see.
LEMMA Unseen ==
    ASSUME Published' = Published, UNCHANGED <<buf, want>>,
           \A c \in Consumers : Claimed(c)' = Claimed(c)
    PROVE  UNCHANGED FIFO!vars
BY Zenon DEF FIFO!vars, Claims

\* What CopiesRight says of one producer and of one consumer.
StoredRight(p) ==
    /\ pc[p] = "idle" => buf[p] = <<>>
    /\ \A i \in 1 .. done[p] : slots[SlotOf(head[p], i - 1)] = buf[p][i]
LoadedRight(c) ==
    /\ pc[c] = "idle" => want[c] = 0
    /\ Len(got[c]) = done[c]

\* A step of thread s that leaves the slots alone which the other producers have
\* stored to keeps CopiesRight if it does so for s.
LEMMA CopiesStep ==
    ASSUME IInv, CopiesRight, NEW s \in Thread,
           \A t \in Thread \ {s} : Same(t),
           \A p \in Producers \ {s} : /\ buf'[p] = buf[p]
                                      /\ \A j \in Nat : j < done[p] =>
                                           slots'[SlotOf(head[p], j)] = slots[SlotOf(head[p], j)],
           \A c \in Consumers \ {s} : want'[c] = want[c] /\ got'[c] = got[c],
           s \in Producers => StoredRight(s)',
           s \in Consumers => LoadedRight(s)'
    PROVE  CopiesRight'
<1>1. ASSUME NEW p \in Producers PROVE StoredRight(p)'
  <2>1. CASE p = s
    BY Zenon, <2>1
  <2>2. CASE p # s
    <3>4. done[p] \in Nat
      BY Sizes DEF Thread, IInv, TypeOK
    <3>1. StoredRight(p) /\ Same(p) /\ buf'[p] = buf[p]
      BY Zenon, <2>2 DEF CopiesRight, StoredRight, Thread
    <3>2. ASSUME NEW i \in 1 .. done[p]
          PROVE  slots'[SlotOf(head[p], i - 1)] = slots[SlotOf(head[p], i - 1)]
      BY <2>2, <3>4
    <3>3. QED
      BY <3>1, <3>2 DEF StoredRight, Same, SlotOf
  <2>3. QED
    BY Zenon, <2>1, <2>2
<1>2. ASSUME NEW c \in Consumers PROVE LoadedRight(c)'
  <2>1. CASE c = s
    BY Zenon, <2>1
  <2>2. CASE c # s
    BY <2>2 DEF CopiesRight, LoadedRight, Same, Thread
  <2>3. QED
    BY Zenon, <2>1, <2>2
<1>3. QED
  BY Zenon, <1>1, <1>2 DEF CopiesRight, StoredRight, LoadedRight

\* The steps of the ring and what RingFIFO sees of them.
Simulates == CopiesRight' /\ [FIFO!Next]_(FIFO!vars)

\* A step of a producer that stores nothing and publishes nothing: the queue and
\* the claims of the consumers stay.
LEMMA ProducerFrame ==
    ASSUME IInv, NEW p \in Producers, UNCHANGED <<prodTail, consHead, slots, want, got>>,
           \A t \in Thread \ {p} : Same(t)
    PROVE  Published' = Published /\ \A c \in Consumers : Claimed(c)' = Claimed(c)
<1>1. Published' = Published
  BY Zenon, QueueSame
<1>2. ASSUME NEW c \in Consumers PROVE Claimed(c)' = Claimed(c)
  <2>1. c \in Thread \ {p}
    BY Zenon, RingAssumption DEF Thread
  <2>2. QED
    BY Zenon, <2>1, ClaimSame
<1>3. QED
  BY Zenon, <1>1, <1>2

\* A call of EnqueueBurst is an offer.
LEMMA OfferSimulated ==
    ASSUME IInv, CopiesRight, NEW p \in Producers, NEW b \in Burst, EnqueueBurst(p, b)
    PROVE  Simulates
<1> USE DEF EnqueueBurst, LoadProdHead
<1>1. \A t \in Thread \ {p} : Same(t)
  BY Zenon DEF IInv, TypeOK, Same, Asked, Thread
<1>2. UNCHANGED <<prodTail, consHead, slots, want, got>> /\ p \in Thread /\ p \notin Consumers
  BY Zenon, RingAssumption DEF indices, Thread
<1>3. Published' = Published /\ \A c \in Consumers : Claimed(c)' = Claimed(c)
  BY Zenon, <1>1, <1>2, ProducerFrame
<1>4. StoredRight(p)'
  <2>1. done'[p] = 0 /\ pc'[p] = "tail"
    BY Zenon, <1>2 DEF IInv, SomethingToCopy, TypeOK
  <2>2. QED
    BY <2>1 DEF StoredRight
<1>5. CopiesRight'
  BY Zenon, <1>1, <1>2, <1>4, CopiesStep DEF IInv, TypeOK
<1>6. FIFO!Offer(p)
  <2>1. buf[p] = <<>> /\ b \in FIFO!Offers
    BY Zenon DEF CopiesRight, Burst, FIFO!Offers
  <2>2. Claims' = Claims
    BY Zenon, <1>3 DEF Claims
  <2>3. QED
    BY Zenon, <1>2, <1>3, <2>1, <2>2 DEF FIFO!Offer
<1>7. QED
  BY Zenon, <1>5, <1>6 DEF Simulates, FIFO!Next

\* Another turn of the loop is not seen.
LEMMA RetryEnqueueSimulated ==
    ASSUME IInv, CopiesRight, NEW p \in Producers, RetryEnqueue(p)
    PROVE  Simulates
<1> USE DEF RetryEnqueue, LoadProdHead
<1>1. \A t \in Thread \ {p} : Same(t)
  BY Zenon DEF IInv, TypeOK, Same, Asked, Thread
<1>2. UNCHANGED <<prodTail, consHead, slots, buf, want, got>> /\ p \in Thread /\ p \notin Consumers
  BY Zenon, RingAssumption DEF indices, Thread
<1>3. Published' = Published /\ \A c \in Consumers : Claimed(c)' = Claimed(c)
  BY Zenon, <1>1, <1>2, ProducerFrame
<1>4. StoredRight(p)'
  <2>1. done'[p] = 0 /\ pc'[p] = "tail"
    BY Zenon, <1>2 DEF IInv, SomethingToCopy, TypeOK
  <2>2. QED
    BY <2>1 DEF StoredRight
<1>5. CopiesRight'
  BY Zenon, <1>1, <1>2, <1>4, CopiesStep DEF IInv, TypeOK
<1>6. QED
  BY Zenon, <1>2, <1>3, <1>5, Unseen DEF Simulates

\* Loading cons.tail is not seen, unless the ring is full: then the call has
\* queued nothing.
LEMMA LoadConsTailSimulated ==
    ASSUME IInv, CopiesRight, NEW p \in Producers, LoadConsTail(p)
    PROVE  Simulates
<1> USE DEF LoadConsTail
<1>1. \A t \in Thread \ {p} : Same(t)
  BY Zenon DEF IInv, TypeOK, Same, Asked, Thread, ReturnEnqueue, Return
<1>2. UNCHANGED <<prodTail, consHead, slots, want, got>> /\ p \in Thread /\ p \notin Consumers
  BY Zenon, RingAssumption DEF indices, Thread
<1>3. Published' = Published /\ \A c \in Consumers : Claimed(c)' = Claimed(c)
  BY Zenon, <1>1, <1>2, ProducerFrame
<1>4. StoredRight(p)' /\ \A q \in Producers \ {p} : buf'[q] = buf[q]
  <2>1. done'[p] = 0 /\ (pc'[p] = "idle" => buf'[p] = <<>>) /\ \A q \in Producers \ {p} : buf'[q] = buf[q]
    BY Zenon, <1>2 DEF IInv, SomethingToCopy, TypeOK, ReturnEnqueue, Return
  <2>2. QED
    BY <2>1 DEF StoredRight
<1>5. CopiesRight'
  BY Zenon, <1>1, <1>2, <1>4, CopiesStep
<1>6. CASE FreeEntries(consTail, head[p]) # 0
  BY Zenon, <1>2, <1>3, <1>5, <1>6, Unseen DEF Simulates
<1>7. CASE FreeEntries(consTail, head[p]) = 0
  <2>1. buf' = [buf EXCEPT ![p] = <<>>]
    BY Zenon, <1>7 DEF ReturnEnqueue
  <2>2. buf[p] \in Burst /\ buf[p] # <<>>
    <3>1. Len(buf[p]) > 0
      BY Zenon, <1>2 DEF IInv, SomethingToCopy, Asked
    <3>2. buf[p] # <<>>
      BY <3>1
    <3>3. QED
      BY Zenon, <3>2 DEF IInv, TypeOK
  <2>3. Len(buf[p]) \in Nat /\ SubSeq(buf[p], 1, 0) = <<>>
    BY <2>2, BurstLen, Sizes
  <2>4. Published \o <<>> = Published /\ Len(Published) + 0 <= Mask
    BY QueueLength, Sizes
  <2>5. Published' = Published \o SubSeq(buf[p], 1, 0)
    BY Zenon, <1>3, <2>3, <2>4
  <2>6. 0 \in 0 .. Len(buf[p])
    BY <2>3
  <2>7. Claims' = Claims /\ want' = want
    BY Zenon, <1>2, <1>3 DEF Claims
  <2>8. FIFO!Enqueue(p)
    BY Zenon, <2>1, <2>2, <2>4, <2>5, <2>6, <2>7 DEF FIFO!Enqueue
  <2>9. QED
    BY Zenon, <1>5, <2>8 DEF Simulates, FIFO!Next
<1>8. QED
  BY Zenon, <1>6, <1>7

\* Claiming a range is not seen.
LEMMA CasProdHeadSimulated ==
    ASSUME IInv, CopiesRight, NEW p \in Producers, CasProdHead(p)
    PROVE  Simulates
<1> USE DEF CasProdHead
<1>1. \A t \in Thread \ {p} : Same(t)
  BY Zenon DEF IInv, TypeOK, Same, Asked, Thread
<1>2. UNCHANGED <<prodTail, consHead, slots, buf, want, got>> /\ p \in Thread /\ p \notin Consumers
  BY Zenon, RingAssumption DEF Thread
<1>3. Published' = Published /\ \A c \in Consumers : Claimed(c)' = Claimed(c)
  BY Zenon, <1>1, <1>2, ProducerFrame
<1>4. StoredRight(p)'
  <2>1. done'[p] = 0 /\ pc'[p] # "idle"
    BY Zenon, <1>2 DEF IInv, SomethingToCopy, TypeOK
  <2>2. QED
    BY <2>1 DEF StoredRight
<1>5. CopiesRight'
  BY Zenon, <1>1, <1>2, <1>4, CopiesStep
<1>6. QED
  BY Zenon, <1>2, <1>3, <1>5, Unseen DEF Simulates

\* Storing an object into a claimed slot is not seen: the slot belongs to no
\* other claim and to no published object.
LEMMA WriteSlotSimulated ==
    ASSUME IInv, CopiesRight, NEW p \in Producers, WriteSlot(p)
    PROVE  Simulates
<1> USE DEF WriteSlot
<1> DEFINE s == SlotOf(head[p], done[p])
<1>1. \A t \in Thread \ {p} : Same(t)
  BY Zenon DEF IInv, TypeOK, Same, Asked
<1>2. UNCHANGED <<prodTail, consHead, buf, want, got>> /\ p \in Thread /\ p \notin Consumers
  BY Zenon, RingAssumption DEF indices, Thread
<1>3. done[p] \in Nat /\ Count(p) \in Nat /\ done[p] < Count(p) /\ pc[p] = "copy"
  BY <1>2, Distances, Sizes DEF IInv, TypeOK
<1>4. s \in 0 .. Mask
  <2>1. head[p] \in Index /\ Sub(head[p], consTail) \in Nat /\ Sub(head[p], consTail) + Count(p) <= Mask
    BY Zenon, <1>2, <1>3, ClaimPositions
  <2>2. done[p] \in 0 .. Mask
    BY <1>3, <2>1, Sizes
  <2>3. QED
    BY Zenon, <2>1, <2>2, SlotCongruent
<1>5. slots'[s] = buf[p][done[p] + 1] /\ \A x \in 0 .. Mask : x # s => slots'[x] = slots[x]
  BY Zenon, <1>4 DEF IInv, TypeOK
<1>10. \A x : x # s => slots'[x] = slots[x]
  BY <1>4 DEF IInv, TypeOK
<1> HIDE DEF s
<1>6. Published' = Published
  <2>1. ASSUME NEW j \in Nat, j < Sub(prodTail, consHead)
        PROVE  slots'[SlotOf(consHead, j)] = slots[SlotOf(consHead, j)]
    <3>1. s # SlotOf(consHead, j)
      BY Zenon, <1>3, <2>1, UnclaimedApart DEF s
    <3>2. QED
      BY Zenon, <1>10, <3>1
  <2>2. QED
    BY Zenon, <1>2, <2>1, QueueSame
<1>7. ASSUME NEW t \in Thread, t # p, pc[t] = "copy", NEW j \in Nat, j < Count(t)
      PROVE  slots'[SlotOf(head[t], j)] = slots[SlotOf(head[t], j)]
  <2>1. s # SlotOf(head[t], j)
    BY Zenon, <1>2, <1>3, <1>7, ClaimSlotsApart DEF s
  <2>2. QED
    BY Zenon, <1>10, <2>1
<1>8. ASSUME NEW c \in Consumers PROVE Claimed(c)' = Claimed(c)
  <2>1. c \in Thread \ {p}
    BY Zenon, <1>2 DEF Thread
  <2>2. QED
    BY Zenon, <1>1, <1>2, <1>7, <2>1, ClaimSame
<1>9. CopiesRight'
  <2>1. ASSUME NEW q \in Producers \ {p}, NEW j \in Nat, j < done[q]
        PROVE  slots'[SlotOf(head[q], j)] = slots[SlotOf(head[q], j)]
    <3>1. q \in Thread /\ Count(q) \in Nat /\ done[q] \in Nat
      BY Distances, Sizes DEF IInv, Thread, TypeOK
    <3>2. done[q] <= Count(q) /\ pc[q] = "copy"
      BY <2>1, <3>1 DEF IInv, SomethingToCopy
    <3>3. j < Count(q)
      BY <2>1, <3>1, <3>2
    <3>4. QED
      BY Zenon, <1>7, <3>1, <3>2, <3>3
  <2>2. StoredRight(p)'
    <3>1. done'[p] = done[p] + 1 /\ pc'[p] = "copy" /\ head'[p] = head[p] /\ buf'[p] = buf[p]
      BY Zenon, <1>2, <1>3 DEF IInv, TypeOK
    <3>2. ASSUME NEW i \in 1 .. done[p] + 1 PROVE slots'[SlotOf(head[p], i - 1)] = buf[p][i]
      <4>1. CASE i = done[p] + 1
        BY <1>3, <1>5, <4>1 DEF s
      <4>2. CASE i # done[p] + 1
        <5>1. i \in 1 .. done[p] /\ i - 1 \in Nat /\ i - 1 < Count(p) /\ i - 1 # done[p]
          BY <1>3, <4>2
        <5>2. s # SlotOf(head[p], i - 1)
          BY <1>2, <1>3, <5>1, ClaimSlotsApart DEF s
        <5>3. slots[SlotOf(head[p], i - 1)] = buf[p][i]
          BY Zenon, <5>1 DEF CopiesRight
        <5>4. QED
          BY Zenon, <1>10, <5>2, <5>3
      <4>3. QED
        BY Zenon, <4>1, <4>2
    <3>3. QED
      BY Zenon, <3>1, <3>2 DEF StoredRight, SlotOf
  <2>3. QED
    BY Zenon, <1>1, <1>2, <2>1, <2>2, CopiesStep
<1>11. QED
  BY Zenon, <1>2, <1>6, <1>8, <1>9, Unseen DEF Simulates

\* The store to prod.tail queues what the claim holds, in one block.
LEMMA PublishProdTailSimulated ==
    ASSUME IInv, CopiesRight, IInv', NEW p \in Producers, PublishProdTail(p)
    PROVE  Simulates
<1> USE DEF PublishProdTail, ReturnEnqueue, Return
<1> DEFINE n == Count(p)
           len == Sub(prodTail, consHead)
<1>1. \A t \in Thread \ {p} : Same(t)
  BY DEF IInv, TypeOK, Same, Asked
<1>2. UNCHANGED <<consHead, slots, want, got>> /\ p \in Thread /\ p \notin Consumers
  BY Zenon, RingAssumption DEF Thread
<1>3. /\ pc[p] = "copy" /\ done[p] = n /\ head[p] = prodTail /\ prodTail' = Add(prodTail, n)
      /\ buf' = [buf EXCEPT ![p] = <<>>]
  BY Zenon
<1>4. n \in Nat /\ len \in Nat /\ len + n <= Mask /\ n \in 0 .. Len(buf[p]) /\ Len(buf[p]) \in Nat
  <2>1. /\ Sub(head[p], consTail) \in Nat /\ n \in Nat /\ Sub(head[p], consTail) + n <= Mask
        /\ Sub(head[p], consTail) = Sub(consHead, consTail) + len + Sub(head[p], prodTail)
    BY Zenon, <1>2, <1>3, ClaimPositions
  <2>2. Sub(consHead, consTail) \in Nat /\ len \in Nat /\ Sub(head[p], prodTail) \in Nat
    BY Zenon, <1>2, Distances DEF IInv
  <2>3. CountOK(p) /\ Asked(p) = Len(buf[p])
    BY Zenon, <1>2, CountType DEF IInv, Asked
  <2>4. QED
    BY SMTT(30), <2>1, <2>2, <2>3, Sizes DEF CountOK
<1>5. consHead \in Index /\ prodTail \in Index
  BY Zenon DEF IInv, TypeOK
<1>6. Sub(prodTail', consHead') = len + n /\ prodTail = Add(consHead, len)
  <2>1. len + n < Word
    BY <1>4, Sizes
  <2>2. Sub(prodTail', consHead) = len + n
    BY <1>3, <1>4, <1>5, <2>1, AddSub
  <2>3. prodTail = Add(consHead, len)
    BY <1>5, Sizes DEF Add, Sub, Index
  <2>4. QED
    BY Zenon, <1>2, <2>2, <2>3
<1> HIDE DEF n, len
<1>7. ASSUME NEW i \in 1 .. n PROVE slots[SlotOf(consHead, len + i - 1)] = buf[p][i]
  <2>1. i - 1 \in Nat /\ len + (i - 1) <= Mask /\ len + (i - 1) = len + i - 1
    BY <1>4, Sizes
  <2>2. SlotOf(prodTail, i - 1) = SlotOf(consHead, len + (i - 1))
    BY <1>4, <1>5, <1>6, <2>1, SlotShift
  <2>3. slots[SlotOf(head[p], i - 1)] = buf[p][i]
    BY Zenon, <1>3 DEF CopiesRight
  <2>4. QED
    BY Zenon, <1>3, <2>1, <2>2, <2>3
<1>8. buf[p] \in Burst /\ buf[p] # <<>>
  <2>1. Len(buf[p]) > 0
    BY Zenon, <1>2, <1>3 DEF IInv, SomethingToCopy, Asked
  <2>2. buf[p] # <<>>
    BY <2>1
  <2>3. QED
    BY Zenon, <2>2 DEF IInv, TypeOK
<1>9. /\ buf[p] \in Seq(Item) /\ SubSeq(buf[p], 1, n) \in Seq(Item) /\ Len(SubSeq(buf[p], 1, n)) = n
      /\ \A i \in 1 .. n : SubSeq(buf[p], 1, n)[i] = buf[p][i]
  <2>1. buf[p] \in Seq(Item)
    BY <1>8 DEF Burst
  <2>2. QED
    BY <1>4, <2>1
<1>10. Published' = Published \o SubSeq(buf[p], 1, n)
  <2>1. Published' = [i \in 1 .. (len + n) |-> slots[SlotOf(consHead, i - 1)]]
    BY Zenon, <1>2, <1>6 DEF Published, SlotOf
  <2>2. Published \in Seq(Item \cup {NoItem}) /\ Len(Published) = len
    BY Zenon, QueueLength DEF len
  <2>3. SubSeq(buf[p], 1, n) \in Seq(Item \cup {NoItem})
    BY <1>9
  <2> DEFINE r == Published \o SubSeq(buf[p], 1, n)
  <2>4. r \in Seq(Item \cup {NoItem}) /\ Len(r) = len + n
    <3>1. r \in Seq(Item \cup {NoItem})
      BY <2>2, <2>3
    <3>2. Len(r) = Len(Published) + Len(SubSeq(buf[p], 1, n))
      BY <2>2, <2>3
    <3>3. QED
      BY Zenon, <1>9, <2>2, <3>1, <3>2
  <2>5. ASSUME NEW i \in 1 .. (len + n) PROVE r[i] = slots[SlotOf(consHead, i - 1)]
    <3>1. CASE i <= len
      <4>1. r[i] = Published[i] /\ i \in 1 .. len
        BY <1>4, <1>9, <2>2, <2>3, <3>1
      <4>2. QED
        BY Zenon, <4>1 DEF Published, len
    <3>2. CASE ~(i <= len)
      <4>1. r[i] = SubSeq(buf[p], 1, n)[i - len] /\ i - len \in 1 .. n
        BY <1>4, <1>9, <2>2, <2>3, <3>2
      <4>2. len + (i - len) - 1 = i - 1
        BY <1>4
      <4>3. r[i] = buf[p][i - len]
        BY Zenon, <1>9, <4>1
      <4>4. slots[SlotOf(consHead, len + (i - len) - 1)] = buf[p][i - len]
        BY Zenon, <1>7, <4>1
      <4>5. QED
        BY Zenon, <4>2, <4>3, <4>4
    <3>3. QED
      BY Zenon, <3>1, <3>2
  <2>6. r = [i \in 1 .. (len + n) |-> slots[SlotOf(consHead, i - 1)]]
    <3>1. DOMAIN r = 1 .. (len + n) /\ r = [i \in DOMAIN r |-> r[i]]
      BY <2>4
    <3> HIDE DEF r
    <3>2. QED
      BY Zenon, <2>5, <3>1
  <2>7. QED
    BY Zenon, <2>1, <2>6
<1>11. ASSUME NEW c \in Consumers PROVE Claimed(c)' = Claimed(c)
  <2>1. c \in Thread \ {p}
    BY Zenon, <1>2 DEF Thread
  <2>2. QED
    BY Zenon, <1>1, <1>2, <2>1, ClaimSame
<1>12. CopiesRight'
  <2>1. done'[p] = 0 /\ buf'[p] = <<>> /\ \A q \in Producers \ {p} : buf'[q] = buf[q]
    BY <1>2 DEF IInv, TypeOK
  <2>2. StoredRight(p)'
    BY <2>1 DEF StoredRight
  <2>3. QED
    BY Zenon, <1>1, <1>2, <2>1, <2>2, CopiesStep
<1>13. FIFO!Enqueue(p)
  <2>1. Claims' = Claims
    BY Zenon, <1>11 DEF Claims
  <2>2. Len(Published) + n <= Mask
    BY Zenon, <1>4, QueueLength DEF len
  <2>3. QED
    BY SMTT(30), <1>2, <1>3, <1>4, <1>8, <1>10, <2>1, <2>2 DEF FIFO!Enqueue
<1>14. QED
  BY Zenon, <1>12, <1>13 DEF Simulates, FIFO!Next

\* A step of a consumer that claims nothing leaves the queue and the other claims
\* alone.
LEMMA ConsumerFrame ==
    ASSUME IInv, CopiesRight, NEW c \in Consumers, UNCHANGED <<slots, buf>>,
           \A t \in Thread \ {c} : Same(t),
           \A d \in Consumers \ {c} : want'[d] = want[d] /\ got'[d] = got[d],
           LoadedRight(c)'
    PROVE  /\ UNCHANGED <<prodTail, consHead>> => Published' = Published
           /\ \A d \in Consumers \ {c} : Claimed(d)' = Claimed(d)
           /\ CopiesRight'
<1>1. UNCHANGED <<prodTail, consHead>> => Published' = Published
  BY Zenon, QueueSame
<1>2. ASSUME NEW d \in Consumers \ {c} PROVE Claimed(d)' = Claimed(d)
  BY Zenon, ClaimSame DEF Thread
<1>3. CopiesRight'
  <2>1. c \in Thread /\ c \notin Producers
    BY Zenon, RingAssumption DEF Thread
  <2>2. QED
    BY Zenon, <2>1, CopiesStep
<1>4. QED
  BY Zenon, <1>1, <1>2, <1>3

\* A call of DequeueBurst asks.
LEMMA AskSimulated ==
    ASSUME IInv, CopiesRight, NEW c \in Consumers, NEW n \in 1 .. MaxBurst, DequeueBurst(c, n)
    PROVE  Simulates
<1> USE DEF DequeueBurst, LoadConsHead
<1>1. \A t \in Thread \ {c} : Same(t)
  BY Zenon DEF IInv, TypeOK, Same, Asked, Thread
<1>2. UNCHANGED <<prodTail, consHead, slots, buf, got>> /\ c \in Thread
  BY Zenon DEF indices, Thread
<1>3. pc'[c] = "tail" /\ pc[c] = "idle" /\ done'[c] = done[c] /\ want[c] = 0
  BY Zenon, <1>2 DEF IInv, TypeOK, CopiesRight
<1>4. LoadedRight(c)'
  BY Zenon, <1>2, <1>3 DEF LoadedRight, CopiesRight
<1>5. Published' = Published /\ CopiesRight' /\ \A d \in Consumers \ {c} : Claimed(d)' = Claimed(d)
  BY Zenon, <1>1, <1>2, <1>4, ConsumerFrame DEF IInv, TypeOK
<1>6. Claims' = Claims
  BY Zenon, <1>3, <1>5 DEF Claims, Claimed
<1>7. FIFO!Ask(c)
  BY Zenon, <1>2, <1>3, <1>5, <1>6 DEF FIFO!Ask
<1>8. QED
  BY Zenon, <1>5, <1>7 DEF Simulates, FIFO!Next

\* Another turn of the loop is not seen.
LEMMA RetryDequeueSimulated ==
    ASSUME IInv, CopiesRight, NEW c \in Consumers, RetryDequeue(c)
    PROVE  Simulates
<1> USE DEF RetryDequeue, LoadConsHead
<1>1. \A t \in Thread \ {c} : Same(t)
  BY Zenon DEF IInv, TypeOK, Same, Asked, Thread
<1>2. UNCHANGED <<prodTail, consHead, slots, buf, want, got>> /\ c \in Thread
  BY Zenon DEF indices, Thread
<1>3. pc'[c] = "tail" /\ pc[c] = "retry" /\ done'[c] = done[c]
  BY Zenon, <1>2 DEF IInv, TypeOK
<1>4. LoadedRight(c)'
  BY Zenon, <1>2, <1>3 DEF LoadedRight, CopiesRight
<1>5. Published' = Published /\ CopiesRight' /\ \A d \in Consumers \ {c} : Claimed(d)' = Claimed(d)
  BY Zenon, <1>1, <1>2, <1>4, ConsumerFrame
<1>6. Claimed(c)' = Claimed(c)
  BY Zenon, <1>3 DEF Claimed
<1>7. QED
  BY Zenon, <1>2, <1>5, <1>6, Unseen DEF Simulates

\* Loading prod.tail is not seen, unless the ring is empty: then the call
\* delivers nothing.
LEMMA LoadProdTailSimulated ==
    ASSUME IInv, CopiesRight, NEW c \in Consumers, LoadProdTail(c)
    PROVE  Simulates
<1> USE DEF LoadProdTail
<1>1. \A t \in Thread \ {c} : Same(t)
  BY Zenon DEF IInv, TypeOK, Same, Asked, Thread, ReturnDequeue, Return
<1>2. UNCHANGED <<prodTail, consHead, slots, buf>> /\ c \in Thread /\ c \notin Producers
  BY Zenon, RingAssumption DEF indices, Thread
<1>3. pc'[c] \in {"idle", "cas"} /\ pc[c] = "tail" /\ done[c] = 0
  BY Zenon, <1>2 DEF IInv, TypeOK, SomethingToCopy, ReturnDequeue, Return
<1>4. /\ LoadedRight(c)'
      /\ \A d \in Consumers \ {c} : want'[d] = want[d] /\ got'[d] = got[d]
  <2>1. CASE ReturnDequeue(c)
    <3>1. want'[c] = 0 /\ got'[c] = <<>> /\ done'[c] = 0
      BY Zenon, <1>2, <2>1 DEF ReturnDequeue, Return, IInv, TypeOK
    <3>2. LoadedRight(c)'
      BY Zenon, <3>1 DEF LoadedRight
    <3>3. QED
      BY Zenon, <2>1, <3>2 DEF ReturnDequeue, IInv, TypeOK
  <2>2. CASE ~ReturnDequeue(c)
    BY Zenon, <1>2, <2>2 DEF LoadedRight, CopiesRight, IInv, TypeOK
  <2>3. QED
    BY Zenon, <2>1, <2>2
<1>5. Published' = Published /\ CopiesRight' /\ \A d \in Consumers \ {c} : Claimed(d)' = Claimed(d)
  BY Zenon, <1>1, <1>2, <1>4, ConsumerFrame
<1>6. Claimed(c) = <<>> /\ Claimed(c)' = <<>>
  BY Zenon, <1>3 DEF Claimed
<1>7. CASE Entries(prodTail, head[c]) # 0
  BY Zenon, <1>2, <1>5, <1>6, <1>7, Unseen DEF Simulates
<1>8. CASE Entries(prodTail, head[c]) = 0
  <2>1. want' = [want EXCEPT ![c] = 0]
    BY Zenon, <1>8 DEF ReturnDequeue
  <2>2. want[c] # 0
    BY <1>2, <1>3 DEF IInv, SomethingToCopy, Asked
  <2>3. Claims' = [Claims EXCEPT ![c] = <<>>]
    BY Zenon, <1>5, <1>6 DEF Claims
  <2>4. FIFO!Deliver(c)
    BY Zenon, <1>2, <1>5, <2>1, <2>2, <2>3 DEF FIFO!Deliver
  <2>5. QED
    BY Zenon, <1>5, <2>4 DEF Simulates, FIFO!Next
<1>9. QED
  BY Zenon, <1>7, <1>8

\* The compare-and-swap on cons.head takes the oldest objects, in one block.
LEMMA CasConsHeadSimulated ==
    ASSUME IInv, CopiesRight, NEW c \in Consumers, CasConsHead(c)
    PROVE  Simulates
<1> USE DEF CasConsHead
<1>1. \A t \in Thread \ {c} : Same(t)
  BY Zenon DEF IInv, TypeOK, Same, Asked
<1>2. UNCHANGED <<prodTail, slots, buf, want, got>> /\ c \in Thread /\ c \notin Producers
  BY Zenon, RingAssumption DEF Thread
<1>3. pc'[c] # "idle" /\ pc[c] = "cas" /\ done[c] = 0 /\ done'[c] = 0
  BY Zenon, <1>2 DEF IInv, TypeOK, SomethingToCopy
<1>4. LoadedRight(c)'
  BY Zenon, <1>2, <1>3 DEF LoadedRight, CopiesRight
<1>5. /\ UNCHANGED <<prodTail, consHead>> => Published' = Published
      /\ CopiesRight' /\ \A d \in Consumers \ {c} : Claimed(d)' = Claimed(d)
  BY Zenon, <1>1, <1>2, <1>4, ConsumerFrame
<1>6. CASE consHead # head[c]
  <2>1. pc'[c] = "retry" /\ consHead' = consHead
    BY Zenon, <1>2, <1>6 DEF IInv, TypeOK
  <2>2. Claimed(c)' = Claimed(c)
    BY Zenon, <1>3, <2>1 DEF Claimed
  <2>3. QED
    BY Zenon, <1>2, <1>5, <2>1, <2>2, Unseen DEF Simulates
<1>7. CASE consHead = head[c]
  <2> DEFINE n == Count(c)
             len == Sub(prodTail, consHead)
  <2>1. pc'[c] = "copy" /\ head'[c] = consHead /\ room'[c] = room[c] /\ consHead' = Add(consHead, n)
    BY Zenon, <1>2, <1>7 DEF IInv, TypeOK
  <2>2. CountOK(c) /\ Asked(c) = want[c] /\ Asked(c) > 0 /\ room[c] > 0
    BY Zenon, <1>2, <1>3, CountType DEF IInv, SomethingToCopy, Asked
  <2>3. n \in 1 .. want[c] /\ room[c] \in Nat /\ n <= room[c]
    BY <2>2, Sizes DEF CountOK, Index
  <2>4. room[c] <= len /\ len \in Nat /\ len <= Mask
    BY Zenon, <1>3, <1>7, QueueLength DEF IInv, RoomStillThere
  <2>5. n \in Nat /\ n > 0 /\ n <= len /\ n < Word
    <3>1. want[c] \in Nat
      BY <2>2, Sizes DEF CountOK
    <3>2. QED
      BY <2>3, <2>4, <3>1, Sizes
  <2>6. Count(c)' = n
    BY Zenon, <1>2, <2>1 DEF Count, Clip, Asked
  <2>7. consHead \in Index /\ prodTail \in Index
    BY Zenon DEF IInv, TypeOK
  <2>8. Sub(prodTail', consHead') = len - n
    BY <1>2, <2>1, <2>5, <2>7, SubAdd
  <2> HIDE DEF n, len
  <2>9. Published \in Seq(Item \cup {NoItem}) /\ Len(Published) = len
    BY Zenon, QueueLength DEF len
  <2>10. \A i \in 1 .. len : Published[i] = slots[SlotOf(consHead, i - 1)]
    BY Zenon DEF Published, len
  <2>11. Claimed(c)' = SubSeq(Published, 1, n)
    <3>1. Claimed(c)' = [i \in 1 .. n |-> IF i <= 0 THEN got[c][i] ELSE slots[SlotOf(consHead, i - 1)]]
      BY Zenon, <1>2, <1>3, <2>1, <2>6 DEF Claimed, SlotOf
    <3>2. Claimed(c)' = [i \in 1 .. n |-> slots[SlotOf(consHead, i - 1)]]
      BY <2>5, <3>1
    <3>3. SubSeq(Published, 1, n) = [i \in 1 .. n |-> Published[i]]
      BY <2>5, <2>9
    <3>4. QED
      BY <2>5, <2>4, <2>10, <3>2, <3>3
  <2>12. Published' = SubSeq(Published, n + 1, Len(Published))
    <3>1. Published' = [i \in 1 .. (len - n) |-> slots[SlotOf(Add(consHead, n), i - 1)]]
      BY Zenon, <1>2, <2>1, <2>8 DEF Published, SlotOf
    <3>2. ASSUME NEW i \in 1 .. (len - n)
          PROVE  slots[SlotOf(Add(consHead, n), i - 1)] = Published[n + i]
      <4>1. i - 1 \in Nat /\ n + (i - 1) <= Mask /\ n + i \in 1 .. len /\ (n + i) - 1 = n + (i - 1)
        BY <2>4, <2>5, Sizes
      <4>2. SlotOf(Add(consHead, n), i - 1) = SlotOf(consHead, n + (i - 1))
        BY Zenon, <2>5, <2>7, <4>1, SlotShift
      <4>3. QED
        BY Zenon, <2>10, <4>1, <4>2
    <3>3. SubSeq(Published, n + 1, len) = [i \in 1 .. (len - n) |-> Published[n + i]]
      <4>1. SubSeq(Published, n + 1, len) = [i \in 1 .. (1 + len - (n + 1)) |-> Published[i + (n + 1) - 1]]
        BY <2>4, <2>5, <2>9
      <4>2. 1 + len - (n + 1) = len - n /\ \A i \in 1 .. (len - n) : i + (n + 1) - 1 = n + i
        BY <2>4, <2>5
      <4>3. QED
        BY Zenon, <4>1, <4>2
    <3>4. QED
      BY Zenon, <2>9, <3>1, <3>2, <3>3
  <2>13. Claims' = [Claims EXCEPT ![c] = SubSeq(Published, 1, n)] /\ Claims[c] = <<>>
    <3>1. Claims[c] = <<>>
      BY Zenon, <1>3 DEF Claims, Claimed
    <3>2. QED
      BY ZenonT(30), <1>5, <2>11, <3>1 DEF Claims
  <2>14. want[c] # 0
    <3>1. want[c] \in Nat /\ want[c] > 0
      BY <2>2, Sizes DEF CountOK
    <3>2. QED
      BY <3>1
  <2>15. FIFO!Take(c)
    BY Zenon, <1>2, <2>3, <2>5, <2>9, <2>12, <2>13, <2>14 DEF FIFO!Take
  <2>16. QED
    BY Zenon, <1>5, <2>15 DEF Simulates, FIFO!Next
<1>8. QED
  BY Zenon, <1>6, <1>7

\* Loading an object from a claimed slot is not seen.
LEMMA ReadSlotSimulated ==
    ASSUME IInv, CopiesRight, NEW c \in Consumers, ReadSlot(c)
    PROVE  Simulates
<1> USE DEF ReadSlot
<1> DEFINE x == slots[SlotOf(head[c], done[c])]
<1>1. \A t \in Thread \ {c} : Same(t)
  BY Zenon DEF IInv, TypeOK, Same, Asked
<1>2. UNCHANGED <<prodTail, consHead, slots, buf, want>> /\ c \in Thread /\ c \notin Producers
  BY Zenon, RingAssumption DEF indices, Thread
<1>3. done[c] \in Nat /\ Count(c) \in Nat /\ done[c] < Count(c) /\ pc[c] = "copy"
  BY <1>2, Distances, Sizes DEF IInv, TypeOK
<1>4. /\ pc'[c] = pc[c] /\ head'[c] = head[c] /\ room'[c] = room[c] /\ done'[c] = done[c] + 1
      /\ got'[c] = Append(got[c], x)
      /\ \A d \in Consumers \ {c} : want'[d] = want[d] /\ got'[d] = got[d]
  BY Zenon, <1>2 DEF IInv, TypeOK
<1>5. got[c] \in Seq(Item \cup {NoItem}) /\ Len(got[c]) = done[c]
  BY Zenon DEF IInv, TypeOK, CopiesRight
<1> HIDE DEF x
<1>6. /\ Len(got'[c]) = done[c] + 1 /\ got'[c][done[c] + 1] = x
      /\ \A i \in 1 .. done[c] : got'[c][i] = got[c][i]
  BY <1>3, <1>4, <1>5
<1>7. LoadedRight(c)'
  BY Zenon, <1>3, <1>4, <1>6 DEF LoadedRight
<1>8. Published' = Published /\ CopiesRight' /\ \A d \in Consumers \ {c} : Claimed(d)' = Claimed(d)
  BY Zenon, <1>1, <1>2, <1>4, <1>7, ConsumerFrame
<1>9. Claimed(c)' = Claimed(c)
  <2>1. Count(c)' = Count(c)
    BY Zenon, <1>2, <1>4 DEF Count, Clip, Asked
  <2>2. Claimed(c)' = [i \in 1 .. Count(c) |->
                          IF i <= done[c] + 1 THEN got'[c][i] ELSE slots[SlotOf(head[c], i - 1)]]
    <3>1. pc'[c] = "copy" /\ slots' = slots /\ head'[c] = head[c] /\ done'[c] = done[c] + 1
      BY Zenon, <1>2, <1>3, <1>4
    <3>2. Claimed(c)' = [i \in 1 .. Count(c)' |->
                            IF i <= done'[c] THEN got'[c][i] ELSE slots'[SlotOf(head'[c], i - 1)]]
      BY Zenon, <3>1 DEF Claimed, SlotOf
    <3>3. QED
      BY Zenon, <2>1, <3>1, <3>2
  <2>3. Claimed(c) = [i \in 1 .. Count(c) |->
                         IF i <= done[c] THEN got[c][i] ELSE slots[SlotOf(head[c], i - 1)]]
    BY Zenon, <1>3 DEF Claimed
  <2>4. ASSUME NEW i \in 1 .. Count(c)
        PROVE  (IF i <= done[c] + 1 THEN got'[c][i] ELSE slots[SlotOf(head[c], i - 1)])
               = (IF i <= done[c] THEN got[c][i] ELSE slots[SlotOf(head[c], i - 1)])
    <3>1. CASE i <= done[c]
      BY <1>3, <1>6, <3>1
    <3>2. CASE i = done[c] + 1
      <4>1. i - 1 = done[c] /\ ~(i <= done[c]) /\ i <= done[c] + 1
        BY <1>3, <3>2
      <4>2. QED
        BY Zenon, <1>6, <3>2, <4>1 DEF x
    <3>3. CASE i > done[c] + 1
      BY <1>3, <3>3
    <3>4. i <= done[c] \/ i = done[c] + 1 \/ i > done[c] + 1
      BY <1>3
    <3>5. QED
      BY Zenon, <3>1, <3>2, <3>3, <3>4
  <2>5. QED
    BY ZenonT(30), <2>2, <2>3, <2>4
<1>10. QED
  BY Zenon, <1>2, <1>8, <1>9, Unseen DEF Simulates

\* The store to cons.tail and the return deliver what was taken.
LEMMA PublishConsTailSimulated ==
    ASSUME IInv, CopiesRight, NEW c \in Consumers, PublishConsTail(c)
    PROVE  Simulates
<1> USE DEF PublishConsTail, ReturnDequeue, Return
<1>1. \A t \in Thread \ {c} : Same(t)
  BY DEF IInv, TypeOK, Same, Asked
<1>2. UNCHANGED <<prodTail, consHead, slots, buf>> /\ c \in Thread /\ c \notin Producers
  BY Zenon, RingAssumption DEF Thread
<1>3. pc'[c] = "idle" /\ pc[c] = "copy" /\ want'[c] = 0 /\ got'[c] = <<>> /\ done'[c] = 0
  BY Zenon, <1>2 DEF IInv, TypeOK
<1>4. LoadedRight(c)'
  BY Zenon, <1>3 DEF LoadedRight
<1>5. Published' = Published /\ CopiesRight' /\ \A d \in Consumers \ {c} : Claimed(d)' = Claimed(d)
  <2>1. \A d \in Consumers \ {c} : want'[d] = want[d] /\ got'[d] = got[d]
    BY Zenon DEF IInv, TypeOK
  <2>2. QED
    BY ZenonT(30), <1>1, <1>2, <1>4, <2>1, ConsumerFrame
<1>6. want[c] # 0
  BY <1>2, <1>3 DEF IInv, SomethingToCopy, Asked
<1>7. Claims' = [Claims EXCEPT ![c] = <<>>]
  BY Zenon, <1>3, <1>5 DEF Claims, Claimed
<1>8. FIFO!Deliver(c)
  BY Zenon, <1>2, <1>5, <1>6, <1>7 DEF FIFO!Deliver
<1>9. QED
  BY Zenon, <1>5, <1>8 DEF Simulates, FIFO!Next

\* Every step of the ring is a step of the queue or none.
LEMMA StepSimulated ==
    ASSUME IInv, CopiesRight, IInv', [Next]_vars
    PROVE  Simulates
<1>1. ASSUME NEW p \in Producers, NEW b \in Burst, EnqueueBurst(p, b) PROVE Simulates
  BY Zenon, <1>1, OfferSimulated
<1>2. ASSUME NEW p \in Producers, EnqueueStep(p) PROVE Simulates
  BY Zenon, <1>2, RetryEnqueueSimulated, LoadConsTailSimulated, CasProdHeadSimulated,
     WriteSlotSimulated, PublishProdTailSimulated DEF EnqueueStep
<1>3. ASSUME NEW c \in Consumers, NEW n \in 1 .. MaxBurst, DequeueBurst(c, n) PROVE Simulates
  BY Zenon, <1>3, AskSimulated
<1>4. ASSUME NEW c \in Consumers, DequeueStep(c) PROVE Simulates
  BY Zenon, <1>4, RetryDequeueSimulated, LoadProdTailSimulated, CasConsHeadSimulated,
     ReadSlotSimulated, PublishConsTailSimulated DEF DequeueStep
<1>5. CASE UNCHANGED vars
  <2>1. CopiesRight'
    BY Zenon, <1>5 DEF vars, CopiesRight, SlotOf
  <2>2. Published' = Published
    BY Zenon, <1>5 DEF vars, Published, Sub, SlotOf
  <2>3. \A c \in Consumers : Claimed(c)' = Claimed(c)
    BY <1>5 DEF vars, Claimed, Count, Clip, Asked, SlotOf
  <2>4. QED
    BY Zenon, <1>5, <2>1, <2>2, <2>3, Unseen DEF vars, Simulates
<1>6. QED
  BY Zenon, <1>1, <1>2, <1>3, <1>4, <1>5 DEF Next

\* An empty ring is an empty queue, and nobody has called.
LEMMA InitSimulated == Init => CopiesRight /\ FIFO!Init
<1> SUFFICES ASSUME Init PROVE CopiesRight /\ FIFO!Init
  BY Zenon
<1>1. CopiesRight
  BY DEF Init, CopiesRight, Thread
<1>2. Published = <<>>
  <2>1. Sub(prodTail, consHead) = 0
    BY Sizes DEF Init, Sub, Index
  <2>2. QED
    BY <2>1 DEF Published
<1>3. Claims = [c \in Consumers |-> <<>>]
  BY Zenon DEF Init, Claims, Claimed, Thread
<1>4. QED
  BY Zenon, <1>1, <1>2, <1>3 DEF Init, FIFO!Init

\* EnqueueBurst and DequeueBurst implement a bounded queue of bursts, for any
\* number of threads, ring size, word size and burst size: no object is lost,
\* duplicated or reordered, and none is overwritten while it is being copied.
THEOREM RingIsQueue == Spec => RefinesFIFO
<1>1. IInv /\ CopiesRight /\ IInv' /\ [Next]_vars => CopiesRight' /\ [FIFO!Next]_(FIFO!vars)
  BY Zenon, StepSimulated DEF Simulates
<1>2. Spec => []CopiesRight
  BY <1>1, InitSimulated, Invariance, PTL DEF Spec
<1>3. QED
  BY <1>1, <1>2, InitSimulated, Invariance, PTL DEF Spec, RefinesFIFO, FIFO!Spec
=============================================================================
