------------------------- MODULE RingEnqueueProofs --------------------------
(***************************************************************************)
(* Facts about Ring that the proofs of its invariant share (arithmetic on  *)
(* words that wrap, the slots of positions, what a step of one thread      *)
(* leaves alone), and that every step of an enqueue (nffgoRingMpDoEnqueue) *)
(* preserves the inductive invariant of Ring.                              *)
(***************************************************************************)
EXTENDS Ring, TLAPS

\* The arithmetic facts every proof below needs of the constants.
LEMMA Sizes ==
    /\ Size \in Nat /\ Mask \in Nat /\ Mask >= 1 /\ Mask = Size - 1
    /\ Word \in Nat /\ Word >= 2 * Size
    /\ MaxBurst \in Nat
<1>1. PICK laps \in 2 .. Word : Word = Size * laps
  BY Zenon, RingAssumption
<1>2. Size \in Nat /\ Size > 1 /\ Word \in Nat /\ MaxBurst \in Nat
  BY Zenon, RingAssumption
<1>3. Size * laps >= Size * 2
  BY <1>1, <1>2
<1>4. QED
  BY <1>1, <1>2, <1>3 DEF Mask

\* A producer's objTable is a sequence of at most MaxBurst objects.
LEMMA BurstLen ==
    ASSUME NEW b \in Burst \cup {<<>>}
    PROVE  Len(b) \in 0 .. MaxBurst /\ (b # <<>> => Len(b) > 0)
<1>1. CASE b = <<>>
  BY <1>1, Sizes
<1>2. CASE b \in Burst
  <2>1. PICK n \in 1 .. MaxBurst : b \in [1 .. n -> Item]
    BY Zenon, <1>2 DEF Burst
  <2>2. Len(b) = n
    BY <2>1, Sizes
  <2>3. QED
    BY <2>1, <2>2, Sizes
<1>3. QED
  BY Zenon, <1>1, <1>2

\* Unsigned sums and differences of indices are indices.
LEMMA WordArithmetic ==
    ASSUME NEW a \in Index, NEW b \in Index, NEW n \in 0 .. (Word - 1)
    PROVE  Add(a, n) \in Index /\ Sub(a, b) \in Index
BY Sizes DEF Add, Sub, Index

\* Moving an index forward by n moves its distance from any index it does not
\* pass by n.
LEMMA AddSub ==
    ASSUME NEW a \in Index, NEW b \in Index, NEW n \in Nat, Sub(a, b) + n < Word
    PROVE  Sub(Add(a, n), b) = Sub(a, b) + n
BY Sizes DEF Add, Sub, Index

\* Moving the index the distance is measured from.
LEMMA SubAdd ==
    ASSUME NEW a \in Index, NEW b \in Index, NEW n \in Nat, n <= Sub(a, b)
    PROVE  Sub(a, Add(b, n)) = Sub(a, b) - n
BY Sizes DEF Add, Sub, Index

\* Distances add up.
LEMMA SubChain ==
    ASSUME NEW a \in Index, NEW b \in Index, NEW c \in Index, Sub(a, b) + Sub(b, c) < Word
    PROVE  Sub(a, c) = Sub(a, b) + Sub(b, c)
BY Sizes DEF Sub, Index

\* The slot of the i-th object of a claim is its position modulo Size.
LEMMA SlotCongruent ==
    ASSUME NEW h \in Index, NEW i \in 0 .. Mask
    PROVE  /\ SlotOf(h, i) \in 0 .. Mask
           /\ \E k \in Int : SlotOf(h, i) = h + i + Size * k
<1> DEFINE q == h \div Size
<1>1. q \in Int /\ h = Size * q + (h % Size)
  BY Sizes DEF Index
<1> HIDE DEF q
<1>2. h % Size \in 0 .. Mask
  BY Sizes DEF Index
<1>3. SlotOf(h, i) \in 0 .. Mask
  BY <1>2, Sizes DEF SlotOf
<1>4. CASE (h % Size) + i < Size
  <2>1. SlotOf(h, i) = h + i + Size * (-q)
    BY <1>1, <1>4, Sizes DEF SlotOf, Index
  <2>2. QED
    BY <1>1, <1>3, <2>1
<1>5. CASE ~((h % Size) + i < Size)
  <2>1. SlotOf(h, i) = h + i + Size * (-q - 1)
    BY <1>1, <1>2, <1>5, Sizes DEF SlotOf, Index
  <2>2. QED
    BY <1>1, <1>3, <2>1
<1>6. QED
  BY Zenon, <1>4, <1>5

\* Two objects at most Mask positions after a base have the same slot only if
\* they have the same position.
LEMMA SlotInjective ==
    ASSUME NEW base \in Index,
           NEW g \in Index, NEW i \in Nat, Sub(g, base) + i <= Mask,
           NEW h \in Index, NEW j \in Nat, Sub(h, base) + j <= Mask,
           SlotOf(g, i) = SlotOf(h, j)
    PROVE  Sub(g, base) + i = Sub(h, base) + j
<1>1. i \in 0 .. Mask /\ j \in 0 .. Mask /\ Sub(g, base) \in Nat /\ Sub(h, base) \in Nat
  BY Sizes DEF Sub, Index
<1>2. PICK k \in Int : SlotOf(g, i) = g + i + Size * k
  BY Zenon, <1>1, SlotCongruent
<1>3. PICK m \in Int : SlotOf(h, j) = h + j + Size * m
  BY Zenon, <1>1, SlotCongruent
<1>4. PICK laps \in 2 .. Word : Word = Size * laps
  BY Zenon, RingAssumption
<1>5. PICK a \in Int : g = base + Sub(g, base) + Size * a
  <2>1. g = base + Sub(g, base) + Size * 0 \/ g = base + Sub(g, base) + Size * (-laps)
    BY <1>4, Sizes DEF Sub, Index
  <2>2. QED
    BY <2>1, <1>4
<1>6. PICK b \in Int : h = base + Sub(h, base) + Size * b
  <2>1. h = base + Sub(h, base) + Size * 0 \/ h = base + Sub(h, base) + Size * (-laps)
    BY <1>4, Sizes DEF Sub, Index
  <2>2. QED
    BY <2>1, <1>4
<1> DEFINE x == Sub(g, base) + i
           y == Sub(h, base) + j
           d == (b + m) - (a + k)
<1>7. x - y = Size * d
  <2>1. Size * d = Size * b + Size * m - Size * a - Size * k
    BY Sizes
  <2>2. g + i + Size * k = h + j + Size * m
    BY ZenonT(40), <1>2, <1>3
  <2>3. Size * a \in Int /\ Size * b \in Int /\ Size * k \in Int /\ Size * m \in Int
    BY Sizes
  <2>4. g \in Int /\ h \in Int /\ base \in Int
    BY Sizes DEF Index
  <2>5. \A p, q, sa, sb, sk, sm \in Int :
           /\ g + i + sk = h + j + sm
           /\ g = base + p + sa
           /\ h = base + q + sb
           => (p + i) - (q + j) = sb + sm - sa - sk
    BY <2>4
  <2>6. Sub(g, base) \in Int /\ Sub(h, base) \in Int
    BY <1>1
  <2>7. x - y = Size * b + Size * m - Size * a - Size * k
    BY <1>5, <1>6, <2>2, <2>3, <2>5, <2>6
  <2>8. QED
    BY Zenon, <2>1, <2>7
<1>8. x \in 0 .. Mask /\ y \in 0 .. Mask /\ d \in Int
  BY <1>1
<1> HIDE DEF x, y, d
<1>9. d = 0
  <2>1. d >= 1 => Size * d >= Size
    BY <1>8, Sizes
  <2>2. d <= -1 => Size * d <= -Size
    BY <1>8, Sizes
  <2>3. QED
    BY <1>7, <1>8, <2>1, <2>2, Sizes
<1>10. QED
  BY <1>7, <1>8, <1>9, Sizes DEF x, y

\* The local counts of a thread are numbers within their bounds.
CountOK(t) ==
    /\ Asked(t) \in 0 .. MaxBurst
    /\ room[t] \in Index /\ head[t] \in Index
    /\ Count(t) \in 0 .. MaxBurst
    /\ Count(t) <= room[t] /\ Count(t) <= Asked(t)
    /\ Asked(t) > 0 /\ room[t] > 0 => Count(t) > 0

\* They are, under the type invariant.
LEMMA CountType == TypeOK => \A t \in Thread : CountOK(t)
<1> SUFFICES ASSUME TypeOK, NEW t \in Thread PROVE CountOK(t)
  BY Zenon
<1>1. Asked(t) \in 0 .. MaxBurst
  <2>1. CASE t \in Producers
    <3>1. buf[t] \in Burst \cup {<<>>}
      BY Zenon, <2>1 DEF TypeOK
    <3>2. QED
      BY Zenon, <2>1, <3>1, BurstLen DEF Asked
  <2>2. CASE t \notin Producers
    BY Zenon, <2>2 DEF TypeOK, Asked, Thread
  <2>3. QED
    BY Zenon, <2>1, <2>2
<1>2. room[t] \in Index /\ head[t] \in Index
  BY Zenon DEF TypeOK
<1>3. QED
  BY <1>1, <1>2, Sizes DEF CountOK, Count, Clip, Index

\* The same after a step.
LEMMA CountTypeNext == TypeOK' => \A t \in Thread : CountOK(t)'
<1>1. (TypeOK => \A t \in Thread : CountOK(t))'
  BY CountType, PTL
<1>2. QED
  BY Zenon, <1>1 DEF Thread

\* Thread t is not touched by a step.
Same(t) ==
    /\ pc'[t] = pc[t] /\ head'[t] = head[t]
    /\ room'[t] = room[t] /\ done'[t] = done[t]
    /\ Asked(t)' = Asked(t)

\* What thread t itself must satisfy for SomethingToCopy.
Consistent(t) ==
    /\ pc[t] # "idle" => Asked(t) > 0
    /\ pc[t] \in {"cas", "copy"} => room[t] > 0
    /\ pc[t] # "copy" => done[t] = 0
    /\ done[t] <= Count(t)

\* The distances between indices are numbers.
LEMMA Distances ==
    ASSUME TypeOK
    PROVE  /\ Sub(consHead, consTail) \in Nat /\ Sub(prodTail, consHead) \in Nat
           /\ Sub(prodHead, prodTail) \in Nat
           /\ \A t \in Thread : /\ Sub(head[t], prodTail) \in Nat
                                /\ Sub(head[t], consTail) \in Nat
                                /\ Count(t) \in Nat
<1>1. Sub(consHead, consTail) \in Nat /\ Sub(prodTail, consHead) \in Nat
      /\ Sub(prodHead, prodTail) \in Nat
  BY Sizes DEF TypeOK, Sub, Index
<1>2. ASSUME NEW t \in Thread
      PROVE  Sub(head[t], prodTail) \in Nat /\ Sub(head[t], consTail) \in Nat /\ Count(t) \in Nat
  <2>1. CountOK(t) /\ prodTail \in Index /\ consTail \in Index
    BY Zenon, CountType DEF TypeOK
  <2>2. QED
    BY <2>1, Sizes DEF CountOK, Sub, Index
<1>3. QED
  BY Zenon, <1>1, <1>2

\* A step of thread s that changes no index and makes no claim keeps the
\* invariant if s stays consistent and, when it reaches its compare-and-swap,
\* holds a count that is safe.
LEMMA LocalStep ==
    ASSUME IInv, TypeOK', NEW s \in Thread,
           UNCHANGED indices,
           \A t \in Thread \ {s} : Same(t),
           Consistent(s)',
           pc'[s] = "copy" => pc[s] = "copy" /\ head'[s] = head[s] /\ Count(s)' = Count(s),
           pc'[s] = "cas" /\ s \in Producers /\ head'[s] = prodHead =>
              room'[s] + Sub(consHead, consTail) + Sub(prodTail, consHead)
                       + Sub(prodHead, prodTail) <= Mask,
           pc'[s] = "cas" /\ s \in Consumers /\ head'[s] = consHead =>
              room'[s] <= Sub(prodTail, consHead)
    PROVE  IInv'
<1>1. \A t \in Thread \ {s} : Count(t)' = Count(t)
  BY Zenon DEF Same, Count, Clip
<1>2. SomethingToCopy'
  <2> SUFFICES ASSUME NEW t \in Thread PROVE Consistent(t)'
    BY Zenon DEF SomethingToCopy, Consistent
  <2>1. CASE t = s
    BY Zenon, <2>1
  <2>2. CASE t # s
    <3>1. Consistent(t)
      BY Zenon DEF IInv, SomethingToCopy, Consistent
    <3>2. QED
      BY Zenon, <1>1, <2>2, <3>1 DEF Same, Consistent
  <2>3. QED
    BY Zenon, <2>1, <2>2
<1>3. IndicesInOrder'
  BY Zenon DEF IInv, IndicesInOrder, indices, Sub, Mask
<1>4. \A t \in Thread : pc'[t] = "copy" =>
         pc[t] = "copy" /\ head'[t] = head[t] /\ Count(t)' = Count(t)
  BY Zenon, <1>1 DEF Same
<1>5. ClaimsApart(Producers, prodTail, prodHead)'
  BY <1>4 DEF IInv, ClaimsApart, indices, Sub, Thread
<1>6. ClaimsApart(Consumers, consTail, consHead)'
  BY <1>4 DEF IInv, ClaimsApart, indices, Sub, Thread
<1>7. RoomStillThere'
  <2>1. ASSUME NEW p \in Producers, pc'[p] = "cas", head'[p] = prodHead'
        PROVE  room'[p] + Sub(consHead', consTail') + Sub(prodTail', consHead')
                       + Sub(prodHead', prodTail') <= Mask
    <3>1. CASE p = s
      BY Zenon, <2>1, <3>1 DEF indices
    <3>2. CASE p # s
      BY Zenon, <2>1, <3>2 DEF IInv, RoomStillThere, Same, indices, Thread
    <3>3. QED
      BY Zenon, <3>1, <3>2
  <2>2. ASSUME NEW c \in Consumers, pc'[c] = "cas", head'[c] = consHead'
        PROVE  room'[c] <= Sub(prodTail', consHead')
    <3>1. CASE c = s
      BY Zenon, <2>2, <3>1 DEF indices
    <3>2. CASE c # s
      BY Zenon, <2>2, <3>2 DEF IInv, RoomStillThere, Same, indices, Thread
    <3>3. QED
      BY Zenon, <3>1, <3>2
  <2>3. QED
    BY Zenon, <2>1, <2>2 DEF RoomStillThere, Sub, Mask
<1>8. QED
  BY Zenon, <1>2, <1>3, <1>5, <1>6, <1>7 DEF IInv

\* A claim that starts at the tail leaves the other claims behind it when the
\* tail moves to its end.
LEMMA TailMoves ==
    ASSUME IInv, NEW S \in SUBSET Thread, NEW p \in S,
           NEW tail \in Index, NEW hd \in Index,
           ClaimsApart(S, tail, hd), pc[p] = "copy", head[p] = tail
    PROVE  /\ Count(p) <= Sub(hd, tail)
           /\ \A t \in S \ {p} : pc[t] = "copy" =>
                 Sub(head[t], Add(tail, Count(p))) = Sub(head[t], tail) - Count(p)
<1>1. Sub(head[p], tail) = 0
  BY Sizes DEF Sub, Index
<1>2. Count(p) \in Nat
  BY Zenon, Distances DEF IInv
<1>3. Count(p) <= Sub(hd, tail)
  BY <1>1, <1>2, Sizes DEF ClaimsApart, Sub, Index
<1>4. ASSUME NEW t \in S \ {p}, pc[t] = "copy"
      PROVE  Sub(head[t], Add(tail, Count(p))) = Sub(head[t], tail) - Count(p)
  <2>1. CountOK(t) /\ Asked(t) > 0 /\ room[t] > 0
    BY Zenon, <1>4, CountType DEF IInv, SomethingToCopy
  <2>2. head[t] \in Index /\ Count(t) \in Nat /\ Count(t) > 0 /\ Sub(head[t], tail) \in Nat
    BY <2>1, Sizes DEF CountOK, Sub, Index
  <2>3. \/ Sub(head[t], tail) + Count(t) <= Sub(head[p], tail)
        \/ Sub(head[p], tail) + Count(p) <= Sub(head[t], tail)
    BY Zenon, <1>4 DEF ClaimsApart
  <2>4. Count(p) <= Sub(head[t], tail)
    BY <1>1, <1>2, <2>2, <2>3
  <2>5. QED
    BY <1>2, <2>2, <2>4, SubAdd
<1>5. QED
  BY Zenon, <1>3, <1>4

-----------------------------------------------------------------------------
\* A call of EnqueueBurst and its load of prod.head.
LEMMA EnqueueBurstStep ==
    ASSUME IInv, NEW p \in Producers, NEW b \in Burst, EnqueueBurst(p, b)
    PROVE  IInv'
<1> USE DEF IInv, EnqueueBurst, LoadProdHead
<1>1. TypeOK'
  BY Zenon DEF TypeOK, indices, Thread
<1>2. \A t \in Thread \ {p} : Same(t)
  BY Zenon DEF TypeOK, Same, Asked, Thread
<1>3. Consistent(p)'
  <2>1. pc'[p] = "tail" /\ buf'[p] = b /\ done'[p] = 0
    BY Zenon DEF TypeOK, SomethingToCopy, Thread
  <2>2. Asked(p)' > 0
    <3>1. b # <<>>
      <4>1. PICK n \in 1 .. MaxBurst : b \in [1 .. n -> Item]
        BY Zenon DEF Burst
      <4>2. Len(b) = n
        BY <4>1, Sizes
      <4>3. QED
        BY <4>2, Sizes
    <3>2. QED
      BY Zenon, <2>1, <3>1, BurstLen DEF Asked
  <2>3. Count(p)' \in 0 .. MaxBurst
    BY Zenon, <1>1, CountTypeNext DEF CountOK, Thread
  <2>4. QED
    BY <2>1, <2>2, <2>3, Sizes DEF Consistent
<1>4. QED
  BY Zenon, <1>1, <1>2, <1>3, LocalStep DEF TypeOK, Thread

\* A new turn of the loop starts.
LEMMA RetryEnqueueStep ==
    ASSUME IInv, NEW p \in Producers, RetryEnqueue(p)
    PROVE  IInv'
<1> USE DEF IInv, RetryEnqueue, LoadProdHead
<1>1. TypeOK'
  BY Zenon DEF TypeOK, indices, Thread
<1>2. \A t \in Thread \ {p} : Same(t)
  BY Zenon DEF TypeOK, Same, Asked, Thread
<1>3. Consistent(p)'
  <2>1. pc'[p] = "tail" /\ done'[p] = 0 /\ Asked(p)' = Asked(p) /\ Asked(p) > 0
    BY Zenon DEF TypeOK, SomethingToCopy, Thread, Asked
  <2>2. Count(p)' \in 0 .. MaxBurst
    BY Zenon, <1>1, CountTypeNext DEF CountOK, Thread
  <2>3. QED
    BY <2>1, <2>2, Sizes DEF Consistent
<1>4. QED
  BY Zenon, <1>1, <1>2, <1>3, LocalStep DEF TypeOK, Thread

\* The load of cons.tail: a full ring ends the call, otherwise freeEntries is
\* the room left at this moment if prod.head has not moved since it was loaded.
LEMMA LoadConsTailStep ==
    ASSUME IInv, NEW p \in Producers, LoadConsTail(p)
    PROVE  IInv'
<1> USE DEF IInv, LoadConsTail
<1>1. p \in Thread /\ head[p] \in Index /\ consTail \in Index
  BY Zenon DEF TypeOK, Thread
<1>2. FreeEntries(consTail, head[p]) \in Index
  BY <1>1, Sizes DEF FreeEntries, Add, Sub, Index
<1>3. TypeOK'
  <2>1. 0 \in Index /\ 0 \in 0 .. MaxBurst
    BY Sizes DEF Index
  <2>2. CASE ReturnEnqueue(p)
    BY Zenon, <2>1, <2>2 DEF TypeOK, indices, Thread, ReturnEnqueue, Return
  <2>3. CASE ~ReturnEnqueue(p)
    <3>1. room' = [room EXCEPT ![p] = FreeEntries(consTail, head[p])]
          /\ pc' = [pc EXCEPT ![p] = "cas"]
          /\ UNCHANGED <<indices, slots, head, done, buf, want, got>>
      BY Zenon, <2>3
    <3>2. room' \in [Thread -> Index] /\ pc' \in [Thread -> {"idle", "tail", "cas", "retry", "copy"}]
      BY Zenon, <1>2, <3>1 DEF TypeOK
    <3>3. QED
      BY Zenon, <3>1, <3>2 DEF TypeOK, indices
  <2>4. QED
    BY Zenon, <2>2, <2>3
<1>4. \A t \in Thread \ {p} : Same(t)
  BY Zenon DEF TypeOK, Same, Asked, Thread, ReturnEnqueue, Return
<1>5. Count(p)' \in 0 .. MaxBurst
  BY Zenon, <1>3, CountTypeNext DEF CountOK, Thread
<1>6. CASE FreeEntries(consTail, head[p]) = 0
  <2>1. pc'[p] = "idle" /\ done'[p] = 0
    BY Zenon, <1>6 DEF TypeOK, Thread, ReturnEnqueue, Return
  <2>2. Consistent(p)'
    BY <1>5, <2>1, Sizes DEF Consistent
  <2>3. QED
    BY Zenon, <1>3, <1>4, <2>1, <2>2, LocalStep DEF Thread
<1>7. CASE FreeEntries(consTail, head[p]) # 0
  <2>1. /\ pc'[p] = "cas" /\ done'[p] = 0 /\ head'[p] = head[p]
        /\ room'[p] = FreeEntries(consTail, head[p])
        /\ Asked(p)' = Asked(p) /\ Asked(p) > 0
    BY Zenon, <1>7 DEF TypeOK, Thread, SomethingToCopy, Asked
  <2>2. Consistent(p)'
    BY <1>2, <1>5, <1>7, <2>1, Sizes DEF Consistent, Index
  <2>3. head'[p] = prodHead =>
           room'[p] + Sub(consHead, consTail) + Sub(prodTail, consHead)
                    + Sub(prodHead, prodTail) <= Mask
    BY <2>1, Sizes DEF TypeOK, IndicesInOrder, FreeEntries, Add, Sub, Index
  <2>4. QED
    BY Zenon, <1>1, <1>3, <1>4, <2>1, <2>2, <2>3, LocalStep, RingAssumption DEF Thread
<1>8. QED
  BY Zenon, <1>6, <1>7

\* One store of enqueuePtrs.
LEMMA WriteSlotStep ==
    ASSUME IInv, NEW p \in Producers, WriteSlot(p)
    PROVE  IInv'
<1> USE DEF IInv, WriteSlot
<1>1. p \in Thread /\ CountOK(p) /\ buf[p] \in Burst
  <2>1. p \in Thread /\ CountOK(p)
    BY Zenon, CountType DEF Thread
  <2>2. Asked(p) > 0 /\ Asked(p) = Len(buf[p])
    BY Zenon, <2>1 DEF SomethingToCopy, Asked
  <2>3. buf[p] # <<>>
    BY <2>2
  <2>4. QED
    BY Zenon, <2>1, <2>3 DEF TypeOK
<1>2. buf[p][done[p] + 1] \in Item /\ done[p] + 1 \in 0 .. MaxBurst
  <2>1. PICK n \in 1 .. MaxBurst : buf[p] \in [1 .. n -> Item]
    BY Zenon, <1>1 DEF Burst
  <2>2. Len(buf[p]) = n
    BY <2>1, Sizes
  <2>3. done[p] \in 0 .. MaxBurst /\ done[p] < n
    BY <1>1, <2>2, Sizes DEF TypeOK, CountOK, Asked
  <2>4. QED
    BY <2>1, <2>3, Sizes
<1>3. TypeOK'
  BY ZenonT(40), <1>1, <1>2 DEF TypeOK, indices
<1>4. \A t \in Thread \ {p} : Same(t)
  BY Zenon DEF TypeOK, Same, Asked
<1>5. /\ pc'[p] = "copy" /\ head'[p] = head[p] /\ room'[p] = room[p]
      /\ done'[p] = done[p] + 1 /\ Asked(p)' = Asked(p)
  BY Zenon, <1>1 DEF TypeOK, Asked
<1>6. Count(p)' = Count(p)
  BY Zenon, <1>5 DEF Count
<1>7. Consistent(p)'
  BY <1>1, <1>5, <1>6, Sizes DEF Consistent, SomethingToCopy, CountOK, TypeOK
<1>8. QED
  BY Zenon, <1>1, <1>3, <1>4, <1>5, <1>6, <1>7, LocalStep

\* The compare-and-swap on prod.head: the claim starts where the last one ends
\* and fits into the room that is left.
LEMMA CasProdHeadStep ==
    ASSUME IInv, NEW p \in Producers, CasProdHead(p)
    PROVE  IInv'
<1> USE DEF IInv, CasProdHead
<1>1. p \in Thread /\ CountOK(p)
  BY Zenon, CountType DEF Thread
<1>2. \A t \in Thread \ {p} : Same(t)
  BY Zenon DEF TypeOK, Same, Asked
<1>3. Asked(p)' = Asked(p) /\ done'[p] = 0 /\ Asked(p) > 0
  BY Zenon, <1>1 DEF Asked, SomethingToCopy
<1>4. CASE prodHead # head[p]
  <2>1. TypeOK'
    <3>1. 0 \in Index
      BY Sizes DEF Index
    <3>2. UNCHANGED <<prodHead, prodTail, consHead, consTail, slots, done, buf, want, got>>
      BY Zenon, <1>4
    <3>3. /\ head' \in [Thread -> Index] /\ room' \in [Thread -> Index]
          /\ pc' \in [Thread -> {"idle", "tail", "cas", "retry", "copy"}]
      <4>1. /\ head' = [head EXCEPT ![p] = 0] /\ room' = [room EXCEPT ![p] = 0]
            /\ pc' = [pc EXCEPT ![p] = "retry"]
        BY Zenon, <1>4
      <4>2. QED
        BY Zenon, <3>1, <4>1 DEF TypeOK
    <3>4. QED
      BY Zenon, <3>2, <3>3 DEF TypeOK
  <2>2. pc'[p] = "retry"
    BY Zenon, <1>1, <1>4 DEF TypeOK
  <2>3. Consistent(p)'
    <3>1. Count(p)' \in 0 .. MaxBurst
      BY Zenon, <1>1, <2>1, CountTypeNext DEF CountOK
    <3>2. QED
      BY <1>3, <2>2, <3>1, Sizes DEF Consistent
  <2>4. QED
    BY Zenon, <1>1, <1>2, <1>4, <2>1, <2>2, <2>3, LocalStep DEF indices
<1>5. CASE prodHead = head[p]
  <2> DEFINE n == Count(p)
  <2>1. n \in Nat /\ n > 0 /\ n <= room[p] /\ n < Word
    BY <1>1, <1>3, Sizes DEF CountOK, SomethingToCopy, Index
  <2>2. n + Sub(consHead, consTail) + Sub(prodTail, consHead) + Sub(prodHead, prodTail) <= Mask
    <3>1. Sub(consHead, consTail) \in Nat /\ Sub(prodTail, consHead) \in Nat
          /\ Sub(prodHead, prodTail) \in Nat /\ room[p] \in Nat
      BY <1>1, Sizes DEF TypeOK, Sub, Index
    <3>2. QED
      BY <1>5, <2>1, <3>1, Sizes DEF RoomStillThere
  <2>3. /\ prodHead' = Add(prodHead, n) /\ prodHead' \in Index
        /\ Sub(prodHead', prodTail) = Sub(prodHead, prodTail) + n
    <3>1. prodHead' = Add(prodHead, n)
      BY Zenon, <1>5
    <3>2. prodHead \in Index /\ prodTail \in Index /\ n \in 0 .. (Word - 1)
      BY <2>1, Sizes DEF TypeOK
    <3>3. Sub(prodHead, prodTail) + n < Word
      <4>1. Sub(consHead, consTail) \in Nat /\ Sub(prodTail, consHead) \in Nat
            /\ Sub(prodHead, prodTail) \in Nat
        BY Sizes DEF TypeOK, Sub, Index
      <4>2. QED
        BY <2>1, <2>2, <4>1, Sizes
    <3>4. QED
      BY <3>1, <3>2, <3>3, AddSub, WordArithmetic
  <2> HIDE DEF n
  <2>4. TypeOK'
    BY ZenonT(40), <1>5, <2>3 DEF TypeOK
  <2>5. /\ pc'[p] = "copy" /\ head'[p] = prodHead /\ room'[p] = room[p]
        /\ UNCHANGED <<prodTail, consHead, consTail>>
    BY Zenon, <1>1, <1>5 DEF TypeOK
  <2>6. \A t \in Thread : Count(t)' = Count(t)
    BY <1>2, <1>3, <2>5 DEF Same, Count, Clip
  <2>7. SomethingToCopy'
    <3> SUFFICES ASSUME NEW t \in Thread PROVE Consistent(t)'
      BY Zenon DEF SomethingToCopy, Consistent
    <3>1. Consistent(t) /\ Consistent(p)
      BY Zenon, <1>1 DEF SomethingToCopy, Consistent
    <3>2. QED
      BY Zenon, <1>2, <1>3, <2>1, <2>5, <2>6, <3>1, Sizes DEF Consistent, Same, n
  <2>8. IndicesInOrder'
    <3>1. Sub(consHead, consTail) \in Nat /\ Sub(prodTail, consHead) \in Nat
          /\ Sub(prodHead, prodTail) \in Nat
      BY Sizes DEF TypeOK, Sub, Index
    <3>2. Sub(consHead', consTail') + Sub(prodTail', consHead') + Sub(prodHead', prodTail') <= Mask
      BY <2>1, <2>2, <2>3, <2>5, <3>1, Sizes
    <3>3. QED
      BY Zenon, <3>2 DEF IndicesInOrder, Sub, Mask
  <2>9. ClaimsApart(Producers, prodTail, prodHead)'
    <3>1. \A t \in Producers \ {p} :
             pc'[t] = pc[t] /\ head'[t] = head[t] /\ Count(t)' = Count(t)
      BY Zenon, <1>2, <2>6 DEF Same, Thread
    <3>2. Sub(prodHead, prodTail) \in Nat /\ Sub(prodHead', prodTail') = Sub(prodHead, prodTail) + n
      BY <2>3, <2>5, Sizes DEF TypeOK, Sub, Index
    <3>3. \A t \in Producers : Sub(head[t], prodTail) \in Nat /\ Count(t) \in Nat
      <4> SUFFICES ASSUME NEW t \in Producers
                   PROVE  Sub(head[t], prodTail) \in Nat /\ Count(t) \in Nat
        BY Zenon
      <4>1. CountOK(t) /\ prodTail \in Index
        BY Zenon, CountType DEF TypeOK, Thread
      <4>2. QED
        BY <4>1, Sizes DEF CountOK, Sub, Index
    <3>4. \A t \in Producers : Sub(head'[t], prodTail') =
             IF t = p THEN Sub(prodHead, prodTail) ELSE Sub(head[t], prodTail)
      BY Zenon, <2>5, <3>1 DEF Sub
    <3>5. Count(p)' = n
      BY Zenon, <1>1, <2>6 DEF n
    <3>6. QED
      BY <2>1, <2>5, <3>1, <3>2, <3>3, <3>4, <3>5 DEF ClaimsApart
  <2>10. ClaimsApart(Consumers, consTail, consHead)'
    <3>1. \A c \in Consumers :
             pc'[c] = pc[c] /\ head'[c] = head[c] /\ Count(c)' = Count(c)
      BY Zenon, <1>2, <2>6, RingAssumption DEF Same, Thread
    <3>2. QED
      BY <2>5, <3>1 DEF ClaimsApart, Sub
  <2>11. RoomStillThere'
    <3>1. ASSUME NEW q \in Producers, pc'[q] = "cas", head'[q] = prodHead'
          PROVE  FALSE
      <4>1. q # p /\ pc[q] = "cas" /\ head[q] = Add(prodHead, n) /\ head[q] \in Index
        BY Zenon, <1>2, <2>3, <2>5, <3>1 DEF Same, Thread, TypeOK
      <4>2. Sub(prodHead, head[q]) + n < Word
        BY Zenon, <1>5, <4>1 DEF NoFullLap, Loaded, n
      <4>3. QED
        BY <2>1, <4>1, <4>2, Sizes DEF TypeOK, Add, Sub, Index
    <3>2. ASSUME NEW c \in Consumers, pc'[c] = "cas", head'[c] = consHead'
          PROVE  room'[c] <= Sub(prodTail', consHead')
      <4>1. Same(c) /\ c \in Thread
        BY Zenon, <1>2, RingAssumption DEF Thread
      <4>2. QED
        BY Zenon, <2>5, <3>2, <4>1 DEF Same, RoomStillThere
    <3>3. QED
      BY Zenon, <3>1, <3>2 DEF RoomStillThere, Sub
  <2>12. QED
    BY Zenon, <2>4, <2>7, <2>8, <2>9, <2>10, <2>11
<1>6. QED
  BY Zenon, <1>4, <1>5

\* The store to prod.tail.
LEMMA PublishProdTailStep ==
    ASSUME IInv, NEW p \in Producers, PublishProdTail(p)
    PROVE  IInv'
<1> USE DEF IInv, PublishProdTail, ReturnEnqueue, Return
<1> DEFINE n == Count(p)
<1>1. p \in Thread /\ CountOK(p) /\ n \in 0 .. (Word - 1)
  BY CountType, Sizes DEF Thread, CountOK, Index
<1>2. /\ n <= Sub(prodHead, prodTail)
      /\ \A t \in Producers \ {p} : pc[t] = "copy" =>
            Sub(head[t], Add(prodTail, n)) = Sub(head[t], prodTail) - n
  BY ZenonT(40), TailMoves DEF TypeOK, Thread
<1>3. prodTail' = Add(prodTail, n) /\ prodTail' \in Index
  BY ZenonT(40), <1>1, WordArithmetic DEF TypeOK
<1> HIDE DEF n
<1>4. /\ pc'[p] = "idle" /\ done'[p] = 0
      /\ UNCHANGED <<prodHead, consHead, consTail>>
  BY Zenon, <1>1 DEF TypeOK
<1>5. TypeOK'
  <2>1. 0 \in Index /\ 0 \in 0 .. MaxBurst
    BY Sizes DEF Index
  <2>2. QED
    BY Zenon, <1>1, <1>3, <2>1 DEF TypeOK
<1>6. \A t \in Thread \ {p} : Same(t) /\ Count(t)' = Count(t)
  BY Zenon DEF TypeOK, Same, Asked, Count, Clip
<1>7. SomethingToCopy'
  <2> SUFFICES ASSUME NEW t \in Thread PROVE Consistent(t)'
    BY Zenon DEF SomethingToCopy, Consistent
  <2>1. CASE t = p
    <3>1. Count(p)' \in 0 .. MaxBurst
      BY Zenon, <1>1, <1>5, CountTypeNext DEF CountOK
    <3>2. QED
      BY <1>4, <2>1, <3>1, Sizes DEF Consistent
  <2>2. CASE t # p
    <3>1. Consistent(t)
      BY Zenon DEF SomethingToCopy, Consistent
    <3>2. QED
      BY Zenon, <1>6, <2>2, <3>1 DEF Consistent, Same
  <2>3. QED
    BY Zenon, <2>1, <2>2
<1>8. /\ Sub(prodHead', prodTail') = Sub(prodHead, prodTail) - n
      /\ Sub(prodTail', consHead') = Sub(prodTail, consHead) + n
  <2>1. Sub(prodTail, consHead) + n < Word
    BY <1>1, <1>2, Distances, Sizes DEF IndicesInOrder
  <2>2. Sub(prodHead, Add(prodTail, n)) = Sub(prodHead, prodTail) - n
    BY <1>1, <1>2, SubAdd DEF TypeOK
  <2>3. Sub(Add(prodTail, n), consHead) = Sub(prodTail, consHead) + n
    BY <1>1, <2>1, AddSub DEF TypeOK
  <2>4. QED
    BY Zenon, <1>3, <1>4, <2>2, <2>3
<1>9. IndicesInOrder'
  <2>1. Sub(consHead', consTail') + Sub(prodTail', consHead') + Sub(prodHead', prodTail') <= Mask
    BY <1>1, <1>4, <1>8, Distances, Sizes DEF IndicesInOrder
  <2>2. QED
    BY Zenon, <2>1 DEF IndicesInOrder, Sub, Mask
<1>10. ClaimsApart(Producers, prodTail, prodHead)'
  <2>1. ASSUME NEW t \in Producers, pc'[t] = "copy"
        PROVE  /\ t # p /\ pc[t] = "copy" /\ Count(t)' = Count(t) /\ Count(t) \in Nat
               /\ Sub(head'[t], prodTail') = Sub(head[t], prodTail) - n
               /\ Sub(head[t], prodTail) \in Nat
    <3>1. t # p /\ t \in Thread
      BY Zenon, <1>4, <2>1 DEF Thread
    <3>2. QED
      BY Zenon, <1>2, <1>3, <1>6, <2>1, <3>1, Distances DEF Same
  <2>2. Sub(prodHead, prodTail) \in Nat /\ n \in Nat
    BY <1>1, Distances
  <2>3. ASSUME NEW t \in Producers, pc'[t] = "copy"
        PROVE  Sub(head'[t], prodTail') + Count(t)' <= Sub(prodHead', prodTail')
    BY <1>8, <2>1, <2>2, <2>3 DEF ClaimsApart
  <2>4. ASSUME NEW t \in Producers, NEW u \in Producers, t # u, pc'[t] = "copy", pc'[u] = "copy"
        PROVE  \/ Sub(head'[t], prodTail') + Count(t)' <= Sub(head'[u], prodTail')
               \/ Sub(head'[u], prodTail') + Count(u)' <= Sub(head'[t], prodTail')
    <3>1. \/ Sub(head[t], prodTail) + Count(t) <= Sub(head[u], prodTail)
          \/ Sub(head[u], prodTail) + Count(u) <= Sub(head[t], prodTail)
      BY Zenon, <2>1, <2>4 DEF ClaimsApart
    <3>2. /\ Sub(head'[t], prodTail') = Sub(head[t], prodTail) - n /\ Count(t)' = Count(t)
          /\ Sub(head'[u], prodTail') = Sub(head[u], prodTail) - n /\ Count(u)' = Count(u)
          /\ Sub(head[t], prodTail) \in Nat /\ Sub(head[u], prodTail) \in Nat
          /\ Count(t) \in Nat /\ Count(u) \in Nat
      BY Zenon, <2>1, <2>4
    <3>3. QED
      BY <2>2, <3>1, <3>2
  <2>5. QED
    BY Zenon, <2>3, <2>4 DEF ClaimsApart, Sub
<1>11. ClaimsApart(Consumers, consTail, consHead)'
  <2>1. \A c \in Consumers : pc'[c] = pc[c] /\ head'[c] = head[c] /\ Count(c)' = Count(c)
    BY Zenon, <1>6, RingAssumption DEF Same, Thread
  <2>2. QED
    BY <1>4, <2>1 DEF ClaimsApart, Sub
<1>12. RoomStillThere'
  <2>1. ASSUME NEW q \in Producers, pc'[q] = "cas", head'[q] = prodHead'
        PROVE  room'[q] + Sub(consHead', consTail') + Sub(prodTail', consHead')
                        + Sub(prodHead', prodTail') <= Mask
    <3>1. Same(q) /\ room[q] \in Nat
      BY <1>4, <1>6, <2>1, Sizes DEF Thread, TypeOK, Index
    <3>2. room[q] + Sub(consHead, consTail) + Sub(prodTail, consHead)
                  + Sub(prodHead, prodTail) <= Mask
      BY Zenon, <1>4, <2>1, <3>1 DEF RoomStillThere, Same
    <3>3. QED
      <4>1. room'[q] = room[q] /\ Sub(consHead', consTail') = Sub(consHead, consTail)
        BY Zenon, <1>4, <3>1 DEF Same, Sub
      <4>2. Sub(consHead, consTail) \in Nat /\ Sub(prodTail, consHead) \in Nat
            /\ Sub(prodHead, prodTail) \in Nat /\ n \in Nat
        BY <1>1, Distances
      <4>3. QED
        BY <1>8, <3>1, <3>2, <4>1, <4>2
  <2>2. ASSUME NEW c \in Consumers, pc'[c] = "cas", head'[c] = consHead'
        PROVE  room'[c] <= Sub(prodTail', consHead')
    <3>1. Same(c) /\ room[c] \in Nat
      BY <1>6, Sizes, RingAssumption DEF Thread, TypeOK, Index
    <3>2. QED
      BY <1>1, <1>4, <1>8, <2>2, <3>1, Distances DEF RoomStillThere, Same
  <2>3. QED
    BY Zenon, <2>1, <2>2 DEF RoomStillThere, Sub, Mask
<1>13. QED
  BY Zenon, <1>5, <1>7, <1>9, <1>10, <1>11, <1>12
=============================================================================
