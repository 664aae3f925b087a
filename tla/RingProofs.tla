---------------------------- MODULE RingProofs ------------------------------
(***************************************************************************)
(* Proofs about Ring for every number of threads, ring size, word size and *)
(* burst size: every step of a dequeue (nffgoRingMcDoDequeue) preserves    *)
(* the inductive invariant, so that the indices stay in order within the   *)
(* capacity, and no two threads touch a slot at once.                      *)
(***************************************************************************)
EXTENDS RingEnqueueProofs

\* A call of DequeueBurst and its load of cons.head.
LEMMA DequeueBurstStep ==
    ASSUME IInv, NEW c \in Consumers, NEW n \in 1 .. MaxBurst, DequeueBurst(c, n)
    PROVE  IInv'
<1> USE DEF IInv, DequeueBurst, LoadConsHead
<1>1. TypeOK'
  BY DEF TypeOK, indices, Thread
<1>2. \A t \in Thread \ {c} : Same(t)
  BY Zenon DEF TypeOK, Same, Asked, Thread
<1>3. Consistent(c)'
  <2>1. pc'[c] = "tail" /\ want'[c] = n /\ done'[c] = 0 /\ c \notin Producers
    BY Zenon, RingAssumption DEF TypeOK, SomethingToCopy, Thread
  <2>2. Count(c)' \in 0 .. MaxBurst
    BY Zenon, <1>1, CountTypeNext DEF CountOK, Thread
  <2>3. QED
    BY <2>1, <2>2, Sizes DEF Consistent, Asked
<1>4. QED
  BY Zenon, <1>1, <1>2, <1>3, LocalStep DEF TypeOK, Thread

\* A new turn of the loop starts.
LEMMA RetryDequeueStep ==
    ASSUME IInv, NEW c \in Consumers, RetryDequeue(c)
    PROVE  IInv'
<1> USE DEF IInv, RetryDequeue, LoadConsHead
<1>1. TypeOK'
  BY Zenon DEF TypeOK, indices, Thread
<1>2. \A t \in Thread \ {c} : Same(t)
  BY Zenon DEF TypeOK, Same, Asked, Thread
<1>3. Consistent(c)'
  <2>1. pc'[c] = "tail" /\ done'[c] = 0 /\ Asked(c)' = Asked(c) /\ Asked(c) > 0
    BY Zenon DEF TypeOK, SomethingToCopy, Thread, Asked
  <2>2. Count(c)' \in 0 .. MaxBurst
    BY Zenon, <1>1, CountTypeNext DEF CountOK, Thread
  <2>3. QED
    BY <2>1, <2>2, Sizes DEF Consistent
<1>4. QED
  BY Zenon, <1>1, <1>2, <1>3, LocalStep DEF TypeOK, Thread

\* The load of prod.tail: an empty ring ends the call, otherwise entries is the
\* number of objects there if cons.head has not moved since it was loaded.
LEMMA LoadProdTailStep ==
    ASSUME IInv, NEW c \in Consumers, LoadProdTail(c)
    PROVE  IInv'
<1> USE DEF IInv, LoadProdTail
<1>1. c \in Thread /\ head[c] \in Index /\ prodTail \in Index /\ c \notin Producers
  BY Zenon, RingAssumption DEF TypeOK, Thread
<1>2. Entries(prodTail, head[c]) \in Index
  BY <1>1, Sizes DEF Entries, Sub, Index
<1>3. TypeOK'
  <2>1. 0 \in Index /\ 0 \in 0 .. MaxBurst /\ <<>> \in Seq(Item \cup {NoItem})
    BY Sizes DEF Index
  <2>2. CASE ReturnDequeue(c)
    BY Zenon, <2>1, <2>2 DEF TypeOK, indices, Thread, ReturnDequeue, Return
  <2>3. CASE ~ReturnDequeue(c)
    <3>1. room' = [room EXCEPT ![c] = Entries(prodTail, head[c])]
          /\ pc' = [pc EXCEPT ![c] = "cas"]
          /\ UNCHANGED <<indices, slots, head, done, buf, want, got>>
      BY Zenon, <2>3
    <3>2. room' \in [Thread -> Index] /\ pc' \in [Thread -> {"idle", "tail", "cas", "retry", "copy"}]
      BY Zenon, <1>2, <3>1 DEF TypeOK
    <3>3. QED
      BY Zenon, <3>1, <3>2 DEF TypeOK, indices
  <2>4. QED
    BY Zenon, <2>2, <2>3
<1>4. \A t \in Thread \ {c} : Same(t)
  BY Zenon DEF TypeOK, Same, Asked, Thread, ReturnDequeue, Return
<1>5. Count(c)' \in 0 .. MaxBurst
  BY Zenon, <1>3, CountTypeNext DEF CountOK, Thread
<1>6. CASE Entries(prodTail, head[c]) = 0
  <2>1. pc'[c] = "idle" /\ done'[c] = 0
    BY Zenon, <1>6 DEF TypeOK, Thread, ReturnDequeue, Return
  <2>2. Consistent(c)'
    BY <1>5, <2>1, Sizes DEF Consistent
  <2>3. QED
    BY Zenon, <1>3, <1>4, <2>1, <2>2, LocalStep DEF Thread
<1>7. CASE Entries(prodTail, head[c]) # 0
  <2>1. /\ pc'[c] = "cas" /\ done'[c] = 0 /\ head'[c] = head[c]
        /\ room'[c] = Entries(prodTail, head[c])
        /\ Asked(c)' = Asked(c) /\ Asked(c) > 0
    BY Zenon, <1>7 DEF TypeOK, Thread, SomethingToCopy, Asked
  <2>2. Consistent(c)'
    BY <1>2, <1>5, <1>7, <2>1, Sizes DEF Consistent, Index
  <2>3. head'[c] = consHead => room'[c] <= Sub(prodTail, consHead)
    BY <1>2, <2>1, Sizes DEF Entries, Index
  <2>4. QED
    BY Zenon, <1>1, <1>3, <1>4, <2>1, <2>2, <2>3, LocalStep
<1>8. QED
  BY Zenon, <1>6, <1>7

\* The compare-and-swap on cons.head: what is claimed has been published.
LEMMA CasConsHeadStep ==
    ASSUME IInv, NEW c \in Consumers, CasConsHead(c)
    PROVE  IInv'
<1> USE DEF IInv, CasConsHead
<1>1. c \in Thread /\ c \notin Producers /\ CountOK(c)
  BY Zenon, CountType, RingAssumption DEF Thread
<1>2. \A t \in Thread \ {c} : Same(t)
  BY Zenon DEF TypeOK, Same, Asked
<1>3. Asked(c)' = Asked(c) /\ done'[c] = 0 /\ Asked(c) > 0
  BY Zenon, <1>1 DEF Asked, SomethingToCopy
<1>4. CASE consHead # head[c]
  <2>1. TypeOK'
    <3>1. 0 \in Index
      BY Sizes DEF Index
    <3>2. UNCHANGED <<prodHead, prodTail, consHead, consTail, slots, done, buf, want, got>>
      BY Zenon, <1>4
    <3>3. /\ head' \in [Thread -> Index] /\ room' \in [Thread -> Index]
          /\ pc' \in [Thread -> {"idle", "tail", "cas", "retry", "copy"}]
      <4>1. /\ head' = [head EXCEPT ![c] = 0] /\ room' = [room EXCEPT ![c] = 0]
            /\ pc' = [pc EXCEPT ![c] = "retry"]
        BY Zenon, <1>4
      <4>2. QED
        BY Zenon, <3>1, <4>1 DEF TypeOK
    <3>4. QED
      BY Zenon, <3>2, <3>3 DEF TypeOK
  <2>2. pc'[c] = "retry"
    BY Zenon, <1>1, <1>4 DEF TypeOK
  <2>3. Consistent(c)'
    <3>1. Count(c)' \in 0 .. MaxBurst
      BY Zenon, <1>1, <2>1, CountTypeNext DEF CountOK
    <3>2. QED
      BY <1>3, <2>2, <3>1, Sizes DEF Consistent
  <2>4. QED
    BY Zenon, <1>1, <1>2, <1>4, <2>1, <2>2, <2>3, LocalStep DEF indices
<1>5. CASE consHead = head[c]
  <2> DEFINE n == Count(c)
  <2>1. n \in 0 .. (Word - 1) /\ n > 0 /\ n <= room[c] /\ room[c] \in Nat
    BY <1>1, <1>3, Sizes DEF CountOK, SomethingToCopy, Index
  <2>2. n <= Sub(prodTail, consHead)
    BY <1>5, <2>1, Distances DEF RoomStillThere
  <2>3. consHead' = Add(consHead, n) /\ consHead' \in Index
    <3>1. consHead \in Index /\ consHead' = Add(consHead, n)
      BY Zenon, <1>5 DEF TypeOK
    <3>2. QED
      BY Zenon, <2>1, <3>1, WordArithmetic
  <2> HIDE DEF n
  <2>4. TypeOK'
    BY Zenon, <1>5, <2>3 DEF TypeOK
  <2>5. /\ pc'[c] = "copy" /\ head'[c] = consHead /\ room'[c] = room[c]
        /\ UNCHANGED <<prodHead, prodTail, consTail>>
    BY Zenon, <1>1, <1>5 DEF TypeOK
  <2>6. \A t \in Thread : Count(t)' = Count(t)
    BY <1>2, <1>3, <2>5 DEF Same, Count, Clip
  <2>7. SomethingToCopy'
    <3> SUFFICES ASSUME NEW t \in Thread PROVE Consistent(t)'
      BY Zenon DEF SomethingToCopy, Consistent
    <3>1. Consistent(t) /\ Consistent(c)
      BY Zenon, <1>1 DEF SomethingToCopy, Consistent
    <3>2. QED
      BY Zenon, <1>2, <1>3, <2>1, <2>5, <2>6, <3>1, Sizes DEF Consistent, Same, n
  <2>8. /\ Sub(consHead', consTail') = Sub(consHead, consTail) + n
        /\ Sub(prodTail', consHead') = Sub(prodTail, consHead) - n
    <3>1. Sub(consHead, consTail) + n < Word
      BY <2>1, <2>2, Distances, Sizes DEF IndicesInOrder
    <3>2. QED
      BY <2>1, <2>2, <2>3, <2>5, <3>1, AddSub, SubAdd DEF TypeOK
  <2>9. IndicesInOrder'
    <3>1. Sub(consHead', consTail') + Sub(prodTail', consHead') + Sub(prodHead', prodTail') <= Mask
      BY <2>1, <2>5, <2>8, Distances, Sizes DEF IndicesInOrder
    <3>2. QED
      BY Zenon, <3>1 DEF IndicesInOrder, Sub, Mask
  <2>10. ClaimsApart(Consumers, consTail, consHead)'
    <3>1. \A t \in Consumers \ {c} :
             pc'[t] = pc[t] /\ head'[t] = head[t] /\ Count(t)' = Count(t)
      BY Zenon, <1>2, <2>6 DEF Same, Thread
    <3>2. \A t \in Consumers : Sub(head[t], consTail) \in Nat /\ Count(t) \in Nat
      BY Zenon, Distances DEF Thread
    <3>3. \A t \in Consumers : Sub(head'[t], consTail') =
             IF t = c THEN Sub(consHead, consTail) ELSE Sub(head[t], consTail)
      BY Zenon, <2>5, <3>1 DEF Sub
    <3>4. Count(c)' = n /\ Sub(consHead, consTail) \in Nat
      BY Zenon, <1>1, <2>6, Distances DEF n
    <3>5. QED
      BY <2>1, <2>5, <2>8, <3>1, <3>2, <3>3, <3>4 DEF ClaimsApart
  <2>11. ClaimsApart(Producers, prodTail, prodHead)'
    <3>1. \A p \in Producers :
             pc'[p] = pc[p] /\ head'[p] = head[p] /\ Count(p)' = Count(p)
      BY Zenon, <1>1, <1>2, <2>6 DEF Same, Thread
    <3>2. QED
      BY <2>5, <3>1 DEF ClaimsApart, Sub
  <2>12. RoomStillThere'
    <3>1. ASSUME NEW d \in Consumers, pc'[d] = "cas", head'[d] = consHead'
          PROVE  FALSE
      <4>1. d # c /\ pc[d] = "cas" /\ head[d] = Add(consHead, n) /\ head[d] \in Index
        BY Zenon, <1>2, <2>3, <2>5, <3>1 DEF Same, Thread, TypeOK
      <4>2. Sub(consHead, head[d]) + n < Word
        BY Zenon, <1>5, <4>1 DEF NoFullLap, Loaded, n
      <4>3. QED
        BY <2>1, <4>1, <4>2, Sizes DEF TypeOK, Add, Sub, Index
    <3>2. ASSUME NEW p \in Producers, pc'[p] = "cas", head'[p] = prodHead'
          PROVE  room'[p] + Sub(consHead', consTail') + Sub(prodTail', consHead')
                          + Sub(prodHead', prodTail') <= Mask
      <4>1. Same(p) /\ room[p] \in Nat
        BY <1>1, <1>2, Sizes DEF Thread, TypeOK, Index
      <4>2. room[p] + Sub(consHead, consTail) + Sub(prodTail, consHead)
                    + Sub(prodHead, prodTail) <= Mask
        BY Zenon, <2>5, <3>2, <4>1 DEF RoomStillThere, Same
      <4>3. QED
        BY <2>1, <2>5, <2>8, <4>1, <4>2, Distances, Sizes DEF Same
    <3>3. QED
      BY Zenon, <3>1, <3>2 DEF RoomStillThere, Sub, Mask
  <2>13. QED
    BY Zenon, <2>4, <2>7, <2>9, <2>10, <2>11, <2>12
<1>6. QED
  BY Zenon, <1>4, <1>5

\* One load of dequeuePtrs.
LEMMA ReadSlotStep ==
    ASSUME IInv, NEW c \in Consumers, ReadSlot(c)
    PROVE  IInv'
<1> USE DEF IInv, ReadSlot
<1>1. c \in Thread /\ CountOK(c) /\ done[c] \in Nat /\ Count(c) \in Nat
  <2>1. c \in Thread
    BY Zenon DEF Thread
  <2>2. CountOK(c) /\ Count(c) \in Nat
    BY Zenon, <2>1, CountType, Distances
  <2>3. done[c] \in Nat
    BY <2>1, Sizes DEF TypeOK
  <2>4. QED
    BY Zenon, <2>1, <2>2, <2>3
<1>2. done[c] \in 0 .. Mask
  <2>1. Sub(head[c], consTail) + Count(c) <= Sub(consHead, consTail)
    BY Zenon DEF ClaimsApart
  <2>2. /\ Sub(consHead, consTail) \in Nat /\ Sub(prodTail, consHead) \in Nat
        /\ Sub(prodHead, prodTail) \in Nat /\ Sub(head[c], consTail) \in Nat
    BY Zenon, <1>1, Distances
  <2>3. Sub(consHead, consTail) <= Mask /\ Mask \in Nat
    BY <2>2, Sizes DEF IndicesInOrder
  <2>4. QED
    BY <1>1, <2>1, <2>2, <2>3
<1>3. slots[SlotOf(head[c], done[c])] \in Item \cup {NoItem}
  BY Zenon, <1>1, <1>2, SlotCongruent DEF TypeOK, CountOK
<1>4. done[c] + 1 \in 0 .. MaxBurst
  BY <1>1, Sizes DEF CountOK
<1>5. TypeOK'
  <2>1. Append(got[c], slots[SlotOf(head[c], done[c])]) \in Seq(Item \cup {NoItem})
    BY <1>3 DEF TypeOK
  <2>2. QED
    BY Zenon, <1>1, <1>4, <2>1 DEF TypeOK, indices
<1>6. \A t \in Thread \ {c} : Same(t)
  BY Zenon DEF TypeOK, Same, Asked
<1>7. /\ pc'[c] = "copy" /\ head'[c] = head[c] /\ room'[c] = room[c]
      /\ done'[c] = done[c] + 1 /\ Asked(c)' = Asked(c)
  BY Zenon, <1>1 DEF TypeOK, Asked
<1>8. Count(c)' = Count(c)
  BY Zenon, <1>7 DEF Count
<1>9. Consistent(c)'
  BY <1>1, <1>7, <1>8 DEF Consistent, SomethingToCopy
<1>10. QED
  BY Zenon, <1>1, <1>5, <1>6, <1>7, <1>8, <1>9, LocalStep

\* The store to cons.tail.
LEMMA PublishConsTailStep ==
    ASSUME IInv, NEW c \in Consumers, PublishConsTail(c)
    PROVE  IInv'
<1> USE DEF IInv, PublishConsTail, ReturnDequeue, Return
<1> DEFINE n == Count(c)
<1>1. c \in Thread /\ CountOK(c) /\ n \in 0 .. (Word - 1) /\ c \notin Producers
  BY CountType, Sizes, RingAssumption DEF Thread, CountOK, Index
<1>2. /\ n <= Sub(consHead, consTail)
      /\ \A t \in Consumers \ {c} : pc[t] = "copy" =>
            Sub(head[t], Add(consTail, n)) = Sub(head[t], consTail) - n
  BY Zenon, TailMoves DEF TypeOK, Thread
<1>3. consTail' = Add(consTail, n) /\ consTail' \in Index
  BY ZenonT(40), <1>1, WordArithmetic DEF TypeOK
<1> HIDE DEF n
<1>4. /\ pc'[c] = "idle" /\ done'[c] = 0
      /\ UNCHANGED <<prodHead, prodTail, consHead>>
  BY Zenon, <1>1 DEF TypeOK
<1>5. TypeOK'
  <2>1. 0 \in Index /\ 0 \in 0 .. MaxBurst /\ <<>> \in Seq(Item \cup {NoItem})
    BY Sizes DEF Index
  <2>2. QED
    BY Zenon, <1>1, <1>3, <2>1 DEF TypeOK
<1>6. \A t \in Thread \ {c} : Same(t) /\ Count(t)' = Count(t)
  <2>1. \A t \in Thread \ {c} : Same(t)
    BY Zenon DEF TypeOK, Same, Asked, Thread
  <2>2. QED
    BY Zenon, <2>1 DEF Same, Count, Clip
<1>7. SomethingToCopy'
  <2> SUFFICES ASSUME NEW t \in Thread PROVE Consistent(t)'
    BY Zenon DEF SomethingToCopy, Consistent
  <2>1. CASE t = c
    <3>1. Count(c)' \in 0 .. MaxBurst
      BY Zenon, <1>1, <1>5, CountTypeNext DEF CountOK
    <3>2. QED
      BY <1>4, <2>1, <3>1, Sizes DEF Consistent
  <2>2. CASE t # c
    <3>1. Consistent(t)
      BY Zenon DEF SomethingToCopy, Consistent
    <3>2. QED
      BY Zenon, <1>6, <2>2, <3>1 DEF Consistent, Same
  <2>3. QED
    BY Zenon, <2>1, <2>2
<1>8. /\ Sub(consHead', consTail') = Sub(consHead, consTail) - n
      /\ Sub(prodTail', consHead') = Sub(prodTail, consHead)
      /\ Sub(prodHead', prodTail') = Sub(prodHead, prodTail)
  <2>1. Sub(consHead, Add(consTail, n)) = Sub(consHead, consTail) - n
    BY <1>1, <1>2, SubAdd DEF TypeOK
  <2>2. QED
    BY Zenon, <1>3, <1>4, <2>1
<1>9. IndicesInOrder'
  <2>1. Sub(consHead', consTail') + Sub(prodTail', consHead') + Sub(prodHead', prodTail') <= Mask
    BY <1>1, <1>8, Distances, Sizes DEF IndicesInOrder
  <2>2. QED
    BY Zenon, <2>1 DEF IndicesInOrder, Sub, Mask
<1>10. ClaimsApart(Consumers, consTail, consHead)'
  <2>1. ASSUME NEW t \in Consumers, pc'[t] = "copy"
        PROVE  /\ t # c /\ pc[t] = "copy" /\ Count(t)' = Count(t) /\ Count(t) \in Nat
               /\ Sub(head'[t], consTail') = Sub(head[t], consTail) - n
               /\ Sub(head[t], consTail) \in Nat
    <3>1. t # c /\ t \in Thread
      BY Zenon, <1>4, <2>1 DEF Thread
    <3>2. QED
      BY Zenon, <1>2, <1>3, <1>6, <2>1, <3>1, Distances DEF Same
  <2>2. Sub(consHead, consTail) \in Nat /\ n \in Nat
    BY <1>1, Distances
  <2>3. ASSUME NEW t \in Consumers, pc'[t] = "copy"
        PROVE  Sub(head'[t], consTail') + Count(t)' <= Sub(consHead', consTail')
    BY <1>8, <2>1, <2>2, <2>3 DEF ClaimsApart
  <2>4. ASSUME NEW t \in Consumers, NEW u \in Consumers, t # u, pc'[t] = "copy", pc'[u] = "copy"
        PROVE  \/ Sub(head'[t], consTail') + Count(t)' <= Sub(head'[u], consTail')
               \/ Sub(head'[u], consTail') + Count(u)' <= Sub(head'[t], consTail')
    <3>1. /\ Sub(head'[t], consTail') = Sub(head[t], consTail) - n /\ Count(t)' = Count(t)
          /\ Sub(head'[u], consTail') = Sub(head[u], consTail) - n /\ Count(u)' = Count(u)
          /\ Sub(head[t], consTail) \in Nat /\ Sub(head[u], consTail) \in Nat
          /\ Count(t) \in Nat /\ Count(u) \in Nat
      BY Zenon, <2>1, <2>4
    <3>2. \/ Sub(head[t], consTail) + Count(t) <= Sub(head[u], consTail)
          \/ Sub(head[u], consTail) + Count(u) <= Sub(head[t], consTail)
      BY Zenon, <2>1, <2>4 DEF ClaimsApart
    <3>3. QED
      BY <2>2, <3>1, <3>2
  <2>5. QED
    BY Zenon, <2>3, <2>4 DEF ClaimsApart, Sub
<1>11. ClaimsApart(Producers, prodTail, prodHead)'
  <2>1. \A p \in Producers : pc'[p] = pc[p] /\ head'[p] = head[p] /\ Count(p)' = Count(p)
    BY Zenon, <1>1, <1>6 DEF Same, Thread
  <2>2. QED
    BY <1>4, <2>1 DEF ClaimsApart, Sub
<1>12. RoomStillThere'
  <2>1. ASSUME NEW p \in Producers, pc'[p] = "cas", head'[p] = prodHead'
        PROVE  room'[p] + Sub(consHead', consTail') + Sub(prodTail', consHead')
                        + Sub(prodHead', prodTail') <= Mask
    <3>1. Same(p) /\ room[p] \in Nat
      BY <1>1, <1>6, Sizes DEF Thread, TypeOK, Index
    <3>2. room[p] + Sub(consHead, consTail) + Sub(prodTail, consHead)
                  + Sub(prodHead, prodTail) <= Mask
      BY Zenon, <1>4, <2>1, <3>1 DEF RoomStillThere, Same
    <3>3. /\ Sub(consHead, consTail) \in Nat /\ Sub(prodTail, consHead) \in Nat
          /\ Sub(prodHead, prodTail) \in Nat /\ n \in Nat /\ room'[p] = room[p]
      BY <1>1, <3>1, Distances DEF Same
    <3>4. QED
      BY <1>8, <3>1, <3>2, <3>3, Sizes
  <2>2. ASSUME NEW d \in Consumers, pc'[d] = "cas", head'[d] = consHead'
        PROVE  room'[d] <= Sub(prodTail', consHead')
    <3>1. Same(d)
      BY Zenon, <1>4, <1>6, <2>2 DEF Thread
    <3>2. QED
      BY Zenon, <1>4, <1>8, <2>2, <3>1 DEF RoomStillThere, Same
  <2>3. QED
    BY Zenon, <2>1, <2>2 DEF RoomStillThere, Sub, Mask
<1>13. QED
  BY Zenon, <1>5, <1>7, <1>9, <1>10, <1>11, <1>12

-----------------------------------------------------------------------------
\* A new ring satisfies the invariant.
LEMMA InitIInv == Init => IInv
<1> SUFFICES ASSUME Init PROVE IInv
  BY Zenon
<1>1. TypeOK
  <2>1. 0 \in Index /\ 0 \in 0 .. MaxBurst
    BY Sizes DEF Index
  <2>2. <<>> \in Seq(Item \cup {NoItem})
    OBVIOUS
  <2>3. QED
    BY Zenon, <2>1, <2>2 DEF Init, TypeOK
<1>2. SomethingToCopy
  <2> SUFFICES ASSUME NEW t \in Thread PROVE done[t] <= Count(t) /\ pc[t] = "idle" /\ done[t] = 0
    BY Zenon DEF SomethingToCopy
  <2>1. QED
    BY <1>1, CountType, Sizes DEF Init, CountOK
<1>3. IndicesInOrder
  BY Sizes DEF Init, IndicesInOrder, Sub, Index
<1>4. ClaimsApart(Producers, prodTail, prodHead) /\ ClaimsApart(Consumers, consTail, consHead)
  BY Zenon DEF Init, ClaimsApart, Thread
<1>5. RoomStillThere
  BY Zenon DEF Init, RoomStillThere, Thread
<1>6. QED
  BY Zenon, <1>1, <1>2, <1>3, <1>4, <1>5 DEF IInv

\* Every step of the ring keeps the inductive invariant.
LEMMA NextIInv == IInv /\ [Next]_vars => IInv'
<1> SUFFICES ASSUME IInv, [Next]_vars PROVE IInv'
  BY Zenon
<1>1. ASSUME NEW p \in Producers, NEW b \in Burst, EnqueueBurst(p, b) PROVE IInv'
  BY Zenon, <1>1, EnqueueBurstStep
<1>2. ASSUME NEW p \in Producers, EnqueueStep(p) PROVE IInv'
  BY Zenon, <1>2, RetryEnqueueStep, LoadConsTailStep, CasProdHeadStep, WriteSlotStep,
     PublishProdTailStep DEF EnqueueStep
<1>3. ASSUME NEW c \in Consumers, NEW n \in 1 .. MaxBurst, DequeueBurst(c, n) PROVE IInv'
  BY Zenon, <1>3, DequeueBurstStep
<1>4. ASSUME NEW c \in Consumers, DequeueStep(c) PROVE IInv'
  BY Zenon, <1>4, RetryDequeueStep, LoadProdTailStep, CasConsHeadStep, ReadSlotStep,
     PublishConsTailStep DEF DequeueStep
<1>5. CASE UNCHANGED vars
  <2>1. \A t \in Thread : Same(t) /\ Count(t)' = Count(t)
    BY Zenon, <1>5 DEF vars, Same, Asked, Count, Clip
  <2>2. TypeOK' /\ IndicesInOrder'
    BY Zenon, <1>5 DEF vars, IInv, TypeOK, IndicesInOrder, Sub, Mask
  <2>3. SomethingToCopy'
    BY Zenon, <2>1 DEF IInv, SomethingToCopy, Same
  <2>4. ClaimsApart(Producers, prodTail, prodHead)' /\ ClaimsApart(Consumers, consTail, consHead)'
    <3>1. UNCHANGED <<prodHead, prodTail, consHead, consTail, pc, head>>
      BY Zenon, <1>5 DEF vars
    <3>2. \A t \in Producers \cup Consumers : Count(t)' = Count(t)
      BY Zenon, <2>1 DEF Thread
    <3>3. ClaimsApart(Producers, prodTail, prodHead)'
      BY Zenon, <3>1, <3>2 DEF IInv, ClaimsApart, Sub
    <3>4. ClaimsApart(Consumers, consTail, consHead)'
      BY <3>1, <3>2 DEF IInv, ClaimsApart, Sub
    <3>5. QED
      BY Zenon, <3>3, <3>4
  <2>5. RoomStillThere'
    BY Zenon, <1>5 DEF vars, IInv, RoomStillThere, Sub, Mask
  <2>6. QED
    BY Zenon, <2>2, <2>3, <2>4, <2>5 DEF IInv
<1>6. QED
  BY Zenon, <1>1, <1>2, <1>3, <1>4, <1>5 DEF Next

\* The inductive invariant holds in every state of the ring, for any number of
\* threads, ring size, word size and burst size.
THEOREM Invariance == Spec => []IInv
BY InitIInv, NextIInv, PTL DEF Spec

\* Type correctness.
THEOREM TypeCorrect == Spec => []TypeOK
<1>1. IInv => TypeOK
  BY Zenon DEF IInv
<1>2. QED
  BY <1>1, Invariance, PTL

\* The four indices stay in order and within the capacity, although
\* freeEntries and entries may be old when the compare-and-swap uses them.
THEOREM OrderedIndices == Spec => []IndicesInOrder
<1>1. IInv => IndicesInOrder
  BY Zenon DEF IInv
<1>2. QED
  BY <1>1, Invariance, PTL

\* Where the claims lie, counted from cons.tail: those of consumers before
\* cons.head, those of producers after prod.tail.
LEMMA ClaimPositions ==
    ASSUME IInv, NEW t \in Thread, pc[t] = "copy"
    PROVE  /\ head[t] \in Index /\ Sub(head[t], consTail) \in Nat /\ Count(t) \in Nat
           /\ Sub(head[t], consTail) + Count(t) <= Mask
           /\ t \in Consumers => Sub(head[t], consTail) + Count(t) <= Sub(consHead, consTail)
           /\ t \in Producers => Sub(head[t], consTail) =
                 Sub(consHead, consTail) + Sub(prodTail, consHead) + Sub(head[t], prodTail)
<1> USE DEF IInv
<1>1. /\ head[t] \in Index /\ consTail \in Index /\ consHead \in Index
      /\ prodTail \in Index /\ prodHead \in Index
  BY Zenon DEF TypeOK
<1>2. /\ Sub(head[t], consTail) \in Nat /\ Sub(head[t], prodTail) \in Nat /\ Count(t) \in Nat
      /\ Sub(consHead, consTail) \in Nat /\ Sub(prodTail, consHead) \in Nat
      /\ Sub(prodHead, prodTail) \in Nat
  BY Zenon, Distances
<1>3. CASE t \in Consumers
  <2>1. Sub(head[t], consTail) + Count(t) <= Sub(consHead, consTail)
    BY Zenon, <1>3 DEF ClaimsApart
  <2>2. t \notin Producers
    BY Zenon, <1>3, RingAssumption
  <2>3. QED
    BY <1>1, <1>2, <2>1, <2>2, Sizes DEF IndicesInOrder
<1>4. CASE t \in Producers
  <2>1. Sub(head[t], prodTail) + Count(t) <= Sub(prodHead, prodTail)
    BY Zenon, <1>4 DEF ClaimsApart
  <2>2. Sub(prodTail, consTail) = Sub(prodTail, consHead) + Sub(consHead, consTail)
    BY <1>1, <1>2, SubChain, Sizes DEF IndicesInOrder
  <2>3. Sub(head[t], consTail) = Sub(head[t], prodTail) + Sub(prodTail, consTail)
    BY <1>1, <1>2, <2>1, <2>2, SubChain, Sizes DEF IndicesInOrder
  <2>4. t \notin Consumers
    BY Zenon, <1>4, RingAssumption
  <2>5. QED
    BY <1>1, <1>2, <2>1, <2>2, <2>3, <2>4, Sizes DEF IndicesInOrder
<1>5. QED
  BY Zenon, <1>3, <1>4 DEF Thread

\* Two claims have no position in common.
LEMMA ClaimsDisjoint ==
    ASSUME IInv, NEW t \in Thread, NEW u \in Thread, t # u, pc[t] = "copy", pc[u] = "copy"
    PROVE  \/ Sub(head[t], consTail) + Count(t) <= Sub(head[u], consTail)
           \/ Sub(head[u], consTail) + Count(u) <= Sub(head[t], consTail)
<1> USE DEF IInv
<1>1. /\ Sub(head[t], consTail) \in Nat /\ Sub(head[u], consTail) \in Nat
      /\ Sub(head[t], prodTail) \in Nat /\ Sub(head[u], prodTail) \in Nat
      /\ Count(t) \in Nat /\ Count(u) \in Nat
      /\ Sub(consHead, consTail) \in Nat /\ Sub(prodTail, consHead) \in Nat
  BY Zenon, Distances
<1>2. CASE t \in Consumers /\ u \in Consumers
  BY Zenon, <1>2 DEF ClaimsApart
<1>3. CASE t \in Producers /\ u \in Producers
  <2>1. \/ Sub(head[t], prodTail) + Count(t) <= Sub(head[u], prodTail)
        \/ Sub(head[u], prodTail) + Count(u) <= Sub(head[t], prodTail)
    BY Zenon, <1>3 DEF ClaimsApart
  <2>2. QED
    BY <1>1, <1>3, <2>1, ClaimPositions
<1>4. CASE t \in Producers /\ u \in Consumers
  BY <1>1, <1>4, ClaimPositions
<1>5. CASE t \in Consumers /\ u \in Producers
  BY <1>1, <1>5, ClaimPositions
<1>6. QED
  BY Zenon, <1>2, <1>3, <1>4, <1>5 DEF Thread

\* A position within Mask of cons.tail has a slot of its own.
LEMMA SlotsFromTail ==
    ASSUME IInv
    PROVE  \A g, h \in Index : \A a, b \in Nat :
              /\ Sub(g, consTail) + a <= Mask
              /\ Sub(h, consTail) + b <= Mask
              /\ SlotOf(g, a) = SlotOf(h, b)
              => Sub(g, consTail) + a = Sub(h, consTail) + b
BY SlotInjective DEF IInv, TypeOK

\* Two claims have no slot in common, and one claim has no slot twice.
LEMMA ClaimSlotsApart ==
    ASSUME IInv, NEW t \in Thread, NEW u \in Thread, pc[t] = "copy", pc[u] = "copy",
           NEW i \in Nat, i < Count(t), NEW j \in Nat, j < Count(u),
           SlotOf(head[t], i) = SlotOf(head[u], j)
    PROVE  t = u /\ i = j
<1>1. /\ head[t] \in Index /\ Sub(head[t], consTail) \in Nat /\ Count(t) \in Nat
      /\ head[u] \in Index /\ Sub(head[u], consTail) \in Nat /\ Count(u) \in Nat
      /\ Sub(head[t], consTail) + Count(t) <= Mask
      /\ Sub(head[u], consTail) + Count(u) <= Mask
  BY Zenon, ClaimPositions
<1>2. Sub(head[t], consTail) + i <= Mask /\ Sub(head[u], consTail) + j <= Mask
  BY <1>1, Sizes
<1>3. Sub(head[t], consTail) + i = Sub(head[u], consTail) + j
  BY <1>1, <1>2, SlotsFromTail
<1>4. CASE t # u
  <2>1. \/ Sub(head[t], consTail) + Count(t) <= Sub(head[u], consTail)
        \/ Sub(head[u], consTail) + Count(u) <= Sub(head[t], consTail)
    BY Zenon, <1>4, ClaimsDisjoint
  <2>2. QED
    BY <1>1, <1>3, <2>1
<1>5. CASE t = u
  BY <1>1, <1>3, <1>5
<1>6. QED
  BY Zenon, <1>4, <1>5

\* A producer's claim has no slot of an object that nobody has claimed.
LEMMA UnclaimedApart ==
    ASSUME IInv, NEW p \in Producers, pc[p] = "copy",
           NEW i \in Nat, i < Count(p), NEW j \in Nat, j < Sub(prodTail, consHead)
    PROVE  SlotOf(head[p], i) # SlotOf(consHead, j)
<1>1. p \in Thread /\ consHead \in Index
  BY Zenon DEF Thread, IInv, TypeOK
<1>2. /\ Sub(consHead, consTail) \in Nat /\ Sub(prodTail, consHead) \in Nat
      /\ Sub(head[p], prodTail) \in Nat /\ Sub(prodHead, prodTail) \in Nat /\ Count(p) \in Nat
  BY Zenon, <1>1, Distances DEF IInv
<1>3. /\ head[p] \in Index /\ Sub(head[p], consTail) \in Nat
      /\ Sub(head[p], consTail) + Count(p) <= Mask
      /\ Sub(head[p], consTail) =
            Sub(consHead, consTail) + Sub(prodTail, consHead) + Sub(head[p], prodTail)
  BY Zenon, <1>1, ClaimPositions
<1>4. Sub(head[p], consTail) + i <= Mask /\ Sub(consHead, consTail) + j <= Mask
  BY <1>2, <1>3, Sizes DEF IInv, IndicesInOrder
<1>5. SlotOf(head[p], i) = SlotOf(consHead, j) => Sub(head[p], consTail) + i = Sub(consHead, consTail) + j
  BY <1>1, <1>3, <1>4, SlotsFromTail
<1>6. QED
  BY <1>2, <1>3, <1>5

\* While a thread copies, nobody else touches the slots it has left to copy,
\* and no producer overwrites an object that nobody has taken.
THEOREM SlotsExclusive == Spec => []ExclusiveSlots
<1>1. IInv => ExclusiveSlots
  <2> SUFFICES ASSUME IInv PROVE ExclusiveSlots
    BY Zenon
  <2>0. ASSUME NEW t \in Thread, NEW s \in Pending(t)
        PROVE  pc[t] = "copy" /\ \E i \in Nat : i < Count(t) /\ s = SlotOf(head[t], i)
    <3>1. done[t] \in Nat /\ Count(t) \in Nat /\ pc[t] = "copy"
      BY <2>0, Distances, Sizes DEF IInv, TypeOK, Pending
    <3>2. PICK i \in done[t] .. (Count(t) - 1) : s = SlotOf(head[t], i)
      BY Zenon, <2>0, <3>1 DEF Pending
    <3>3. QED
      BY <3>1, <3>2
  <2>1. ASSUME NEW t \in Thread, NEW u \in Thread, t # u, NEW s \in Pending(t), s \in Pending(u)
        PROVE  FALSE
    BY <2>0, <2>1, ClaimSlotsApart
  <2>2. ASSUME NEW p \in Producers, NEW s \in Pending(p), s \in Unclaimed
        PROVE  FALSE
    <3>1. PICK i \in Nat : i < Count(p) /\ s = SlotOf(head[p], i)
      BY Zenon, <2>0, <2>2 DEF Thread
    <3>2. Sub(prodTail, consHead) \in Nat /\ pc[p] = "copy"
      BY Zenon, <2>0, <2>2, Distances DEF IInv, Thread
    <3>3. PICK j \in 0 .. (Sub(prodTail, consHead) - 1) : s = SlotOf(consHead, j)
      BY Zenon, <2>2 DEF Unclaimed
    <3>4. j \in Nat /\ j < Sub(prodTail, consHead)
      BY <3>2, <3>3
    <3>5. SlotOf(head[p], i) # SlotOf(consHead, j)
      BY Zenon, <3>1, <3>2, <3>4, UnclaimedApart
    <3>6. QED
      BY Zenon, <3>1, <3>3, <3>5
  <2>3. QED
    BY Zenon, <2>1, <2>2 DEF ExclusiveSlots
<1>2. QED
  BY <1>1, Invariance, PTL
=============================================================================
