-------------------------------- MODULE Ring --------------------------------
(***************************************************************************)
(* The multi-producer, multi-consumer ring that carries packets between    *)
(* flow functions (low/low.go).  Each flow function runs on a core of its  *)
(* own and calls EnqueueBurst and DequeueBurst with no lock.  A burst       *)
(* claims a range of positions with a compare-and-swap on the head, copies *)
(* the objects one by one, waits for the claims before it and publishes    *)
(* its range by moving the tail.                                           *)
(*                                                                         *)
(* The four indices are words that wrap (uint32 in the code, Word values   *)
(* here).  Every access to shared memory is a step of its own; a           *)
(* computation on local variables belongs to the step before it.           *)
(***************************************************************************)
EXTENDS Integers, Sequences

CONSTANTS
    Producers,   \* threads that call EnqueueBurst
    Consumers,   \* threads that call DequeueBurst
    Item,        \* objects (mbuf pointers) the ring carries
    NoItem,      \* content of a slot nothing was written to yet
    Size,        \* number of slots, r.DPDK_ring.size
    Word,        \* number of values of an index, 2^32 in the code
    MaxBurst     \* largest burst a caller asks for

ASSUME RingAssumption ==
    /\ Size \in Nat /\ Size > 1
    /\ Word \in Nat
    /\ \E laps \in 2 .. Word : Word = Size * laps
    /\ MaxBurst \in Nat \ {0}
    /\ Producers \cap Consumers = {}
    /\ NoItem \notin Item

VARIABLES
    prodHead, prodTail,  \* r.DPDK_ring.prod.head, r.DPDK_ring.prod.tail
    consHead, consTail,  \* r.DPDK_ring.cons.head, r.DPDK_ring.cons.tail
    slots,               \* the objects, by slot
    pc,                  \* where each thread is
    head,                \* local prodHead of a producer, consHead of a consumer
    room,                \* local freeEntries of a producer, entries of a consumer
    done,                \* objects copied so far
    buf,                 \* objTable of a producer: the objects to enqueue
    want,                \* objTable of a consumer: the objects asked for
    got                  \* objTable of a consumer: the objects copied so far

indices == <<prodHead, prodTail, consHead, consTail>>
locals == <<pc, head, room, done, buf, want, got>>
vars == <<prodHead, prodTail, consHead, consTail, slots,
          pc, head, room, done, buf, want, got>>

Thread == Producers \cup Consumers
Index == 0 .. (Word - 1)
Mask == Size - 1
Burst == UNION {[1 .. n -> Item] : n \in 1 .. MaxBurst}

-----------------------------------------------------------------------------
(***************************************************************************)
(* Unsigned arithmetic on indices, as the compiler's uint32 arithmetic.    *)
(***************************************************************************)
Add(a, n) == IF a + n >= Word THEN a + n - Word ELSE a + n
Sub(a, b) == IF a >= b THEN a - b ELSE a - b + Word

\* Faulty: all slots may be used, so a full ring looks empty.
FreeEntriesAll(tail, hd) == Sub(Add(tail, Size), hd)
\* mask + consTail - prodHead, modulo Word
FreeEntries(tail, hd) == Sub(Add(tail, Mask), hd)
\* prodTail - consHead, modulo Word
Entries(tail, hd) == Sub(tail, hd)

\* Slot of the i-th object of a burst whose claim starts at hd: idx = hd & mask,
\* then idx + i up to the end of the array and from 0 on after it.
SlotOf(hd, i) ==
    LET idx == hd % Size IN IF idx + i < Size THEN idx + i ELSE idx + i - Size

\* "n" after the check against freeEntries or entries.
Clip(n, avail) == IF n > avail THEN avail ELSE n
Asked(t) == IF t \in Producers THEN Len(buf[t]) ELSE want[t]
Count(t) == Clip(Asked(t), room[t])

\* Threads of S between their load of the head and the outcome of their
\* compare-and-swap.
Loaded(S) == {t \in S : pc[t] \in {"tail", "cas"}}

\* The one assumption on timing: no thread is held up between its load of a
\* head and its compare-and-swap for so long that the others move that head
\* through all the values of a word (2^32 objects) and back to the value loaded.
NoFullLap(S, hd, n) == \A t \in Loaded(S) : Sub(hd, head[t]) + n < Word

-----------------------------------------------------------------------------
(* All indices start at one place: the ring is empty.  Every place of the  *)
(* index space is possible, it is where a long run leaves an empty ring.   *)
Init ==
    /\ prodHead \in Index
    /\ prodTail = prodHead
    /\ consHead = prodHead
    /\ consTail = prodHead
    /\ slots = [s \in 0 .. Mask |-> NoItem]
    /\ pc = [t \in Thread |-> "idle"]
    /\ head = [t \in Thread |-> 0]
    /\ room = [t \in Thread |-> 0]
    /\ done = [t \in Thread |-> 0]
    /\ buf = [p \in Producers |-> <<>>]
    /\ want = [c \in Consumers |-> 0]
    /\ got = [c \in Consumers |-> <<>>]

\* The call returns: its local variables are gone.
Return(t) ==
    /\ pc' = [pc EXCEPT ![t] = "idle"]
    /\ head' = [head EXCEPT ![t] = 0]
    /\ room' = [room EXCEPT ![t] = 0]
    /\ done' = [done EXCEPT ![t] = 0]

ReturnEnqueue(p) == Return(p) /\ buf' = [buf EXCEPT ![p] = <<>>]
ReturnDequeue(c) ==
    /\ Return(c)
    /\ want' = [want EXCEPT ![c] = 0]
    /\ got' = [got EXCEPT ![c] = <<>>]
-----------------------------------------------------------------------------
(* nffgoRingMpDoEnqueue.                                                   *)

\* prodHead = r.DPDK_ring.prod.head, the first access of a turn of the loop
LoadProdHead(p) ==
    /\ head' = [head EXCEPT ![p] = prodHead]
    /\ pc' = [pc EXCEPT ![p] = "tail"]
    /\ UNCHANGED <<indices, slots, room, done, want, got>>

\* EnqueueBurst(objTable, n) is called and starts its first turn.
EnqueueBurst(p, objTable) ==
    /\ pc[p] = "idle"
    /\ buf' = [buf EXCEPT ![p] = objTable]
    /\ LoadProdHead(p)

\* A turn after a failed compare-and-swap; n is reset to the burst asked for.
RetryEnqueue(p) ==
    /\ pc[p] = "retry"
    /\ LoadProdHead(p)
    /\ UNCHANGED buf

\* consTail = r.DPDK_ring.cons.tail, freeEntries, and the return when it is 0.
LoadConsTail(p) ==
    /\ pc[p] = "tail"
    /\ LET freeEntries == FreeEntries(consTail, head[p]) IN
       \/ /\ freeEntries = 0
          /\ ReturnEnqueue(p)
       \/ /\ freeEntries # 0
          /\ room' = [room EXCEPT ![p] = freeEntries]
          /\ pc' = [pc EXCEPT ![p] = "cas"]
          /\ UNCHANGED <<head, done, buf>>
    /\ UNCHANGED <<indices, slots, want, got>>

\* Faulty: the head is stored without comparing it.
CasProdHeadBlind(p) ==
    /\ pc[p] = "cas"
    /\ prodHead' = Add(head[p], Count(p))
    /\ pc' = [pc EXCEPT ![p] = "copy"]
    /\ UNCHANGED <<prodTail, consHead, consTail, slots, head, room, done, buf, want, got>>

\* CompareAndSwapUint32(&prod.head, prodHead, prodNext): another turn of the
\* loop when the head has moved.
CasProdHead(p) ==
    /\ pc[p] = "cas"
    /\ \/ /\ prodHead = head[p]
          /\ NoFullLap(Producers, prodHead, Count(p))
          /\ prodHead' = Add(prodHead, Count(p))
          /\ pc' = [pc EXCEPT ![p] = "copy"]
          /\ UNCHANGED <<head, room>>
       \/ /\ prodHead # head[p]
          /\ pc' = [pc EXCEPT ![p] = "retry"]
          /\ head' = [head EXCEPT ![p] = 0]
          /\ room' = [room EXCEPT ![p] = 0]
          /\ UNCHANGED prodHead
    /\ UNCHANGED <<prodTail, consHead, consTail, slots, done, buf, want, got>>

\* One store of enqueuePtrs.
WriteSlot(p) ==
    /\ pc[p] = "copy"
    /\ done[p] < Count(p)
    /\ slots' = [slots EXCEPT ![SlotOf(head[p], done[p])] = buf[p][done[p] + 1]]
    /\ done' = [done EXCEPT ![p] = @ + 1]
    /\ UNCHANGED <<indices, pc, head, room, buf, want, got>>

\* The wait for earlier enqueues, the store to prod.tail and the return.
PublishProdTail(p) ==
    /\ pc[p] = "copy"
    /\ done[p] = Count(p)
    /\ prodTail = head[p]
    /\ prodTail' = Add(head[p], Count(p))
    /\ ReturnEnqueue(p)
    /\ UNCHANGED <<prodHead, consHead, consTail, slots, want, got>>

-----------------------------------------------------------------------------
(* nffgoRingMcDoDequeue.                                                   *)

\* consHead = r.DPDK_ring.cons.head, the first access of a turn of the loop
LoadConsHead(c) ==
    /\ head' = [head EXCEPT ![c] = consHead]
    /\ pc' = [pc EXCEPT ![c] = "tail"]
    /\ UNCHANGED <<indices, slots, room, done, buf, got>>

\* DequeueBurst(objTable, n) is called and starts its first turn.
DequeueBurst(c, n) ==
    /\ pc[c] = "idle"
    /\ want' = [want EXCEPT ![c] = n]
    /\ LoadConsHead(c)

\* A turn after a failed compare-and-swap.
RetryDequeue(c) ==
    /\ pc[c] = "retry"
    /\ LoadConsHead(c)
    /\ UNCHANGED want

\* Faulty: objects count as soon as they are claimed.
LoadProdTailEarly(c) ==
    /\ pc[c] = "tail"
    /\ Entries(prodHead, head[c]) # 0
    /\ room' = [room EXCEPT ![c] = Entries(prodHead, head[c])]
    /\ pc' = [pc EXCEPT ![c] = "cas"]
    /\ UNCHANGED <<indices, slots, head, done, buf, want, got>>

\* prodTail = r.DPDK_ring.prod.tail, entries, and the return when it is 0.
LoadProdTail(c) ==
    /\ pc[c] = "tail"
    /\ LET entries == Entries(prodTail, head[c]) IN
       \/ /\ entries = 0
          /\ ReturnDequeue(c)
       \/ /\ entries # 0
          /\ room' = [room EXCEPT ![c] = entries]
          /\ pc' = [pc EXCEPT ![c] = "cas"]
          /\ UNCHANGED <<head, done, want, got>>
    /\ UNCHANGED <<indices, slots, buf>>

\* CompareAndSwapUint32(&cons.head, consHead, consNext)
CasConsHead(c) ==
    /\ pc[c] = "cas"
    /\ \/ /\ consHead = head[c]
          /\ NoFullLap(Consumers, consHead, Count(c))
          /\ consHead' = Add(consHead, Count(c))
          /\ pc' = [pc EXCEPT ![c] = "copy"]
          /\ UNCHANGED <<head, room>>
       \/ /\ consHead # head[c]
          /\ pc' = [pc EXCEPT ![c] = "retry"]
          /\ head' = [head EXCEPT ![c] = 0]
          /\ room' = [room EXCEPT ![c] = 0]
          /\ UNCHANGED consHead
    /\ UNCHANGED <<prodHead, prodTail, consTail, slots, done, buf, want, got>>

\* Faulty: the second part of a burst that wraps stays at slot 0.
ReadSlotNoAdvance(c) ==
    /\ pc[c] = "copy"
    /\ done[c] < Count(c)
    /\ LET idx == (head[c] % Size) + done[c]
       IN  got' = [got EXCEPT ![c] = Append(@, slots[IF idx < Size THEN idx ELSE 0])]
    /\ done' = [done EXCEPT ![c] = @ + 1]
    /\ UNCHANGED <<indices, slots, pc, head, room, buf, want>>

\* One load of dequeuePtrs.
ReadSlot(c) ==
    /\ pc[c] = "copy"
    /\ done[c] < Count(c)
    /\ got' = [got EXCEPT ![c] = Append(@, slots[SlotOf(head[c], done[c])])]
    /\ done' = [done EXCEPT ![c] = @ + 1]
    /\ UNCHANGED <<indices, slots, pc, head, room, buf, want>>

\* Faulty: the wait is for the end of the claim, not for its start.
PublishConsTailNext(c) ==
    /\ pc[c] = "copy"
    /\ done[c] = Count(c)
    /\ consTail = Add(head[c], Count(c))
    /\ ReturnDequeue(c)
    /\ UNCHANGED <<indices, slots, buf>>

\* The wait for earlier dequeues, the store to cons.tail and the return.
PublishConsTail(c) ==
    /\ pc[c] = "copy"
    /\ done[c] = Count(c)
    /\ consTail = head[c]
    /\ consTail' = Add(head[c], Count(c))
    /\ ReturnDequeue(c)
    /\ UNCHANGED <<prodHead, prodTail, consHead, slots, buf>>

-----------------------------------------------------------------------------
EnqueueStep(p) ==
    \/ RetryEnqueue(p)
    \/ LoadConsTail(p)
    \/ CasProdHead(p)
    \/ WriteSlot(p)
    \/ PublishProdTail(p)

DequeueStep(c) ==
    \/ RetryDequeue(c)
    \/ LoadProdTail(c)
    \/ CasConsHead(c)
    \/ ReadSlot(c)
    \/ PublishConsTail(c)

Next ==
    \/ \E p \in Producers : (\E b \in Burst : EnqueueBurst(p, b)) \/ EnqueueStep(p)
    \/ \E c \in Consumers : (\E n \in 1 .. MaxBurst : DequeueBurst(c, n)) \/ DequeueStep(c)

Spec == Init /\ [][Next]_vars

\* A thread inside a burst keeps running: it owns its core and never blocks.
FairSpec ==
    /\ Spec
    /\ \A p \in Producers : WF_vars(EnqueueStep(p))
    /\ \A c \in Consumers : WF_vars(DequeueStep(c))

-----------------------------------------------------------------------------
(* Properties.                                                             *)

TypeOK ==
    /\ prodHead \in Index /\ prodTail \in Index
    /\ consHead \in Index /\ consTail \in Index
    /\ slots \in [0 .. Mask -> Item \cup {NoItem}]
    /\ pc \in [Thread -> {"idle", "tail", "cas", "retry", "copy"}]
    /\ head \in [Thread -> Index]
    /\ room \in [Thread -> Index]
    /\ done \in [Thread -> 0 .. MaxBurst]
    /\ buf \in [Producers -> Burst \cup {<<>>}]
    /\ want \in [Consumers -> 0 .. MaxBurst]
    /\ got \in [Consumers -> Seq(Item \cup {NoItem})]

\* The indices stay in the order cons.tail, cons.head, prod.tail, prod.head
\* round the word, at most Mask apart: the ring never holds, counting the
\* claims in progress, more than its capacity (the checks against freeEntries
\* and entries in nffgoRingMpDoEnqueue and nffgoRingMcDoDequeue, made on values
\* that may be old when the compare-and-swap uses them).
IndicesInOrder ==
    Sub(consHead, consTail) + Sub(prodTail, consHead) + Sub(prodHead, prodTail) <= Mask

\* Slots a thread still has to store to or to load from in the current burst.
Pending(t) ==
    IF pc[t] = "copy" THEN {SlotOf(head[t], i) : i \in done[t] .. (Count(t) - 1)} ELSE {}

\* Slots published by producers and not yet claimed by a consumer.
Unclaimed == {SlotOf(consHead, i) : i \in 0 .. (Sub(prodTail, consHead) - 1)}

\* No slot is touched by two threads at once, and no producer stores into a
\* slot whose object nobody has taken yet: enqueuePtrs and dequeuePtrs run with
\* no lock and rely on this.
ExclusiveSlots ==
    /\ \A t, u \in Thread : t # u => Pending(t) \cap Pending(u) = {}
    /\ \A p \in Producers : Pending(p) \cap Unclaimed = {}

\* A burst that has claimed its range is published: the spin on prod.tail or
\* cons.tail ends ("we need to wait for them to complete").
ClaimsGetPublished == \A t \in Thread : (pc[t] = "copy") ~> (pc[t] = "idle")

\* "So 'freeEntries' is always between 0 and size(ring)-1", and the same of
\* 'entries': what the comments in the two loops say of the difference of two
\* indices that are loaded one after the other.
DifferencesInRange == \A t \in Thread : pc[t] = "cas" => room[t] <= Mask

-----------------------------------------------------------------------------
(* The inductive invariant behind IndicesInOrder and ExclusiveSlots.       *)

\* Between the load of the tail and the return there is something to copy.
SomethingToCopy ==
    \A t \in Thread :
        /\ pc[t] # "idle" => Asked(t) > 0
        /\ pc[t] \in {"cas", "copy"} => room[t] > 0
        /\ pc[t] # "copy" => done[t] = 0
        /\ done[t] <= Count(t)

\* The claims of S lie between tail and hd and do not overlap.
ClaimsApart(S, tail, hd) ==
    /\ \A t \in S :
          pc[t] = "copy" => Sub(head[t], tail) + Count(t) <= Sub(hd, tail)
    /\ \A t, u \in S :
          t # u /\ pc[t] = "copy" /\ pc[u] = "copy" =>
             \/ Sub(head[t], tail) + Count(t) <= Sub(head[u], tail)
             \/ Sub(head[u], tail) + Count(u) <= Sub(head[t], tail)

\* A compare-and-swap that is going to succeed works with a count that is still
\* safe: the other side can only have made more room since it was read.
RoomStillThere ==
    /\ \A p \in Producers : pc[p] = "cas" /\ head[p] = prodHead =>
          room[p] + Sub(consHead, consTail) + Sub(prodTail, consHead)
                  + Sub(prodHead, prodTail) <= Mask
    /\ \A c \in Consumers : pc[c] = "cas" /\ head[c] = consHead =>
          room[c] <= Sub(prodTail, consHead)

IInv ==
    /\ TypeOK
    /\ SomethingToCopy
    /\ IndicesInOrder
    /\ ClaimsApart(Producers, prodTail, prodHead)
    /\ ClaimsApart(Consumers, consTail, consHead)
    /\ RoomStillThere

-----------------------------------------------------------------------------
(* The ring as a queue.                                                    *)

\* The published objects that no consumer has claimed, oldest first.
Published ==
    [i \in 1 .. Sub(prodTail, consHead) |-> slots[SlotOf(consHead, i - 1)]]

\* What a consumer's claim holds: the objects already copied, then those still
\* in their slots.
Claimed(c) ==
    IF pc[c] = "copy"
    THEN [i \in 1 .. Count(c) |->
             IF i <= done[c] THEN got[c][i] ELSE slots[SlotOf(head[c], i - 1)]]
    ELSE <<>>

Claims == [c \in Consumers |-> Claimed(c)]

FIFO == INSTANCE RingFIFO WITH
    Capacity <- Mask,
    queue <- Published,
    offered <- buf,
    asked <- want,
    taken <- Claims

\* The ring is a bounded FIFO queue whose bursts take effect in one step: an
\* enqueue when it moves prod.tail, a dequeue when its compare-and-swap moves
\* cons.head.  In particular no object is lost, duplicated or reordered, and
\* the objects a dequeue is still copying are not overwritten under it.
RefinesFIFO == FIFO!Spec

\* What the refinement needs besides IInv: between calls nothing is offered or
\* asked for, a producer's claim holds what it has stored so far, and a consumer
\* has as many objects as it has loaded.
CopiesRight ==
    /\ \A p \in Producers :
          /\ pc[p] = "idle" => buf[p] = <<>>
          /\ \A i \in 1 .. done[p] : slots[SlotOf(head[p], i - 1)] = buf[p][i]
    /\ \A c \in Consumers :
          /\ pc[c] = "idle" => want[c] = 0
          /\ Len(got[c]) = done[c]
=============================================================================
