------------------------------ MODULE RingFIFO ------------------------------
(***************************************************************************)
(* What callers of EnqueueBurst and DequeueBurst may count on: a bounded   *)
(* first-in first-out queue.  A burst takes effect in one step; it may     *)
(* take effect for a prefix only, or for nothing.                          *)
(***************************************************************************)
EXTENDS Naturals, Sequences

CONSTANTS Producers, Consumers, Item, Capacity, MaxBurst

VARIABLES
    queue,    \* objects in the queue, oldest first
    offered,  \* objects a producer's current call offers, <<>> outside a call
    asked,    \* number of objects a consumer's current call asks for
    taken     \* objects the current call of a consumer has taken

vars == <<queue, offered, asked, taken>>

Offers == UNION {[1 .. n -> Item] : n \in 1 .. MaxBurst}

Init ==
    /\ queue = <<>>
    /\ offered = [p \in Producers |-> <<>>]
    /\ asked = [c \in Consumers |-> 0]
    /\ taken = [c \in Consumers |-> <<>>]

Offer(p) ==
    /\ offered[p] = <<>>
    /\ \E o \in Offers : offered' = [offered EXCEPT ![p] = o]
    /\ UNCHANGED <<queue, asked, taken>>

\* The call returns n: its first n objects are queued in one block.
Enqueue(p) ==
    /\ offered[p] # <<>>
    /\ \E n \in 0 .. Len(offered[p]) :
          /\ Len(queue) + n <= Capacity
          /\ queue' = queue \o SubSeq(offered[p], 1, n)
    /\ offered' = [offered EXCEPT ![p] = <<>>]
    /\ UNCHANGED <<asked, taken>>

Ask(c) ==
    /\ asked[c] = 0
    /\ \E n \in 1 .. MaxBurst : asked' = [asked EXCEPT ![c] = n]
    /\ UNCHANGED <<queue, offered, taken>>

\* The n oldest objects leave the queue in one block.
Take(c) ==
    /\ asked[c] # 0
    /\ taken[c] = <<>>
    /\ \E n \in 1 .. asked[c] :
          /\ n <= Len(queue)
          /\ taken' = [taken EXCEPT ![c] = SubSeq(queue, 1, n)]
          /\ queue' = SubSeq(queue, n + 1, Len(queue))
    /\ UNCHANGED <<offered, asked>>

\* The call returns what was taken; until then it does not change.
Deliver(c) ==
    /\ asked[c] # 0
    /\ asked' = [asked EXCEPT ![c] = 0]
    /\ taken' = [taken EXCEPT ![c] = <<>>]
    /\ UNCHANGED <<queue, offered>>

Next ==
    \/ \E p \in Producers : Offer(p) \/ Enqueue(p)
    \/ \E c \in Consumers : Ask(c) \/ Take(c) \/ Deliver(c)

Spec == Init /\ [][Next]_vars
=============================================================================
