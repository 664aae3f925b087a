------------------------------- MODULE MCRing -------------------------------
(* Ring for TLC: the ways of sharing a ring.  The indices begin at 0, as   *)
(* rte_ring_init leaves them.                                              *)
EXTENDS Ring, TLC

\* Who uses the ring side by side: the "producers" with one consumer at a time,
\* the "consumers" with one producer, only "one" of each, or "all" producers with
\* bursts of one object.
VARIABLE sharing

Alone(t, side) == \A u \in side \ {t} : pc[u] = "idle"
MayEnqueue(p, n) ==
    (sharing \in {"consumers", "one"} => Alone(p, Producers)) /\ (sharing = "all" => n = 1)
MayDequeue(c, n) ==
    (sharing # "consumers" => Alone(c, Consumers)) /\ (sharing = "all" => n = 1)
Share(A) == A /\ UNCHANGED sharing

SharedNext ==
    \/ \E p \in Producers :
          \/ \E b \in Burst : MayEnqueue(p, Len(b)) /\ Share(EnqueueBurst(p, b))
          \/ Share(RetryEnqueue(p)) \/ Share(LoadConsTail(p)) \/ Share(CasProdHead(p))
          \/ Share(WriteSlot(p)) \/ Share(PublishProdTail(p))
    \/ \E c \in Consumers :
          \/ \E n \in 1 .. MaxBurst : MayDequeue(c, n) /\ Share(DequeueBurst(c, n))
          \/ Share(RetryDequeue(c)) \/ Share(LoadProdTail(c)) \/ Share(CasConsHead(c))
          \/ Share(ReadSlot(c)) \/ Share(PublishConsTail(c))

SidesInit == Init /\ prodHead = 0 /\ sharing \in {"producers", "consumers"}
SidesSpec == SidesInit /\ [][SharedNext]_<<vars, sharing>>

BurstsInit == Init /\ prodHead = 0 /\ sharing \in {"one", "all"}
BurstsSpec == BurstsInit /\ [][SharedNext]_<<vars, sharing>>

Symmetry == Permutations(Producers) \cup Permutations(Consumers) \cup Permutations(Item)
=============================================================================
