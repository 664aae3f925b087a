------------------------------ MODULE Routing -------------------------------
(***************************************************************************)
(* segmentProcess: how a burst of packets is walked through the tree of    *)
(* functions of a segment.  The scalar code takes one packet at a time     *)
(* down the tree; the vector code takes the whole burst, with a stack of   *)
(* functions and of the masks of the packets that reach them.  Both forms  *)
(* are run on the same bursts, one after the other.                        *)
(***************************************************************************)
EXTENDS Integers, Sequences, FiniteSets

CONSTANTS
    Tree,       \* function -> [kind, next, bufIndex]; a leaf is a slice
    FirstFunc,
    Verdicts,   \* verdicts of the user's functions: function -> packet -> number
    BurstSize,  \* packets of a burst, at most
    N, M        \* of the partitioners

Funcs == DOMAIN Tree
Kind(f) == Tree[f].kind
Following(f) == Len(Tree[f].next)
Users == {f \in Funcs : Kind(f) \in {"separate", "split"}}
Partitioners == {f \in Funcs : Kind(f) = "partition"}
Slices == {f \in Funcs : Kind(f) = "slice"}
Outs == {Tree[f].bufIndex : f \in Slices}
Slots == 1..BurstSize
NoOutput == [o \in Outs |-> <<>>]

VARIABLES
    phase,      \* "idle", "scalar" or "vector"
    n,          \* packets in the burst
    verdict,    \* what the user's functions say of each packet
    i, currentFunc, sContext, sOut,         \* scalar form
    def, answers, vContext, vOut            \* vector form
vars == <<phase, n, verdict, i, currentFunc, sContext, sOut, def, answers, vContext, vOut>>

NewContext == [answer |-> 0, compare |-> N, number |-> 0]

Init ==
    /\ phase = "idle" /\ n = 0 /\ i = 1 /\ currentFunc = FirstFunc
    /\ verdict = [f \in Users |-> [p \in Slots |-> 0]]
    /\ sContext = [f \in Partitioners |-> NewContext] /\ vContext = sContext
    /\ sOut = NoOutput /\ vOut = NoOutput
    /\ def = <<>> /\ answers = [p \in Slots |-> 0]

\* DequeueBurst returns a burst; the user's functions have verdicts on its
\* packets only.
Dequeue ==
    /\ phase = "idle"
    /\ n' \in Slots
    /\ verdict' \in {v \in Verdicts : \A f \in Users, p \in Slots : p > n' => v[f][p] = 0}
    /\ phase' = "scalar" /\ i' = 1 /\ currentFunc' = FirstFunc
    /\ sOut' = NoOutput /\ vOut' = NoOutput
    /\ UNCHANGED <<sContext, def, answers, vContext>>

\* partition: the context after one more packet.
Counted(c) ==
    IF c.number + 1 = c.compare
    THEN [answer |-> 1 - c.answer, compare |-> N + M - c.compare, number |-> 0]
    ELSE [c EXCEPT !.number = @ + 1]
-----------------------------------------------------------------------------
\* separate, split, partition, handle and constructSlice.
NextIndex(f, p) ==
    CASE f \in Users -> verdict[f][p]
      [] f \in Partitioners -> sContext'[f].answer
      [] Kind(f) = "handle" -> 0
      [] OTHER -> Tree[f].bufIndex

\* One turn of the inner loop of the scalar code.
Scalar ==
    /\ phase = "scalar" /\ i <= n
    /\ sContext' = [f \in Partitioners |->
                       IF f = currentFunc THEN Counted(sContext[f]) ELSE sContext[f]]
    /\ LET nextIndex == NextIndex(currentFunc, i)
       IN  IF Following(currentFunc) = 0
           THEN /\ sOut' = [sOut EXCEPT ![nextIndex] = Append(@, i)]
                /\ i' = i + 1 /\ currentFunc' = FirstFunc
           ELSE /\ currentFunc' = Tree[currentFunc].next[nextIndex + 1]
                /\ UNCHANGED <<i, sOut>>
    /\ UNCHANGED <<phase, n, verdict, def, answers, vContext, vOut>>

\* The vector code starts on the same burst with the mask of its packets.
ToVector ==
    /\ phase = "scalar" /\ i > n
    /\ phase' = "vector"
    /\ def' = <<[f |-> FirstFunc, mask |-> 1..n]>>
    /\ UNCHANGED <<n, verdict, i, currentFunc, sContext, sOut, answers, vContext, vOut>>
-----------------------------------------------------------------------------
Top == def[Len(def)]
Below == SubSeq(def, 1, Len(def) - 1)

\* Faulty: the packets of other branches are counted too.
AllCountedUpTo(c, mask) ==
    LET upTo[p \in 0..BurstSize] == IF p = 0 THEN c
                                    ELSE IF p <= n THEN Counted(upTo[p - 1]) ELSE upTo[p - 1]
    IN  upTo
\* vPartition: the context after the packets of the mask up to p.
CountedUpTo(c, mask) ==
    LET upTo[p \in 0..BurstSize] == IF p = 0 THEN c
                                    ELSE IF p \in mask THEN Counted(upTo[p - 1]) ELSE upTo[p - 1]
    IN  upTo

\* vSeparate, vSplit, vPartition and vConstructSlice write answers; the user's
\* functions answer the packets of the mask only.
Answers(f, mask) ==
    CASE f \in Users -> [p \in Slots |-> IF p \in mask THEN verdict[f][p] ELSE answers[p]]
      [] f \in Partitioners ->
           [p \in Slots |-> IF p \in mask THEN CountedUpTo(vContext[f], mask)[p].answer ELSE answers[p]]
      [] Kind(f) = "handle" -> answers
      [] OTHER -> [answers EXCEPT ![1] = Tree[f].bufIndex]

\* asm.GenerateMask
GenerateMask(ans, each, mask) == {p \in mask : ans[p] = each}

\* The branches with packets take the place of the function, the last on top.
Pushed(branches) == Below \o SelectSeq(branches, LAMBDA e : e.mask # {})

\* FillSliceFromMask: the packets of a mask in their order.
FillSliceFromMask(mask) ==
    LET fill[p \in 0..BurstSize] ==
            IF p = 0 THEN <<>> ELSE IF p \in mask THEN Append(fill[p - 1], p) ELSE fill[p - 1]
    IN  fill[BurstSize]

\* One turn of the loop of the vector code.
Vector ==
    /\ phase = "vector" /\ def # <<>>
    /\ LET cur == Top.f
           mask == Top.mask
           branch(b) == [f |-> Tree[cur].next[b], mask |-> GenerateMask(answers', b - 1, mask)]
       IN  /\ answers' = Answers(cur, mask)
           /\ vContext' = [f \in Partitioners |->
                              IF f = cur THEN CountedUpTo(vContext[f], mask)[BurstSize] ELSE vContext[f]]
           /\ \/ /\ Following(cur) = 0
                 /\ vOut' = [vOut EXCEPT ![answers'[1]] = @ \o FillSliceFromMask(mask)]
                 /\ def' = Below
              \/ /\ Following(cur) = 1
                 /\ def' = Append(Below, [f |-> Tree[cur].next[1], mask |-> mask])
                 /\ UNCHANGED vOut
              \/ /\ Following(cur) > 1
                 /\ def' = Pushed([b \in 1..Following(cur) |-> branch(b)])
                 /\ UNCHANGED vOut
    /\ UNCHANGED <<phase, n, verdict, i, currentFunc, sContext, sOut>>

Done ==
    /\ phase = "vector" /\ def = <<>>
    /\ phase' = "idle"
    /\ UNCHANGED <<n, verdict, i, currentFunc, sContext, sOut, def, answers, vContext, vOut>>

Next == Dequeue \/ Scalar \/ ToVector \/ Vector \/ Done
Spec == Init /\ [][Next]_vars
-----------------------------------------------------------------------------
\* The stack of segmentProcess (30 entries, no check) never holds more entries
\* than the burst has packets or the tree has slices, because its entries are
\* disjoint subtrees with disjoint masks that are not empty.
StackFits == Len(def) <= n /\ Len(def) <= Cardinality(Slices)

\* While the vector code runs every packet of the burst is in exactly one mask
\* of the stack or in exactly one output slice: none is lost or sent twice.
OnePlaceEach ==
    phase = "vector" =>
        \A p \in 1..n :
            Cardinality({s \in DOMAIN def : p \in def[s].mask})
            + Cardinality({<<o, k>> \in Outs \X Slots : k <= Len(vOut[o]) /\ vOut[o][k] = p}) = 1

\* The scalar and the vector form of the same segment send the same packets in
\* the same order to the same outputs and leave the same partition contexts,
\* burst after burst.
SameRouting == (phase = "vector" /\ def = <<>>) => sOut = vOut /\ sContext = vContext
=============================================================================
