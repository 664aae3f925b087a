------------------------------- MODULE Graph -------------------------------
(***************************************************************************)
(* The construction of the flow graph.  The user calls SetReceiver,        *)
(* SetHandler, SetSplitter, SetMerger and so on with the flows the earlier *)
(* calls returned, and then SystemStart.  A flow is open until something   *)
(* consumes it; its packets are either in a ring (current) or at a branch  *)
(* of a function inside a segment (previous).                              *)
(* The variable g holds what the calls build; each call is an operator     *)
(* from graphs to graphs, composed as the code composes its helpers.       *)
(* Flows, functions, segments and rings are numbered, 0 stands for nil.    *)
(* remerged and failed only record history: rings a segment wrote when     *)
(* merge redirected their other writers, rings of a SetMerger that failed. *)
(***************************************************************************)
EXTENDS Naturals, Sequences, FiniteSets, SequencesExt

CONSTANTS
    Widths,     \* values of inIndexNumber of receivers: queues of a port,
                \* in 1 .. MaxInIndex
    MaxInIndex, \* queues of the stop ring
    MaxSplit,   \* bound: flows a splitter makes
    MaxCalls    \* bound: calls before SystemStart

VARIABLES g, started, calls
vars == <<g, started, calls>>

Nil == 0
StopRing == 1

Init ==
    /\ g = [flows |-> <<>>, funcs |-> <<>>, segs |-> <<>>, ffs |-> <<>>,
            rings |-> <<MaxInIndex>>, openFlowsNumber |-> 0, remerged |-> {}, failed |-> {}]
    /\ started = FALSE
    /\ calls = 0

-----------------------------------------------------------------------------
(* Helpers.  The object a helper makes is the last of its list.            *)

CreateRings(h, width) == [h EXCEPT !.rings = Append(@, width)]

NewFlow(h, rings, width) ==
    [h EXCEPT !.flows = Append(@, [current |-> rings, segment |-> Nil, previous |-> <<>>, width |-> width]),
              !.openFlowsNumber = @ + 1]

NewFlowSegment(h, segment, slot, width) ==
    [h EXCEPT !.flows = Append(@, [current |-> Nil, segment |-> segment, previous |-> slot, width |-> width]),
              !.openFlowsNumber = @ + 1]

CloseFlow(h, i) ==
    [h EXCEPT !.flows[i].current = Nil, !.flows[i].previous = <<>>, !.openFlowsNumber = @ - 1]

AddFF(h, kind, in, outs, seg, first, width) ==
    [h EXCEPT !.ffs = Append(@, [kind |-> kind, in |-> in, outs |-> outs, seg |-> seg,
                                 first |-> first, width |-> width])]

\* addReceiver, addGenerator, addFastGenerator, addReader; addSender, addWriter
AddSource(h, kind, out, n) == AddFF(h, kind, Nil, <<out>>, Nil, Nil, n)
AddSink(h, in, n) == AddFF(h, "sink", in, <<>>, Nil, Nil, n)
AddCopier(h, in, out, outCopy, n) == AddFF(h, "copy", in, <<out, outCopy>>, Nil, Nil, n)

\* A function of scalar (1), vector (2) or either (0) type with n branches.
MakeFunc(h, type, n) ==
    [h EXCEPT !.funcs = Append(@, [type |-> type, next |-> [b \in 1 .. n |-> Nil], bufIndex |-> Nil])]

MakeSlice(h, out, s) ==
    LET k == [h EXCEPT !.segs[s].out = Append(@, out)]
    IN  [k EXCEPT !.funcs = Append(@, [type |-> 0, next |-> <<>>, bufIndex |-> Len(k.segs[s].out)])]

\* checkFlow: closeFlow leaves neither ring nor branch.
IsOpen(h, i) == ~(h.flows[i].current = Nil /\ h.flows[i].previous = <<>>)

AddSegment(h, i, f, setType) ==
    LET k == AddFF([h EXCEPT !.segs = Append(@, [out |-> <<>>, stype |-> setType])],
                   "segment", h.flows[i].current, <<>>, Len(h.segs) + 1, f, h.flows[i].width)
    IN  [k EXCEPT !.flows[i].segment = Len(k.segs)]

\* The end of segmentInsert.
Continue(h, i, f, willClose, branch) ==
    IF willClose THEN CloseFlow(h, i)
    ELSE IF h.funcs[f].next # <<>> THEN [h EXCEPT !.flows[i].previous = <<f, branch>>]
    ELSE h

\* *IN.previous = f
Follow(h, i, f) ==
    LET slot == h.flows[i].previous IN [h EXCEPT !.funcs[slot[1]].next[slot[2]] = f]

InsertSameType(h, i, f, willClose, setType, branch) ==
    LET s == h.flows[i].segment
        typed == IF setType > 0 /\ h.segs[s].stype = 0
                 THEN [h EXCEPT !.segs[s].stype = setType] ELSE h
    IN  IF s = Nil THEN Continue(AddSegment(h, i, f, setType), i, f, willClose, branch)
        ELSE Continue(Follow(typed, i, f), i, f, willClose, branch)

\* The flow leaves its segment by a new ring.
LeaveSegment(h, i) ==
    LET k == CreateRings(h, h.flows[i].width)
        l == MakeSlice(k, Len(k.rings), k.flows[i].segment)
    IN  [InsertSameType(l, i, Len(l.funcs), FALSE, 0, 0) EXCEPT !.flows[i].segment = Nil,
                                                                 !.flows[i].current = Len(k.rings)]

\* segmentInsert: scalar and vector functions never share a segment.
SegmentInsert(h, i, f, willClose, setType, branch) ==
    LET s == h.flows[i].segment
        mixed == s # Nil /\ setType > 0 /\ h.segs[s].stype > 0 /\ setType # h.segs[s].stype
    IN  InsertSameType(IF mixed THEN LeaveSegment(h, i) ELSE h, i, f, willClose, setType, branch)

\* The flow ends in the rings out, by a slice of its segment.
EndInSlice(h, i, out) ==
    LET k == MakeSlice(h, out, h.flows[i].segment)
    IN  InsertSameType(k, i, Len(k.funcs), TRUE, 0, 0)

\* merge: whoever writes from now writes to; segments are not looked at.
Merge(h, from, to) ==
    [h EXCEPT
       !.ffs = [j \in DOMAIN @ |-> [@[j] EXCEPT !.outs = [o \in DOMAIN @ |-> IF @[o] = from THEN to ELSE @[o]]]],
       !.remerged = IF \E s \in DOMAIN h.segs : from \in ToSet(h.segs[s].out) THEN @ \cup {from} ELSE @]

\* finishFlow, then the function that reads the ring.
Finish(h, i) ==
    IF h.flows[i].segment = Nil
    THEN AddSink(CloseFlow(h, i), h.flows[i].current, h.flows[i].width)
    ELSE LET k == CreateRings(h, h.flows[i].width)
         IN  AddSink(EndInSlice(k, i, Len(k.rings)), Len(k.rings), h.flows[i].width)

\* SetStopper on an open flow.
StopFlow(h, i) ==
    IF h.flows[i].segment = Nil
    THEN CloseFlow(Merge(h, h.flows[i].current, StopRing), i)
    ELSE EndInSlice(h, i, StopRing)
-----------------------------------------------------------------------------
(* The calls.                                                              *)

Call(result) ==
    /\ ~started /\ calls < MaxCalls
    /\ g' = result
    /\ calls' = calls + 1
    /\ UNCHANGED started

\* SetReceiver, SetReceiverKNI, SetReceiverFile, SetGenerator, SetFastGenerator:
\* a source with n queues; only a receiver may have several.
SetSource(kind, n) ==
    /\ n = 1 \/ kind = "receiver"
    /\ LET h == CreateRings(g, n)  r == Len(h.rings)
       IN  Call(NewFlow(AddSource(h, kind, r, n), r, n))

\* SetSender, SetSenderKNI, SetSenderFile
SetSink(i) == IsOpen(g, i) /\ Call(Finish(g, i))

SetCopier(i) ==
    LET n == g.flows[i].width
        h == CreateRings(CreateRings(g, n), n)
        first == Len(g.rings) + 1
        second == Len(g.rings) + 2
        k == IF g.flows[i].segment = Nil THEN h ELSE LeaveSegment(h, i)
        c == AddCopier(k, k.flows[i].current, first, second, n)
    IN  /\ IsOpen(g, i)
        /\ Call(NewFlow([c EXCEPT !.flows[i].current = first], second, n))

\* SetHandler, SetVectorHandler
SetHandler(i, type) ==
    LET h == MakeFunc(g, type, 1)
    IN  IsOpen(g, i) /\ Call(SegmentInsert(h, i, Len(h.funcs), FALSE, type, 1))

\* A function with two branches: the flow goes on at stay, a new one at out.
Branched(i, type, stay, out) ==
    LET h == MakeFunc(g, type, 2)
        f == Len(h.funcs)
        k == SegmentInsert(h, i, f, FALSE, type, stay)
    IN  NewFlowSegment(k, k.flows[i].segment, <<f, out>>, k.flows[i].width)

SetPartitioner(i) == IsOpen(g, i) /\ Call(Branched(i, 0, 1, 2))
SetSeparator(i, type) == IsOpen(g, i) /\ Call(Branched(i, type, 2, 1))

\* SetHandlerDrop, SetVectorHandlerDrop: SetStopper on the new flow.
SetHandlerDrop(i, type) ==
    LET h == Branched(i, type, 2, 1) IN IsOpen(g, i) /\ Call(StopFlow(h, Len(h.flows)))

\* SetSplitter, SetVectorSplitter: the flow is closed, n new ones opened.
Splitter(i, type, n) ==
    LET h == MakeFunc(g, type, n)
        f == Len(h.funcs)
        k == SegmentInsert(h, i, f, TRUE, type, 1)
        s == k.flows[i].segment
    IN  FoldLeft(LAMBDA l, b : NewFlowSegment(l, s, <<f, b>>, k.flows[i].width), k, [b \in 1 .. n |-> b])
SetSplitter(i, type, n) == IsOpen(g, i) /\ Call(Splitter(i, type, n))

SetStopper(i) == IsOpen(g, i) /\ Call(StopFlow(g, i))

FirstWidth(in) == g.flows[in[1]].width    \* Faulty: not the maximum

MaxWidth(in) == CHOOSE n \in {g.flows[i].width : i \in ToSet(in)} :
                    \A i \in ToSet(in) : g.flows[i].width <= n

\* SetMerger: the flows are closed one after the other; a closed one among
\* them ends the call with an error, the earlier ones stay merged.
MergeFlow(h, i, r) ==
    IF h.flows[i].segment = Nil
    THEN CloseFlow(Merge(h, h.flows[i].current, r), i)
    ELSE EndInSlice(h, i, r)

SetMerger(in) ==
    LET h == CreateRings(g, MaxWidth(in))
        r == Len(h.rings)
        closed(j) == ~IsOpen(g, in[j]) \/ \E k \in 1 .. j - 1 : in[k] = in[j]
        good == SelectSeq([j \in DOMAIN in |-> j], LAMBDA j : \A k \in 1 .. j : ~closed(k))
        k == FoldLeft(LAMBDA l, j : MergeFlow(l, in[j], r), h, good)
    IN  Call(IF Len(good) = Len(in) THEN NewFlow(k, r, MaxWidth(in)) ELSE [k EXCEPT !.failed = @ \cup {r}])

SystemStartUnchecked ==    \* Faulty: does not look at openFlowsNumber
    /\ ~started
    /\ started' = TRUE
    /\ UNCHANGED <<g, calls>>

\* SystemStart: an error, and no start, while flows are open.
SystemStart ==
    /\ ~started
    /\ started' = (g.openFlowsNumber = 0)
    /\ UNCHANGED <<g, calls>>

\* SystemStop forgets the functions; the flows are all closed.
SystemStop ==
    /\ started
    /\ started' = FALSE /\ calls' = 0
    /\ g' = [g EXCEPT !.flows = <<>>, !.funcs = <<>>, !.segs = <<>>, !.ffs = <<>>,
                      !.rings = <<MaxInIndex>>, !.remerged = {}, !.failed = {}]

Flows == DOMAIN g.flows
Types == {1, 2}

Next ==
    \/ \E kind \in {"receiver", "generator"}, n \in Widths : SetSource(kind, n)
    \/ \E i \in Flows :
          \/ SetSink(i) \/ SetCopier(i) \/ SetPartitioner(i) \/ SetStopper(i)
          \/ \E type \in Types :
                \/ SetHandler(i, type) \/ SetSeparator(i, type) \/ SetHandlerDrop(i, type)
                \/ \E n \in 1 .. MaxSplit : SetSplitter(i, type, n)
    \/ \E i, j \in Flows : SetMerger(<<i, j>>)
    \/ SystemStart \/ SystemStop

Spec == Init /\ [][Next]_vars
-----------------------------------------------------------------------------
TypeOK ==
    /\ \A i \in Flows : g.flows[i].current \in 0 .. Len(g.rings) /\ g.flows[i].segment \in 0 .. Len(g.segs)
    /\ \A j \in DOMAIN g.ffs : ToSet(g.ffs[j].outs) \subseteq DOMAIN g.rings
    /\ \A f \in DOMAIN g.funcs : ToSet(g.funcs[f].next) \subseteq 0 .. Len(g.funcs)
    /\ started \in BOOLEAN /\ calls \in 0 .. MaxCalls

OpenFlows == {i \in Flows : IsOpen(g, i)}

\* openFlowsNumber, which lets SystemStart refuse an unfinished graph, is the
\* number of flows that checkFlow accepts, also after a failed SetMerger.
OpenFlowsCounted == g.openFlowsNumber = Cardinality(OpenFlows)

Segments == {j \in DOMAIN g.ffs : g.ffs[j].seg # Nil}
RECURSIVE Reach(_)
Reach(fs) == LET more == fs \cup ((UNION {ToSet(g.funcs[f].next) : f \in fs}) \ {Nil})
             IN  IF more = fs THEN fs ELSE Reach(more)
FuncsOf(j) == Reach({g.ffs[j].first})
Holders(f, b) == {i \in OpenFlows : g.flows[i].segment # Nil /\ g.flows[i].previous = <<f, b>>}

\* A branch of a function inside a segment is continued by exactly one open
\* flow until it has its next function, and by none afterwards: no call
\* overwrites a branch another call has bound.
BranchesHeldOnce ==
    \A j \in Segments : \A f \in FuncsOf(j) : \A b \in DOMAIN g.funcs[f].next :
        Cardinality(Holders(f, b)) = IF g.funcs[f].next[b] = Nil THEN 1 ELSE 0

\* segmentProcess runs scalar or vector functions, as stype says: a segment
\* holds functions of its type only, and every function with a type.
SegmentsOfOneType ==
    \A j \in Segments : \A f \in FuncsOf(j) : g.funcs[f].type \in {0, g.segs[g.ffs[j].seg].stype}

OutsOf(j) == ToSet(g.ffs[j].outs) \cup IF g.ffs[j].seg = Nil THEN {} ELSE ToSet(g.segs[g.ffs[j].seg].out)

\* A function with n input queues writes output queues 1 .. n: the rings it
\* writes are as wide, whatever flows were merged into them.
WidthsFit ==
    \A j \in DOMAIN g.ffs : \A r \in OutsOf(j) : g.ffs[j].width <= g.rings[r]

Readers(r) == {j \in DOMAIN g.ffs : g.ffs[j].in = r}

\* No ring has two readers, and the stop ring only the stop thread.
OneReader ==
    /\ \A r \in DOMAIN g.rings : Cardinality(Readers(r)) <= 1
    /\ Readers(StopRing) = {}

\* Once the system has started no packet gets stuck: segmentProcess follows no
\* nil branch, and every ring written is read, unless merge took its flow away
\* from a segment or SetMerger returned an error that was ignored.
StartedComplete ==
    started =>
      /\ \A j \in Segments : \A f \in FuncsOf(j) : Nil \notin ToSet(g.funcs[f].next)
      /\ \A j \in DOMAIN g.ffs :
            \A r \in OutsOf(j) \ ({StopRing} \cup g.remerged \cup g.failed) : Readers(r) # {}

\* The documentation of SetMerger: "All packets from all these flows will be
\* sent to new flow", so every ring written in a started system is read if no
\* call failed.
AllPacketsMerged ==
    started /\ g.failed = {} =>
        \A j \in DOMAIN g.ffs : \A r \in OutsOf(j) \ {StopRing} : Readers(r) # {}
=============================================================================
