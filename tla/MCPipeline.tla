----------------------------- MODULE MCPipeline -----------------------------
(***************************************************************************)
(* Three graphs of Pipeline in one run.  part names the one a behaviour is *)
(* about.  Ring 0 is the stop ring.                                        *)
(***************************************************************************)
EXTENDS Integers, Sequences

VARIABLES part, ring, free, todo, wire, lost, label, made, pos, sent, exited


\* receive -> segment -> copy -> send and write, one branch stopped.
ForwardKind == [rx |-> "receive", seg |-> "segment", cp |-> "copy",
                tx |-> "send", wr |-> "write", stop |-> "stop"]
ForwardWorkers == DOMAIN ForwardKind
ForwardIn == [rx |-> 0, seg |-> 1, cp |-> 2, tx |-> 3, wr |-> 4, stop |-> 0]
ForwardOuts == [rx |-> <<1>>, seg |-> <<0, 2>>, cp |-> <<3, 4>>, tx |-> <<>>, wr |-> <<>>, stop |-> <<>>]
ForwardPool == [w \in ForwardWorkers |-> CASE w = "rx" -> 1 .. 3 [] w = "cp" -> 11 .. 12 [] OTHER -> {}]

\* receive -> copy -> send and write.  The copies in flight fill ring 3, the
\* stop ring and the hands of the copier, the writer and the stop thread.
CopyKind == [rx |-> "receive", cp |-> "copy", tx |-> "send", wr |-> "write", stop |-> "stop"]
CopyWorkers == DOMAIN CopyKind
CopyIn == [rx |-> 0, cp |-> 1, tx |-> 2, wr |-> 3, stop |-> 0]
CopyOuts == [rx |-> <<1>>, cp |-> <<2, 3>>, tx |-> <<>>, wr |-> <<>>, stop |-> <<>>]
CopyPool == [w \in CopyWorkers |-> CASE w = "rx" -> 1 .. 2 [] w = "cp" -> 11 .. 15 [] OTHER -> {}]

\* A generator, a fast generator and a reader, all into one sender.
SourceKind == [gen |-> "generate", fast |-> "fastGenerate", rd |-> "read", tx |-> "send", stop |-> "stop"]
SourceWorkers == DOMAIN SourceKind
SourceIn == [gen |-> 0, fast |-> 0, rd |-> 0, tx |-> 1, stop |-> 0]
SourceOuts == [gen |-> <<1>>, fast |-> <<1>>, rd |-> <<1>>, tx |-> <<>>, stop |-> <<>>]
SourcePool == [w \in SourceWorkers |->
                 CASE w \in {"gen", "rd"} -> 1 .. 2 [] w = "fast" -> 11 .. 12 [] OTHER -> {}]

F == INSTANCE Pipeline WITH Workers <- ForwardWorkers, Kind <- ForwardKind, In <- ForwardIn,
        Outs <- ForwardOuts, Pool <- ForwardPool, Rings <- 0 .. 4, StopRing <- 0, Cap <- 2, Burst <- 2,
        Numbered <- TRUE, MaxPackets <- 3, FileLen <- 1, Repcount <- 1
C == INSTANCE Pipeline WITH Workers <- CopyWorkers, Kind <- CopyKind, In <- CopyIn,
        Outs <- CopyOuts, Pool <- CopyPool, Rings <- 0 .. 3, StopRing <- 0, Cap <- 1, Burst <- 2,
        Numbered <- FALSE, MaxPackets <- 0, FileLen <- 1, Repcount <- 1
S == INSTANCE Pipeline WITH Workers <- SourceWorkers, Kind <- SourceKind, In <- SourceIn,
        Outs <- SourceOuts, Pool <- SourcePool, Rings <- 0 .. 1, StopRing <- 0, Cap <- 1, Burst <- 2,
        Numbered <- TRUE, MaxPackets <- 2, FileLen <- 1, Repcount <- 2
-----------------------------------------------------------------------------
PipelineInit ==
    \/ part = "forward" /\ F!Init
    \/ part = "copy" /\ C!Init
    \/ part = "sources" /\ S!Init

Forward(A) == part = "forward" /\ A /\ UNCHANGED part
Copying(A) == part = "copy" /\ A /\ UNCHANGED part
Sources(A) == part = "sources" /\ A /\ UNCHANGED part

PipelineNext ==
    \/ \E w \in ForwardWorkers :
          \/ Forward(F!Receive(w)) \/ Forward(F!Segment(w)) \/ Forward(F!Copy(w)) \/ Forward(F!Send(w))
          \/ Forward(F!Stop(w)) \/ Forward(F!Write(w)) \/ Forward(F!Push(w)) \/ Forward(F!SafeEnqueue(w))
          \/ Forward(F!Spill(w)) \/ Forward(F!Transmit(w)) \/ Forward(F!WriteFile(w)) \/ Forward(F!FreeAll(w))
    \/ (\E m \in F!Mbufs : Forward(F!TxDone(m))) \/ Forward(F!Poll)
    \/ \E w \in CopyWorkers :
          \/ Copying(C!Receive(w)) \/ Copying(C!Copy(w)) \/ Copying(C!Send(w)) \/ Copying(C!Stop(w))
          \/ Copying(C!Write(w)) \/ Copying(C!Push(w)) \/ Copying(C!SafeEnqueue(w)) \/ Copying(C!Spill(w))
          \/ Copying(C!Transmit(w)) \/ Copying(C!WriteFile(w)) \/ Copying(C!FreeAll(w))
    \/ (\E m \in C!Mbufs : Copying(C!TxDone(m))) \/ Copying(C!Poll)
    \/ \E w \in SourceWorkers :
          \/ Sources(S!PGenerate(w)) \/ Sources(S!PFastGenerate(w)) \/ Sources(S!Read(w)) \/ Sources(S!Send(w))
          \/ Sources(S!Stop(w)) \/ Sources(S!SafeEnqueue(w)) \/ Sources(S!Spill(w))
          \/ Sources(S!Transmit(w)) \/ Sources(S!FreeAll(w))
    \/ (\E m \in S!Mbufs : Sources(S!TxDone(m))) \/ Sources(S!Poll)

PipelineSpec ==
    PipelineInit /\ [][PipelineNext]_<<part, ring, free, todo, wire, lost, label, made, pos, sent, exited>>
-----------------------------------------------------------------------------
\* Each mbuf is in one place: never enqueued twice, freed while in use, freed
\* twice or forgotten, whatever rings are full.  Only the reader forgets an
\* mbuf, at its last end of file, and only one.
MbufsAccounted ==
    CASE part = "forward" -> F!TypeOK /\ F!OwnedOnce
      [] part = "copy" -> C!TypeOK /\ C!OwnedOnce
      [] part = "sources" -> S!TypeOK /\ S!OwnedOnce /\ S!OnlyReadersLose

\* Each sender and writer passes on the packets of a source in their order.
FlowsInOrder ==
    CASE part = "forward" -> F!FlowsInOrder [] part = "copy" -> TRUE [] part = "sources" -> S!FlowsInOrder

\* A mempool that holds what comes after it is never exhausted.
NeverExhausted == part = "copy" => C!NeverExhausted
=============================================================================
