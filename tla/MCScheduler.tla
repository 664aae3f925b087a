---------------------------- MODULE MCScheduler -----------------------------
(* Instances of Scheduler for TLC.                                         *)
EXTENDS Scheduler

\* Receive from a port with several queues and process the packets.
QueuesType == <<"receiveRSS", "segmentCopy">>
QueuesNumber == <<3, 3>>

\* Generate packets, process them and send them.
ClonesType == <<"fastGenerate", "segmentCopy", "other">>
ClonesNumber == <<0, 1, 1>>

\* A clone that is there has its cost measured, and the attempts reported for it
\* and the next one are within the array they are read from.
AttemptsSound == ClonesMeasured /\ AttemptsInRange
=============================================================================
