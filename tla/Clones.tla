------------------------------- MODULE Clones -------------------------------
(***************************************************************************)
(* How the scheduler talks to the clones of one instance                   *)
(* (flow/scheduler.go and the select statements of segmentProcess,         *)
(* pFastGenerate and pcopy in flow/flow.go).  Clones put reports into one  *)
(* buffered channel and block when it is full.  The scheduler sends pauses *)
(* and stop requests over an unbuffered channel per clone and blocks until *)
(* the clone takes them, which it cannot while it waits to report.         *)
(*                                                                         *)
(* Clones tick every schedTime milliseconds.  The one timing assumption is *)
(* that the scheduler, unless it sleeps or waits for a report, goes on     *)
(* faster than that: no clone ticks twice before it sleeps or waits again. *)
(* While it sleeps or waits, clones tick as often as they like.            *)
(***************************************************************************)
EXTENDS Integers, FiniteSets

\* len(scheduler.cores), at least 3: the scheduler and at least one other flow
\* function have a core each.
CONSTANT NumCores

\* A core for the scheduler, one for the stop function, one for the first clone.
ClonesAssumption == NumCores \in Nat /\ NumCores >= 3

MaxClones == NumCores - 2
Slot == 1 .. MaxClones      \* positions in ffi.clone
\* Faulty: room for half of the clones.
CapHalf == NumCores \div 2
Cap == NumCores - 1         \* capacity of ffi.report

VARIABLES
    cloneNumber,  \* ffi.cloneNumber
    clone,        \* what each clone does: "none", "starts", "runs", "reports", "leaves"
    reports,      \* len(ffi.report)
    pc,           \* what the scheduler does
    k,            \* reports left to receive, or the clone to send to
    ending,       \* whether stopInstance is stopping all clones
    ticked        \* the clones that ticked since the scheduler last waited

vars == <<cloneNumber, clone, reports, pc, k, ending, ticked>>

\* Where the scheduler deals with the clones, or is about to.
Sending == {"decide", "ready", "merged", "pause", "stop", "answer", "end"}

Init ==
    /\ cloneNumber = 1
    /\ clone = [c \in Slot |-> IF c = 1 THEN "starts" ELSE "none"]
    /\ reports = 0
    /\ pc = "ready" /\ k = 0 /\ ending = "no"
    /\ ticked = {}

-----------------------------------------------------------------------------
(* Clones.                                                                 *)

Waits == pc = "sleep" \/ (pc = "collect" /\ reports = 0)

\* case <-tick.C: report <- currentState.  A full channel blocks the clone.
Tick(c) ==
    /\ clone[c] = "runs"
    /\ \/ Waits /\ ticked' = {}
       \/ ~Waits /\ c \notin ticked /\ ticked' = ticked \cup {c}
    /\ \/ reports < Cap /\ reports' = reports + 1 /\ UNCHANGED clone
       \/ /\ reports = Cap
          /\ clone' = [clone EXCEPT ![c] = "reports"]
          /\ UNCHANGED reports
    /\ UNCHANGED <<cloneNumber, pc, k, ending>>

-----------------------------------------------------------------------------
(* updateReportedState.                                                    *)

\* <-ffi.report: a clone that waits to report puts its report in at once.
Receive ==
    /\ reports > 0
    /\ LET waiting == {c \in Slot : clone[c] = "reports"} IN
       \/ /\ waiting = {}
          /\ reports' = reports - 1
          /\ UNCHANGED clone
       \/ /\ \E c \in waiting : clone' = [clone EXCEPT ![c] = "runs"]
          /\ UNCHANGED reports

\* The scheduler wakes up and drops what is left of earlier reports.
Wake ==
    /\ pc = "sleep"
    /\ \/ reports > cloneNumber /\ pc' = "drop" /\ k' = reports - cloneNumber
       \/ reports <= cloneNumber /\ pc' = "collect" /\ k' = cloneNumber
    /\ UNCHANGED <<cloneNumber, clone, reports, ending, ticked>>

Drop ==
    /\ pc = "drop"
    /\ Receive
    /\ \/ k > 1 /\ k' = k - 1 /\ UNCHANGED pc
       \/ k = 1 /\ pc' = "collect" /\ k' = cloneNumber
    /\ UNCHANGED <<cloneNumber, ending, ticked>>

\* Faulty: the reports received are not counted.
CollectOn ==
    /\ pc = "collect"
    /\ Receive
    /\ UNCHANGED <<cloneNumber, pc, k, ending, ticked>>

\* One report per clone; after the last one the length is read again.
Collect ==
    /\ pc = "collect"
    /\ Receive
    /\ \/ k > 1 /\ k' = k - 1 /\ UNCHANGED pc
       \/ k = 1 /\ pc' = "drain" /\ k' = reports'
    /\ UNCHANGED <<cloneNumber, ending, ticked>>

\* "If any flow functions wait in a queue to put their reports immidiately
\* after reading- we should remove them."
Drain ==
    /\ pc = "drain"
    /\ \/ k > 0 /\ Receive /\ k' = k - 1 /\ UNCHANGED pc
       \/ k = 0 /\ pc' = "decide" /\ UNCHANGED <<clone, reports, k>>
    /\ UNCHANGED <<cloneNumber, ending, ticked>>

-----------------------------------------------------------------------------
(* What a pass does with the instance, and SystemStop after the last pass. *)

\* Nothing; a new pause, after another instance was merged into this one or its
\* queues were split; one clone less; one clone more; or this instance is the
\* one that is merged away.
Decide ==
    /\ pc = "decide"
    /\ \/ pc' = "end" /\ UNCHANGED <<cloneNumber, clone, k, ending>>
       \/ pc' \in {"merged", "pause"} /\ k' = 1 /\ UNCHANGED <<cloneNumber, clone, ending>>
       \/ cloneNumber > 1 /\ pc' = "stop" /\ UNCHANGED <<cloneNumber, clone, k, ending>>
       \/ /\ cloneNumber < MaxClones
          /\ cloneNumber' = cloneNumber + 1
          /\ clone' = [clone EXCEPT ![cloneNumber + 1] = "starts"]
          /\ pc' = "ready"
          /\ UNCHANGED <<k, ending>>
       \/ /\ cloneNumber = 1
          /\ pc' = "stop" /\ ending' = "yes"
          /\ UNCHANGED <<cloneNumber, clone, k>>
    /\ UNCHANGED <<reports, ticked>>

\* startNewClone waits on channel[1] until the clone is ready; a new clone of a
\* running instance is followed by updatePause.
Ready ==
    /\ pc = "ready"
    /\ clone[cloneNumber] = "starts"
    /\ clone' = [clone EXCEPT ![cloneNumber] = "runs"]
    /\ \/ cloneNumber > 1 /\ pc' = "pause" /\ k' = 1
       \/ cloneNumber = 1 /\ pc' = "end" /\ UNCHANGED k
    /\ UNCHANGED <<cloneNumber, reports, ending, ticked>>

\* updatePause: channel[0] <- pause, clone after clone.  The queues that came
\* from a merge may be split in the same pass.
UpdatePause ==
    /\ pc \in {"merged", "pause"}
    /\ \/ k <= cloneNumber /\ clone[k] = "runs" /\ k' = k + 1 /\ UNCHANGED pc
       \/ k > cloneNumber /\ pc' = "end" /\ k' = 0
       \/ k > cloneNumber /\ pc = "merged" /\ pc' = "pause" /\ k' = 1
    /\ UNCHANGED <<cloneNumber, clone, reports, ending, ticked>>

\* The end of the pass: schedule sleeps, or sees stopFlag and systemStop begins.
EndPass ==
    /\ pc = "end"
    /\ \/ pc' = "sleep" /\ ticked' = {} /\ UNCHANGED ending
       \/ pc' = "stop" /\ ending' = "yes" /\ UNCHANGED ticked
    /\ UNCHANGED <<cloneNumber, clone, reports, k>>

\* stopClone: channel[0] <- -1 to the last clone ...
StopClone ==
    /\ pc = "stop"
    /\ clone[cloneNumber] = "runs"
    /\ clone' = [clone EXCEPT ![cloneNumber] = "leaves"]
    /\ pc' = "answer"
    /\ UNCHANGED <<cloneNumber, reports, k, ending, ticked>>

\* Faulty: the clone is not taken out of the list.
AnswerKept ==
    /\ pc = "answer"
    /\ clone[cloneNumber] = "leaves"
    /\ clone' = [clone EXCEPT ![cloneNumber] = "none"]
    /\ pc' = "pause" /\ k' = 1
    /\ UNCHANGED <<cloneNumber, reports, ending, ticked>>

\* ... and its answer on channel[1]; stopInstance goes on to the next clone and
\* closes the report channel after the last one.
Answer ==
    /\ pc = "answer"
    /\ clone[cloneNumber] = "leaves"
    /\ clone' = [clone EXCEPT ![cloneNumber] = "none"]
    /\ cloneNumber' = cloneNumber - 1
    /\ \/ ending = "no" /\ pc' = "pause" /\ k' = 1
       \/ ending = "yes" /\ cloneNumber > 1 /\ pc' = "stop" /\ UNCHANGED k
       \/ ending = "yes" /\ cloneNumber = 1 /\ pc' = "closed" /\ UNCHANGED k
    /\ UNCHANGED <<reports, ending, ticked>>

\* A later start of the system makes a new instance.
StartNewInstance ==
    /\ pc = "closed"
    /\ cloneNumber' = 1
    /\ clone' = [clone EXCEPT ![1] = "starts"]
    /\ reports' = 0
    /\ pc' = "ready" /\ k' = 0 /\ ending' = "no"
    /\ ticked' = {}

-----------------------------------------------------------------------------
SchedulerStep ==
    \/ Wake \/ Drop \/ Collect \/ Drain \/ Decide \/ EndPass
    \/ Ready \/ UpdatePause \/ StopClone \/ Answer

Next == SchedulerStep \/ StartNewInstance \/ \E c \in Slot : Tick(c)

Spec == Init /\ [][Next]_vars

\* The scheduler runs on, and the ticker of a running clone goes off again.
FairSpec == Spec /\ WF_vars(SchedulerStep) /\ \A c \in Slot : WF_vars(Tick(c))

-----------------------------------------------------------------------------
(* Properties.                                                             *)

TypeOK ==
    /\ cloneNumber \in 0 .. MaxClones
    /\ clone \in [Slot -> {"none", "starts", "runs", "reports", "leaves"}]
    /\ reports \in 0 .. Cap
    /\ pc \in Sending \cup {"sleep", "drop", "collect", "drain", "closed"}
    /\ k \in Nat /\ ending \in {"no", "yes"}
    /\ ticked \subseteq Slot

\* While the scheduler sends a pause or a stop request, or waits for an answer,
\* no clone waits to report: nobody would ever empty the channel for it.  The
\* capacity of the channel and the second emptying in updateReportedState are
\* there for this.
NobodyWaitsToReport == pc \in Sending => \A c \in Slot : clone[c] # "reports"

\* The clones that exist are those the scheduler knows of: nobody reports into
\* a channel that stopInstance has closed, and no stopped clone lives on.
ClonesKnown ==
    /\ \A c \in Slot : clone[c] # "none" <=> c <= cloneNumber
    /\ pc = "closed" => cloneNumber = 0

\* The list of clones is as long as the scheduler thinks, whatever it starts,
\* stops and pauses.
ClonesSound == TypeOK /\ ClonesKnown

\* A pass that has begun ends, whatever the clones do meanwhile: the scheduler
\* and the clones never wait for each other.
PassEnds == pc \in {"drop", "collect"} ~> pc \in {"sleep", "closed"}
=============================================================================
