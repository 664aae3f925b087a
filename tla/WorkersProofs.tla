--------------------------- MODULE WorkersProofs ---------------------------
(***************************************************************************)
(* What stops and what waits, for any number of functions, ports, restarts *)
(* and cores.                                                              *)
(*                                                                         *)
(* SystemStop leaves nothing running.  The argument follows the flag: only *)
(* a scheduler that has ended stores stopRequest + 1, only then does the   *)
(* Stop thread leave, and only then does SystemStop go on.                 *)
(*                                                                         *)
(* The clones of an instance never wait to report while the scheduler      *)
(* waits for them (module Clones).  The argument counts the reports that   *)
(* are in the channel or wait for room in it.                              *)
(***************************************************************************)
EXTENDS Workers, FiniteSetTheorems, TLAPS

StopEnds == {"instances", "ports", "done"}

NoThread == \A t \in Threads : thread[t] = "none"

TypeInv ==
    /\ cycle \in Nat /\ started \in Nat
    /\ thread \in [Threads -> {"none", "loop", "leaving"}]

OneThread == \A t, u \in Threads : (thread[t] # "none" /\ thread[u] # "none") => t = u

\* The inductive invariant: who may be where while the flag has a value.
FlagInv ==
    /\ stop # "idle" => cycle > 0
    /\ start # "down" \/ err = "error" \/ stopFlag # 0 => cycle > 0
    /\ start \in {"flag", "thread"} => NoThread
    /\ cycle = 0 => NoThread
    /\ start = "last" => stopFlag = L!stopRequest /\ stop = "wait"
    /\ stopFlag = L!stopRequest => stop = "wait"
    /\ stopFlag = L!stopRequest + 1 => start = "down" /\ stop = "wait"
    /\ stopFlag = L!wasStopped => NoThread /\ start \in {"down", "flag"}
    /\ stopFlag \in {0, L!process, L!stopRequest, L!stopRequest + 1, L!wasStopped}
    /\ stopFlag = 0 => start \in {"down", "flag"} /\ NoThread
    /\ stop = "wait" /\ stopFlag = L!wasStopped => start = "down"
    /\ \A t \in Threads : thread[t] = "leaving" => stopFlag = L!stopRequest + 1
    /\ stop \in StopEnds => start = "down" /\ stopFlag = L!wasStopped
    /\ stop \in {"ports", "done"} => started = 0

IInv == TypeInv /\ OneThread /\ FlagInv

\* In the initial state no SystemStart has been called.
LEMMA InitIInv == L!Init => IInv
  BY DEF L!Init, IInv, TypeInv, OneThread, FlagInv, NoThread, StopEnds, L!process, L!stopRequest, L!wasStopped

\* Every step of SystemStart, schedule, nff_go_stop and SystemStop, and every
\* call of theirs, keeps the invariant.
LEMMA NextIInv == L!LifecycleAssumption /\ IInv /\ [L!Next]_(L!vars) => IInv'
<1> SUFFICES ASSUME L!LifecycleAssumption, IInv, [L!Next]_(L!vars) PROVE IInv'
  BY Zenon
<1> USE DEF L!LifecycleAssumption, IInv, TypeInv, OneThread, FlagInv, NoThread, StopEnds, L!process, L!stopRequest, L!wasStopped
<1>1. CASE L!CallStart
  BY <1>1 DEF L!CallStart
<1>2. CASE L!CallStop
  BY Zenon, <1>2 DEF L!CallStop
<1>3. CASE L!CallStopAgain
  BY <1>3 DEF L!CallStopAgain
<1>4. CASE L!SetFlag
  BY <1>4 DEF L!SetFlag
<1>5. CASE L!StartThread
  BY <1>5 DEF L!StartThread
<1>6. CASE L!StartInstance
  BY <1>6 DEF L!StartInstance
<1>7. CASE L!StartFails
  BY Zenon, <1>7 DEF L!StartFails
<1>8. CASE L!SchedulePass
  BY Zenon, <1>8 DEF L!SchedulePass
<1>9. CASE L!ScheduleEnds
  BY <1>9 DEF L!ScheduleEnds
<1>10. CASE L!Request
  BY <1>10 DEF L!Request
<1>11. CASE L!Wait
  BY <1>11 DEF L!Wait
<1>12. CASE L!StopInstance
  BY <1>12 DEF L!StopInstance
<1>13. CASE L!FreePort
  BY Zenon, <1>13 DEF L!FreePort
<1>14. ASSUME NEW t \in Threads, L!ThreadLeaves(t) PROVE IInv'
  BY Zenon, <1>14 DEF L!ThreadLeaves
<1>15. ASSUME NEW t \in Threads, L!ThreadStopped(t) PROVE IInv'
  BY Zenon, <1>15 DEF L!ThreadStopped
<1>16. CASE UNCHANGED L!vars
  BY Zenon, <1>16 DEF L!vars
<1>17. QED
  BY Zenon, <1>1, <1>2, <1>3, <1>4, <1>5, <1>6, <1>7, <1>8, <1>9, <1>10, <1>11, <1>12, <1>13, <1>14, <1>15, <1>16
     DEF L!Next, L!Running

\* Whatever the number of flow functions, ports, restarts and faults: when
\* SystemStop has returned without an error no instance, no Stop thread and no
\* scheduler loop is left.
THEOREM StopIsClean == ASSUME L!LifecycleAssumption PROVE L!Spec => []CleanStop
<1>1. IInv => CleanStop
  BY Zenon DEF IInv, TypeInv, FlagInv, NoThread, StopEnds, CleanStop, L!CleanStop
<1>2. QED
  BY <1>1, InitIInv, NextIInv, PTL DEF L!Spec

-----------------------------------------------------------------------------
(* The clones of one instance.                                             *)

\* Clones that are blocked because the channel is full.
Blocked == {c \in C!Slot : clone[c] = "reports"}

\* Reports that are in the channel or wait for room in it.
Undelivered == reports + Cardinality(Blocked)

\* How many reports there can be while the scheduler has some of them still to
\* receive.  A clone blocks only when the channel is full, each clone reports at
\* most once more before the scheduler waits, and so nobody is blocked once the
\* channel has been emptied.
ReportsInv ==
    /\ Blocked # {} => reports = C!Cap
    /\ cPc = "drop" => Undelivered <= cK + cloneNumber + Cardinality(ticked) + C!MaxClones
    /\ cPc = "collect" => Undelivered <= cK + Cardinality(ticked) + C!MaxClones
    /\ cPc = "drain" => Undelivered <= cK + Cardinality(ticked)
    /\ cPc \in C!Sending => Undelivered <= Cardinality(ticked)

\* The list of clones, and where the scheduler uses it.
ListInv ==
    /\ C!TypeOK /\ C!ClonesKnown
    /\ cPc # "closed" => cloneNumber >= 1
    /\ cPc = "ready" => clone[cloneNumber] = "starts"
    /\ cPc \in {"stop", "answer"} /\ ending = "no" => cloneNumber > 1
    /\ cPc \in {"drop", "collect"} => cK > 0

ClonesInv == ListInv /\ ReportsInv

\* Sets of clones can be counted, and one clone more or less counts one.
LEMMA ClonesCounted ==
    ASSUME C!ClonesAssumption, NEW S \in SUBSET C!Slot
    PROVE  /\ IsFiniteSet(S) /\ Cardinality(S) \in Nat /\ Cardinality(S) <= C!MaxClones
           /\ Cardinality(S) = 0 => S = {}
           /\ \A c \in C!Slot \ S : Cardinality(S \cup {c}) = Cardinality(S) + 1
           /\ \A c \in S : Cardinality(S \ {c}) = Cardinality(S) - 1
<1>1. IsFiniteSet(C!Slot) /\ Cardinality(C!Slot) = C!MaxClones
  BY FS_Interval DEF C!ClonesAssumption, C!Slot, C!MaxClones
<1>2. IsFiniteSet(S) /\ Cardinality(S) <= C!MaxClones
  BY Zenon, <1>1, FS_Subset
<1>3. QED
  BY Zenon, <1>2, FS_CardinalityType, FS_EmptySet, FS_AddElement, FS_RemoveElement

\* In the initial state the first clone starts.
LEMMA ListInit == C!ClonesAssumption /\ C!Init => ListInv
<1> SUFFICES ASSUME C!ClonesAssumption, C!Init PROVE ListInv
  BY Zenon
<1>1. C!MaxClones \in Nat /\ C!MaxClones >= 1 /\ C!Slot = 1 .. C!MaxClones /\ C!Cap = C!MaxClones + 1
  BY DEF C!ClonesAssumption, C!Slot, C!MaxClones, C!Cap
<1>2. C!TypeOK
  BY <1>1 DEF C!Init, C!TypeOK, C!Sending
<1>3. C!ClonesKnown
  BY <1>1 DEF C!Init, C!ClonesKnown
<1>4. QED
  BY <1>1, <1>2, <1>3 DEF C!Init, ListInv

\* Every step of a clone and of the scheduler keeps the list of clones right.
LEMMA ListStep == C!ClonesAssumption /\ ListInv /\ [C!Next]_(C!vars) => ListInv'
<1> SUFFICES ASSUME C!ClonesAssumption, ListInv, [C!Next]_(C!vars) PROVE ListInv'
  BY Zenon
<1>0. C!MaxClones \in Nat /\ C!MaxClones >= 1 /\ C!Slot = 1 .. C!MaxClones /\ C!Cap = C!MaxClones + 1
  BY DEF C!ClonesAssumption, C!Slot, C!MaxClones, C!Cap
<1> USE <1>0 DEF ListInv, C!TypeOK, C!ClonesKnown, C!Sending
<1>1. ASSUME NEW c \in C!Slot, C!Tick(c) PROVE ListInv'
  <2>1. C!TypeOK'
    <3>1. clone' \in [C!Slot -> {"none", "starts", "runs", "reports", "leaves"}]
      BY Zenon, <1>1 DEF C!Tick
    <3>2. reports' \in 0 .. C!Cap
      BY <1>1 DEF C!Tick
    <3>3. ticked' \subseteq C!Slot
      BY Zenon, <1>1 DEF C!Tick
    <3>4. QED
      BY Zenon, <1>1, <3>1, <3>2, <3>3 DEF C!Tick
  <2>2. clone'[cloneNumber] = "starts" <=> clone[cloneNumber] = "starts"
    BY <1>1 DEF C!Tick
  <2>3. C!ClonesKnown'
    BY Zenon, <1>1 DEF C!Tick
  <2>4. QED
    BY Zenon, <1>1, <2>1, <2>2, <2>3 DEF C!Tick
<1>2. CASE C!Wake
  BY <1>2 DEF C!Wake
<1>3. CASE C!Drop
  BY <1>3 DEF C!Drop, C!Receive
<1>4. CASE C!Collect
  BY <1>4 DEF C!Collect, C!Receive
<1>5. CASE C!Drain
  BY <1>5 DEF C!Drain, C!Receive
<1>6. CASE C!Decide
  BY <1>6 DEF C!Decide
<1>7. CASE C!Ready
  BY <1>7 DEF C!Ready
<1>8. CASE C!UpdatePause
  BY <1>8 DEF C!UpdatePause
<1>9. CASE C!EndPass
  BY Zenon, <1>9 DEF C!EndPass
<1>10. CASE C!StopClone
  BY Zenon, <1>10 DEF C!StopClone
<1>11. CASE C!Answer
  BY <1>11 DEF C!Answer
<1>12. CASE C!StartNewInstance
  BY <1>12 DEF C!StartNewInstance
<1>13. CASE UNCHANGED C!vars
  BY Zenon, <1>13 DEF C!vars
<1>14. QED
  BY Zenon, <1>1, <1>2, <1>3, <1>4, <1>5, <1>6, <1>7, <1>8, <1>9, <1>10, <1>11, <1>12, <1>13
     DEF C!Next, C!SchedulerStep

\* In the initial state nobody has reported.
LEMMA ReportsInit == C!ClonesAssumption /\ C!Init => ReportsInv
<1> SUFFICES ASSUME C!ClonesAssumption, C!Init PROVE ReportsInv
  BY Zenon
<1>1. Blocked = {} /\ ticked = {}
  BY Zenon DEF C!Init, Blocked
<1>2. Cardinality({}) = 0
  BY Zenon, FS_EmptySet
<1>3. QED
  BY <1>1, <1>2 DEF C!Init, ReportsInv, Undelivered, C!Sending

\* What receiving one report does to the count.
LEMMA ReceiveOne ==
    ASSUME C!ClonesAssumption, ListInv, C!Receive
    PROVE  /\ Undelivered' = Undelivered - 1
           /\ (Blocked # {} => reports = C!Cap) => (Blocked' # {} => reports' = C!Cap)
<1>1. Blocked \in SUBSET C!Slot
  BY Zenon DEF Blocked
<1>2. CASE Blocked = {}
  <2>1. reports' = reports - 1 /\ Blocked' = Blocked
    BY Zenon, <1>2 DEF C!Receive, Blocked
  <2>2. QED
    BY <1>1, <1>2, <2>1, ClonesCounted DEF ListInv, C!TypeOK, Undelivered
<1>3. CASE Blocked # {}
  <2>1. PICK c \in Blocked : clone' = [clone EXCEPT ![c] = "runs"] /\ reports' = reports
    BY Zenon, <1>3 DEF C!Receive, Blocked
  <2>2. Blocked' = Blocked \ {c}
    BY Zenon, <2>1 DEF ListInv, C!TypeOK, Blocked
  <2>3. QED
    BY <1>1, <1>3, <2>1, <2>2, ClonesCounted DEF ListInv, C!TypeOK, Undelivered
<1>4. QED
  BY Zenon, <1>2, <1>3

\* Every step keeps the reports within what the scheduler will still receive.
LEMMA ReportsStep == C!ClonesAssumption /\ ClonesInv /\ [C!Next]_(C!vars) => ReportsInv'
<1> SUFFICES ASSUME C!ClonesAssumption, ClonesInv, [C!Next]_(C!vars) PROVE ReportsInv'
  BY Zenon
<1> USE DEF ClonesInv
<1>1. Blocked \in SUBSET C!Slot /\ ticked \in SUBSET C!Slot
  BY Zenon DEF Blocked, ListInv, C!TypeOK
<1>2. /\ Cardinality(Blocked) \in Nat /\ Cardinality(Blocked) <= C!MaxClones
      /\ Cardinality(ticked) \in Nat /\ Cardinality(ticked) <= C!MaxClones
      /\ Cardinality(Blocked) = 0 => Blocked = {}
  BY Zenon, <1>1, ClonesCounted
<1>3. Cardinality({}) = 0 /\ C!MaxClones \in Nat /\ C!Cap = C!MaxClones + 1
  BY FS_EmptySet DEF C!ClonesAssumption, C!MaxClones, C!Cap
<1>4. reports \in Nat /\ cK \in Nat /\ cloneNumber \in Nat /\ reports <= C!Cap
      /\ cloneNumber <= C!MaxClones /\ Undelivered \in Nat
  BY <1>2, <1>3 DEF ListInv, C!TypeOK, Undelivered
<1>5. ASSUME NEW c \in C!Slot, C!Tick(c) PROVE ReportsInv'
  <2>1. c \notin Blocked
    BY Zenon, <1>5 DEF C!Tick, Blocked
  <2>2. Undelivered' = Undelivered + 1 /\ (Blocked' # {} => reports' = C!Cap)
    <3>1. CASE reports < C!Cap
      <4>1. Blocked' = Blocked /\ reports' = reports + 1
        BY <1>3, <1>4, <1>5, <3>1 DEF C!Tick, Blocked
      <4>2. QED
        BY <1>2, <1>4, <3>1, <4>1 DEF Undelivered, ReportsInv
    <3>2. CASE ~(reports < C!Cap)
      <4>1. Blocked' = Blocked \cup {c} /\ reports' = reports /\ reports = C!Cap
        BY Zenon, <1>5, <3>2 DEF C!Tick, Blocked, ListInv, C!TypeOK
      <4>2. QED
        BY <1>1, <1>2, <1>4, <2>1, <4>1, ClonesCounted DEF Undelivered
    <3>3. QED
      BY Zenon, <3>1, <3>2
  <2>3. CASE C!Waits
    BY <1>2, <1>3, <1>4, <1>5, <2>2, <2>3 DEF C!Tick, C!Waits, ReportsInv, ListInv, Undelivered, C!Sending
  <2>4. CASE ~C!Waits
    <3>1. Cardinality(ticked') = Cardinality(ticked) + 1
      BY <1>1, <1>5, <2>4, ClonesCounted DEF C!Tick
    <3>2. QED
      BY <1>2, <1>3, <1>4, <1>5, <2>2, <3>1 DEF C!Tick, ReportsInv
  <2>5. QED
    BY Zenon, <2>3, <2>4
<1>6. CASE C!Wake
  BY <1>2, <1>3, <1>4, <1>6 DEF C!Wake, ReportsInv, Undelivered, Blocked, C!Sending
<1>7. CASE C!Drop
  BY <1>2, <1>3, <1>4, <1>7, ReceiveOne DEF C!Drop, ReportsInv, C!Sending
<1>8. CASE C!Collect
  <2>1. Undelivered' = Undelivered - 1 /\ (Blocked' # {} => reports' = C!Cap)
    BY Zenon, <1>8, ReceiveOne DEF C!Collect, ReportsInv
  <2>2. CASE cK > 1
    BY <1>2, <1>3, <1>4, <1>8, <2>1, <2>2 DEF C!Collect, ReportsInv, C!Sending
  <2>3. CASE ~(cK > 1)
    <3>1. cK = 1 /\ cPc' = "drain" /\ cK' = reports' /\ ticked' = ticked
      BY Zenon, <1>8, <2>3 DEF C!Collect
    <3>2. Undelivered' <= Cardinality(ticked) + C!MaxClones
      BY <1>2, <1>3, <1>4, <1>8, <2>1, <3>1 DEF C!Collect, ReportsInv
    <3>3. CASE Blocked' = {}
      BY <1>3, <1>2, <3>1, <3>3, <2>1, <1>8 DEF ReportsInv, Undelivered, C!Sending, C!Receive, C!Collect, ListInv, C!TypeOK
    <3>4. CASE Blocked' # {}
      BY <1>2, <1>3, <1>4, <2>1, <3>1, <3>2, <3>4 DEF ReportsInv, C!Sending
    <3>5. QED
      BY Zenon, <3>3, <3>4
  <2>4. QED
    BY Zenon, <2>2, <2>3
<1>9. CASE C!Drain
  <2>1. CASE cK > 0
    BY <1>2, <1>3, <1>4, <1>9, <2>1, ReceiveOne DEF C!Drain, ReportsInv, C!Sending
  <2>2. CASE ~(cK > 0)
    BY <1>2, <1>3, <1>4, <1>9, <2>2 DEF C!Drain, ReportsInv, C!Sending, Undelivered, Blocked
  <2>3. QED
    BY Zenon, <2>1, <2>2
<1>10. ASSUME C!Decide \/ C!Ready \/ C!UpdatePause \/ C!EndPass \/ C!StopClone \/ C!Answer PROVE ReportsInv'
  <2>1. Blocked' = Blocked /\ reports' = reports
    BY <1>3, <1>10 DEF C!Decide, C!Ready, C!UpdatePause, C!EndPass, C!StopClone, C!Answer, Blocked, ListInv, C!TypeOK, C!ClonesKnown, C!Slot
  <2>2. cPc \in C!Sending /\ cPc' \in C!Sending \cup {"sleep", "closed"} /\ (cPc' \in C!Sending => ticked' = ticked)
    BY Zenon, <1>10 DEF C!Decide, C!Ready, C!UpdatePause, C!EndPass, C!StopClone, C!Answer, C!Sending
  <2>3. QED
    BY Zenon, <2>1, <2>2 DEF ReportsInv, Undelivered, C!Sending
<1>11. CASE C!StartNewInstance
  <2>1. Blocked' = {} /\ reports' = 0 /\ ticked' = {} /\ cPc' = "ready"
    BY <1>11 DEF C!StartNewInstance, Blocked, ListInv, C!ClonesKnown, C!TypeOK, C!Slot
  <2>2. QED
    BY <1>3, <2>1 DEF ReportsInv, Undelivered
<1>12. CASE UNCHANGED C!vars
  BY Zenon, <1>12 DEF C!vars, ReportsInv, Undelivered, Blocked
<1>13. QED
  BY Zenon, <1>5, <1>6, <1>7, <1>8, <1>9, <1>10, <1>11, <1>12 DEF C!Next, C!SchedulerStep

\* The count of the reports is an invariant.
LEMMA ClonesInvariance == C!ClonesAssumption => (C!Spec => []ClonesInv)
<1> SUFFICES ASSUME C!ClonesAssumption PROVE C!Spec => []ClonesInv
  BY Zenon
<1>1. C!Init => ClonesInv
  BY Zenon, ListInit, ReportsInit DEF ClonesInv
<1>2. ClonesInv /\ [C!Next]_(C!vars) => ClonesInv'
  BY Zenon, ListStep, ReportsStep DEF ClonesInv
<1>3. QED
  BY <1>1, <1>2, PTL DEF C!Spec

\* Whatever the scheduler starts, stops and pauses, and for any number of cores,
\* the list of clones is the clones that run, and stopInstance closes the report
\* channel when none is left.
THEOREM ClonesStaySound == ASSUME C!ClonesAssumption PROVE C!Spec => []ClonesSound
<1>1. ClonesInv => ClonesSound
  BY Zenon DEF ClonesInv, ListInv, ClonesSound, C!ClonesSound
<1>2. QED
  BY <1>1, ClonesInvariance, PTL

\* The capacity of the report channel and the second emptying in
\* updateReportedState are enough for any number of cores: while the scheduler
\* sends a pause or a stop request, or waits for an answer, no clone waits to
\* report.
THEOREM ReportsNeverBlock == ASSUME C!ClonesAssumption PROVE C!Spec => []NobodyWaitsToReport
<1>1. ASSUME ClonesInv PROVE NobodyWaitsToReport
  <2>1. Blocked \in SUBSET C!Slot /\ ticked \in SUBSET C!Slot
    BY Zenon, <1>1 DEF Blocked, ClonesInv, ListInv, C!TypeOK
  <2>2. C!Cap = C!MaxClones + 1 /\ C!MaxClones \in Nat
    BY DEF C!Cap, C!MaxClones, C!ClonesAssumption
  <2>3. cPc \in C!Sending => Blocked = {}
    BY <1>1, <2>1, <2>2, ClonesCounted DEF ClonesInv, ReportsInv, ListInv, C!TypeOK, Undelivered
  <2>4. QED
    BY Zenon, <2>3 DEF NobodyWaitsToReport, C!NobodyWaitsToReport, Blocked
<1>2. QED
  BY <1>1, ClonesInvariance, PTL
=============================================================================
