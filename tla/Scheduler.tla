----------------------------- MODULE Scheduler ------------------------------
(***************************************************************************)
(* The scheduler (flow/scheduler.go): from systemStart, through the passes *)
(* of schedule, to systemStop.  A flow function runs as one or more        *)
(* instances, each serving some of the function's input queues; an         *)
(* instance runs as one or more clones, each pinned to a core of its own.  *)
(*                                                                         *)
(* The scheduler alone changes this state until it has answered a stop     *)
(* request; what it measures (speeds, fill of rings, idle turns) is chosen *)
(* freely.  How it talks to the clones is the subject of Clones and of     *)
(* Handover.                                                               *)
(***************************************************************************)
EXTENDS Integers, Sequences, FiniteSets

CONSTANTS
    NumCores,           \* len(scheduler.cores)
    NumFuncs,           \* len(scheduler.ff)
    Type,               \* fType of each function
    InIndexNumber,      \* number of input queues of each function
    MaxKni,             \* most KNI devices created before the start
    StopDedicatedCore, Off, OffRemove, Anyway, MaxRecv,  \* configuration
    MaxSpeed            \* speeds are told apart up to this value

Core == 0 .. (NumCores - 1)
Func == 1 .. NumFuncs
Speed == 0 .. MaxSpeed
Types == {"segmentCopy", "fastGenerate", "receiveRSS", "other"}

\* A segment takes its packets from another flow function: there are two or more.
ASSUME SchedulerAssumption ==
    /\ NumCores \in Nat /\ MaxKni \in 0 .. NumCores /\ MaxSpeed \in Nat
    /\ NumFuncs \in Nat /\ NumFuncs > 1
    /\ Type \in [Func -> Types]
    /\ InIndexNumber \in [Func -> Nat]
    /\ \A f \in Func : Type[f] # "fastGenerate" => InIndexNumber[f] > 0
    /\ {StopDedicatedCore, Off, OffRemove, Anyway} \subseteq BOOLEAN
    /\ Off => OffRemove
    /\ MaxRecv \in Nat

VARIABLES
    busy, usedCores,    \* cores whose isfree is false; scheduler.usedCores
    kni,                \* number of KNI devices, on the first cores
    coreIndex,          \* core of the scheduler
    stopCore,           \* core the Stop thread is pinned to
    instance,           \* ff.instance of each function
    instanceNumber,     \* ff.instanceNumber
    pAttempts,          \* clone numbers whose cost has been measured
    nAttempts,          \* whether the cost of an idle turn has been measured
    pc, ff, q,          \* where the scheduler is: phase, function, instance
    limit, split,       \* l and ~a of the phase that adds clones
    checkRequired,      \* the ticker of checkTime fired before this pass
    stopFlag,           \* 1 process, 2 stopRequest, 3 scheduler left, 9 wasStopped
    caller              \* progress of SystemStop: "no", "waits", "stops", "done"

cores == <<busy, usedCores>>
system == <<kni, coreIndex, stopCore>>
funcs == <<instance, instanceNumber>>
attempts == <<pAttempts, nAttempts>>
loop == <<ff, q, limit, split, checkRequired>>
control == <<stopFlag, caller>>
vars == <<busy, usedCores, kni, coreIndex, stopCore, instance, instanceNumber,
          pAttempts, nAttempts, pc, ff, q, limit, split, checkRequired, stopFlag, caller>>

-----------------------------------------------------------------------------
Free == Core \ busy
Least(S) == CHOOSE c \in S : \A d \in S : c <= d
\* getCore takes the first free core.
FirstFree == Least(Free)

\* Faulty: the core is not counted.
GetCoreUncounted == busy' = busy \cup {FirstFree} /\ UNCHANGED usedCores
GetCore == busy' = busy \cup {FirstFree} /\ usedCores' = usedCores + 1
\* Faulty: the core is still counted.
SetCoresCounted(S, n) == busy' = busy \ S /\ UNCHANGED usedCores
\* setCoreByIndex, for each core of a set that n owners give back
SetCores(S, n) == busy' = busy \ S /\ usedCores' = usedCores - n

SeqRange(s) == {s[i] : i \in 1 .. Len(s)}
RemoveAt(s, i) == SubSeq(s, 1, i - 1) \o SubSeq(s, i + 1, Len(s))

\* A new instance with one clone on core c; its increasedSpeed, decreasedSpeed
\* and reportedState.V are 0, its report channel is open.
NewInstance(queues, c) ==
    [queues |-> queues, clones |-> <<c>>, pause |-> 0, removed |-> FALSE,
     increased |-> 0, decreased |-> 0, speed |-> 0, closed |-> FALSE]

\* Faulty: queues are numbered from 1.
NewIndexFromOne(n) == [i \in 1 .. n |-> i]
\* constructNewIndex: all queues of the function.
NewIndex(n) == [i \in 1 .. n |-> i - 1]

\* constructDuplicatedIndex: the old instance keeps the first half, rounded up.
OldLen(n) == (n \div 2) + (n % 2)
\* Faulty: the middle queue of an odd number is in neither half.
KeptHalfDown(queues) == SubSeq(queues, 1, Len(queues) \div 2)
KeptHalf(queues) == SubSeq(queues, 1, OldLen(Len(queues)))
MovedHalf(queues) == SubSeq(queues, OldLen(Len(queues)) + 1, Len(queues))

\* startNewInstance with half of the queues of instance i of list s, on core c.
SplitAt(s, i, c) ==
    Append([s EXCEPT ![i].queues = KeptHalf(@), ![i].pause = 0],
           NewInstance(MovedHalf(s[i].queues), c))

\* stopInstance(from, to): the queues of one go to the end of the other, which
\* is told to make no pause.
MergeInto(s, from, to) ==
    RemoveAt([s EXCEPT ![to].queues = @ \o s[from].queues, ![to].pause = 0], from)

\* stopClone and the updatePause after it.
StopClone(i) ==
    [i EXCEPT !.clones = SubSeq(@, 1, Len(@) - 1), !.removed = TRUE,
              !.pause = Len(i.clones) - 2]
LastCore(i) == i.clones[Len(i.clones)]

\* Faulty: the pause is computed before the clone is counted.
StartCloneEarlyPause(i, c) ==
    [i EXCEPT !.clones = Append(@, c), !.decreased = i.speed, !.increased = 0,
              !.pause = Len(i.clones) - 1]

\* startNewClone and the updatePause after it, in a segment or copy function.
StartClone(i, c) ==
    [i EXCEPT !.clones = Append(@, c), !.decreased = i.speed, !.increased = 0,
              !.pause = Len(i.clones)]

-----------------------------------------------------------------------------
(* systemStart.                                                            *)

\* The devices CreateKniDevice makes before the start take the first cores.
KniCores(k) == 0 .. (k - 1)

Init ==
    /\ kni \in 0 .. MaxKni
    /\ busy = KniCores(kni) /\ usedCores = kni
    /\ coreIndex = -1 /\ stopCore = -1
    /\ instance = [f \in Func |-> <<>>]
    /\ instanceNumber = [f \in Func |-> 0]
    /\ pAttempts = {} /\ nAttempts = FALSE
    /\ pc = "init" /\ ff = 1 /\ q = 1
    /\ limit = 0 /\ split = FALSE /\ checkRequired = FALSE
    /\ stopFlag = 1 /\ caller = "no"

\* The cores of the scheduler and, when it has one of its own, of Stop.
StartScheduler ==
    /\ pc = "init"
    /\ \/ /\ Cardinality(Free) >= IF StopDedicatedCore THEN 2 ELSE 1
          /\ coreIndex' = FirstFree
          /\ \/ ~StopDedicatedCore /\ stopCore' = FirstFree /\ GetCore
             \/ /\ StopDedicatedCore
                /\ stopCore' = Least(Free \ {FirstFree})
                /\ busy' = busy \cup {FirstFree, stopCore'}
                /\ usedCores' = usedCores + 2
          /\ pc' = "start"
       \/ /\ Cardinality(Free) < IF StopDedicatedCore THEN 2 ELSE 1
          /\ pc' = "failed"
          /\ busy' = Core
          /\ usedCores' = usedCores + Cardinality(Free)
          /\ coreIndex' = IF Free # {} THEN FirstFree ELSE coreIndex
          /\ UNCHANGED stopCore
    /\ stopFlag' = 1
    /\ UNCHANGED <<kni, funcs, attempts, loop, caller>>

\* The first instance of the next function; the start fails without a core.
\* After the last one measure needs a free core for nAttempts.
StartFunc ==
    /\ pc = "start"
    /\ \/ /\ Free = {}
          /\ pc' = "failed"
          /\ UNCHANGED <<cores, funcs, nAttempts, ff>>
       \/ /\ Free # {}
          /\ GetCore
          /\ instance' = [instance EXCEPT
                ![ff] = Append(@, NewInstance(NewIndex(InIndexNumber[ff]), FirstFree))]
          /\ instanceNumber' = [instanceNumber EXCEPT ![ff] = @ + 1]
          /\ \/ ff < NumFuncs /\ ff' = ff + 1 /\ UNCHANGED <<pc, nAttempts>>
             \/ ff = NumFuncs /\ ff' = 1 /\ pc' = "pass" /\ nAttempts' = (Free # {FirstFree})
    /\ UNCHANGED <<system, pAttempts, q, limit, split, checkRequired, control>>

-----------------------------------------------------------------------------
(* A pass of schedule.                                                     *)

Instances == instance[ff]
Is(type) == Type[ff] = type

\* The loop goes on while stopFlag is process.  A stop request ends it.
Pass ==
    /\ pc = "pass"
    /\ \/ /\ stopFlag = 1
          /\ pc' = "collect"
          /\ checkRequired' \in BOOLEAN
          /\ UNCHANGED stopFlag
       \/ /\ stopFlag # 1
          /\ pc' = "left"
          /\ stopFlag' = 3
          /\ UNCHANGED checkRequired
    /\ UNCHANGED <<cores, system, funcs, attempts, ff, q, limit, split, caller>>

\* updateReportedState: the speeds measured since the last pass.
UpdateReportedState ==
    /\ pc = "collect"
    /\ \/ /\ Is("segmentCopy") \/ Is("fastGenerate")
          /\ \E v \in [DOMAIN Instances -> Speed] :
                instance' = [instance EXCEPT
                   ![ff] = [i \in DOMAIN @ |-> [@[i] EXCEPT !.speed = v[i]]]]
       \/ /\ ~(Is("segmentCopy") \/ Is("fastGenerate"))
          /\ UNCHANGED instance
    /\ pc' = "remove"
    /\ UNCHANGED <<cores, system, instanceNumber, attempts, loop, control>>

\* On to the phase that adds, or to the next function.
ToAdding ==
    /\ pc' = "split" /\ q' = 1 /\ limit' = instanceNumber'[ff] /\ split' = FALSE
    /\ UNCHANGED ff
NextFunc ==
    /\ \/ ff < NumFuncs /\ ff' = ff + 1 /\ pc' = "collect"
       \/ ff = NumFuncs /\ ff' = 1 /\ pc' = "pass"
    /\ q' = 1 /\ limit' = 0 /\ split' = FALSE

\* Clones whose share is idle or that made the function slower are stopped;
\* then two instances of one clone each that are idle most of the time become
\* one.  Idle time counts once its cost has been measured.
RemoveFromSegment ==
    LET many == {i \in DOMAIN Instances : Len(Instances[i].clones) > 1}
        slower == {i \in many : Instances[i].decreased > Instances[i].speed}
        idle == {i \in many : Len(Instances[i].clones) \in pAttempts}
    IN  \E R \in SUBSET (slower \cup idle) :
           LET rest == [i \in DOMAIN Instances |->
                           IF i \in R
                           THEN [StopClone(Instances[i]) EXCEPT
                                    !.increased = Instances[i].speed, !.decreased = 0]
                           ELSE Instances[i]]
               freed == {LastCore(Instances[i]) : i \in R}
           IN  /\ slower \subseteq R
               /\ \/ /\ instance' = [instance EXCEPT ![ff] = rest]
                     /\ SetCores(freed, Cardinality(R))
                     /\ UNCHANGED instanceNumber
                  \/ /\ nAttempts
                     /\ \E from, to \in DOMAIN Instances \ many :
                           /\ from # to
                           /\ instance' = [instance EXCEPT ![ff] = MergeInto(rest, from, to)]
                           /\ SetCores(freed \cup {LastCore(Instances[from])},
                                       Cardinality(R) + 1)
                     /\ instanceNumber' = [instanceNumber EXCEPT ![ff] = @ - 1]

\* The first two receivers whose queues are nearly empty become one.
RemoveFromReceive ==
    \E Idle \in SUBSET DOMAIN Instances :
       \/ /\ Cardinality(Idle) < 2
          /\ UNCHANGED <<cores, funcs>>
       \/ /\ Cardinality(Idle) >= 2
          /\ LET first == Least(Idle)
                 second == Least(Idle \ {first})
             IN  /\ instance' = [instance EXCEPT ![ff] = MergeInto(@, first, second)]
                 /\ SetCores({LastCore(Instances[first])}, 1)
          /\ instanceNumber' = [instanceNumber EXCEPT ![ff] = @ - 1]

\* A generator that is too fast (speed MaxSpeed) gets a pause or a longer one;
\* a pause is 0, or 1 for any length.  The branch that would stop a clone asks
\* for a speed above and below the target at once.
RemoveFromGenerator ==
    /\ \/ /\ Instances[1].speed = MaxSpeed
          /\ \E pause \in {Instances[1].pause, 1} :
                instance' = [instance EXCEPT ![ff][1].pause = pause]
       \/ /\ Instances[1].speed < MaxSpeed
          /\ UNCHANGED instance
    /\ UNCHANGED <<cores, instanceNumber>>

Remove ==
    /\ pc = "remove"
    /\ \/ ~OffRemove /\ Is("segmentCopy") /\ RemoveFromSegment
       \/ ~OffRemove /\ Is("receiveRSS") /\ RemoveFromReceive
       \/ ~OffRemove /\ Is("fastGenerate") /\ RemoveFromGenerator
       \/ (OffRemove \/ Is("other")) /\ UNCHANGED <<cores, funcs>>
    /\ IF Off \/ Is("other") THEN NextFunc ELSE ToAdding
    /\ UNCHANGED <<system, attempts, checkRequired, control>>

\* An instance with several queues and a full input ring hands half of its
\* queues to a new instance if there is a core for it.
SplitSegment ==
    /\ pc = "split" /\ Is("segmentCopy")
    /\ q <= limit
    /\ \/ /\ Len(Instances[q].queues) > 1
          /\ Free # {}
          /\ GetCore
          /\ instance' = [instance EXCEPT ![ff] = SplitAt(@, q, FirstFree)]
          /\ instanceNumber' = [instanceNumber EXCEPT ![ff] = @ + 1]
          /\ split' = TRUE
       \/ UNCHANGED <<cores, funcs, split>>
    /\ q' = q + 1
    /\ UNCHANGED <<system, attempts, pc, ff, limit, checkRequired, control>>

\* Clones are added only in a pass that split nothing.
AfterSplit ==
    /\ pc = "split" /\ Is("segmentCopy")
    /\ q > limit
    /\ \/ split /\ NextFunc
       \/ ~split /\ pc' = "clone" /\ q' = 1 /\ UNCHANGED <<ff, limit, split>>
    /\ UNCHANGED <<cores, system, funcs, attempts, checkRequired, control>>

\* pAttempts[cloneNumber+1] is measured when it is 0.
Measure(n) == pAttempts' = pAttempts \cup {n + 1}

\* Length of the array pAttempts.
\* Faulty: no entries for the cores of the scheduler and of Stop.
AttemptsLenShort == NumCores - 2
AttemptsLen == NumCores

\* One turn of the loop that adds clones.  An instance that has just lost a
\* clone is left alone once; measure(1, n + 1) needs a free core, and so does
\* the new clone.
CloneSegment ==
    LET i == Instances[q]
        n == Len(i.clones)
        Forget == IF checkRequired THEN [i EXCEPT !.increased = 0] ELSE i
        Set(j) == instance' = [instance EXCEPT ![ff][q] = j]
    IN  /\ pc = "clone"
        /\ q <= limit
        /\ \/ /\ i.removed
              /\ Set([i EXCEPT !.removed = FALSE])
              /\ UNCHANGED <<cores, pAttempts>>
           \/ /\ ~i.removed
              /\ Set(Forget)
              /\ UNCHANGED <<cores, pAttempts>>
           \/ /\ ~i.removed
              /\ Len(i.queues) = 1 /\ Anyway
              /\ i.increased = 0 \/ i.increased > i.speed
              /\ Free # {}
              /\ Measure(n)
              /\ GetCore
              /\ Set(StartClone(i, FirstFree))
        /\ q' = q + 1
        /\ UNCHANGED <<system, instanceNumber, nAttempts, pc, ff, limit, split,
                       checkRequired, control>>

AfterClone ==
    /\ pc = "clone"
    /\ q > limit
    /\ NextFunc
    /\ UNCHANGED <<cores, system, funcs, attempts, checkRequired, control>>

\* A generator that is too slow (speed 0) gets a shorter pause or none and,
\* without one, a clone if its output ring has room.
AddToGenerator ==
    /\ pc = "split" /\ Is("fastGenerate")
    /\ \/ /\ Instances[1].speed = 0
          /\ Instances[1].pause # 0
          /\ \E pause \in {0, 1} : instance' = [instance EXCEPT ![ff][1].pause = pause]
          /\ UNCHANGED cores
       \/ /\ Instances[1].speed = 0
          /\ Instances[1].pause = 0
          /\ Free # {}
          /\ GetCore
          /\ instance' = [instance EXCEPT ![ff][1].clones = Append(@, FirstFree)]
       \/ /\ Instances[1].speed > 0 \/ Instances[1].pause = 0
          /\ UNCHANGED <<cores, instance>>
    /\ NextFunc
    /\ UNCHANGED <<system, instanceNumber, attempts, checkRequired, control>>

\* The first receiver whose port queues fill up is split.
AddToReceive ==
    /\ pc = "split" /\ Is("receiveRSS")
    /\ \/ /\ instanceNumber[ff] < MaxRecv
          /\ InIndexNumber[ff] > 1
          /\ Free # {}
          /\ \E i \in DOMAIN Instances :
                instance' = [instance EXCEPT ![ff] = SplitAt(@, i, FirstFree)]
          /\ instanceNumber' = [instanceNumber EXCEPT ![ff] = @ + 1]
          /\ GetCore
       \/ UNCHANGED <<cores, funcs>>
    /\ NextFunc
    /\ UNCHANGED <<system, attempts, checkRequired, control>>

-----------------------------------------------------------------------------
(* SystemStop, called from another goroutine once the system has started.  *)

RequestStop ==
    /\ caller = "no"
    /\ pc \notin {"init", "start", "failed", "panic"}
    /\ caller' = "waits"
    /\ stopFlag' = 2
    /\ UNCHANGED <<cores, system, funcs, attempts, pc, loop>>

\* Faulty: the Stop thread does not wait for the scheduler.
StopThreadEarly ==
    /\ stopFlag = 2
    /\ stopFlag' = 9
    /\ UNCHANGED <<cores, system, funcs, attempts, pc, loop, caller>>

\* The Stop thread (nff_go_stop) leaves its loop when the scheduler has left.
StopThread ==
    /\ stopFlag = 3
    /\ stopFlag' = 9
    /\ UNCHANGED <<cores, system, funcs, attempts, pc, loop, caller>>

SchedulerStopped ==
    /\ caller = "waits"
    /\ stopFlag = 9
    /\ caller' = "stops"
    /\ ff' = 1
    /\ UNCHANGED <<cores, system, funcs, attempts, pc, q, limit, split, checkRequired, stopFlag>>

\* stopInstance(0, -1): all clones of the first instance, then its report
\* channel, which may be closed only once.  The list keeps the instance.
StopInstance ==
    /\ caller = "stops" /\ pc = "left"
    /\ instanceNumber[ff] # 0
    /\ \/ /\ ~Instances[1].closed
          /\ SetCores(SeqRange(Instances[1].clones), Len(Instances[1].clones))
          /\ instance' = [instance EXCEPT ![ff][1].clones = <<>>, ![ff][1].removed = TRUE,
                                           ![ff][1].closed = TRUE]
          /\ instanceNumber' = [instanceNumber EXCEPT ![ff] = @ - 1]
          /\ UNCHANGED pc
       \/ /\ Instances[1].closed
          /\ pc' = "panic"
          /\ UNCHANGED <<cores, funcs>>
    /\ UNCHANGED <<system, attempts, loop, control>>

\* The next function; after the last one the cores of the scheduler and of
\* Stop, taken to be the next core, and those of the KNI devices are released.
StopFunc ==
    /\ caller = "stops" /\ pc = "left"
    /\ instanceNumber[ff] = 0
    /\ \/ /\ ff < NumFuncs
          /\ ff' = ff + 1
          /\ UNCHANGED <<cores, system, instance, caller>>
       \/ /\ ff = NumFuncs
          /\ ff' = 1
          /\ LET own == IF StopDedicatedCore THEN {coreIndex, coreIndex + 1} ELSE {coreIndex}
             IN  SetCores(own \cup KniCores(kni), Cardinality(own) + kni)
          /\ kni' = 0 /\ coreIndex' = -1 /\ stopCore' = -1
          /\ instance' = [f \in Func |-> <<>>]
          /\ caller' = "done"
    /\ UNCHANGED <<instanceNumber, attempts, pc, q, limit, split, checkRequired, stopFlag>>

\* The user builds the graph again and starts the system once more.
Rebuild ==
    /\ caller = "done"
    /\ kni' \in 0 .. MaxKni
    /\ busy' = KniCores(kni') /\ usedCores' = kni'
    /\ pc' = "init" /\ caller' = "no"
    /\ UNCHANGED <<coreIndex, stopCore, funcs, attempts, loop, stopFlag>>

\* After a failed start or a panic nothing more happens.
Ended == pc \in {"failed", "panic"} /\ UNCHANGED vars

-----------------------------------------------------------------------------
SchedulerStep ==
    \/ StartScheduler \/ StartFunc \/ Pass \/ UpdateReportedState \/ Remove
    \/ SplitSegment \/ AfterSplit \/ CloneSegment \/ AfterClone
    \/ AddToGenerator \/ AddToReceive
SystemStopStep == SchedulerStopped \/ StopInstance \/ StopFunc

Next ==
    \/ SchedulerStep
    \/ RequestStop \/ StopThread \/ SystemStopStep
    \/ Rebuild \/ Ended

Spec == Init /\ [][Next]_vars

\* The scheduler, the Stop thread and the caller of SystemStop keep running;
\* nobody has to call SystemStop or to start again.
FairSpec ==
    /\ Spec
    /\ WF_vars(SchedulerStep) /\ WF_vars(StopThread) /\ WF_vars(SystemStopStep)

-----------------------------------------------------------------------------
(* Properties.                                                             *)

TypeOK ==
    /\ busy \subseteq Core /\ usedCores \in Nat
    /\ kni \in 0 .. MaxKni
    /\ coreIndex \in Core \cup {-1} /\ stopCore \in Core \cup {-1}
    /\ \A f \in Func : \A i \in DOMAIN instance[f] :
          instance[f][i] \in
             [queues : Seq(0 .. (InIndexNumber[f] - 1)), clones : Seq(Core),
              pause : Nat, removed : BOOLEAN, increased : Speed, decreased : Speed,
              speed : Speed, closed : BOOLEAN]
    /\ instanceNumber \in [Func -> Nat]
    /\ pAttempts \subseteq Core /\ nAttempts \in BOOLEAN
    /\ pc \in {"init", "start", "failed", "pass", "collect", "remove", "split",
               "clone", "left", "panic"}
    /\ ff \in Func /\ q \in Nat /\ limit \in Nat
    /\ split \in BOOLEAN /\ checkRequired \in BOOLEAN
    /\ stopFlag \in {1, 2, 3, 9} /\ caller \in {"no", "waits", "stops", "done"}

\* Everything that holds a core: KNI devices, the scheduler, Stop and clones.
Clone ==
    UNION {UNION {{<<f, i, j>> : j \in DOMAIN instance[f][i].clones} :
                     i \in DOMAIN instance[f]} : f \in Func}
CoreOf(c) == instance[c[1]][c[2]].clones[c[3]]
SystemCores == KniCores(kni) \cup ({coreIndex, stopCore} \ {-1})

\* No two clones share a core, none runs on a core of the system, exactly the
\* cores in use are marked as not free, and usedCores counts them: getCore and
\* setCoreByIndex are paired in every path through cloning, merging, measuring
\* and stopping.  In particular SystemStop gives every core back.
CoresAccounted ==
    /\ busy = SystemCores \cup {CoreOf(c) : c \in Clone}
    /\ usedCores = Cardinality(busy)
    /\ \A c \in Clone : CoreOf(c) \notin SystemCores
    /\ \A c, d \in Clone : CoreOf(c) = CoreOf(d) => c = d

\* Each input queue of a running function is served by exactly one instance,
\* and each instance serves at least one, however often instances were split
\* and merged (constructDuplicatedIndex, stopInstance).
QueuesPartitioned ==
    \A f \in Func : Type[f] # "fastGenerate" /\ instance[f] # <<>> =>
       LET Served(i) == SeqRange(instance[f][i].queues)
           all == DOMAIN instance[f]
       IN  /\ UNION {Served(i) : i \in all} = 0 .. (InIndexNumber[f] - 1)
           /\ \A i, j \in all : i # j => Served(i) \cap Served(j) = {}
           /\ \A i \in all : Served(i) # {} /\ Cardinality(Served(i)) = Len(instance[f][i].queues)

\* Several clones of one instance take packets from one queue only, and only
\* then do they pause ("pause should be non 0 only if function works with ONE
\* inIndex", segmentProcess and pcopy); the pause grows with their number.
ClonesShareOneQueue ==
    \A f \in Func : Type[f] = "segmentCopy" =>
       \A i \in DOMAIN instance[f] :
          LET e == instance[f][i] IN
          ~e.closed => e.pause = Len(e.clones) - 1 /\ (e.pause # 0 => Len(e.queues) = 1)

\* The cost of an idle turn with n clones is known when there are n clones, so
\* that the test that stops one (ZeroAttempts * pAttempts[n]) can succeed.
ClonesMeasured ==
    \A f \in Func : Type[f] = "segmentCopy" =>
       \A i \in DOMAIN instance[f] :
          Len(instance[f][i].clones) > 1 => Len(instance[f][i].clones) \in pAttempts

\* The scheduler looks up pAttempts[n] and pAttempts[n + 1] for n clones, in an
\* array of AttemptsLen entries.
AttemptsInRange ==
    \A f \in Func : Type[f] = "segmentCopy" =>
       \A i \in DOMAIN instance[f] : Len(instance[f][i].clones) + 1 < AttemptsLen

\* SystemStop returns: "SystemStop stops the system. All Flow functions plus
\* resource releasing".
StopCompletes == caller = "waits" ~> caller = "done"
=============================================================================
