--------------------------- MODULE DevicesProofs ---------------------------
(***************************************************************************)
(* driver_override does not outlive the call that set it, for any number   *)
(* of callers and drivers, on either bus, whichever writes fail.           *)
(***************************************************************************)
EXTENDS Devices, TLAPS

Steps == {"idle", "query", "probe", "unbind", "unbound", "override", "newid"} \cup Overriding
PciOnly == {"unbound", "override", "verify", "clean error", "clean nil"}

\* Inductive: OverrideCleaned needs that on VMBus nobody writes driver_override,
\* because the bind step of that bus ends without a clean-up.
IInv ==
    /\ pc \in [Callers -> Steps] /\ lostClean \in {0, 1}
    /\ Bus = "vmbus" => override = None /\ \A c \in Callers : pc[c] \notin PciOnly
    /\ OverrideCleaned

\* No caller has begun.
LEMMA InitIInv == Init => IInv
  BY DEF Init, IInv, OverrideCleaned, Steps, PciOnly, Overriding

\* A step of one caller: it moves from one step to the next, and leaves the
\* steps that hold driver_override only through the deferred clean-up.
LEMMA StepIInv ==
  ASSUME IInv, NEW c \in Callers,
         pc'[c] \in Steps, pc' = [pc EXCEPT ![c] = pc'[c]],
         lostClean' \in {0, 1}, lostClean = 1 => lostClean' = 1,
         Bus = "vmbus" => override' = override /\ pc'[c] \notin PciOnly,
         \/ override' = None
         \/ lostClean' = 1
         \/ pc'[c] \in Overriding
         \/ override' = override /\ pc[c] \notin Overriding
  PROVE  IInv'
<1>1. pc' \in [Callers -> Steps] /\ \A b \in Callers \ {c} : pc'[b] = pc[b]
  BY DEF IInv
<1>2. Bus = "vmbus" => override' = None /\ \A b \in Callers : pc'[b] \notin PciOnly
  BY <1>1 DEF IInv
<1>3. OverrideCleaned'
  <2>1. CASE override' = None \/ lostClean' = 1 \/ pc'[c] \in Overriding
    BY <2>1 DEF OverrideCleaned
  <2>2. CASE override' = override /\ pc[c] \notin Overriding
    BY <1>1, <2>2 DEF OverrideCleaned, IInv
  <2>3. QED
    BY <2>1, <2>2
<1>4. QED
  BY <1>1, <1>2, <1>3 DEF IInv

\* The actions of a caller, one by one.
LEMMA NextIInv == IInv /\ [Next]_vars => IInv'
<1> SUFFICES ASSUME IInv, [Next]_vars PROVE IInv'
  OBVIOUS
<1> USE DevicesAssumption DEF Goto, Return, Failed, Steps, PciOnly, Overriding, kernel
<1>1. ASSUME NEW c \in Callers,
             \/ Bind(c) \/ Unbind(c) \/ Probe(c) \/ Query(c) \/ UnbindDriver(c) \/ CheckUnbound(c) \/ OverrideDriver(c)
             \/ BindDriver(c) \/ VerifyBound(c) \/ CleanOverride(c) \/ AddToDriver(c) \/ ProbeDriver(c)
      PROVE  IInv'
  <2> USE StepIInv DEF IInv
  <2>1. CASE Bind(c)
    BY <2>1 DEF Bind, Call
  <2>2. CASE Unbind(c)
    BY <2>2 DEF Unbind, Call
  <2>3. CASE Probe(c)
    BY <2>3 DEF Probe, Call
  <2>4. CASE Query(c)
    BY <2>4 DEF Query, NeedsNewID
  <2>5. CASE UnbindDriver(c)
    BY <2>5 DEF UnbindDriver
  <2>6. CASE CheckUnbound(c)
    BY <2>6 DEF CheckUnbound
  <2>7. CASE OverrideDriver(c)
    BY <2>7 DEF OverrideDriver
  <2>8. CASE BindDriver(c)
    BY <2>8 DEF BindDriver
  <2>9. CASE VerifyBound(c)
    BY <2>9 DEF VerifyBound
  <2>10. CASE CleanOverride(c)
    BY <2>10 DEF CleanOverride
  <2>11. CASE AddToDriver(c)
    BY <2>11 DEF AddToDriver
  <2>12. CASE ProbeDriver(c)
    BY <2>12 DEF ProbeDriver
  <2>13. QED
    BY <1>1, <2>1, <2>2, <2>3, <2>4, <2>5, <2>6, <2>7, <2>8, <2>9, <2>10, <2>11, <2>12
<1>2. CASE UNCHANGED vars
  BY <1>2 DEF vars, IInv, OverrideCleaned
<1>3. QED
  BY <1>1, <1>2 DEF Next

\* bindPciDeviceDriver's driver_override is set only while a caller is between
\* writing it and clearing it, unless a clearing write has failed.
THEOREM OverrideAlwaysCleaned == Spec => []OverrideCleaned
<1>1. IInv => OverrideCleaned
  BY DEF IInv
<1>2. QED
  BY <1>1, InitIInv, NextIInv, PTL DEF Spec
=============================================================================
