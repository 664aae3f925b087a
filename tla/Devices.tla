------------------------------ MODULE Devices ------------------------------
(***************************************************************************)
(* Binding one device to drivers through sysfs (package devices), by       *)
(* callers that may be different processes.  Every write to sysfs and      *)
(* every query may fail, and other callers act between any two of them.    *)
(* The kernel's part (KernelBind and the rest) is what the code relies on. *)
(***************************************************************************)
EXTENDS Integers, FiniteSets

CONSTANTS
    Callers,
    Drivers,            \* drivers a caller asks for
    Native,             \* the driver the kernel has for the device
    None,               \* no driver: the empty string
    Bus,                \* "pci" or "vmbus"
    HasOverride         \* the kernel has driver_override (3.15 and later)

ASSUME DevicesAssumption == Bus \in {"pci", "vmbus"}

VARIABLES
    bound, override, ids,   \* the kernel: driver, driver_override, drivers given new_id
    pc, want,               \* of each caller: next step and driver asked for
    current,                \* what GetCurrentPciDriver or GetCurrentVmbusDriver returned
    result,                 \* "none", "nil" or "error"
    driver,                 \* the driver field of the caller's Device
    lostClean               \* 1 when a write that clears driver_override has failed
kernel == <<bound, override, ids>>
vars == <<kernel, pc, want, current, result, driver, lostClean>>

Init ==
    /\ bound \in {None, Native} /\ override = None /\ ids = {}
    /\ pc = [c \in Callers |-> "idle"]
    /\ want = [c \in Callers |-> None]
    /\ current = [c \in Callers |-> None]
    /\ result = [c \in Callers |-> "none"]
    /\ driver = [c \in Callers |-> IF Bus = "pci" THEN bound ELSE None]
    /\ lostClean = 0

Matches(d) == IF override # None THEN d = override ELSE d = Native \/ d \in ids

Goto(c, l) == pc' = [pc EXCEPT ![c] = l] /\ UNCHANGED <<want, result, driver>>
\* The call ends.  pciDevice.Bind and Probe store what BindPci and ProbePci
\* return, "" with an error; vmbusDevice.Bind stores the driver when all went well.
Return(c, r, d) ==
    /\ pc' = [pc EXCEPT ![c] = "idle"] /\ result' = [result EXCEPT ![c] = r]
    /\ driver' = [driver EXCEPT ![c] = d] /\ UNCHANGED want
Failed(c) == Return(c, "error", IF Bus = "pci" /\ want[c] # None THEN None ELSE driver[c])

Call(c, l, d) ==
    /\ pc[c] = "idle"
    /\ pc' = [pc EXCEPT ![c] = l] /\ want' = [want EXCEPT ![c] = d]
    /\ result' = [result EXCEPT ![c] = "none"]
    /\ UNCHANGED <<kernel, current, driver, lostClean>>
Bind(c) == \E d \in Drivers : Call(c, "query", d)
Unbind(c) == Call(c, "query", None)
Probe(c) == Bus = "pci" /\ Call(c, "probe", None)

\* isValidDpdkVmbusDriver: all drivers but the native one are for DPDK.
NeedsNewID(d) == Bus = "vmbus" /\ d \notin {None, Native}

\* The first steps of BindPci, UnbindPci and the methods of vmbusDevice.
Query(c) ==
    /\ pc[c] = "query"
    /\ \/ Failed(c) /\ UNCHANGED current
       \/ /\ current' = [current EXCEPT ![c] = bound]
          /\ IF bound = want[c] THEN Return(c, "nil", IF want[c] # None /\ Bus = "pci" THEN bound ELSE driver[c])
             ELSE Goto(c, CASE NeedsNewID(want[c]) -> "newid"
                            [] ~NeedsNewID(want[c]) /\ bound # None -> "unbind"
                            [] OTHER -> IF Bus = "vmbus" THEN "bind" ELSE "override")
    /\ UNCHANGED <<kernel, lostClean>>

\* Faulty: nobody looks whether the device has been let go.
UnbindDriverUnchecked(c) ==
    /\ pc[c] = "unbind"
    /\ \/ Failed(c) /\ UNCHANGED kernel
       \/ /\ bound' \in {None, bound} /\ UNCHANGED <<override, ids>>
          /\ IF want[c] = None THEN Return(c, "nil", driver[c])
             ELSE Goto(c, IF Bus = "pci" THEN "override" ELSE "bind")
    /\ UNCHANGED <<current, lostClean>>
\* unbindPciDeviceDriver (one file, then the other) and unbindVmbusDeviceDriver.
\* The file of a driver that is no longer bound refuses the device.  A write
\* that is accepted may still leave the device bound.
UnbindDriver(c) ==
    /\ pc[c] = "unbind"
    /\ \/ Failed(c) /\ UNCHANGED kernel
       \/ /\ bound # None /\ (Bus = "vmbus" => bound = current[c])
          /\ bound' \in IF Bus = "vmbus" THEN {None} ELSE {None, bound}
          /\ UNCHANGED <<override, ids>>
          /\ CASE Bus = "pci" -> Goto(c, "unbound")
               [] want[c] = None -> Return(c, "nil", driver[c])
               [] OTHER -> Goto(c, "bind")
    /\ UNCHANGED <<current, lostClean>>

\* Fails when the query fails and when the device is still bound.
CheckUnbound(c) ==
    /\ pc[c] = "unbound"
    /\ \/ Failed(c)
       \/ bound = None /\ IF want[c] = None THEN Return(c, "nil", driver[c]) ELSE Goto(c, "override")
    /\ UNCHANGED <<kernel, current, lostClean>>

\* overrideDriver; a failure is taken for an old kernel.
OverrideDriver(c) ==
    /\ pc[c] = "override"
    /\ \/ HasOverride /\ override' = want[c] /\ Goto(c, "bind")
       \/ UNCHANGED override /\ Goto(c, "newid")
    /\ UNCHANGED <<bound, ids, current, lostClean>>

\* Faulty: the write to bind that fails returns before driver_override is cleared.
BindDriverReturning(c) ==
    /\ pc[c] = "bind"
    /\ \/ /\ Failed(c) /\ UNCHANGED kernel
       \/ /\ bound = None /\ Matches(want[c])
          /\ bound' = want[c] /\ UNCHANGED <<override, ids>>
          /\ IF Bus = "pci" THEN Goto(c, "verify") ELSE Return(c, "nil", want[c])
    /\ UNCHANGED <<current, lostClean>>
\* The write to the driver's bind file: accepted when the device is free and the
\* driver matches it.
BindDriver(c) ==
    /\ pc[c] = "bind"
    /\ \/ /\ IF Bus = "pci" THEN Goto(c, "clean error") ELSE Failed(c)
          /\ UNCHANGED kernel
       \/ /\ bound = None /\ Matches(want[c])
          /\ bound' = want[c] /\ UNCHANGED <<override, ids>>
          /\ IF Bus = "pci" THEN Goto(c, "verify") ELSE Return(c, "nil", want[c])
    /\ UNCHANGED <<current, lostClean>>

\* A query that fails reads as another driver.
VerifyBound(c) ==
    /\ pc[c] = "verify"
    /\ \/ Goto(c, "clean error")
       \/ bound = want[c] /\ Goto(c, "clean nil")
    /\ UNCHANGED <<kernel, current, lostClean>>

\* The deferred cleanOverrideDriver, whose error is dropped.
CleanOverride(c) ==
    /\ pc[c] \in {"clean error", "clean nil"}
    /\ \/ override' = None /\ UNCHANGED lostClean
       \/ UNCHANGED override /\ lostClean' = 1
    /\ IF pc[c] = "clean nil" THEN Return(c, "nil", want[c]) ELSE Failed(c)
    /\ UNCHANGED <<bound, ids, current>>

\* addToDriver, and the write of new_id before a VMBus device is bound, whose
\* error is ignored.  The kernel offers the driver a device that is free, and
\* the driver may decline.
AddToDriver(c) ==
    /\ pc[c] = "newid"
    /\ \/ /\ IF Bus = "pci" THEN Failed(c) ELSE Goto(c, IF current[c] # None THEN "unbind" ELSE "bind")
          /\ UNCHANGED kernel
       \/ /\ ids' = ids \cup {want[c]} /\ UNCHANGED override
          /\ \/ UNCHANGED bound
             \/ bound = None /\ override \in {None, want[c]} /\ bound' = want[c]
          /\ IF Bus = "pci" THEN Return(c, "nil", want[c])
             ELSE Goto(c, IF current[c] # None THEN "unbind" ELSE "bind")
    /\ UNCHANGED <<current, lostClean>>

\* ProbePci: the kernel looks for a driver, and the answer is what is bound then.
ProbeDriver(c) ==
    /\ pc[c] = "probe"
    /\ \/ Return(c, "error", None) /\ UNCHANGED kernel
       \/ /\ \/ UNCHANGED bound
             \/ bound = None /\ \E d \in Drivers \cup {Native} : Matches(d) /\ bound' = d
          /\ UNCHANGED <<override, ids>>
          /\ Return(c, "nil", bound')
    /\ UNCHANGED <<current, lostClean>>

Next ==
    \E c \in Callers :
        \/ Bind(c) \/ Unbind(c) \/ Probe(c) \/ Query(c) \/ UnbindDriver(c) \/ CheckUnbound(c) \/ OverrideDriver(c)
        \/ BindDriver(c) \/ VerifyBound(c) \/ CleanOverride(c) \/ AddToDriver(c) \/ ProbeDriver(c)
Spec == Init /\ [][Next]_vars
-----------------------------------------------------------------------------
Overriding == {"bind", "verify", "clean error", "clean nil"}

\* driver_override is set only while a caller is between the write and its
\* deferred clean-up, unless a clean-up has failed.
OverrideCleaned ==
    override # None => lostClean = 1 \/ \E c \in Callers : pc[c] \in Overriding

\* "BindPci binds the driver to the given device ID": a Bind that returned no
\* error left the device with the driver asked for, when no other caller acted.
NilMeansDone ==
    \A c \in Callers :
        (result[c] = "nil" /\ \A b \in Callers \ {c} : pc[b] = "idle" /\ result[b] = "none") =>
            (want[c] # None => bound = want[c])

\* An UnbindPci returns no error only at a moment when the device is free,
\* whatever other callers do.
UnbindSeesFree ==
    [][\A c \in Callers :
        (Bus = "pci" /\ want[c] = None /\ pc[c] \in {"unbind", "unbound", "query"} /\ result'[c] = "nil" /\ result[c] = "none")
            => bound' = None]_vars
=============================================================================
