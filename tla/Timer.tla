------------------------------- MODULE Timer --------------------------------
(***************************************************************************)
(* Timers and their variants: AddVariant and Stop, called by any user code *)
(* while the scheduler runs, and the loops of schedule over the timers and *)
(* over the checks of a timer that ticked.                                 *)
(* Both loops range over Go slices that change below them: a slice is a    *)
(* length and a backing array, append writes into the array while there is *)
(* room and otherwise into a copy, and a range keeps the array and the     *)
(* length it started with.  One access of a slice is one step.             *)
(***************************************************************************)
EXTENDS Naturals, Sequences, FiniteSets

CONSTANTS
    Timers,     \* timers made by AddTimer before the start, numbered from 1
    Variants,   \* variants that may be added, one session each
    None        \* not a variant

VARIABLES
    list,       \* schedState.Timers
    contexts, checks,   \* of each timer
    check,      \* the variable AddVariant returns, per variant
    ticked,     \* timers whose channel holds a tick
    adding,     \* timer and variant between the two appends of AddVariant
    unused,     \* variants not added yet
    stopped,    \* timers whose Stop has returned
    pc, j, n, t,    \* of the scheduler: place, index in list, its length, timer
    range,      \* what the inner loop ranges over: index, length, own array
    handled,    \* handler calls: expired variant, context, whether the timer was
                \* stopped and whether an AddVariant overlapped the loop
    panicked

vars == <<list, contexts, checks, check, ticked, adding, unused, stopped, pc, j, n, t, range, handled, panicked>>
Timer == 1 .. Timers

Empty == [arr |-> <<>>, len |-> 0]
Slice(s) == SubSeq(s.arr, 1, s.len)

HasRoom(s) == s.len < Len(s.arr)

\* append(s, v): in place while the capacity lasts, which else doubles.
Appended(s, v) ==
    IF HasRoom(s) THEN [arr |-> [s.arr EXCEPT ![s.len + 1] = v], len |-> s.len + 1]
    ELSE [arr |-> Append(s.arr, v) \o [i \in 1 .. (IF s.len = 0 THEN 0 ELSE s.len - 1) |-> None],
          len |-> s.len + 1]

\* append(s[:i-1], s[i:]...): the elements after i move down, in place.
Removed(s, i) ==
    [arr |-> [k \in DOMAIN s.arr |-> IF k \in i .. s.len - 1 THEN s.arr[k + 1] ELSE s.arr[k]],
     len |-> s.len - 1]

Idle == [i |-> 1, n |-> 0, shared |-> TRUE, arr |-> <<>>, late |-> FALSE, torn |-> FALSE]

Init ==
    /\ list = [arr |-> [i \in Timer |-> i], len |-> Timers]
    /\ contexts = [x \in Timer |-> Empty] /\ checks = [x \in Timer |-> Empty]
    /\ check = [v \in Variants |-> FALSE]
    /\ ticked = {} /\ adding = <<>> /\ unused = Variants /\ stopped = {}
    /\ pc = "sleep" /\ j = 1 /\ n = 0 /\ t = 1 /\ range = Idle
    /\ handled = <<>> /\ panicked = FALSE
-----------------------------------------------------------------------------
(* User code.                                                              *)

AddContext(x, v) ==
    /\ ~panicked /\ adding = <<>> /\ v \in unused
    /\ contexts' = [contexts EXCEPT ![x] = Appended(@, v)]
    /\ check' = [check EXCEPT ![v] = FALSE]
    /\ unused' = unused \ {v}
    /\ adding' = <<x, v>>
    /\ range' = [range EXCEPT !.torn = TRUE]
    /\ UNCHANGED <<list, checks, ticked, stopped, pc, j, n, t, handled, panicked>>

\* A range over the checks keeps the old array if append leaves it.
AddCheck ==
    /\ ~panicked /\ adding # <<>>
    /\ LET x == adding[1] IN
       /\ checks' = [checks EXCEPT ![x] = Appended(@, adding[2])]
       /\ range' = IF pc \in {"checks", "remove"} /\ t = x /\ range.shared /\ ~HasRoom(checks[x])
                   THEN [range EXCEPT !.shared = FALSE, !.arr = checks[x].arr] ELSE range
    /\ adding' = <<>>
    /\ UNCHANGED <<list, contexts, check, ticked, unused, stopped, pc, j, n, t, handled, panicked>>

\* A packet of the session arrives.
Reset(v) ==
    /\ ~panicked /\ v \notin unused
    /\ check' = [check EXCEPT ![v] = TRUE]
    /\ UNCHANGED <<list, contexts, checks, ticked, adding, unused, stopped, pc, j, n, t, range, handled, panicked>>

Stop(x) ==
    /\ ~panicked /\ x \notin stopped
    /\ stopped' = stopped \cup {x}
    /\ list' = Removed(list, CHOOSE i \in 1 .. list.len : list.arr[i] = x)
    /\ UNCHANGED <<contexts, checks, check, ticked, adding, unused, pc, j, n, t, range, handled, panicked>>

\* The ticker fires; its channel holds one tick.
Tick(x) ==
    /\ ~panicked /\ x \notin stopped
    /\ ticked' = ticked \cup {x}
    /\ UNCHANGED <<list, contexts, checks, check, adding, unused, stopped, pc, j, n, t, range, handled, panicked>>
-----------------------------------------------------------------------------
(* The scheduler.                                                          *)

\* A pass begins: range over the timers, with the length they have now.
Wake ==
    /\ ~panicked /\ pc = "sleep"
    /\ pc' = "timers" /\ j' = 1 /\ n' = list.len
    /\ UNCHANGED <<list, contexts, checks, check, ticked, adding, unused, stopped, t, range, handled, panicked>>

\* One timer: if it ticked, its checks are ranged over.
NextTimer ==
    /\ ~panicked /\ pc = "timers"
    /\ IF j > n
       THEN pc' = "sleep" /\ UNCHANGED <<j, t, range, ticked>>
       ELSE LET x == list.arr[j] IN
            /\ j' = j + 1
            /\ IF x \in ticked
               THEN /\ ticked' = ticked \ {x} /\ t' = x /\ pc' = "checks"
                    /\ range' = [Idle EXCEPT !.n = checks[x].len, !.late = x \in stopped,
                                            !.torn = adding # <<>>]
               ELSE UNCHANGED <<ticked, t, pc, range>>
    /\ UNCHANGED <<list, contexts, checks, check, adding, unused, stopped, n, handled, panicked>>

Current == IF range.shared THEN checks[t].arr[range.i] ELSE range.arr[range.i]

EndChecks ==
    /\ ~panicked /\ pc = "checks" /\ range.i > range.n
    /\ pc' = "timers" /\ range' = Idle
    /\ UNCHANGED <<list, contexts, checks, check, ticked, adding, unused, stopped, j, n, t, handled, panicked>>

\* *c is true: it is cleared for the next tick.
ClearCheck ==
    /\ ~panicked /\ pc = "checks" /\ range.i <= range.n
    /\ check[Current]
    /\ check' = [check EXCEPT ![Current] = FALSE]
    /\ range' = [range EXCEPT !.i = @ + 1]
    /\ UNCHANGED <<list, contexts, checks, ticked, adding, unused, stopped, pc, j, n, t, handled, panicked>>

\* *c is false: the handler is called, with an index the slice may not have.
CallHandler ==
    /\ ~panicked /\ pc = "checks" /\ range.i <= range.n
    /\ ~check[Current]
    /\ IF range.i > contexts[t].len
       THEN panicked' = TRUE /\ UNCHANGED <<handled, pc>>
       ELSE /\ handled' = Append(handled, [variant |-> Current, late |-> range.late, torn |-> range.torn,
                                           context |-> contexts[t].arr[range.i]])
            /\ pc' = "remove" /\ UNCHANGED panicked
    /\ UNCHANGED <<list, contexts, checks, check, ticked, adding, unused, stopped, j, n, t, range>>

RemoveNothing ==    \* Faulty: the variant stays
    /\ ~panicked /\ pc = "remove"
    /\ pc' = "checks" /\ range' = [range EXCEPT !.i = @ + 1]
    /\ UNCHANGED <<list, contexts, checks, check, ticked, adding, unused, stopped, j, n, t, handled, panicked>>

\* The variant is removed from both slices.
RemoveVariant ==
    /\ ~panicked /\ pc = "remove"
    /\ contexts' = [contexts EXCEPT ![t] = Removed(@, range.i)]
    /\ IF range.i > checks[t].len
       THEN panicked' = TRUE /\ UNCHANGED <<checks, pc, range>>
       ELSE /\ checks' = [checks EXCEPT ![t] = Removed(@, range.i)]
            /\ pc' = "checks" /\ range' = [range EXCEPT !.i = @ + 1]
            /\ UNCHANGED panicked
    /\ UNCHANGED <<list, check, ticked, adding, unused, stopped, j, n, t, handled>>

Dead == panicked /\ UNCHANGED vars

Next ==
    \/ \E x \in Timer : Stop(x) \/ Tick(x) \/ \E v \in Variants : AddContext(x, v)
    \/ AddCheck \/ \E v \in Variants : Reset(v)
    \/ Wake \/ NextTimer \/ EndChecks \/ ClearCheck \/ CallHandler \/ RemoveVariant
    \/ Dead

Spec == Init /\ [][Next]_vars
-----------------------------------------------------------------------------
TypeOK ==
    /\ \A x \in Timer : \A s \in {contexts[x], checks[x]} :
          s.len <= Len(s.arr) /\ \A i \in 1 .. s.len : s.arr[i] \in Variants
    /\ pc \in {"sleep", "timers", "checks", "remove"}

\* The contexts and the checks of a timer stay parallel, whatever variants are
\* added or expire while the checks are ranged over.
PairsAligned ==
    ~panicked /\ adding = <<>> => \A x \in Timer : Slice(contexts[x]) = Slice(checks[x])

\* A handler is called for each variant at most once, and with its own context,
\* as long as no AddVariant overlaps a loop that calls handlers: append may then
\* move the checks to another array while the loop ranges over the old one.
HandledOnce ==
    (\A k \in DOMAIN handled : ~handled[k].torn) =>
        /\ \A k \in DOMAIN handled : handled[k].context = handled[k].variant
        /\ \A k, l \in DOMAIN handled : k # l => handled[k].variant # handled[l].variant

\* The comment in schedule: "If this timer was ticked we check all checks of all
\* variants", which a tick that ends in a panic does not do.
TickChecksAll == ~panicked

\* The documentation of Stop: "Stop removes timer with all its variants", so no
\* later pass calls its handler.
StoppedIsRemoved == \A k \in DOMAIN handled : ~handled[k].late
=============================================================================
