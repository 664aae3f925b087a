---------------------------- MODULE PktgenConfig ----------------------------
(***************************************************************************)
(* How nffPktgen reads its JSON configuration (parseConfig.go).  Every     *)
(* object of the file is a Go map, and a loop over a map takes its keys in *)
(* any order; what is read must not depend on it.  One object is read by   *)
(* several readers at once, each in an order of its own.                   *)
(*                                                                         *)
(* A parser gives for each key the slot of the configuration its value is  *)
(* stored in, or Refused.  Values are "good" or "bad" for the parser of    *)
(* the value (bad: it returns an error, or the value has the wrong type    *)
(* and the program ends), numbers in ranges and sizes.                     *)
(***************************************************************************)
EXTENDS Integers, FiniteSets

CONSTANTS
    Readers,
    MaxKeys,        \* bound on the keys of an object, ranges and sizes excepted
    Uint16,         \* 2^16, scaled down
    MaxNumber       \* bound on the numbers of a range, not less than Uint16

VARIABLES
    level,          \* the kind of object
    object,         \* its keys and values
    todo,           \* keys a reader has not taken yet
    slots,          \* what a reader has stored
    out             \* "start", "reading", "error" or "ok"
vars == <<level, object, todo, slots, out>>

Refused == "refused"
Ignored == "ignored"

parseData(k) == IF k \in {"raw", "randbytes", "pdist"} THEN "payload" ELSE Refused

parseEtherHdr(k) ==
    CASE k \in {"saddr", "daddr", "vlan-tci"} -> k
      [] k \in {"ip", "arp"} -> "payload"
      [] OTHER -> parseData(k)

parseIPHdr(k) ==
    CASE k \in {"version", "saddr", "daddr"} -> k
      [] k \in {"tcp", "udp", "icmp"} -> "payload"
      [] OTHER -> parseData(k)

parseARPHdr(k) == IF k \in {"opcode", "gratuitous", "sha", "spa", "tha", "tpa"} THEN k ELSE Refused

parseTCPHdr(k) == IF k \in {"sport", "dport", "seq", "flags"} THEN k ELSE parseData(k)

parseUDPHdr(k) == IF k \in {"sport", "dport"} THEN k ELSE parseData(k)

parseICMPHdr(k) ==
    CASE k \in {"type", "code"} -> k
      [] k \in {"identifier", "id"} -> "identifier"
      [] k \in {"seq", "seqnum"} -> "seq"
      [] OTHER -> parseData(k)

parsePdistEntry(k) ==
    CASE k = "probability" -> k
      [] k \in {"raw", "randbytes"} -> "payload"
      [] OTHER -> Refused

\* Unknown keys are passed over.
parseRandBytes(k) == IF k \in {"size", "deviation"} THEN k ELSE Ignored

parseRange(k) == IF k \in {"min", "max", "start", "incr"} THEN k ELSE Refused

ParseMix(k) ==
    CASE k = "ether" -> k
      [] k \in {"quantity", "q"} -> "quantity"
      [] OTHER -> Refused

Levels == {"ether", "ip", "arp", "tcp", "udp", "icmp", "pdist", "randbytes", "ports", "addrs", "mix"}
Numeric == {"ports", "addrs", "randbytes"}

SlotOf(l, k) ==
    CASE l = "ether" -> parseEtherHdr(k)
      [] l = "ip" -> parseIPHdr(k)
      [] l = "arp" -> parseARPHdr(k)
      [] l = "tcp" -> parseTCPHdr(k)
      [] l = "udp" -> parseUDPHdr(k)
      [] l = "icmp" -> parseICMPHdr(k)
      [] l = "pdist" -> parsePdistEntry(k)
      [] l = "randbytes" -> parseRandBytes(k)
      [] l \in {"ports", "addrs"} -> parseRange(k)
      [] l = "mix" -> ParseMix(k)

\* The keys an object of this level is tried with, one unknown among them.
KeysOf(l) ==
    {"other"} \cup
    CASE l = "ether" -> {"saddr", "daddr", "vlan-tci", "ip", "arp", "raw"}
      [] l = "ip" -> {"version", "saddr", "tcp", "udp", "pdist"}
      [] l = "arp" -> {"opcode", "gratuitous", "sha", "spa", "tha", "tpa"}
      [] l = "tcp" -> {"sport", "dport", "seq", "flags", "raw"}
      [] l = "udp" -> {"sport", "dport", "randbytes", "pdist"}
      [] l = "icmp" -> {"type", "code", "identifier", "id", "seq", "seqnum", "raw"}
      [] l = "pdist" -> {"probability", "raw", "randbytes"}
      [] l = "randbytes" -> {"size", "deviation"}
      [] l \in {"ports", "addrs"} -> {"min", "max", "start", "incr"}
      [] l = "mix" -> {"ether", "quantity", "q"}

Values(l) == IF l \in Numeric THEN -1 .. MaxNumber ELSE {"good", "bad"}
KeySets(l) ==
    {K \in SUBSET KeysOf(l) :
        IF l \in Numeric THEN "other" \notin K \/ Cardinality(K) <= 2 ELSE Cardinality(K) <= MaxKeys}

\* Headers hold one payload, and no option under two names: "Inside each packet
\* header can be either data or next level header" (README).
OneKeyASlot(l, K) == \A j, k \in K : (j # k /\ SlotOf(l, j) = SlotOf(l, k)) => SlotOf(l, j) \in {Refused, Ignored}

Init ==
    /\ level = "mix" /\ object = <<>>
    /\ todo = [r \in Readers |-> {}]
    /\ slots = [r \in Readers |-> <<>>]
    /\ out = [r \in Readers |-> "start"]

\* ParseConfig has decoded the file; one of its objects goes to its parser.
Decode ==
    /\ \A r \in Readers : out[r] = "start"
    /\ level' \in Levels
    /\ \E K \in KeySets(level') : OneKeyASlot(level', K) /\ object' \in [K -> Values(level')]
    /\ todo' = [r \in Readers |-> DOMAIN object']
    /\ out' = [r \in Readers |-> "reading"]
    /\ UNCHANGED slots

\* An address is numbered; incr becomes the bytes of its absolute value.  Ports
\* and sizes must not be negative and are cut to their width.
Bad(l, k, v) ==
    CASE l \in {"ports", "randbytes"} -> SlotOf(l, k) # Ignored /\ v < 0
      [] l = "addrs" -> k # "incr" /\ v < 0
      [] OTHER -> v = "bad"
Stored(l, v) ==
    CASE l = "ports" -> v % Uint16
      [] l \in {"addrs", "randbytes"} -> IF v < 0 THEN -v ELSE v
      [] OTHER -> v

Step(r, o) == out' = [out EXCEPT ![r] = o] /\ UNCHANGED <<level, object>>

\* Faulty: the start of a range is compared while the keys are being taken.
TakeKeyChecking(r, k) ==
    LET s == SlotOf(level, k)
    IN  /\ out[r] = "reading" /\ k \in todo[r]
        /\ todo' = [todo EXCEPT ![r] = @ \ {k}]
        /\ IF \/ s = Refused \/ Bad(level, k, object[k])
              \/ s = "start" /\ "max" \in DOMAIN slots[r] /\ object[k] > slots[r].max
           THEN Step(r, "error") /\ UNCHANGED slots
           ELSE /\ Step(r, "reading")
                /\ slots' = [slots EXCEPT ![r] =
                     [x \in DOMAIN @ \cup {s} |-> IF x = s THEN Stored(level, object[k]) ELSE @[x]]]
TakeKey(r, k) ==
    LET s == SlotOf(level, k)
    IN  /\ out[r] = "reading" /\ k \in todo[r]
        /\ todo' = [todo EXCEPT ![r] = @ \ {k}]
        /\ IF s = Refused \/ Bad(level, k, object[k])
           THEN Step(r, "error") /\ UNCHANGED slots
           ELSE /\ Step(r, "reading")
                /\ slots' = [slots EXCEPT ![r] =
                     [x \in DOMAIN @ \cup {s} |-> IF x = s THEN Stored(level, object[k]) ELSE @[x]]]

Get(f, k, default) == IF k \in DOMAIN f THEN f[k] ELSE default

\* After the loop of parseAddrRange and parsePortRange.
RangeOf(f) ==
    LET current == Get(f, "start", Get(f, "min", 0))
    IN  IF ~({"min", "max"} \subseteq DOMAIN f) \/ f.max < f.min \/ current < f.min \/ current > f.max
        THEN [ok |-> FALSE]
        ELSE [ok |-> TRUE, Min |-> f.min, Max |-> f.max, Current |-> current, Incr |-> Get(f, "incr", 1)]

\* After the loop of parseRandBytes and of ParseMixConfig.
Complete(l, f) ==
    CASE l = "randbytes" -> Get(f, "size", 0) >= Get(f, "deviation", 0)
      [] l = "mix" -> {"ether", "quantity"} \subseteq DOMAIN f
      [] l \in {"ports", "addrs"} -> RangeOf(f).ok
      [] OTHER -> TRUE

Return(r) ==
    /\ out[r] = "reading" /\ todo[r] = {}
    /\ Step(r, IF Complete(level, slots[r]) THEN "ok" ELSE "error")
    /\ UNCHANGED <<todo, slots>>

Next == Decode \/ \E r \in Readers : Return(r) \/ \E k \in todo[r] : TakeKey(r, k)
Spec == Init /\ [][Next]_vars
-----------------------------------------------------------------------------
\* Whatever order the map gives its keys in, an object is refused by all
\* readers or stored alike by all of them.
AnyOrder ==
    \A r, q \in Readers :
        (out[r] \in {"ok", "error"} /\ out[q] \in {"ok", "error"}) =>
            out[r] = out[q] /\ (out[r] = "ok" => slots[r] = slots[q])

\* A range that is accepted holds its start, the numbers cut to 16 bits: what
\* getNextPort and getNextAddr start from.
RangeSound ==
    \A r \in Readers :
        (level \in {"ports", "addrs"} /\ out[r] = "ok") =>
            LET g == RangeOf(slots[r]) IN g.Min <= g.Current /\ g.Current <= g.Max

\* "incr by default is 0" (README): a range without incr does not move.
DefaultIncrIsZero ==
    \A r \in Readers :
        (level \in {"ports", "addrs"} /\ out[r] = "ok" /\ "incr" \notin DOMAIN object) =>
            RangeOf(slots[r]).Incr = 0
=============================================================================
