-------------------------------- MODULE ACL --------------------------------
(* The access control lists of packet/acl.go: a file of rules is parsed, one *)
(* rule at a time, into the tables that l2ACL and l3ACL scan for a packet.   *)
(* Lines are taken as already split into fields; an address is a sequence of *)
(* bits, a field the code cannot parse is Bad, and the port range 0:65535 is *)
(* 0..MaxPort.                                                               *)
EXTENDS Integers, Sequences

CONSTANTS Any,        \* the field ANY
          Bad,        \* a field that does not parse; also the result "false"
                      \* that the readers add to a line without one
          Comment,    \* an empty line or a comment
          Wrong,      \* a line with too few or too many fields, or a JSON error
          L2Lines,    \* the rules an L2 file may hold
          L3Lines,    \* the rules an L3 file may hold
          MaxRules,   \* the longest file
          Frames,     \* the frames looked up in the L2 table
          Packets,    \* the packets looked up in the L3 tables
          AddrBits,   \* bits of an address
          MaxPort     \* 65535

VARIABLES layer,      \* 2 or 3: which parser runs
          jup,        \* the raw rules of the file
          i,          \* the rule the loop is at
          eth,        \* L2Rules.eth
          ip,         \* ip[4] and ip[6]: L3Rules.ip4 and L3Rules.ip6
          temp,       \* temp[4] and temp[6]: temp4 and temp6, kept over rules
          status      \* "start", "nil", "parsing", "ok", "error" or "panic"

vars == <<layer, jup, i, eth, ip, temp, status>>

Proto == [tcp |-> 6, udp |-> 17, icmp |-> 1]
EtherTypes == [ipv4 |-> 2048, ipv6 |-> 34525, arp |-> 2054]
NoBits == [b \in 1..AddrBits |-> 0]

(* parseRuleResult: Accept is 1, Reject is 0, any other word is a number.    *)
RuleResult(w) == CASE w = "Accept" -> 1 [] w = "Reject" -> 0 [] w = "2" -> 2
                   [] OTHER -> -1

(* parseL4Port: the range and whether it has to be looked at; min > max and  *)
(* what is no number are errors.                                             *)
L4Port(p) ==
    IF p \in {Any, <<0, MaxPort>>}
    THEN [min |-> 0, max |-> MaxPort, valid |-> FALSE, err |-> FALSE]
    ELSE IF p = Bad \/ p[1] > p[2]
    THEN [min |-> 0, max |-> 0, valid |-> FALSE, err |-> TRUE]
    ELSE [min |-> p[1], max |-> p[2], valid |-> TRUE, err |-> FALSE]

L4Bad(r) ==
    \/ r.id \notin DOMAIN Proto \cup {Any}
    \/ r.id = "icmp" /\ (r.sport # Any \/ r.dport # Any)
    \/ L4Port(r.sport).err \/ L4Port(r.dport).err

L4Rule(r) ==
    [id |-> IF r.id = Any THEN 0 ELSE Proto[r.id], masked |-> r.id # Any,
     valid |-> L4Port(r.sport).valid \/ L4Port(r.dport).valid,
     smin |-> L4Port(r.sport).min, smax |-> L4Port(r.sport).max,
     dmin |-> L4Port(r.dport).min, dmax |-> L4Port(r.dport).max]

(* The tables a rule goes to: both when both addresses are ANY. An IPv4 and  *)
(* an IPv6 address in one rule leave none.                                   *)
Families(r) == {f \in {4, 6} : \A a \in {r.src, r.dst} : a = Any \/ a.fam = f}

(* parseAddr4 and parseAddr6 of a network, or of 0.0.0.0/0 and ::/0 for ANY. *)
Network(a) == IF a = Any THEN [addr |-> NoBits, mask |-> NoBits]
                         ELSE [addr |-> a.addr, mask |-> a.mask]

EmptyTemp == [out |-> 0, src |-> Network(Any), dst |-> Network(Any),
              l4 |-> L4Rule([id |-> Any, sport |-> Any, dport |-> Any])]

(* Faulty: ANY leaves the source of the line before.                         *)
SrcOfStale(t, a) == IF a = Any THEN t.src ELSE Network(a)

(* temp4.SrcAddr or temp6.SrcAddr and their masks after a rule's source.     *)
SrcOf(t, a) == Network(a)

NewTemp(t, r) == [out |-> RuleResult(r.out), src |-> SrcOf(t, r.src),
                  dst |-> Network(r.dst), l4 |-> L4Rule(r)]

ZeroL2 == [out |-> 0, sNotAny |-> FALSE, dNotAny |-> FALSE,
           src |-> NoBits, dst |-> NoBits, id |-> 0, masked |-> FALSE]

(* Faulty: the destination is compared although the rule says ANY.           *)
L2EntryNotAny(r) == [ZeroL2 EXCEPT !.out = IF RuleResult(r.out) = -1 THEN 0
                                           ELSE RuleResult(r.out),
                                   !.dNotAny = TRUE]

(* What rawL2Parse has stored of rule r when it goes on or returns an error: *)
(* the result first, then source, destination and EtherType.                 *)
L2Entry(r) ==
    LET sBad == r.src = Bad
        dBad == sBad \/ r.dst = Bad
        iBad == dBad \/ r.id \notin DOMAIN EtherTypes
    IN  IF RuleResult(r.out) = -1 THEN ZeroL2
        ELSE [out |-> RuleResult(r.out),
              sNotAny |-> r.src # Any, dNotAny |-> ~sBad /\ r.dst # Any,
              src |-> IF r.src = Any \/ sBad THEN NoBits ELSE r.src,
              dst |-> IF r.dst = Any \/ dBad THEN NoBits ELSE r.dst,
              id |-> IF iBad THEN 0 ELSE EtherTypes[r.id], masked |-> ~iBad]

L2Bad(r) == \/ RuleResult(r.out) = -1
            \/ r.src = Bad \/ r.dst = Bad
            \/ r.id \notin DOMAIN EtherTypes \cup {Any}

-----------------------------------------------------------------------------
Files(lines) == UNION {[1..n -> lines] : n \in 0..MaxRules}

Init == /\ layer = 2 /\ jup = << >> /\ i = 1 /\ eth = << >>
        /\ ip = [f \in {4, 6} |-> << >>]
        /\ temp = [f \in {4, 6} |-> EmptyTemp]
        /\ status = "start"

(* The four readers: comments are skipped, a wrong line gives no rules at    *)
(* all, and the L2 table is allocated in full before the first rule.         *)
Read(l, lines) ==
    /\ status = "start" /\ layer' = l
    /\ \E file \in Files(lines \cup {Comment, Wrong}) :
        \/ /\ \E k \in DOMAIN file : file[k] = Wrong
           /\ status' = "nil" /\ UNCHANGED <<jup, eth>>
        \/ /\ \A k \in DOMAIN file : file[k] # Wrong
           /\ jup' = SelectSeq(file, LAMBDA r : r # Comment)
           /\ eth' = [k \in 1..(IF l = 2 THEN Len(jup') ELSE 0) |-> ZeroL2]
           /\ status' = "parsing"
    /\ UNCHANGED <<i, ip, temp>>

GetL2ACL == Read(2, L2Lines)
GetL3ACL == Read(3, L3Lines)

ParseL2 == /\ status = "parsing" /\ layer = 2 /\ i <= Len(jup)
           /\ eth' = [eth EXCEPT ![i] = L2Entry(jup[i])]
           /\ IF L2Bad(jup[i]) THEN status' = "error" /\ UNCHANGED i
                               ELSE i' = i + 1 /\ UNCHANGED status
           /\ UNCHANGED <<layer, jup, ip, temp>>

(* One turn of rawL3Parse. The error of ParseCIDR is dropped, so a network   *)
(* that does not parse is a nil pointer read on the next line.               *)
ParseL3 ==
    /\ status = "parsing" /\ layer = 3 /\ i <= Len(jup)
    /\ LET r == jup[i] IN
       \/ /\ L4Bad(r)
          /\ status' = "error" /\ UNCHANGED <<i, ip, temp>>
       \/ /\ ~L4Bad(r) /\ Bad \in {r.src, r.dst}
          /\ status' = "panic" /\ UNCHANGED <<i, ip, temp>>
       \/ /\ ~L4Bad(r) /\ Bad \notin {r.src, r.dst}
          /\ Families(r) = {} \/ RuleResult(r.out) = -1
          /\ status' = "error" /\ UNCHANGED <<i, ip, temp>>
       \/ /\ ~L4Bad(r) /\ Bad \notin {r.src, r.dst}
          /\ Families(r) # {} /\ RuleResult(r.out) # -1
          /\ temp' = [f \in {4, 6} |-> IF f \in Families(r)
                                       THEN NewTemp(temp[f], r) ELSE temp[f]]
          /\ ip' = [f \in {4, 6} |-> IF f \in Families(r)
                                     THEN Append(ip[f], temp'[f]) ELSE ip[f]]
          /\ i' = i + 1 /\ UNCHANGED status
    /\ UNCHANGED <<layer, jup, eth>>

ParseDone == /\ status = "parsing" /\ i > Len(jup)
             /\ status' = "ok" /\ UNCHANGED <<layer, jup, i, eth, ip, temp>>

Next == GetL2ACL \/ GetL3ACL \/ ParseL2 \/ ParseL3 \/ ParseDone

Spec == Init /\ [][Next]_vars
-----------------------------------------------------------------------------
(* The value of the first entry that matches, 0 when the loop runs out.      *)
FirstOut(table, Matches(_)) ==
    LET hits == {k \in DOMAIN table : Matches(table[k])}
    IN  IF hits = {} THEN 0
        ELSE table[CHOOSE k \in hits : \A h \in hits : k <= h].out

Covers(n, a) == \A b \in 1..AddrBits : n.mask[b] = 1 => n.addr[b] = a[b]

(* l2ACL *)
L2ACL(p) == FirstOut(eth, LAMBDA e : /\ e.sNotAny => e.src = p.src
                                     /\ e.dNotAny => e.dst = p.dst
                                     /\ e.masked => e.id = p.etherType)

(* l4ACL reads the ports where TCP and UDP have them.                        *)
L4ACL(l, p) == /\ l.smin <= p.sport /\ p.sport <= l.smax
               /\ l.dmin <= p.dport /\ p.dport <= l.dmax

(* l3ACL: the ports are looked at for IPv4 if the rule limits them, for IPv6 *)
(* always; a packet that is neither has no table.                            *)
L3ACL(p) == IF p.fam \notin {4, 6} THEN 0
            ELSE FirstOut(ip[p.fam], LAMBDA e :
                     /\ Covers(e.src, p.src) /\ Covers(e.dst, p.dst)
                     /\ e.l4.masked => e.l4.id = p.proto
                     /\ (p.fam = 6 \/ e.l4.valid) => L4ACL(e.l4, p))
-----------------------------------------------------------------------------
(* What a line of the file says of a packet, read field by field.            *)
InRange(p, port) == p = Any \/ (p[1] <= port /\ port <= p[2])
Inside(a, p, x) == a = Any \/ (a.fam = p.fam /\ Covers(a, x))
SaysL3(r, p) == /\ p.fam \in {4, 6}
                /\ Inside(r.src, p, p.src) /\ Inside(r.dst, p, p.dst)
                /\ r.id = Any \/ Proto[r.id] = p.proto
                /\ InRange(r.sport, p.sport) /\ InRange(r.dport, p.dport)
SaysL2(r, p) == /\ r.src \in {Any, p.src} /\ r.dst \in {Any, p.dst}
                /\ r.id = Any \/ EtherTypes[r.id] = p.etherType

(* The first of the parsed lines that says anything of p, 0 if there is none.*)
FirstLine(Says(_, _), p) ==
    LET hits == {k \in 1..(i - 1) : Says(jup[k], p)}
    IN  IF hits = {} THEN 0 ELSE CHOOSE k \in hits : \A h \in hits : k <= h

(* The L2 table answers a frame with the result of the first line of the     *)
(* file that covers it, and 0 when the whole file was parsed and no line     *)
(* does. Lines parsed before an error keep their answer: the zero entries    *)
(* rawL2Parse allocated for the later lines, which match every frame, and    *)
(* the half-filled entry of the line in error never come before them.        *)
L2FirstLineWins ==
    layer = 2 => \A p \in Frames :
        LET k == FirstLine(SaysL2, p)
        IN  IF k # 0 THEN L2ACL(p) = RuleResult(jup[k].out)
                     ELSE status = "ok" => L2ACL(p) = 0

(* The L3 tables answer a packet with the result of the first parsed line    *)
(* that covers it, although the lines are split over two tables, the         *)
(* temporaries are carried from one line to the next, and ports are checked  *)
(* on different conditions for IPv4 and IPv6; with no such line it is 0.     *)
L3FirstLineWins ==
    layer = 3 => \A p \in Packets :
        LET k == FirstLine(SaysL3, p)
        IN  L3ACL(p) = IF k # 0 THEN RuleResult(jup[k].out) ELSE 0
=============================================================================
