------------------------------- MODULE Pktgen -------------------------------
(***************************************************************************)
(* nffPktgen's Generate: clones walk a table of mixes, each with its own   *)
(* copy of the table (Copy), but the PacketConfig the entries point to,    *)
(* and with it the ranges of ports and addresses, is shared by all clones. *)
(* The first mix has ranges, the others fixed values.  A packet takes its  *)
(* address and then its port, and the port in several steps.               *)
(***************************************************************************)
EXTENDS Integers, Sequences, FiniteSets

CONSTANTS
    Clones,
    Need,                       \* quantity of each mix, by its number in the file
    Uint16,                     \* 2^16, scaled down
    PortMin, PortMax, PortIncr,
    Byte,                       \* 256, scaled down
    AddrMin, AddrMax, AddrIncr, \* addresses of two bytes, as numbers
    MaxPackets                  \* bound on the packets generated

VARIABLES
    table,                      \* the order the mixes came out of the map in
    have, next,                 \* of each clone's genParameters
    portCurrent, addrCurrent,   \* Current of the shared ranges
    pc, nextPort, addr,         \* of each clone
    count,                      \* generator.count
    sent                        \* mixes of the packets each clone has made
vars == <<table, have, next, portCurrent, addrCurrent, pc, nextPort, addr, count, sent>>
shared == <<portCurrent, addrCurrent>>

Mixes == DOMAIN Need
Orders == {t \in [Mixes -> Mixes] : \A i, j \in Mixes : t[i] = t[j] => i = j}
unit(c) == table[next[c]]

\* ParseMixConfig appends in the order of the map; Copy gives each clone counters of its own.
Init ==
    /\ table \in Orders
    /\ have = [c \in Clones |-> [i \in Mixes |-> 0]]
    /\ next = [c \in Clones |-> 1]
    /\ portCurrent = PortMin /\ addrCurrent = AddrMin
    /\ pc = [c \in Clones |-> "idle"]
    /\ nextPort = [c \in Clones |-> PortMin] /\ addr = [c \in Clones |-> AddrMin]
    /\ count = 0 /\ sent = [c \in Clones |-> <<>>]

\* Faulty: the counter of the mix left is not reset.
ChooseNoReset(c) ==
    /\ pc[c] = "idle" /\ count < MaxPackets
    /\ IF Len(table) > 1 /\ have[c][next[c]] = Need[unit(c)]
       THEN next' = [next EXCEPT ![c] = IF @ < Len(table) THEN @ + 1 ELSE 1] /\ UNCHANGED have
       ELSE UNCHANGED <<have, next>>
    /\ pc' = [pc EXCEPT ![c] = "addr"]
    /\ UNCHANGED <<table, shared, nextPort, addr, count, sent>>
\* The first half of Generate: on to the next mix when this one has its quantity.
Choose(c) ==
    /\ pc[c] = "idle" /\ count < MaxPackets
    /\ IF Len(table) > 1 /\ have[c][next[c]] = Need[unit(c)]
       THEN /\ have' = [have EXCEPT ![c][next[c]] = 0]
            /\ next' = [next EXCEPT ![c] = IF @ < Len(table) THEN @ + 1 ELSE 1]
       ELSE UNCHANGED <<have, next>>
    /\ pc' = [pc EXCEPT ![c] = "addr"]
    /\ UNCHANGED <<table, shared, nextPort, addr, count, sent>>

\* The sum of two bytes is a byte: it is never more than 255 and no carry goes on.
addByte(a, b, carry) ==
    LET add == (a + b + carry) % Byte
    IN  [sum |-> IF add > Byte - 1 THEN Byte - 1 - add ELSE add, next |-> IF add > Byte - 1 THEN 1 ELSE 0]
addAddr(a, b) ==
    LET low == addByte(a % Byte, b % Byte, 0)
        high == addByte(a \div Byte, b \div Byte, low.next)
    IN  high.sum * Byte + low.sum

getNextAddr(a) == LET n == addAddr(a, AddrIncr) IN IF n < AddrMin \/ n > AddrMax THEN AddrMin ELSE n

TakeAddr(c) ==
    /\ pc[c] = "addr"
    /\ IF unit(c) = 1
       THEN /\ addrCurrent' = getNextAddr(addrCurrent)
            /\ addr' = [addr EXCEPT ![c] = getNextAddr(addrCurrent)]
            /\ pc' = [pc EXCEPT ![c] = "check"]
       ELSE pc' = [pc EXCEPT ![c] = "count"] /\ UNCHANGED <<addr, addrCurrent>>
    /\ UNCHANGED <<table, have, next, portCurrent, nextPort, count, sent>>

\* getNextPort: the check, the read and the update of port.Current.  The value
\* stored comes from the value read or from memory, as the compiler likes.
CheckPort(c) ==
    /\ pc[c] = "check"
    /\ portCurrent' = IF portCurrent < PortMin \/ portCurrent > PortMax THEN PortMin ELSE portCurrent
    /\ pc' = [pc EXCEPT ![c] = "read"]
    /\ UNCHANGED <<table, have, next, addrCurrent, nextPort, addr, count, sent>>

ReadPort(c) ==
    /\ pc[c] = "read"
    /\ nextPort' = [nextPort EXCEPT ![c] = portCurrent]
    /\ pc' = [pc EXCEPT ![c] = "add"]
    /\ UNCHANGED <<table, have, next, shared, addr, count, sent>>

AddPort(c) ==
    /\ pc[c] = "add"
    /\ portCurrent' \in {(nextPort[c] + PortIncr) % Uint16, (portCurrent + PortIncr) % Uint16}
    /\ pc' = [pc EXCEPT ![c] = "count"]
    /\ UNCHANGED <<table, have, next, addrCurrent, nextPort, addr, count, sent>>

\* The packet is complete.
Count(c) ==
    /\ pc[c] = "count"
    /\ count' = count + 1
    /\ have' = [have EXCEPT ![c][next[c]] = @ + 1]
    /\ sent' = [sent EXCEPT ![c] = Append(@, unit(c))]
    /\ pc' = [pc EXCEPT ![c] = "idle"]
    /\ UNCHANGED <<table, next, shared, nextPort, addr>>

Next == \E c \in Clones : Choose(c) \/ TakeAddr(c) \/ CheckPort(c) \/ ReadPort(c) \/ AddPort(c) \/ Count(c)
Spec == Init /\ [][Next]_vars
-----------------------------------------------------------------------------
\* The packets of a clone are the chain of quantities, in the order of `order',
\* over and over.
Chain(order) ==
    LET total == Need[1] + Need[2] + Need[3]
        place(k) == LET p == (k - 1) % total
                    IN  CASE p < Need[order[1]] -> order[1]
                          [] p >= total - Need[order[3]] -> order[3]
                          [] OTHER -> order[2]
    IN  \A c \in Clones : \A k \in DOMAIN sent[c] : sent[c][k] = place(k)

\* Every clone repeats the chain of quantities, in one order for all clones.
ChainRepeats == Chain(table)

\* "6 packets "mix1" configuration, 3 packets "mix2" configuration and 1 packet
\* "mix3" and this chain will be repeated" (README): the order of the file.
ChainInFileOrder == Chain([i \in Mixes |-> i])

\* Ports and addresses that go into packets lie between min and max.
InRange ==
    \A c \in Clones : pc[c] \in {"add", "count"} =>
        nextPort[c] \in PortMin .. PortMax /\ addr[c] \in AddrMin .. AddrMax

\* "if current < min or current > max, copy min to current": an address still
\* in the range is followed by the one incr further on.
AddrAdvances ==
    [][addrCurrent' # addrCurrent =>
        addrCurrent' = IF addrCurrent + AddrIncr \in AddrMin .. AddrMax
                       THEN addrCurrent + AddrIncr ELSE AddrMin]_vars
=============================================================================
