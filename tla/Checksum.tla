------------------------------ MODULE Checksum ------------------------------
(***************************************************************************)
(* The checksums of package packet, in software and prepared for the       *)
(* network card, on packets held as bytes.  A little-endian machine loads  *)
(* two bytes as b1 + 256 * b2 and SwapBytesUint16 turns them round.        *)
(***************************************************************************)
EXTENDS Integers, Sequences, FiniteSets, FiniteSetsExt

CONSTANTS
    Fills,      \* values of header, address and payload bytes
    MaxPayload, \* bytes of payload, at most
    IPOptions   \* lengths of the options of IPv4 headers

VARIABLES
    family, proto,  \* 4 or 6; "tcp", "udp" or "icmp"
    ip, seg,        \* bytes of the IP header and of what follows it
    done            \* "no", "software" or "hardware"
vars == <<family, proto, ip, seg, done>>

SwapBytesUint16(x) == (x % 256) * 256 + x \div 256
Load16(b, i) == b[i + 1] + 256 * b[i + 2]
Word16(b, i) == SwapBytesUint16(Load16(b, i))
Stored(b, i, x) == LET s == SwapBytesUint16(x) IN [b EXCEPT ![i + 1] = s % 256, ![i + 2] = s \div 256]
Words(b, offsets) == MapThenSumSet(LAMBDA i : Word16(b, i), offsets)
Even(lo, hi) == {i \in lo..hi : i % 2 = 0}
Not16(x) == 65535 - x

Number == CASE proto = "tcp" -> 6 [] proto = "udp" -> 17 [] OTHER -> IF family = 4 THEN 1 ELSE 58
CksumAt == CASE proto = "tcp" -> 16 [] proto = "udp" -> 6 [] OTHER -> 2
HdrLen(p) == IF p = "tcp" THEN 20 ELSE 8
-----------------------------------------------------------------------------
\* Faulty: the last byte of an odd length is added as the low byte.
OddByteLow(b, from, length) ==
    MapThenSumSet(LAMBDA i : Word16(b, from + i), Even(0, length - 2))
    + IF length % 2 = 1 THEN b[from + length] ELSE 0
calculateDataChecksum(b, from, length) ==
    MapThenSumSet(LAMBDA i : Word16(b, from + i), Even(0, length - 2))
    + IF length % 2 = 1 THEN b[from + length] * 256 ELSE 0

reduceChecksum(sum) ==
    LET reduced[s \in Nat] == IF s > 65535 THEN reduced[(s \div 65536) + (s % 65536)] ELSE s
    IN  reduced[sum]

\* The fields of the minimal header without the checksum.
CalculateIPv4Checksum == Not16(reduceChecksum(Words(ip, Even(0, 18) \ {10})))

calculateIPv4AddrChecksum == Words(ip, {12, 14, 16, 18})
calculateIPv6AddrChecksum == Words(ip, Even(8, 38))
AddrChecksum == IF family = 4 THEN calculateIPv4AddrChecksum ELSE calculateIPv6AddrChecksum

\* TotalLength - IPv4MinLen, or PayloadLen.
DataLength == IF family = 4 THEN Word16(ip, 2) - 20 ELSE Word16(ip, 4)

\* What lies behind seg in the buffer is not part of the packet.
Memory == seg \o [k \in 1..64 |-> 170]
Payload == calculateDataChecksum(Memory, HdrLen(proto), DataLength - HdrLen(proto))

\* CalculateIPv4UDPChecksum and CalculateIPv6UDPChecksum
CalculateUDPChecksum ==
    LET sum == Payload + AddrChecksum + Number + Word16(seg, 4) + Words(seg, {0, 2, 4})
        retSum == Not16(reduceChecksum(sum))
    IN  IF retSum = 0 THEN Not16(retSum) ELSE retSum

calculateTCPChecksum == Words(seg, Even(0, 18) \ {16})
CalculateTCPChecksum ==
    Not16(reduceChecksum(Payload + AddrChecksum + Number + DataLength + calculateTCPChecksum))

ICMPHeader == Words(seg, {0, 4, 6})
CalculateICMPChecksum ==
    Not16(reduceChecksum(
        IF family = 4 THEN ICMPHeader + Payload
        ELSE Payload + AddrChecksum + DataLength + Number + ICMPHeader))

\* CalculatePseudoHdr for TCP and UDP over IPv4 and IPv6.
CalculatePseudoHdr ==
    reduceChecksum(AddrChecksum + Number + IF proto = "udp" THEN Word16(seg, 4) ELSE DataLength)
-----------------------------------------------------------------------------
\* The 16-bit one's complement sum of RFC 1071, as a receiver computes it.
OnesSum(b) ==
    LET sum == MapThenSumSet(LAMBDA k : b[k] * (IF k % 2 = 1 THEN 256 ELSE 1), DOMAIN b)
    IN  IF sum = 0 THEN 0 ELSE 1 + ((sum - 1) % 65535)
PseudoHeader ==
    LET length == <<0, 0, Len(seg) \div 256, Len(seg) % 256, 0, 0, 0, Number>>
    IN  IF family = 4 THEN SubSeq(ip, 13, 20) \o length ELSE SubSeq(ip, 9, 40) \o length
SegmentAccepted ==
    OnesSum((IF family = 4 /\ proto = "icmp" THEN <<>> ELSE PseudoHeader) \o seg) = 65535

IPv4Header(fill, options, total) ==
    <<69 + options \div 4, fill, total \div 256, total % 256, 0, fill, 64, 0, 64, Number>> \o
    <<0, 0>> \o [k \in 1..(8 + options) |-> fill]
IPv6Header(fill, total) ==
    <<96, 0, 0, 0, total \div 256, total % 256, Number, 255>> \o [k \in 1..32 |-> fill]
Segment(fill, payload) ==
    LET length == HdrLen(proto) + Len(payload)
        plain == [k \in 1..HdrLen(proto) |-> fill] \o payload
    IN  IF proto = "udp" THEN Stored(plain, 4, length) ELSE plain
\* The first word that makes the sum of the segment 65535.
Completed(s) ==
    LET zero == Stored(Stored(s, 0, 0), CksumAt, 0)
        sum == calculateDataChecksum(zero, 0, Len(zero)) + (IF proto = "udp" THEN AddrChecksum + Number + Len(zero) ELSE 0)
    IN  Stored(s, 0, Not16(reduceChecksum(sum)))

Init == family = 4 /\ proto = "udp" /\ ip = <<>> /\ seg = <<>> /\ done = "start"

Build ==
    /\ done # "no"
    /\ done' = "no" /\ family' \in {4, 6} /\ proto' \in {"tcp", "udp", "icmp"}
    /\ seg' = <<>> /\ ip' = <<>>

Fill ==
    /\ done = "no" /\ seg = <<>>
    /\ \E fill \in Fills, addr \in Fills, n \in 0..MaxPayload, options \in IPOptions :
          \E payload \in [1..n -> Fills] :
             /\ seg' = Segment(fill, payload)
             /\ ip' = IF family = 4 THEN IPv4Header(addr, options, 20 + options + Len(seg'))
                      ELSE IPv6Header(addr, Len(seg'))
    /\ UNCHANGED <<family, proto, done>>

Complete ==
    /\ done = "no" /\ seg # <<>>
    /\ seg' = Completed(seg) /\ seg' # seg
    /\ UNCHANGED <<family, proto, ip, done>>

\* The software checksums of the IPv4 header and of the segment.
Software ==
    /\ done = "no" /\ seg # <<>>
    /\ ip' = IF family = 4 THEN Stored(ip, 10, CalculateIPv4Checksum) ELSE ip
    /\ seg' = Stored(seg, CksumAt,
                     CASE proto = "udp" -> CalculateUDPChecksum
                       [] proto = "tcp" -> CalculateTCPChecksum
                       [] OTHER -> CalculateICMPChecksum)
    /\ done' = "software" /\ UNCHANGED <<family, proto>>

\* SetHWOffloadingHdrChecksum, then the card: it adds the segment to the sum it
\* finds in the checksum field and fills in the checksum of the IPv4 header.
SetHWOffloadingHdrChecksum ==
    IF proto = "icmp" THEN Stored(seg, CksumAt, CalculateICMPChecksum)
    ELSE Stored(seg, CksumAt, CalculatePseudoHdr)
CardSends ==
    /\ done = "no" /\ seg # <<>>
    /\ LET prepared == SetHWOffloadingHdrChecksum
           header == Stored(ip, 10, 0)
       IN  /\ seg' = IF proto = "icmp" THEN prepared ELSE Stored(prepared, CksumAt, Not16(OnesSum(prepared)))
           /\ ip' = IF family = 4 THEN Stored(header, 10, Not16(OnesSum(header))) ELSE ip
    /\ done' = "hardware" /\ UNCHANGED <<family, proto>>

Next == Build \/ Fill \/ Complete \/ Software \/ CardSends
Spec == Init /\ [][Next]_vars
-----------------------------------------------------------------------------
\* A receiver accepts the IPv4 header and the segment of a packet whose
\* checksums were calculated in software, whatever the length of the payload.
SoftwareAccepted ==
    done = "software" => SegmentAccepted /\ (family = 4 => OnesSum(ip) = 65535)

\* The sum of the pseudo header left in the checksum field is what the card
\* needs to send a segment that a receiver accepts.
OffloadAccepted == done = "hardware" => SegmentAccepted

\* UDP reserves zero for "no checksum", so software never sends it.
UDPNeverZero == (done = "software" /\ proto = "udp") => Word16(seg, 6) # 0
=============================================================================
