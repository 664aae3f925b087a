----------------------------- MODULE PacketEdit -----------------------------
(***************************************************************************)
(* The functions of package packet that add, remove and change bytes of a  *)
(* packet in place, and the VLAN, MPLS and GTP functions built on them.    *)
(* Bytes are tokens; want is the packet the caller asked for, with Unset   *)
(* for the bytes the caller has still to write.                            *)
(***************************************************************************)
EXTENDS Mbuf, Sequences

CONSTANTS
    PacketLen,      \* length of the packet before the edits
    Starts,         \* where the callers edit
    MaxEdits        \* bound on the edits of one packet

EtherLen == 14
VLANLen == 4
MPLSLen == 4
IPv4MinLen == 20
UDPLen == 8
GTPMinLen == 8

VARIABLES
    buf,        \* the buffer of the mbuf
    ether,      \* packet.Ether
    want,       \* the bytes the packet should have
    tags,       \* headers added by the library and not yet removed, outermost first
    raw,        \* whether the caller edited the bytes
    edits
vars == <<mbuf, buf, ether, want, tags, raw, edits>>

Addresses == 0..(BufLen - 1)
Unset == <<"unset">>
EtherType(t) == <<<<t, 1>>, <<t, 2>>>>
\* An IPv4 packet: addresses, EtherType and the bytes of the datagram.
Fresh == [b \in 1..PacketLen |->
            IF b \in {13, 14} THEN EtherType("ipv4")[b - 12] ELSE <<"byte", b>>]

PInit ==
    /\ dataOff = Headroom /\ dataLen = PacketLen /\ pktLen = PacketLen
    /\ buf = [a \in Addresses |-> IF a - Headroom \in 0..(PacketLen - 1)
                                  THEN Fresh[a - Headroom + 1] ELSE <<"free">>]
    /\ ether = Headroom /\ want = Fresh /\ tags = <<>> /\ raw = FALSE /\ edits = 0

\* StartAtOffset and unparsed.
StartAtOffset(offset) == ether + offset
Unparsed(e) == e + EtherLen

Written(b, at, bytes) == [a \in Addresses |-> IF a - at + 1 \in DOMAIN bytes THEN bytes[a - at + 1] ELSE b[a]]
Opened(start, length) ==
    SubSeq(want, 1, start) \o [k \in 1..length |-> Unset] \o SubSeq(want, start + 1, Len(want))
Closed(start, length) == SubSeq(want, 1, start) \o SubSeq(want, start + length + 1, Len(want))
Edited == edits < MaxEdits /\ edits' = edits + 1
-----------------------------------------------------------------------------
\* EncapsulateHead: the bytes before start move down by length.
HeadMoved(start, length) ==
    [a \in Addresses |-> IF a - (ether - length) \in 0..(start - 1) THEN buf[a + length] ELSE buf[a]]
HeadOpened(length) == Edited /\ PrependMbuf(length) /\ ether' = ether - length

EncapsulateHead(start, length) ==
    /\ HeadOpened(length)
    /\ buf' = HeadMoved(start, length)
    /\ want' = Opened(start, length) /\ raw' = TRUE /\ UNCHANGED tags

\* The bytes from start on move up by length.
EncapsulateTail(start, length) ==
    /\ Edited /\ AppendMbuf(length)
    /\ buf' = [a \in Addresses |-> IF a - ether \in (start + length)..(pktLen' - 1)
                                   THEN buf[a - length] ELSE buf[a]]
    /\ want' = Opened(start, length) /\ raw' = TRUE /\ UNCHANGED <<ether, tags>>

\* DecapsulateHead: the bytes before start move up over the removed ones.
HeadClosed(start, length) ==
    /\ Edited /\ AdjMbuf(length)
    /\ buf' = [a \in Addresses |-> IF a - ether - length \in 0..(start - 1)
                                   THEN buf[a - length] ELSE buf[a]]
    /\ ether' = ether + length
    /\ want' = Closed(start, length)

DecapsulateHead(start, length) == HeadClosed(start, length) /\ raw' = TRUE /\ UNCHANGED tags

\* Faulty: the bytes after the removed ones are copied from their old place.
TailKept(start, length) ==
    /\ Edited /\ TrimMbuf(length)
    /\ want' = Closed(start, length) /\ raw' = TRUE /\ UNCHANGED <<buf, ether, tags>>
\* The bytes after the removed ones move down; the loop runs to the old length,
\* so it also copies bytes past the end (<<"free">> past the end of the buffer).
DecapsulateTail(start, length) ==
    /\ Edited /\ TrimMbuf(length)
    /\ buf' = [a \in Addresses |-> IF a - ether \in start..(pktLen - 1)
                                   THEN IF a + length \in Addresses THEN buf[a + length] ELSE <<"free">>
                                   ELSE buf[a]]
    /\ want' = Closed(start, length) /\ raw' = TRUE /\ UNCHANGED <<ether, tags>>

PacketBytesChange(start, length) ==
    /\ Edited /\ start + length <= pktLen
    /\ LET bytes == [k \in 1..length |-> <<"new", k>>]
       IN  /\ buf' = Written(buf, StartAtOffset(start), bytes)
           /\ want' = SubSeq(want, 1, start) \o bytes \o SubSeq(want, start + length + 1, Len(want))
    /\ raw' = TRUE /\ UNCHANGED <<mbuf, ether, tags>>
-----------------------------------------------------------------------------
Type(b, at) ==
    IF b[at][1] = b[at + 1][1] /\ Len(b[at]) = 2 /\ b[at][2] = 1 THEN b[at][1] ELSE "unknown"
GetEtherType ==
    IF Type(buf, ether + 12) = "vlan" THEN Type(buf, Unparsed(ether) + 2) ELSE Type(buf, ether + 12)

AddVLANTag ==
    /\ HeadOpened(VLANLen)
    /\ LET moved == HeadMoved(EtherLen - 2, VLANLen)
           typed == Written(moved, ether' + 12, EtherType("vlan"))
       IN  buf' = Written(typed, Unparsed(ether'), <<<<"tci", 1>>, <<"tci", 2>>>>)
    /\ want' = SubSeq(want, 1, 12) \o EtherType("vlan") \o <<<<"tci", 1>>, <<"tci", 2>>>>
               \o SubSeq(want, 13, Len(want))
    /\ tags' = <<"vlan">> \o tags /\ UNCHANGED raw

\* Called on a packet whose GetVLAN is not nil.
RemoveVLANTag ==
    /\ tags # <<>> /\ tags[1] = "vlan"
    /\ HeadClosed(EtherLen - 2, VLANLen)
    /\ tags' = Tail(tags) /\ UNCHANGED raw

AddMPLS ==
    /\ HeadOpened(MPLSLen)
    /\ LET moved == HeadMoved(EtherLen, MPLSLen)
           typed == Written(moved, ether' + 12, EtherType("mpls"))
           label == [k \in 1..MPLSLen |-> <<"label", k>>]
       IN  /\ buf' = Written(typed, Unparsed(ether'), label)
           /\ want' = SubSeq(want, 1, 12) \o EtherType("mpls") \o label \o SubSeq(want, 15, Len(want))
    /\ tags' = <<"mpls">> \o tags /\ UNCHANGED raw

\* The EtherType remains that of MPLS until the caller sets it.
RemoveMPLS ==
    /\ tags # <<>> /\ tags[1] = "mpls"
    /\ HeadClosed(EtherLen, MPLSLen)
    /\ tags' = <<"bare">> \o Tail(tags) /\ UNCHANGED raw

\* The caller's part of RemoveMPLS.
SetEtherType ==
    /\ tags # <<>> /\ tags[1] = "bare"
    /\ LET t == EtherType(IF Len(tags) > 1 /\ tags[2] \in {"vlan", "mpls"} THEN tags[2] ELSE "ipv4")
       IN  /\ buf' = Written(buf, ether + 12, t)
           /\ want' = [want EXCEPT ![13] = t[1], ![14] = t[2]]
    /\ tags' = Tail(tags) /\ UNCHANGED <<mbuf, ether, raw, edits>>

OuterLen == IPv4MinLen + UDPLen + GTPMinLen

MessageLength == pktLen - EtherLen

EncapsulateIPv4GTP ==
    /\ HeadOpened(OuterLen)
    /\ LET gtp == <<<<"gtp", "header">>, <<"gtp", "type">>, <<"gtp", MessageLength>>, <<"gtp", MessageLength>>,
                    <<"teid", 1>>, <<"teid", 2>>, <<"teid", 3>>, <<"teid", 4>>>>
       IN  /\ buf' = Written(HeadMoved(EtherLen, OuterLen), Unparsed(ether') + IPv4MinLen + UDPLen, gtp)
           /\ want' = SubSeq(want, 1, EtherLen) \o [k \in 1..(IPv4MinLen + UDPLen) |-> Unset] \o gtp
                      \o SubSeq(want, EtherLen + 1, Len(want))
    /\ tags' = <<"gtp">> \o tags /\ UNCHANGED raw

DecapsulateIPv4GTP ==
    /\ tags # <<>> /\ tags[1] = "gtp"
    /\ HeadClosed(EtherLen, OuterLen)
    /\ tags' = Tail(tags) /\ UNCHANGED raw
-----------------------------------------------------------------------------
ParseL3 == Unparsed(ether)
ParseL3CheckVLAN ==
    IF Type(buf, ether + 12) = "vlan" THEN Unparsed(ether) + VLANLen ELSE Unparsed(ether)
ParseL3CheckMPLS ==
    IF Type(buf, ether + 12) = "mpls" THEN Unparsed(ether) + MPLSLen ELSE Unparsed(ether)
GTPIPv4FastParsing == Unparsed(ether) + IPv4MinLen + UDPLen

Edit(start, length) ==
    \/ start <= pktLen /\ (EncapsulateHead(start, length) \/ EncapsulateTail(start, length))
    \/ start + length <= pktLen /\ (DecapsulateHead(start, length) \/ DecapsulateTail(start, length))
    \/ PacketBytesChange(start, length)
TagEdit ==
    \/ AddVLANTag \/ RemoveVLANTag \/ AddMPLS \/ RemoveMPLS \/ SetEtherType
    \/ EncapsulateIPv4GTP \/ DecapsulateIPv4GTP

PNext ==
    \/ \E start \in Starts, length \in Lengths : Edit(start, length)
    \/ ~raw /\ TagEdit
PSpec == PInit /\ [][PNext]_vars
-----------------------------------------------------------------------------
\* After any edits the packet has the bytes the caller asked for, and every byte
\* the caller did not touch is where it belongs.
ContentsRight ==
    /\ Len(want) = pktLen
    /\ \A b \in DOMAIN want : want[b] # Unset => buf[StartAtOffset(b - 1)] = want[b]

\* packet.Ether follows the start of the data, which stays inside the buffer.
EtherAtStart == MbufSound /\ ether = dataOff

\* The parsers that check for a tag find the EtherType and the IP header behind
\* one VLAN tag or one MPLS label, wherever the packet now starts.
ParsersSeeThroughTags ==
    ~raw =>
        /\ tags \in {<<>>, <<"vlan">>} =>
               GetEtherType = "ipv4" /\ buf[ParseL3CheckVLAN] = <<"byte", EtherLen + 1>>
        /\ tags = <<"mpls">> => buf[ParseL3CheckMPLS] = <<"byte", EtherLen + 1>>
        /\ tags = <<>> => buf[ParseL3] = <<"byte", EtherLen + 1>>

\* The length in a GTP header is that of the datagram behind it.
MessageLengthRight ==
    (~raw /\ tags # <<>> /\ tags[1] = "gtp") =>
        buf[GTPIPv4FastParsing + 2] = <<"gtp", pktLen - EtherLen - OuterLen>>

\* Headers that were added and removed again, in any nesting, leave the packet
\* as it was.
RoundTrip ==
    (~raw /\ tags = <<>>) =>
        pktLen = PacketLen /\ \A b \in 1..PacketLen : buf[StartAtOffset(b - 1)] = Fresh[b]
=============================================================================
