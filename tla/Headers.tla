------------------------------ MODULE Headers -------------------------------
(***************************************************************************)
(* Packets that are initialised empty or received, tagged and untagged,    *)
(* parsed, and prepared for checksum offload.  Header fields that the code *)
(* reads or writes are variables; L3, L4 and Data are addresses relative   *)
(* to where the packet started before any tag was added.                   *)
(***************************************************************************)
EXTENDS Integers, FiniteSets

CONSTANTS
    Room,       \* bytes of an empty mbuf
    PlSizes,    \* payload sizes asked for
    IHLs,       \* lengths of received IPv4 headers in words
    DataOffs,   \* lengths of received TCP headers in words
    hwtxchecksum

EtherLen == 14
VLANLen == 4
IPv4MinLen == 20
IPv6Len == 40
ARPLen == 28
L4Len(proto) == CASE proto = "tcp" -> 20 [] proto \in {"udp", "icmp", "icmpv6"} -> 8 [] OTHER -> 0
Protos == {"tcp", "udp", "icmp", "icmpv6", "none"}
None == -100    \* a pointer that was never set

VARIABLES
    state,              \* "empty", "init", "received" or "changed"
    len, ether,         \* length and start of the packet
    etherType, vlan,    \* of the Ethernet header and of the VLAN tag behind it
    ihl, totalLength, proto,            \* of the IP header; totalLength is PayloadLen in IPv6
    dataOff, dgramLen,                  \* of the TCP and UDP headers
    L3, L4, Data,                       \* packet structure
    olFlags, txLen,                     \* mbuf: offload flags, bytes with the header lengths
    plSize, parsed                      \* size asked for; result of the last parse
hdrs == <<etherType, vlan, ihl, totalLength, proto, dataOff, dgramLen>>
ptrs == <<L3, L4, Data>>
vars == <<state, len, ether, hdrs, ptrs, olFlags, txLen, plSize, parsed>>

Init ==
    /\ state = "empty" /\ len = 0 /\ ether = 0
    /\ etherType = "none" /\ vlan = "none" /\ ihl = 0 /\ totalLength = 0 /\ proto = "none"
    /\ dataOff = 0 /\ dgramLen = 0
    /\ L3 = None /\ L4 = None /\ Data = None
    /\ olFlags = {} /\ txLen = <<0, 0>> /\ plSize = 0 /\ parsed = 1

Unparsed == ether + EtherLen
U16(x) == x % 65536
\* setMbufLen packs l2_len into 7 bits and l3_len into 9.
setMbufLen(l2len, l3len) == <<(l2len % 128) + 128 * (l3len % 2), (l3len \div 2) % 256>>
TxL2 == txLen[1] % 128
TxL3 == txLen[1] \div 128 + 2 * txLen[2]

\* SetTXIPv4OLFlags and its TCP, UDP and IPv6 companions.
OLFlags(l3, l4) ==
    (IF l4 = "none" THEN {} ELSE {l4}) \union IF l3 = "ipv4" THEN {"ip", "ipv4"} ELSE {"ipv6"}
-----------------------------------------------------------------------------
\* Faulty: the options of IPv4 are not skipped.
AfterMinimalL3(l3) == IF l3 = "ipv4" THEN IPv4MinLen ELSE IPv6Len
\* ParseL4ForIPv4 and ParseL4ForIPv6: how far L4 is from L3.
AfterL3(l3) == IF l3 = "ipv4" THEN 4 * ihl ELSE IPv6Len

\* InitEmptyPacket, InitEmptyIPv4Packet, InitEmptyIPv6Packet, InitEmptyARPPacket
InitEmptyL3(l3, pl) ==
    LET hdr == CASE l3 = "ipv4" -> IPv4MinLen [] l3 = "ipv6" -> IPv6Len [] l3 = "arp" -> ARPLen [] OTHER -> 0
        size == EtherLen + hdr + IF l3 = "arp" THEN 0 ELSE pl
    IN  /\ state = "empty" /\ size <= Room
        /\ state' = "init" /\ plSize' = pl /\ len' = size
        /\ etherType' = l3
        /\ Data' = IF l3 = "arp" THEN Data ELSE Unparsed + hdr
        /\ L3' = IF l3 = "none" THEN L3 ELSE Unparsed
        /\ ihl' = IF l3 = "ipv4" THEN 5 ELSE ihl
        /\ totalLength' = CASE l3 = "ipv4" -> U16(IPv4MinLen + pl) [] l3 = "ipv6" -> U16(pl) [] OTHER -> totalLength
        /\ IF hwtxchecksum /\ l3 = "ipv4"
           THEN olFlags' = OLFlags("ipv4", "none") /\ txLen' = setMbufLen(EtherLen, IPv4MinLen)
           ELSE UNCHANGED <<olFlags, txLen>>
        /\ UNCHANGED <<ether, vlan, proto, dataOff, dgramLen, L4, parsed>>

\* fillIPv4Default and fillIPv6Default
DefaultLength(l3, l4, pl) == U16(L4Len(l4) + pl + IF l3 = "ipv4" THEN IPv4MinLen ELSE 0)

\* InitEmptyIPv4TCPPacket and the five functions like it.
InitEmptyL4(l3, l4, pl) ==
    LET hdr == IF l3 = "ipv4" THEN IPv4MinLen ELSE IPv6Len
        size == EtherLen + hdr + L4Len(l4) + pl
    IN  /\ state = "empty" /\ size <= Room
        /\ state' = "init" /\ plSize' = pl /\ len' = size
        /\ etherType' = l3 /\ proto' = l4
        /\ totalLength' = DefaultLength(l3, l4, pl)
        /\ ihl' = IF l3 = "ipv4" THEN 5 ELSE ihl
        /\ L3' = Unparsed /\ L4' = L3' + hdr
        /\ dataOff' = IF l4 = "tcp" THEN 5 ELSE dataOff
        /\ Data' = IF l4 = "tcp" THEN L4' + 4 * dataOff' ELSE Unparsed + hdr + L4Len(l4)
        /\ dgramLen' = IF l4 = "udp" THEN U16(L4Len("udp") + pl) ELSE dgramLen
        /\ IF hwtxchecksum /\ l4 \in {"tcp", "udp"}
           THEN olFlags' = OLFlags(l3, l4) /\ txLen' = setMbufLen(EtherLen, hdr)
           ELSE UNCHANGED <<olFlags, txLen>>
        /\ UNCHANGED <<ether, vlan, parsed>>

\* A packet from the wire; InitMbuf sets no pointer but Ether.
Receive ==
    /\ state = "empty" /\ state' = "received"
    /\ etherType' \in {"ipv4", "ipv6", "arp", "none", "vlan"}
    /\ vlan' \in IF etherType' = "vlan" THEN {"ipv4", "ipv6", "arp", "none"} ELSE {"none"}
    /\ ihl' \in IHLs /\ dataOff' \in DataOffs /\ proto' \in Protos
    /\ UNCHANGED <<len, ether, totalLength, dgramLen, ptrs, olFlags, txLen, plSize, parsed>>

AddVLANTag ==
    /\ state \in {"init", "received"} /\ etherType # "vlan"
    /\ ether' = ether - VLANLen /\ len' = len + VLANLen
    /\ etherType' = "vlan" /\ vlan' = etherType
    /\ state' = "changed"
    /\ UNCHANGED <<ihl, totalLength, proto, dataOff, dgramLen, ptrs, olFlags, txLen, plSize, parsed>>
-----------------------------------------------------------------------------
GetEtherType == IF etherType = "vlan" THEN vlan ELSE etherType

\* GetIPv4, GetIPv6 and GetARP after ParseL3, and their CheckVLAN forms.
KnownL3(t) == IF t \in {"ipv4", "ipv6", "arp"} THEN t ELSE "none"
ParseAllKnownL3 == L3' = Unparsed
ParseAllKnownL3CheckVLAN == L3' = Unparsed + IF etherType = "vlan" THEN VLANLen ELSE 0

\* ParseAllKnownL4ForIPv4 and ParseAllKnownL4ForIPv6
KnownL4(l3) ==
    IF (l3 = "ipv4" /\ proto \in {"tcp", "udp", "icmp"}) \/ (l3 = "ipv6" /\ proto \in {"tcp", "udp", "icmpv6"})
    THEN proto ELSE "none"

\* The rest of ParseData and of ParseDataCheckVLAN once L3 is known.
ParseRest(l3) ==
    /\ L4' = IF l3 \in {"ipv4", "ipv6"} THEN L3' + AfterL3(l3) ELSE L4
    /\ Data' = IF KnownL4(l3) = "none" THEN Data
               ELSE L4' + IF KnownL4(l3) = "tcp" THEN 4 * dataOff ELSE L4Len(KnownL4(l3))
    /\ parsed' = IF KnownL4(l3) = "none" THEN -1 ELSE 0
    /\ UNCHANGED <<state, len, ether, hdrs, olFlags, txLen, plSize>>

ParseData == state # "empty" /\ ParseAllKnownL3 /\ ParseRest(KnownL3(etherType))
ParseDataCheckVLAN == state # "empty" /\ ParseAllKnownL3CheckVLAN /\ ParseRest(KnownL3(GetEtherType))

SetHWCksumOLFlags ==
    LET l2len == EtherLen + IF etherType = "vlan" THEN VLANLen ELSE 0
        l3 == KnownL3(GetEtherType)
        l4 == IF KnownL4(l3) \in {"tcp", "udp"} THEN KnownL4(l3) ELSE "none"
        l3len == IF l3 = "ipv4" THEN IPv4MinLen ELSE IPv6Len
    IN  /\ state # "empty" /\ ParseAllKnownL3CheckVLAN
        /\ L4' = IF l3 \in {"ipv4", "ipv6"} THEN L3' + AfterL3(l3) ELSE L4
        /\ IF l3 = "ipv4" \/ (l3 = "ipv6" /\ l4 # "none")
           THEN olFlags' = OLFlags(l3, l4) /\ txLen' = setMbufLen(l2len, l3len)
           ELSE UNCHANGED <<olFlags, txLen>>
        /\ UNCHANGED <<state, len, ether, hdrs, Data, plSize, parsed>>

Next ==
    \/ \E pl \in PlSizes :
          \/ \E l3 \in {"none", "ipv4", "ipv6", "arp"} : InitEmptyL3(l3, pl)
          \/ \E l4 \in {"tcp", "udp", "icmp"} : InitEmptyL4("ipv4", l4, pl)
          \/ \E l4 \in {"tcp", "udp", "icmpv6"} : InitEmptyL4("ipv6", l4, pl)
    \/ Receive \/ AddVLANTag \/ ParseData \/ ParseDataCheckVLAN \/ SetHWCksumOLFlags
Spec == Init /\ [][Next]_vars
-----------------------------------------------------------------------------
\* A packet that was initialised parses back to the pointers it was given, and
\* parsing it again changes nothing.
InitParsesBack ==
    [][(state = "init" /\ proto # "none" /\ (ParseData \/ ParseDataCheckVLAN))
        => parsed' = 0 /\ UNCHANGED ptrs]_vars

\* The lengths in the headers of an initialised packet agree with the length of
\* the mbuf: IP total and payload length, UDP length, and plSize behind Data.
LengthsAgree ==
    state = "init" =>
        /\ etherType = "ipv4" => totalLength = len - EtherLen
        /\ etherType = "ipv6" => totalLength = len - EtherLen - IPv6Len
        /\ proto = "udp" => dgramLen = ether + len - L4
        /\ etherType # "arp" => ether + len - Data = plSize

\* The layout of the headers by the protocols' own definitions.
TrueL3 == EtherLen + ether + IF etherType = "vlan" THEN VLANLen ELSE 0
TrueL4 == TrueL3 + IF GetEtherType = "ipv4" THEN 4 * ihl ELSE IPv6Len
TrueData == TrueL4 + IF proto = "tcp" THEN 4 * dataOff ELSE 8

\* A parse that succeeds puts L3, L4 and Data on the headers, tagged or not, and
\* it succeeds for TCP, UDP and ICMP and for nothing else.
ParsedRight ==
    [][/\ (parsed' = 0 /\ (ParseData \/ ParseDataCheckVLAN)) => ptrs' = <<TrueL3, TrueL4, TrueData>>
       /\ ParseDataCheckVLAN =>
            (parsed' = 0 <=> \/ GetEtherType = "ipv4" /\ proto \in {"tcp", "udp", "icmp"}
                             \/ GetEtherType = "ipv6" /\ proto \in {"tcp", "udp", "icmpv6"})]_vars

\* After SetHWCksumOLFlags the card is told the protocols of the packet and the
\* lengths of its headers (IPv4 headers without options).
OffloadDescribesPacket ==
    [][(SetHWCksumOLFlags /\ GetEtherType \in {"ipv4", "ipv6"} /\ proto \in {"tcp", "udp"}
          /\ (GetEtherType = "ipv4" => ihl = 5))
        => /\ olFlags' = {GetEtherType, proto} \union IF GetEtherType = "ipv4" THEN {"ip"} ELSE {}
           /\ TxL2' = TrueL3 - ether /\ TxL3' = TrueL4 - TrueL3]_vars
=============================================================================
