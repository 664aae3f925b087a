------------------------------ MODULE MCPacket ------------------------------
(***************************************************************************)
(* The parts of packages low and packet that work on one packet, in one    *)
(* run: the ends of an mbuf, edits in place, headers, checksums and access *)
(* control lists.  They share no state.  part names the one that moves in  *)
(* a behaviour; the others stay where they begin.                          *)
(***************************************************************************)
EXTENDS Mbuf, Sequences

CONSTANTS Any, Bad, Comment, Wrong  \* fields and lines of ACL files

VARIABLES
    part,
    eOff, eLen, ePkt, buf, ether, want, tags, raw, edits,
    state, len, hEther, etherType, vlan, ihl, totalLength, hProto, hOff, dgramLen,
    L3, L4, Data, olFlags, txLen, plSize, parsed,
    family, proto, cIP, seg, done,
    layer, jup, i, eth, ip, temp, status

editVars == <<eOff, eLen, ePkt, buf, ether, want, tags, raw, edits>>
headerVars == <<state, len, hEther, etherType, vlan, ihl, totalLength, hProto, hOff, dgramLen,
                L3, L4, Data, olFlags, txLen, plSize, parsed>>
checksumVars == <<family, proto, cIP, seg, done>>
aclVars == <<layer, jup, i, eth, ip, temp, status>>
-----------------------------------------------------------------------------
\* Files of up to two rules over one-bit addresses and two ports, with a field
\* of every kind that does not parse.
Net(f, a, m) == [fam |-> f, addr |-> <<a>>, mask |-> <<m>>]
Nets == {Any, Bad, Net(4, 1, 1), Net(4, 0, 0), Net(6, 1, 1)}
Line(s, d, id, sp, dp, o) ==
    [src |-> s, dst |-> d, id |-> id, sport |-> sp, dport |-> dp, out |-> o]
AddrLines == {Line(s, d, Any, Any, Any, o) : s \in Nets, d \in Nets, o \in {"Accept", "2"}}
PortLines == {Line(Any, Any, id, sp, dp, o) :
                 id \in {Any, "tcp", "icmp", Bad},
                 sp \in {Any, Bad, <<1, 1>>, <<1, 0>>, <<0, 1>>},
                 dp \in {Any, <<0, 0>>}, o \in {"Reject", Bad}}
L3Rules == AddrLines \cup PortLines
L2Rules == [src : {Any, Bad, <<0>>, <<1>>}, dst : {Any, Bad, <<1>>},
            id : {Any, Bad, "ipv4"}, out : {"Accept", "Reject", Bad}]
AllFrames == [src : {<<0>>, <<1>>}, dst : {<<0>>, <<1>>}, etherType : {2048, 2054, 34525}]
AllPackets == [fam : {4, 6}, src : {<<0>>, <<1>>}, dst : {<<0>>, <<1>>},
               proto : {1, 6, 17}, sport : 0..1, dport : 0..1]
              \cup [fam : {0}, src : {<<0>>}, dst : {<<0>>}, proto : {0}, sport : {0}, dport : {0}]

EditAt == {0, 7, 18}
EditBy == {5}
Payloads == {0, 1, 18, 27}

E == INSTANCE PacketEdit WITH Word <- 65536, BufLen <- 84, Headroom <- 60, PacketStructSize <- 16,
        Lengths <- EditBy, PacketLen <- 18, Starts <- EditAt, MaxEdits <- 4,
        dataOff <- eOff, dataLen <- eLen, pktLen <- ePkt
H == INSTANCE Headers WITH Room <- 80, PlSizes <- Payloads, IHLs <- {5, 6, 15}, DataOffs <- {5, 8, 15},
        hwtxchecksum <- TRUE, ether <- hEther, proto <- hProto, dataOff <- hOff
C == INSTANCE Checksum WITH Fills <- {0, 7, 255}, MaxPayload <- 3, IPOptions <- {0}, ip <- cIP
A == INSTANCE ACL WITH L2Lines <- L2Rules, L3Lines <- L3Rules, MaxRules <- 2,
        Frames <- AllFrames, Packets <- AllPackets, AddrBits <- 1, MaxPort <- 1
-----------------------------------------------------------------------------
PacketInit ==
    /\ part \in {"mbuf", "edit", "headers", "checksum", "acl"}
    /\ Init /\ (part # "mbuf" => dataLen = 0)
    /\ E!PInit /\ H!Init /\ C!Init /\ A!Init

Moving(X) == part = "mbuf" /\ X /\ UNCHANGED <<part, editVars, headerVars, checksumVars, aclVars>>
Editing(X) == part = "edit" /\ X /\ UNCHANGED <<part, mbuf, headerVars, checksumVars, aclVars>>
Parsing(X) == part = "headers" /\ X /\ UNCHANGED <<part, mbuf, editVars, checksumVars, aclVars>>
Summing(X) == part = "checksum" /\ X /\ UNCHANGED <<part, mbuf, editVars, headerVars, aclVars>>
Filtering(X) == part = "acl" /\ X /\ UNCHANGED <<part, mbuf, editVars, headerVars, checksumVars>>

PacketNext ==
    \/ \E length \in Lengths :
          Moving(PrependMbuf(length)) \/ Moving(AppendMbuf(length)) \/ Moving(AdjMbuf(length)) \/ Moving(TrimMbuf(length))
    \/ \E start \in EditAt, length \in EditBy :
          \/ start <= ePkt /\ (Editing(E!EncapsulateHead(start, length)) \/ Editing(E!EncapsulateTail(start, length)))
          \/ start + length <= ePkt
             /\ (Editing(E!DecapsulateHead(start, length)) \/ Editing(E!DecapsulateTail(start, length)))
          \/ Editing(E!PacketBytesChange(start, length))
    \/ /\ ~raw
       /\ \/ Editing(E!AddVLANTag) \/ Editing(E!RemoveVLANTag) \/ Editing(E!AddMPLS) \/ Editing(E!RemoveMPLS)
          \/ Editing(E!SetEtherType) \/ Editing(E!EncapsulateIPv4GTP) \/ Editing(E!DecapsulateIPv4GTP)
    \/ \E pl \in Payloads :
          \/ \E l3 \in {"none", "ipv4", "ipv6", "arp"} : Parsing(H!InitEmptyL3(l3, pl))
          \/ \E l4 \in {"tcp", "udp", "icmp"} : Parsing(H!InitEmptyL4("ipv4", l4, pl))
          \/ \E l4 \in {"tcp", "udp", "icmpv6"} : Parsing(H!InitEmptyL4("ipv6", l4, pl))
    \/ Parsing(H!Receive) \/ Parsing(H!AddVLANTag) \/ Parsing(H!ParseData) \/ Parsing(H!ParseDataCheckVLAN)
    \/ Parsing(H!SetHWCksumOLFlags)
    \/ Summing(C!Build) \/ Summing(C!Fill) \/ Summing(C!Complete) \/ Summing(C!Software) \/ Summing(C!CardSends)
    \/ Filtering(A!GetL2ACL) \/ Filtering(A!GetL3ACL)
    \/ Filtering(A!ParseL2) \/ Filtering(A!ParseL3) \/ Filtering(A!ParseDone)

PacketSpec == PacketInit /\ [][PacketNext]_<<part, mbuf, editVars, headerVars, checksumVars, aclVars>>
-----------------------------------------------------------------------------
\* Edits: the packet has the bytes the caller asked for in their places, with
\* packet.Ether at its start; headers added and removed again leave it as it
\* was, parsers find the IP header behind one VLAN tag or MPLS label, and the
\* length in a GTP header is that of the datagram behind it.
EditsRight ==
    E!ContentsRight /\ E!EtherAtStart /\ E!RoundTrip /\ E!ParsersSeeThroughTags /\ E!MessageLengthRight
\* Headers: an initialised packet parses back to the pointers and lengths it was
\* given, a parse that succeeds puts L3, L4 and Data on the headers, and the
\* card is told the protocols and header lengths of the packet.
HeadersRight == []H!LengthsAgree /\ H!InitParsesBack /\ H!ParsedRight /\ H!OffloadDescribesPacket
\* Checksums: a receiver accepts what the software functions calculated and
\* what the card makes of the pseudo header sum, and software never sends the
\* zero that UDP reserves.
ChecksumsAccepted == C!SoftwareAccepted /\ C!OffloadAccepted /\ C!UDPNeverZero
\* ACL: the tables of L2 and of L3 rules answer as the first line of the file
\* that covers the frame or packet.
FirstLineWins == A!L2FirstLineWins /\ A!L3FirstLineWins
=============================================================================
