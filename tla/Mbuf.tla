-------------------------------- MODULE Mbuf --------------------------------
(***************************************************************************)
(* The data area of one mbuf and the four functions of package low that    *)
(* move its ends.  Lengths are uint in the callers, uint16 in data_off and *)
(* data_len and uint32 in pkt_len.  A call that returns false changes      *)
(* nothing and is a stuttering step.                                       *)
(***************************************************************************)
EXTENDS Integers

CONSTANTS
    Word,               \* 2^16: the values of a uint16
    BufLen,             \* buf_len
    Headroom,           \* RTE_PKTMBUF_HEADROOM
    PacketStructSize,   \* the packet structure lies at the start of the headroom
    Lengths             \* lengths the callers pass

\* SetPacketStructSize refuses a structure that does not fit in the headroom.
ASSUME MbufAssumption ==
    /\ Word \in Nat \ {0} /\ BufLen \in 0..(Word - 1)
    /\ Headroom \in 0..BufLen /\ PacketStructSize \in 0..Headroom
    /\ Lengths \subseteq Nat

VARIABLES dataOff, dataLen, pktLen
mbuf == <<dataOff, dataLen, pktLen>>

U16(x) == x % Word

\* A received or allocated mbuf.
Init ==
    /\ dataOff = Headroom
    /\ dataLen \in 0..(BufLen - Headroom)
    /\ pktLen = dataLen

\* Faulty: the packet structure may be overwritten.
PrependOverStruct(length) ==
    /\ U16(length) <= dataOff
    /\ dataOff' = U16(dataOff - U16(length))
    /\ dataLen' = U16(dataLen + U16(length))
    /\ pktLen' = pktLen + length
PrependMbuf(length) ==
    /\ U16(length) <= U16(dataOff - PacketStructSize)
    /\ dataOff' = U16(dataOff - U16(length))
    /\ dataLen' = U16(dataLen + U16(length))
    /\ pktLen' = pktLen + length

AppendMbuf(length) ==
    /\ U16(length) <= U16(BufLen - dataOff - dataLen)
    /\ dataLen' = U16(dataLen + U16(length))
    /\ pktLen' = pktLen + length
    /\ UNCHANGED dataOff

\* Faulty: the length shrinks by the bytes removed and by those skipped.
AdjTwice(length) ==
    /\ 2 * U16(length) <= dataLen
    /\ dataOff' = U16(dataOff + U16(length))
    /\ dataLen' = U16(dataLen - 2 * U16(length))
    /\ pktLen' = pktLen - 2 * length
AdjMbuf(length) ==
    /\ U16(length) <= dataLen
    /\ dataOff' = U16(dataOff + U16(length))
    /\ dataLen' = U16(dataLen - U16(length))
    /\ pktLen' = pktLen - length

TrimMbuf(length) ==
    /\ U16(length) <= dataLen
    /\ dataLen' = U16(dataLen - U16(length))
    /\ pktLen' = pktLen - length
    /\ UNCHANGED dataOff

Next ==
    \E length \in Lengths :
        \/ PrependMbuf(length) \/ AppendMbuf(length) \/ AdjMbuf(length) \/ TrimMbuf(length)
Spec == Init /\ [][Next]_mbuf
-----------------------------------------------------------------------------
\* The data stays inside the buffer and clear of the packet structure, and the
\* two lengths of an mbuf that is not chained agree.
MbufSound ==
    /\ dataOff \in PacketStructSize..BufLen
    /\ dataLen \in 0..(BufLen - dataOff)
    /\ pktLen = dataLen

\* Each of the four functions moves one end of the data and leaves the other.
OneEndMoves ==
    [][dataOff' = dataOff \/ dataOff' + dataLen' = dataOff + dataLen]_mbuf
=============================================================================
