----------------------------- MODULE MbufProofs -----------------------------
(***************************************************************************)
(* The functions that move the ends of an mbuf keep its data inside the    *)
(* buffer, for every size of buffer, headroom and packet structure.        *)
(***************************************************************************)
EXTENDS Mbuf, TLAPS

\* uint16 loses nothing of a number below 2^16.
LEMMA U16Small == \A x \in 0..(Word - 1) : U16(x) = x
  BY MbufAssumption DEF U16

\* PrependMbuf, AppendMbuf, AdjMbuf and TrimMbuf keep the data inside.
LEMMA MbufStep ==
  ASSUME MbufSound, NEW length \in 0..(Word - 1),
         PrependMbuf(length) \/ AppendMbuf(length) \/ AdjMbuf(length) \/ TrimMbuf(length)
  PROVE  /\ MbufSound'
         /\ dataOff' = dataOff \/ dataOff' + dataLen' = dataOff + dataLen
<1> USE MbufAssumption DEF MbufSound
<1>1. U16(length) = length
  BY U16Small
<1>2. CASE PrependMbuf(length)
  <2>1. U16(dataOff - PacketStructSize) = dataOff - PacketStructSize
    BY U16Small
  <2>2. length <= dataOff - PacketStructSize
    BY <1>1, <1>2, <2>1 DEF PrependMbuf
  <2>3. U16(dataOff - length) = dataOff - length /\ U16(dataLen + length) = dataLen + length
    BY <2>2, U16Small
  <2>4. QED
    BY <1>1, <1>2, <2>2, <2>3 DEF PrependMbuf
<1>3. CASE AppendMbuf(length)
  <2>1. U16(BufLen - dataOff - dataLen) = BufLen - dataOff - dataLen
    BY U16Small
  <2>2. length <= BufLen - dataOff - dataLen
    BY <1>1, <1>3, <2>1 DEF AppendMbuf
  <2>3. U16(dataLen + length) = dataLen + length
    BY <2>2, U16Small
  <2>4. QED
    BY <1>1, <1>3, <2>2, <2>3 DEF AppendMbuf
<1>4. CASE AdjMbuf(length)
  <2>1. length <= dataLen
    BY <1>1, <1>4 DEF AdjMbuf
  <2>2. U16(dataOff + length) = dataOff + length /\ U16(dataLen - length) = dataLen - length
    BY <2>1, U16Small
  <2>3. QED
    BY <1>1, <1>4, <2>1, <2>2 DEF AdjMbuf
<1>5. CASE TrimMbuf(length)
  <2>1. length <= dataLen
    BY <1>1, <1>5 DEF TrimMbuf
  <2>2. U16(dataLen - length) = dataLen - length
    BY <2>1, U16Small
  <2>3. QED
    BY <1>1, <1>5, <2>1, <2>2 DEF TrimMbuf
<1>6. QED
  BY <1>2, <1>3, <1>4, <1>5

\* For every buffer, headroom and packet structure, calls with lengths below
\* 2^16 keep the data inside the buffer and the lengths equal.
THEOREM MbufStaysSound ==
  ASSUME Lengths \subseteq 0..(Word - 1)
  PROVE  Spec => []MbufSound
<1>1. Init => MbufSound
  BY MbufAssumption DEF Init, MbufSound
<1>2. MbufSound /\ [Next]_mbuf => MbufSound'
  BY MbufStep DEF Next, mbuf, MbufSound
<1>3. QED
  BY <1>1, <1>2, PTL DEF Spec

\* Under the same condition each call moves one end of the data only.
THEOREM MbufOneEndMoves ==
  ASSUME Lengths \subseteq 0..(Word - 1)
  PROVE  Spec => OneEndMoves
<1>1. MbufSound /\ [Next]_mbuf =>
        [dataOff' = dataOff \/ dataOff' + dataLen' = dataOff + dataLen]_mbuf
  BY MbufStep DEF Next
<1>2. QED
  BY <1>1, MbufStaysSound, PTL DEF Spec, OneEndMoves
=============================================================================
