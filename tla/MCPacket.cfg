SPECIFICATION PacketSpec
CONSTANTS Word = 32 BufLen = 20 Headroom = 8 PacketStructSize = 3 Lengths = {0, 1, 2, 4, 12, 13, 17, 20, 31}
    Any = Any Bad = Bad Comment = Comment Wrong = Wrong
INVARIANTS MbufSound EditsRight ChecksumsAccepted FirstLineWins
PROPERTIES OneEndMoves HeadersRight
CHECK_DEADLOCK FALSE
