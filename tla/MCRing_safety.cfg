CONSTANTS
    Producers = {p1, p2}
    Consumers = {c1, c2}
    Item = {a}
    NoItem = NoItem
    Size = 4
    Word = 8
    MaxBurst = 2
SPECIFICATION SidesSpec
SYMMETRY Symmetry
INVARIANTS IndicesInOrder ExclusiveSlots IInv
