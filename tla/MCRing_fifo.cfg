CONSTANTS
    Producers = {p1, p2}
    Consumers = {c1}
    Item = {a, b}
    NoItem = NoItem
    Size = 4
    Word = 8
    MaxBurst = 3
SPECIFICATION BurstsSpec
SYMMETRY Symmetry
PROPERTY RefinesFIFO
