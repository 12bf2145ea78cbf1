\* Two arguments would tell orders apart; three show a whole permutation.
\* Four slots: the window wraps at every offset and at every length.
CONSTANTS
    Items = {a, b, c}
    Capacity = 4
    NULL = NULL
SPECIFICATION Spec
INVARIANTS
    TypeOK
    IndicesAgree
    WindowFull
    NoLeak
PROPERTIES
    ImplementsFifo
