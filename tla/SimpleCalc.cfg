\* Words of 4 bits and longs of 5: every pair of operands of every operator.
\* Numbers of up to 32 go one past both ends of the signed and the unsigned
\* range, of those whose negative is an unsigned word, and of a long.
CONSTANTS
    NUM_BITS = 4
    INT_MAX = 7
    ULONG_MAX = 31
    MaxValue = 32
    NULL = NULL
SPECIFICATION Spec
INVARIANTS
    TypeOK
    SignedAnswers
    SubOffByOne
    UnsignedAnswers
    StatusTells
\* The program ends.
CHECK_DEADLOCK FALSE
