CONSTANTS
    i1 = i1
    b1 = b1
    c1 = c1
    Processes = {p1, p2}
    Images = {i1, b1, c1}
    CloudImages = {c1}
    Blank = {b1}
    NumWorkers = 2

SPECIFICATION Spec

INVARIANTS
    AnswersAgree
    SuccessIsGenuine

PROPERTIES
    UnknownIsNotAtWork
    OutcomeIsKept

SYMMETRY Interchangeable

\* Every image may have been answered and nothing polled again.
CHECK_DEADLOCK FALSE
