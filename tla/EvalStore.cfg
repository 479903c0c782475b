\* Two commands over two candidates and a category of two fixtures, each batch in up to two writes.
SPECIFICATION Spec
CONSTANTS
    Users = {u1, u2}
    Candidates <- MCCandidates
    Selections <- MCSelections
    Outcomes <- MCOutcomes
    MaxBegun = 2
    MaxCompared = 1
    MaxWrites = 2
    None = None
SYMMETRY Symmetry
INVARIANTS PageIsTrue
PROPERTY EvidenceMovesOn
CHECK_DEADLOCK FALSE
