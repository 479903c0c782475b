CONSTANTS
    alpha = alpha
    beta = beta
    delta = delta
    fast = fast
    deep = deep
    odd = odd
    NoBackend = NoBackend
    Names = {alpha, beta, delta}
    Engines = {fast, deep, odd}
    Requests = {r1, r2}
    Files <- AllFiles
SPECIFICATION Spec
SYMMETRY AnyOrder
CHECK_DEADLOCK FALSE
INVARIANTS
    TypeOK
    PolicyRespected
    UsesBalanced
    AnswerEarned
    
