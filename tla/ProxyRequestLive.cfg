CONSTANTS
    alpha = alpha
    beta = beta
    delta = delta
    fast = fast
    deep = deep
    odd = odd
    NoBackend = NoBackend
    Names = {alpha, beta, delta}
    Engines = {fast, deep, odd}
    Requests = {r1}
    Files <- AllFiles
SPECIFICATION FairSpec
CHECK_DEADLOCK FALSE
PROPERTIES
    RequestAnswered
