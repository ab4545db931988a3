SPECIFICATION PartsSpec
CONSTANTS
    config = config
    db = db
    mailer = mailer
    Walk <- MCWalk
    Broken = {mailer}
    MaxCalls = 3
    m1 = m1
    m2 = m2
    A = A
    B = B
    C = C
    r1 = r1
    r2 = r2
    e1 = e1
    e2 = e2
    Modules = {m1, m2}
    Tokens = {A, B, C}
    Requests = {r1, r2}
    Graphs <- MCGraphs
    MaxDepth = 20
    Emits = {e1, e2}
    Patterns = {"user.*", "user.created"}
    Names = {"user.created", "user.deleted"}
    Matching <- MCMatching
    Priorities = {1, 2}
    MaxPerPattern = 2
    MaxId = 2
    MaxGuards = 2
    MaxInterceptors = 3
    MaxFilters = 2
INVARIANT
    RequestIsolated
CHECK_DEADLOCK FALSE
