CONSTANTS
    Request = {r1, r2}
    MaxLosses = 1
    Nothing = Nothing
SPECIFICATION StatusFairSpec
INVARIANTS TypeOK RegisteredIsTrue
PROPERTIES ConclusionStays StatusConcludes
CHECK_DEADLOCK FALSE
