CONSTANTS
    None = None
    Token = {k1, t1}
    Key = {k1}
    Sid = {s1, s2}
    Worker = {w1, w2}
SPECIFICATION Spec
SYMMETRY Symmetry
INVARIANTS TypeOK TokensAgree NoTornToken NoCircularWait
PROPERTIES RefinesDirectory
CHECK_DEADLOCK TRUE
