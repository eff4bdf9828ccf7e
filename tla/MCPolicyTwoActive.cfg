SPECIFICATION PolicySpec
CONSTANTS
    Policy = {p1, p2, p3}
    Request = {r1, r2}
    NoPolicy = NoPolicy
INVARIANT
    ActiveIsUnique
