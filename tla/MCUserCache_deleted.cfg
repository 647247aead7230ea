SPECIFICATION Spec
CONSTANTS
    a = a
    b = b
    c = c
    t1 = t1
    t2 = t2
    p1 = p1
    p2 = p2
    Calls = {a, b, c}
    Telegrams = {t1, t2}
    Passwords = {p1, p2}
SYMMETRY Symmetry
INVARIANT DeletedIsGone
CHECK_DEADLOCK FALSE
