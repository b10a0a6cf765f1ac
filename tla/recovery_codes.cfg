SPECIFICATION Spec
CONSTANTS
    Handlers = {h1, h2}
    h1 = h1
    h2 = h2
    Passwords = {p1, p2}
    p1 = p1
    p2 = p2
    First = First
    None = None
    MaxMishaps = 0
PROPERTIES RecoveryCodesSignIn
CHECK_DEADLOCK FALSE
