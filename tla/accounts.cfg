SPECIFICATION Spec
CONSTANTS
    Handlers = {h1, h2, h3}
    h1 = h1
    h2 = h2
    h3 = h3
    Passwords = {p1, p2}
    p1 = p1
    p2 = p2
    First = First
    None = None
    MaxMishaps = 1
SYMMETRY Symmetry
INVARIANTS
    TypeOK
    RevokedOnChange
    SingleUse
    MfaConfirmed
    OneAcceptance
    RevokedStaysOut
    OneOpenInvitation
\* Every request is made once: in the end nothing is left to do.
CHECK_DEADLOCK FALSE
