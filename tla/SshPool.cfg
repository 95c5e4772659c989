SPECIFICATION Spec
CONSTANTS
    Ids = {i1, i2, i3}
    Callers = {u1, u2}
    Clients = {k1, k2, k3}
    MaxPool = 1
    None = None
SYMMETRY Symmetry
INVARIANTS TypeOK OvershootIsBounded PooledIsOpen
PROPERTY DroppedOnlyByRace
