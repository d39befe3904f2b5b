SPECIFICATION Spec
CONSTANTS
    Conns = {c1, c2}
    Subjects = {s1, s2}
    Sizes = {1, 3, 5}
    MaxBytes = 4
    MaxPerSubject = 2
    CompactAbove = 1
    MaxArrivals = 4
SYMMETRY Perms
INVARIANTS
    TypeOK
    NoPanic
    RingsHoldTheLive
    LiveAreQueued
    CountsExact
    BytesFit
PROPERTY
    KeepsTheNewest
