\* SubjectRing with a first allocation of two slots and shrinking above four,
\* so that every combination of wrap-around, growth and shrinking happens with
\* a handful of entries.
SPECIFICATION Spec
CONSTANTS
    Entry = {e1, e2}
    Nil = Nil
    MinCap = 2
    ShrinkAbove = 4
    MaxLen = 9
INVARIANTS
    TypeOK
    LiveSlotsOnly
PROPERTY
    RingIsQueue
