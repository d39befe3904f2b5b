SPECIFICATION Spec
CONSTANTS
    None = None
    c1 = c1
    c2 = c2
    d1 = d1
    d2 = d2
    i1 = i1
    i2 = i2
    i3 = i3
    Unknown = Unknown
    Blank = Blank
    Missing = Missing
INVARIANTS
    LiveViewsFill
    ResourcesAreCurrent
    PlacesAreOfTheConnection
    SavedIsKept
    PanelsShowTheServer
    
    ReadingBackIsWhole
    TabsAreLetGo
    FeedIsAccounted
CHECK_DEADLOCK FALSE
