SPECIFICATION FairSpec
CONSTANTS
    MaxSeq = 3
    Limit = 1
    Capacity = 1
    Window = 1
    Incidents = 1
    NoCursor = NoCursor
INVARIANTS
    TypeOK
PROPERTIES
    FeedKept
    SentOnce
    EventsArrive
    PurgeSurfaces
