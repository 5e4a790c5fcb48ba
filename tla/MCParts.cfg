SPECIFICATION Spec
CHECK_DEADLOCK FALSE
CONSTANT
    Parts = {"handshake", "session", "database", "group", "relay", "links", "messages", "streams",
             "http", "data", "dates", "texts", "json", "xml", "addresses", "media", "services",
             "objects", "replies", "parsing", "packets", "tables", "frames"}
INVARIANTS
    TypeOK
    CookiesSound
    FoundIsAlive
    SessionSound
    DataKept
    IntroducedRight
    RelaysSound
    LinksSound
    MessagesSound
    PointersSound
    Watchable
    RequestsSound
     DatesSound AddressesRight RowsWhole ServicesSound
PROPERTIES
    EveryEndComes
