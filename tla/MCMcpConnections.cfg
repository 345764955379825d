SPECIFICATION Spec
CONSTANTS
    Order <- MCOrder
    Http <- MCHttp
    Offers <- MCOffers
    AuthTool <- MCAuthTool
    MaxReconnects = 2
    s1 = s1
    s2 = s2
    shared = shared
    own = own
    auth1 = auth1
    auth2 = auth2
    None = None
INVARIANTS
    NoOrphanClient
    ToolsFollowStatus
PROPERTIES
    Settles
CHECK_DEADLOCK FALSE
