SPECIFICATION FairSpec
CONSTANTS
    a = a
    b = b
    Nobody = Nobody
    Identity <- MCIdentities
    Item <- MCItems
    Above <- MCAbove
    Block <- MCBlocks
    Right <- MCRights
    Base <- MCBase
    Overridden <- MCOverridden
    Override <- MCOverride
    Accessible <- MCAccessible
    Restricted <- MCRestricted
    Granted <- MCGranted
    MaxTokens = 4
    MaxPages = 3
INVARIANTS
    TypeOK
    ProfileIsOwn
    MenuIsItsProfiles
PROPERTIES
    LogoutLasts
    SessionSettles
CHECK_DEADLOCK FALSE
