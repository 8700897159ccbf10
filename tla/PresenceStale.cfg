SPECIFICATION FairSpec
CONSTANTS
    u1 = u1
    u2 = u2
    c1 = c1
    c2 = c2
    Users <- OneUser
    Conns <- TwoConns
    Secure = TRUE
    Basic = FALSE
CHECK_DEADLOCK FALSE
PROPERTIES UserGoesOffline
