SPECIFICATION Spec
CONSTANTS
    s1 = s1
    s2 = s2
    Servers = {}
    Optional = {}
    Faulty = FALSE
    MaxFrames = 2
    MaxRequests = 0
    MaxTimeouts = 1
PROPERTIES
    NotificationWakes
CHECK_DEADLOCK FALSE
