SPECIFICATION Spec
CONSTANTS
    Invites = {TRUE, FALSE}
    Reliables = {TRUE, FALSE}
    T1 = 1
    T2 = 8
    T4 = 3
    Factor = 8
    Cap = 2
    MaxMsgs = 3
PROPERTY ClosedMeansClosed
