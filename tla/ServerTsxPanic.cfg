SPECIFICATION Spec
CONSTANTS
    Invites = {TRUE, FALSE}
    Reliables = {TRUE, FALSE}
    T1 = 1
    T2 = 8
    T4 = 10
    Cap = 2
    MaxProv = 2
    MaxMsgs = 3
INVARIANT ReceiverOutlivesLookup
