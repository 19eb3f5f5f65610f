SPECIFICATION FairSpec
CONSTANTS
    Invites = {TRUE, FALSE}
    Reliables = {TRUE, FALSE}
    T1 = 1
    T2 = 8
    T4 = 10
    Cap = 1
    MaxProv = 2
    MaxMsgs = 3
INVARIANTS TypeOK ReceiverOwned ProvisionalTaskServes ProvisionalsInOrder
PROPERTIES FinalTaskOnlyFinal EndsTerminated Finishes DeliveriesResolve
