SPECIFICATION FairSpec
CONSTANTS
    Invites = {TRUE, FALSE}
    Reliables = {TRUE, FALSE}
    T1 = 1
    T2 = 8
    T4 = 3
    Factor = 16
    Cap = 2
    MaxMsgs = 3
INVARIANTS TypeOK EntryWhileAlive Backoff NoTimeoutWhileRinging AckOnlyRefusals
PROPERTIES ReceivedInOrder QuietAfterProvisional WaitsEnd LingeringEnds
