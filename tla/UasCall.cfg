SPECIFICATION FairSpec
CONSTANTS
    MaxCalls = 2
    MaxMsgs = 5
INVARIANTS
    TypeOK
    DialogWhileHeld
    GoneMeansOver
    MediaNeedsAnswer
    RefusedIfOvertaken
    AcceptedAgainAfterAck
    EntryOfLiveTsx
PROPERTIES
    AcceptEnds
