SPECIFICATION Spec
CONSTANTS
    Peers = {p1, p2}
    Self = self
    MaxConns = 3
    MaxJobs = 2
    MaxResps = 2
SYMMETRY PeerSymmetry
INVARIANTS TypeOK EntryNotEnded OwnConnectionRegistered FirstToDest StrayOnlyAfterBreak
CHECK_DEADLOCK FALSE
