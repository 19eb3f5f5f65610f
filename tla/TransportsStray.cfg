SPECIFICATION Spec
CONSTANTS
    Peers = {p1, p2}
    Self = self
    MaxConns = 3
    MaxJobs = 1
    MaxResps = 2
INVARIANT ResponsesToSender
CHECK_DEADLOCK FALSE
