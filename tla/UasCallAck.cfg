SPECIFICATION Spec
CONSTANTS
    MaxCalls = 1
    MaxMsgs = 3
PROPERTIES
    AckReachesTsx
