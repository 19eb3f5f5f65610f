SPECIFICATION Spec
CONSTANTS
    Atom <- MCAtom
    Numerals = {"0", "1", "2", "3", "4", "5", "6", "7", "8", "9", "05", "10", "13", "54", "60", "70", "80", "100", "120", "180", "200", "299", "307", "2001", "5060", "5061", "5070"}
    Bytes8 = {"0", "1", "2", "3", "4", "5", "6", "7", "8", "9", "05", "10", "13", "54", "60", "70", "80", "100", "120", "180", "200"}
    StreamItems <- MCStreamItems
    Datagrams <- MCDatagrams
    MaxWritten = 4
    Ports <- MCPorts
    Codes = {"100", "200"}
INVARIANTS WrittenIsRead AnswerAccepted NoRouteLost KeepalivesConserved
PROPERTIES Framing StreamDrains
CHECK_DEADLOCK FALSE
