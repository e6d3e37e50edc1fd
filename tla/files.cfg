SPECIFICATION Spec
CONSTANTS
    Pid = {p1, p2}
    Document = {d1, d2}
    NoFile = NoFile
    Torn = Torn
    MaxWrites = 4
    MaxFaults = 2
INVARIANTS
    Durable
    LitterByFaults
PROPERTIES
    ImplementsRegister
CHECK_DEADLOCK FALSE
