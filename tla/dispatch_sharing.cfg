SPECIFICATION Spec
CONSTANTS
    a1 = a1
    a2 = a2
    a3 = a3
    b1 = b1
    k1 = k1
    k2 = k2
    Nobody = Nobody
    Askers = {a1, a2, b1}
    Keys = {k1, k2}
    KeyOf <- MCKeyOf
    Series = {k1}
    Width <- MCWidth
    Outcomes = {"FAILED"}
CHECK_DEADLOCK FALSE
INVARIANTS
    OneExecutionAtATime
PROPERTIES
    RetriesShare
    ImplementsSharedWork
    DispatchesEnd
