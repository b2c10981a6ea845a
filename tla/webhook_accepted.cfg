SPECIFICATION Spec
CONSTANTS
    c1 = c1
    c2 = c2
    c3 = c3
    c4 = c4
    x1 = x1
    o1 = o1
    k1 = k1
    k2 = k2
    r1 = r1
    r2 = r2
    r3 = r3
    w1 = w1
    NoCall = NoCall
    Calls = {c1, c2}
    Keys = {k1}
    Prints = {"original", "changed"}
    Results = {r1}
    Unfit = {}
    KeyOf <- MCKeyOf
    PrintOf <- MCPrintOf
    FlowOf <- MCFlowOf
CHECK_DEADLOCK FALSE
INVARIANTS
    AcceptedCompletes
