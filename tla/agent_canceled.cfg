SPECIFICATION TaskSpec
CONSTANTS
    t1 = t1
    t2 = t2
    x1 = x1
    k1 = k1
    good = good
    failure = failure
    unfit = unfit
    NoCall = NoCall
    Calls = {t1, t2}
    Keys = {k1}
    Prints = {"original", "changed"}
    Results = {good}
    Unfit = {}
    Failures = {}
    KeyOf <- MCKeyOf
    PrintOf <- MCPrintOf
    FlowOf <- MCFlowOf
CHECK_DEADLOCK FALSE
INVARIANTS
    CanceledOnlyIfAsked
