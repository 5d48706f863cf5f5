SPECIFICATION FairSpec
CONSTANTS
    p1 = p1
    p2 = p2
    k1 = k1
    k2 = k2
    k3 = k3
    Plans = {p1, p2}
    Keys = {k1, k2, k3}
    KeysOf <- StepKeys
    Run = run
    confirm1 = confirm1
    confirm2 = confirm2
    Confirms = {confirm1, confirm2}
    Cancels = {cancel1}
    Faults = {"publish"}
    Losable = {confirm1, confirm2}
    MaxLosses = 1
    None = None
INVARIANTS
    TypeOK
    ApprovedRuns
    StepsHaveChildren
    AwaitingIsPending
PROPERTIES
    ConfirmedProceeds
CHECK_DEADLOCK FALSE
