SPECIFICATION Spec
CONSTANTS
    Task = {c1, c2}
    NoTask = NoTask
    Cap = 3
    MaxAsk = 2
    LastMonth = 1
INVARIANTS
    BilledWithinCapAndCarry
PROPERTIES
    ImplementsAllowance
    EveryReserveAnswered
