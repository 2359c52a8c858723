SPECIFICATION HistorySpec
CONSTANTS
    product = product
    monthly = monthly
    larger = larger
    None = None
    Workers = {w1, w2}
    Slots = {product}
    Resources = {r1, r2}
    Grants = {g1}
    GrantSlot <- MCGrantSlot
    GrantQuantity <- MCGrantQuantity
    Skus = {monthly}
    Included <- MCIncludedOne
    SubIds <- MCOneRow
    Items = {item1}
    MaxPeriod = 1
    MaxPlanChanges = 0
    MaxCancels = 1
    MaxRefunds = 1
SYMMETRY WorkerSymmetry
INVARIANTS
    TypeOK
    UsedIsBacked
    UsedWithinIncluded
    NoSpuriousRefusal
PROPERTIES
    PeriodNeverMovesBack
    UsageFallsForCause
CHECK_DEADLOCK FALSE
