SPECIFICATION HistorySpec
CONSTANTS
    product = product
    monthly = monthly
    larger = larger
    None = None
    Workers = {w1, w2}
    Slots = {product}
    Resources = {r1}
    Grants = {}
    GrantSlot <- MCGrantSlot
    GrantQuantity <- MCGrantQuantity
    Skus = {monthly, larger}
    Included <- MCIncludedTwo
    SubIds <- MCTwoRows
    Items = {item1, item2}
    MaxPeriod = 1
    MaxPlanChanges = 1
    MaxCancels = 1
    MaxRefunds = 0
SYMMETRY WorkerSymmetry
INVARIANTS
    RowsComeFromStripe
CHECK_DEADLOCK FALSE
