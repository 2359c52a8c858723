SPECIFICATION HistorySpec
CONSTANTS
    g1 = g1
    g2 = g2
    sku = sku
    product = product
    None = None
    Workers = {w1, w2, w3}
    Slots = {sku, product}
    Resources = {r1, r2}
    Grants = {g1, g2}
    GrantSlot <- MCGrantSlot
    GrantQuantity <- MCGrantQuantity
SYMMETRY WorkerSymmetry
INVARIANTS
    TypeOK
    CreditsAreConserved
    ConsumedIsRecorded
    NoSpuriousRefusal
    GrantsAddUp
PROPERTIES
    ImplementsAllowance
CHECK_DEADLOCK FALSE
