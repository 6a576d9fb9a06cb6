SPECIFICATION Spec
CONSTANTS
    Goods = {g1, g2}
    None = None
    Trips <- InvoicesOrDeposit
    Kinds <- SapKinds
    Keyboard = FALSE
    MaxActs = 3
SYMMETRY GoodsSymmetry
INVARIANTS TypeOK LoaderBalanced OnePressAtATime VrefOfToken
PROPERTIES LedgerKept
