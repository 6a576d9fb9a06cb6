SPECIFICATION FairSpec
CONSTANTS
    Goods = {g1}
    None = None
    Trips <- AnyMix
    Kinds <- AllKinds
    Keyboard = TRUE
    MaxActs = 2
INVARIANTS OneChargePerAct
PROPERTIES HandlersEnd ReturnPageLeft LedgerKept
