\* Pays, pay contracts, refunds and pay prunes that put fee rows of both
\* signs, and fee prunes sweeping them, with the safety flag, no clock
\* skew and the intended fee query (both bounds kept).
CONSTANTS
    c = c
    m = m
    g = g
    ord = ord
    memo = memo
    NoOrder = NoOrder
    Personal <- MCPersonal
    Joint <- MCJoint
    Genesis = g
    InitPolicy <- MCInitPolicy
    NoPolicy = NoPolicy
    InitBal <- MCInitBal
    Orders <- MCOrders
    Memos <- MCMemos
    Amounts = {1, 2}
    MaxTime = 3
    MaxTx = 4
    PruneSize = 4
    SafeMargin = 1
    PruneFlags = {TRUE}
    Delay = 0
    FeePruneSize = 4
    KeptBound = "both"
    FeePruneFlags = {TRUE}
INIT FeesInit
NEXT FeesNext
INVARIANTS
    FeesTypeOK
    FeesConservation
    FeeSweptOnce
    RefundAccounting
