\* Pays, refunds and pay prunes that put fee rows of both signs, and fee
\* prunes sweeping them, where the store keeps only the $lte bound of the query.
CONSTANTS
    c = c
    m = m
    g = g
    ord = ord
    memo = memo
    NoOrder = NoOrder
    Personal <- MCPersonal
    Joint <- MCJoint
    Genesis = g
    InitPolicy <- MCInitPolicy
    NoPolicy = NoPolicy
    InitBal <- MCInitBal
    Orders <- MCOrders
    Memos <- MCMemos
    Amounts = {1, 2}
    MaxTime = 3
    MaxTx = 4
    PruneSize = 4
    SafeMargin = 1
    PruneFlags = {TRUE}
    Delay = 0
    FeePruneSize = 4
    KeptBound = "upper"
    FeePruneFlags = {TRUE}
INIT FeesInit
NEXT FeesNext
INVARIANT FeeSweptOnce
