\* Pays, pay contracts, refunds and prunes with the safety flag and no
\* clock skew; enough rows for one prune to take them all.
CONSTANTS
    c = c
    m = m
    g = g
    ord = ord
    memo = memo
    NoOrder = NoOrder
    Personal <- MCPersonal
    Joint <- MCJoint
    Genesis = g
    InitPolicy <- MCInitPolicy
    NoPolicy = NoPolicy
    InitBal <- MCInitBal
    Orders <- MCOrders
    Memos <- MCMemos
    Amounts = {1, 2}
    MaxTime = 2
    MaxTx = 4
    PruneSize = 4
    SafeMargin = 1
    PruneFlags = {TRUE}
    Delay = 0
INIT PaymentInit
NEXT PayEngineNext
INVARIANT OrderRecorded
