\* Merchants prune pays without the safety flag, so two fee rows can share
\* a created_time; fee prunes, with the flag, sweep one row at a time.
CONSTANTS
    c = c
    m = m
    g = g
    ord = ord
    memo = memo
    NoOrder = NoOrder
    Personal <- MCPersonal
    Joint <- MCJoint
    Genesis = g
    InitPolicy <- MCInitPolicy
    NoPolicy = NoPolicy
    InitBal <- MCInitBal
    Orders <- MCOrders
    Memos <- MCMemos
    Amounts = {1, 2}
    MaxTime = 3
    MaxTx = 4
    PruneSize = 4
    SafeMargin = 1
    PruneFlags = {FALSE}
    Delay = 0
    FeePruneSize = 1
    KeptBound = "both"
    FeePruneFlags = {TRUE}
INIT FeesInit
NEXT FeesNext
INVARIANT NoStrandedFee
