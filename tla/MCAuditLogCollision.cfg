\* Two transactions of the same account with the same timestamp: the
\* second balance log row replaces the first.
CONSTANTS
    p1 = p1
    p2 = p2
    j1 = j1
    Personal <- MCPersonal
    Joint <- MCJoint
    Genesis = j1
    InitPolicy <- MCInitPolicy
    NoPolicy = NoPolicy
    InitBal <- MCInitBal
    Amounts = {1, 2}
    MaxTime = 2
    MaxTx = 3

INIT AuditInit
NEXT AuditNext

INVARIANT
    LogsMatchBalance
