\* A receiver suspended while a contract transfer to it is open is paid
\* when the contract executes.
CONSTANTS
    p1 = p1
    p2 = p2
    j1 = j1
    Personal <- MCPersonal
    Joint <- MCJoint
    Genesis = j1
    InitPolicy <- MCInitPolicy
    NoPolicy = NoPolicy
    InitBal <- MCInitBal
    Amounts = {1, 2}
    MaxTime = 2
    MaxTx = 3

INIT LedgerInit
NEXT LedgerNext

PROPERTY
    ExecutedReceiverActive
