\* Transfers (instant, time-locked, escrowed), contract callbacks, pending
\* withdrawal and suspension between two personal and one joint account.
CONSTANTS
    p1 = p1
    p2 = p2
    j1 = j1
    Personal <- MCPersonal
    Joint <- MCJoint
    Genesis = j1
    InitPolicy <- MCInitPolicy
    NoPolicy = NoPolicy
    InitBal <- MCInitBal
    Amounts = {1, 2}
    MaxTime = 2
    MaxTx = 3

SPECIFICATION LedgerFairSpec

INVARIANTS
    TypeOK
    LedgerConservation
    NonNegativeBalances
    EscrowExclusive
PROPERTY
    TimeLockRespected
    EscrowRefinement
    EscrowReleased
