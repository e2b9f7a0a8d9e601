\* token/create, directly and by contract, then mint and burn, directly
\* and by contract (genesis with one or two holders), with transfers out
\* of and back into the genesis account and token/update changing the fee
\* policy.
CONSTANTS
    p1 = p1
    j1 = j1
    Personal <- MCPersonal
    Joint <- MCJoint
    Genesis = j1
    InitPolicy = NoPolicy
    NoPolicy = NoPolicy
    InitBal <- MCInitBal
    Amounts = {1, 2}
    MaxTime = 2
    MaxTx = 3
    MaxSupply = 3
    SupplyAmounts <- MCSupplyAmounts
    HolderCounts = {1, 2}
    MetaPolicies <- MCMetaPolicies
    NoTarget = NoTarget
    InitialSupplies <- MCInitialSupplies

INIT TokenInit
NEXT TokenNext

INVARIANTS
    TokenTypeOK
    SupplyBounded
    SupplyMatchesValue
    NonNegativeBalances
    FeeRowsHavePolicy
