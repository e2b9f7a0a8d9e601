\* Personal and joint account creation, holder add and remove (direct and
\* by contract), their callbacks and cancellation, and suspension; and the
\* address codec over bounded inputs.
CONSTANTS
    k1 = k1
    k2 = k2
    k3 = k3
    k4 = k4
    ja = ja
    jb = jb
    Kids <- MCKids
    JointIds <- MCJointIds
    MaxHolders = 3
    MaxContracts = 4
    IdLen = 2
    SumLen = 1
    AddrHexLen = 8
    Shake <- MCShake
    Codes <- MCCodes
    Ids <- MCIds
    Inputs <- MCInputs

INIT AccountsInit
NEXT AccountsNext
SYMMETRY MCSymmetry

INVARIANTS
    AccountsTypeOK
    JointMinHolders
    HolderRowsMatch
    AccountAddressesRoundTrip
    ParsedAddressesDerived
PROPERTY
    HolderAddBounded
