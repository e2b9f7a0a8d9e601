\* account/create with co-holders: can a joint account be created with
\* more holders than the limit (3 here, standing for 128)?
CONSTANTS
    IdLen = 2
    SumLen = 1
    AddrHexLen = 8
    Shake <- MCShake
    Codes <- MCCodes
    Ids <- MCIds
    Inputs <- MCInputs
    k1 = k1
    k2 = k2
    k3 = k3
    k4 = k4
    ja = ja
    jb = jb
    Kids <- MCKids
    JointIds <- MCJointIds
    MaxHolders = 3
    MaxContracts = 4

INIT AccountsInit
NEXT AccountsNext
SYMMETRY MCSymmetry

INVARIANT
    JointMaxHolders
