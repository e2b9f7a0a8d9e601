------------------------------- MODULE MCToken -------------------------------
(* Model of the token for TLC: one personal account and the joint genesis  *)
(* account, both empty until token/create supplies the initial supply.    *)
EXTENDS Token

CONSTANTS p1, j1

MCPersonal == {p1}
MCJoint == {j1}
MCInitBal == (p1 :> 0) @@ (j1 :> 0)
\* fee = amount, at most 1
MCRate == [num |-> 1, den |-> 1, max |-> 1]
\* token/create and token/update answers: no fee, the transfer rate with no target, and the
\* transfer rate with the personal account as the new target
MCMetaPolicies == {NoPolicy,
                   [target |-> NoTarget, rates |-> [fn \in {"transfer"} |-> MCRate]],
                   [target |-> p1, rates |-> [fn \in {"transfer"} |-> MCRate]]}
\* the meta chaincode may answer a negative amount, which the handlers refuse
MCSupplyAmounts == {-1, 0, 1, 2}
\* initial_supply answers: none, some, and one above MaxSupply
MCInitialSupplies == {0, 2, 4}
=============================================================================
