------------------------------ MODULE MCLedger ------------------------------
(* Model of the ledger for TLC: two personal accounts and the joint        *)
(* genesis account, which is also the fee target.                          *)
EXTENDS Ledger

CONSTANTS p1, p2, j1

MCPersonal == {p1, p2}
MCJoint == {j1}
MCInitBal == (p1 :> 3) @@ (p2 :> 0) @@ (j1 :> 0)
\* fee = floor(amount / 2), at most 1: amount 1 pays no fee, 2 pays 1
MCRate == [num |-> 1, den |-> 2, max |-> 1]
MCInitPolicy == [target |-> j1, rates |-> [fn \in {"transfer"} |-> MCRate]]
=============================================================================
