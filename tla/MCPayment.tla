----------------------------- MODULE MCPayment -----------------------------
(* Payment with two personal accounts, a customer and a merchant, and the  *)
(* joint genesis account that is also the fee target.                      *)
EXTENDS Payment

CONSTANTS c, m, g, ord, memo

MCPersonal == {c, m}
MCJoint == {g}
MCInitBal == (c :> 2) @@ (m :> 0) @@ (g :> 1)
MCRate == [num |-> 1, den |-> 2, max |-> 1]
MCInitPolicy == [target |-> g, rates |-> [fn \in {"transfer", "pay"} |-> MCRate]]
MCOrders == {ord}
MCMemos == {memo}
=============================================================================
