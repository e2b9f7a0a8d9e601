------------------------------ MODULE MCAuditLog -----------------------------
(* Model of the audit log for TLC: two personal accounts and the joint     *)
(* genesis account, as in MCLedger.                                        *)
EXTENDS AuditLog

CONSTANTS p1, p2, j1

MCPersonal == {p1, p2}
MCJoint == {j1}
MCInitBal == (p1 :> 3) @@ (p2 :> 0) @@ (j1 :> 0)
MCRate == [num |-> 1, den |-> 2, max |-> 1]
MCInitPolicy == [target |-> j1, rates |-> [fn \in {"transfer"} |-> MCRate]]
=============================================================================
