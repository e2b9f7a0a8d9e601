------------------------------- MODULE Escrow -------------------------------
(***************************************************************************)
(* What the ledger promises about value, without pending-balance rows,     *)
(* contracts or fee utxos: balances, a pool of fees taken, and escrows.    *)
(*                                                                          *)
(* An escrow holds an amount and a fee taken from a payer.  It has an      *)
(* owner, who gets amount and fee back when it is returned, and a          *)
(* beneficiary, who gets the amount when it is paid (the fee then goes to  *)
(* the pool).  A revocable escrow (one a contract guards) may be returned  *)
(* at any time and paid, or relayed into a new time-locked escrow of the   *)
(* beneficiary, while it is held; an irrevocable one (a time lock) is only *)
(* returned to its owner, and not before its unlock time.  Escrow ids are *)
(* never reused: a closed escrow stays closed.                             *)
(***************************************************************************)
EXTENDS Integers, TLC

CONSTANTS
    Accounts,  \* account addresses
    Ids,       \* escrow ids
    Values,    \* amounts and fees a step may move (0 included)
    Times,     \* unlock times
    MaxTime,   \* last value of the clock
    InitBal    \* the balances escrow starts from

VARIABLES
    bal,      \* spendable balance of each account
    held,     \* escrows being held: id -> EscrowRec
    closed,   \* ids of escrows that were returned, paid or relayed
    feePool,  \* fees taken so far
    now       \* the clock

EscrowRec == [owner: Accounts, beneficiary: Accounts, amount: Values, fee: Values,
              unlock: Times, revocable: BOOLEAN]

Fresh(id) == id \notin DOMAIN held \cup closed

\* Stop holding escrow id, and add `new` to what is held.
CloseInto(id, new) ==
    /\ held' = [i \in (DOMAIN held \ {id}) \cup DOMAIN new |->
                  IF i \in DOMAIN new THEN new[i] ELSE held[i]]
    /\ closed' = closed \cup {id}

NoEscrow == [i \in {} |-> {}]

\* Value moves from s to r; fee f goes to the pool.
Send(s, r, a, f) ==
    /\ bal[s] >= a + f
    /\ bal' = [bal EXCEPT ![s] = @ - (a + f), ![r] = @ + a]
    /\ feePool' = feePool + f
    /\ UNCHANGED <<held, closed, now>>

\* Payer s funds an escrow under a fresh id, and pays fee f to the pool.
\* The step adds one escrow, any EscrowRec, named e here.
Hold(id, s, f) ==
    /\ Fresh(id)
    /\ id \in DOMAIN held'
    /\ LET e == held'[id]
       IN  /\ e \in EscrowRec
           /\ bal[s] >= e.amount + e.fee + f
           /\ bal' = [bal EXCEPT ![s] = @ - (e.amount + e.fee + f)]
           /\ held' = [i \in DOMAIN held \cup {id} |-> IF i = id THEN e ELSE held[i]]
    /\ feePool' = feePool + f
    /\ UNCHANGED <<closed, now>>

\* The owner gets amount and fee back.
Return(id) ==
    LET e == held[id]
    IN  /\ e.revocable \/ now >= e.unlock
        /\ bal' = [bal EXCEPT ![e.owner] = @ + e.amount + e.fee]
        /\ CloseInto(id, NoEscrow)
        /\ UNCHANGED <<feePool, now>>

\* The beneficiary gets the amount; the fee goes to the pool.
PayOut(id) ==
    LET e == held[id]
    IN  /\ e.revocable
        /\ bal' = [bal EXCEPT ![e.beneficiary] = @ + e.amount]
        /\ feePool' = feePool + e.fee
        /\ CloseInto(id, NoEscrow)
        /\ UNCHANGED now

\* The amount goes on, time-locked until u, to the beneficiary under a
\* fresh id; the fee goes to the pool.
Relay(id, nid, u) ==
    LET e == held[id]
    IN  /\ e.revocable
        /\ Fresh(nid) /\ nid # id
        /\ u > now
        /\ CloseInto(id, nid :> [owner |-> e.beneficiary, beneficiary |-> e.beneficiary,
                                 amount |-> e.amount, fee |-> 0, unlock |-> u,
                                 revocable |-> FALSE])
        /\ feePool' = feePool + e.fee
        /\ UNCHANGED <<bal, now>>

Tick ==
    /\ now < MaxTime
    /\ now' = now + 1
    /\ UNCHANGED <<bal, held, closed, feePool>>

Init ==
    /\ bal = InitBal
    /\ held = NoEscrow
    /\ closed = {}
    /\ feePool = 0
    /\ now \in 0..MaxTime

Next ==
    \/ Tick
    \/ \E id \in DOMAIN held : Return(id) \/ PayOut(id)
    \/ \E id \in DOMAIN held, nid \in Ids, u \in Times : Relay(id, nid, u)
    \/ \E s, r \in Accounts, a, f \in Values : Send(s, r, a, f)
    \/ \E id \in Ids, s \in Accounts, f \in Values : Hold(id, s, f)

Spec == Init /\ [][Next]_<<bal, held, closed, feePool, now>>
=============================================================================
