------------------------------- MODULE Ledger -------------------------------
(***************************************************************************)
(* The balance ledger of kiesnet-token (BalanceStub, FeeStub.CreateFee,     *)
(* FeeStub.CalcFee) driven by the transaction handlers that move value      *)
(* between accounts: transfer (instant, time-locked or escrowed in a        *)
(* multi-signature contract), the contract callbacks executeTransfer and    *)
(* cancelTransfer, balance/pending/withdraw, and account suspension.        *)
(*                                                                          *)
(* Every action is one chaincode transaction.  Fabric commits a transaction *)
(* atomically and serialises conflicting ones (MVCC), so a handler is one   *)
(* atomic step and a handler that returns an error changes nothing.         *)
(* Amounts are small integers (big.Int in the code); time is the            *)
(* transaction timestamp, a global clock `now`.                             *)
(***************************************************************************)
EXTENDS Integers, FiniteSets, FiniteSetsExt, Functions, TLC

CONSTANTS
    Personal,      \* personal account addresses
    Joint,         \* joint account addresses (two or more holders)
    Genesis,       \* the token's genesis account
    InitPolicy,    \* Token.FeePolicy when the token is created
    NoPolicy,      \* a nil FeePolicy
    InitBal,       \* initial balance of every account
    Amounts,       \* amounts a caller may ask to move (positive)
    MaxTime,       \* last value of the transaction clock
    MaxTx          \* number of transaction ids available to a behaviour

Accounts == Personal \cup Joint
Time == 1..MaxTime
TxIds == 1..MaxTx
NoTime == 0        \* "no pending time" (ptStr "0" in the contract document)

ASSUME /\ Genesis \in Accounts
       /\ InitBal \in [Accounts -> Nat]
       /\ Amounts \subseteq Nat \ {0}

VARIABLES
    bal,        \* BLC_<id>: Balance.Amount of every account
    suspended,  \* personal accounts whose SuspendedTime is set
    pending,    \* PBLC_<id>: pending balances, a function id -> record
    contracts,  \* contracts of the kiesnet-contract service, id -> record
    fees,       \* FEE_<id>: fee utxos not yet pruned
    now,        \* the transaction timestamp
    nextTx,     \* the id of the next transaction
    settled,    \* history: number of terminal transitions of each pending id
    policy      \* Token.FeePolicy: NoPolicy, or its target and its rates

ledgerVars == <<bal, suspended, pending, contracts, fees, now, nextTx, settled, policy>>

PendingRec == [type: {"account", "contract"}, account: Accounts,
               rid: Accounts \cup TxIds, amount: Nat, fee: Nat, ptime: Nat]
ContractRec == [kind: {"transfer", "pay"}, pb: TxIds, sender: Accounts,
                receiver: Accounts, pt: Nat, expiry: Nat,
                status: {"open", "executed", "cancelled"}]
FeeRec == [id: TxIds, account: Accounts, amount: Int, time: Time]
FeeFns == {"transfer", "pay"}   \* the functions a FeePolicy has rates for

TypeOK ==
    /\ bal \in [Accounts -> Int]
    /\ suspended \subseteq Personal
    /\ DOMAIN pending \subseteq TxIds /\ \A i \in DOMAIN pending : pending[i] \in PendingRec
    /\ DOMAIN contracts \subseteq TxIds /\ \A c \in DOMAIN contracts : contracts[c] \in ContractRec
    /\ fees \subseteq FeeRec
    /\ now \in Time
    /\ nextTx \in 1..(MaxTx + 1)
    /\ settled \in [TxIds -> Nat]
    /\ policy = NoPolicy \/ (policy.target \in Accounts /\ DOMAIN policy.rates \subseteq FeeFns)

-----------------------------------------------------------------------------
(* Helpers translated from the stubs.                                      *)

\* FeeStub.CalcFee: no fee without a policy, without a rate for function
\* fn, or for the genesis account or the policy's target; otherwise
\* floor(amount * rate), capped at MaxAmount when that is non-zero.
CalcFee(payer, fn, amount) ==
    IF \/ policy = NoPolicy
       \/ fn \notin DOMAIN policy.rates
       \/ payer \in {Genesis, policy.target}
    THEN 0
    ELSE LET rate == policy.rates[fn]
             f == (amount * rate.num) \div rate.den
         IN  IF rate.max > 0 /\ f > rate.max THEN rate.max ELSE f

\* Mutant: only positive fees are put.
CreateFeeSkipNegative(fs, account, amount, id, ts) ==
    IF amount <= 0 THEN fs
    ELSE fs \cup {[id |-> id, account |-> account, amount |-> amount, time |-> ts]}

\* FeeStub.CreateFee: a zero fee puts nothing; otherwise a fee utxo whose
\* id is the transaction id and whose time is the transaction time.
CreateFee(fs, account, amount, id, ts) ==
    IF amount = 0 THEN fs
    ELSE fs \cup {[id |-> id, account |-> account, amount |-> amount, time |-> ts]}

\* Mutant: the escrowed fee stored with its sign flipped.
NewPendingBalanceNegFee(type, owner, rel, amount, fee, ptime) ==
    [type |-> type, account |-> owner, rid |-> rel, amount |-> amount,
     fee |-> -fee, ptime |-> ptime]

\* NewPendingBalance: type is "contract" when the related object is a contract.
NewPendingBalance(type, owner, rel, amount, fee, ptime) ==
    [type |-> type, account |-> owner, rid |-> rel, amount |-> amount,
     fee |-> fee, ptime |-> ptime]

\* Mutant: the terminal transition is taken but the row is not deleted.
DelPendingKeepRow(id) ==
    /\ UNCHANGED pending
    /\ settled' = [settled EXCEPT ![id] = @ + 1]

\* DelState(CreatePendingKey(id)) with the terminal transition recorded.
DelPending(id) ==
    /\ pending' = Restrict(pending, DOMAIN pending \ {id})
    /\ settled' = [settled EXCEPT ![id] = @ + 1]

\* BalanceStub.Withdraw: the owner gets amount + fee back, the row is deleted.
Withdraw(id) ==
    LET pb == pending[id]
    IN  /\ bal' = [bal EXCEPT ![pb.account] = @ + pb.amount + pb.fee]
        /\ DelPending(id)

\* Mutant: the balance check forgets the fee.
AffordsAmountOnly(b, amount, fee) == b >= amount
\* The sender's balance covers the amount and the fee.
Affords(b, amount, fee) == b >= amount + fee

\* Mutant: the sender is debited the amount without the fee.
ChargeNoFee(amount, fee) == amount
\* What Transfer and Deposit take from the sender: amount + fee.
Charge(amount, fee) == amount + fee

\* BalanceStub.Transfer: a pending time after ts parks the amount in a
\* pending balance of the receiver (type account, no fee); otherwise the
\* receiver is credited.  The sender pays amount + fee and the fee is put.
BalanceTransfer(s, r, amount, fee, pt, id) ==
    /\ IF pt > now
       THEN /\ pending' = pending @@ (id :> NewPendingBalance("account", r, s, amount, 0, pt))
            /\ bal' = [bal EXCEPT ![s] = @ - Charge(amount, fee)]
       ELSE /\ bal' = [bal EXCEPT ![r] = @ + amount, ![s] = @ - Charge(amount, fee)]
            /\ UNCHANGED pending
    /\ fees' = CreateFee(fees, s, fee, id, now)

\* BalanceStub.Deposit: the sender pays amount + fee into a pending balance
\* of type contract whose pending time is the contract's expiry.
Deposit(id, s, cid, amount, fee, exp) ==
    /\ pending' = pending @@ (id :> NewPendingBalance("contract", s, cid, amount, fee, exp))
    /\ bal' = [bal EXCEPT ![s] = @ - Charge(amount, fee)]

\* Mutant: the escrowed fee stays in the re-wrapped pending balance and is
\* not put as a fee utxo.
TransferPendingBalanceFeeKept(pid, r, pt, id) ==
    LET pb == pending[pid]
    IN  /\ IF pt > now
           THEN /\ pending' = Restrict(pending, DOMAIN pending \ {pid})
                                @@ (id :> NewPendingBalance("account", r, pb.account, pb.amount, pb.fee, pt))
                /\ UNCHANGED <<bal, fees>>
           ELSE /\ bal' = [bal EXCEPT ![r] = @ + pb.amount]
                /\ pending' = Restrict(pending, DOMAIN pending \ {pid})
                /\ fees' = CreateFee(fees, pb.account, pb.fee, id, now)
        /\ settled' = [settled EXCEPT ![pid] = @ + 1]

\* BalanceStub.TransferPendingBalance: the escrow `pid` goes to receiver r,
\* re-wrapped as a time-locked pending balance under the new id when the
\* document's pending time is after ts; its fee is put and the row deleted.
TransferPendingBalance(pid, r, pt, id) ==
    LET pb == pending[pid]
    IN  /\ IF pt > now
           THEN /\ pending' = Restrict(pending, DOMAIN pending \ {pid})
                                @@ (id :> NewPendingBalance("account", r, pb.account, pb.amount, 0, pt))
                /\ UNCHANGED bal
           ELSE /\ bal' = [bal EXCEPT ![r] = @ + pb.amount]
                /\ pending' = Restrict(pending, DOMAIN pending \ {pid})
        /\ settled' = [settled EXCEPT ![pid] = @ + 1]
        /\ fees' = CreateFee(fees, pb.account, pb.fee, id, now)

-----------------------------------------------------------------------------
(* transfer (transfer_tx.go).  `multi` is the caller's choice of extra      *)
(* signers; a joint sender always needs its holders' signatures.  `pt` is   *)
(* the requested pending time and `exp` the contract's expiry time.         *)
Transfer(s, r, amount, pt, multi, exp) ==
    LET fee     == CalcFee(s, "transfer", amount)
        id      == nextTx
        signers == multi \/ s \in Joint
    IN  /\ nextTx <= MaxTx
        /\ s # r
        /\ s \notin suspended
        /\ r \notin suspended
        /\ Affords(bal[s], amount, fee)
        /\ nextTx' = nextTx + 1
        /\ IF signers
           THEN \* contract.CreateContract, then BalanceStub.Deposit
                /\ contracts' = contracts @@ (id :> [kind |-> "transfer", pb |-> id,
                        sender |-> s, receiver |-> r, pt |-> IF pt > now THEN pt ELSE NoTime,
                        expiry |-> exp, status |-> "open"])
                /\ Deposit(id, s, id, amount, fee, exp)
                /\ UNCHANGED fees
           ELSE /\ BalanceTransfer(s, r, amount, fee, pt, id)
                /\ UNCHANGED contracts
        /\ UNCHANGED <<suspended, now, settled, policy>>

\* executeTransfer: the contract service finalises contract `cid`.  The
\* pending balance must still exist and belong to that contract; it is then
\* handed to BalanceStub.TransferPendingBalance.
ExecuteTransfer(cid) ==
    LET c == contracts[cid]
    IN  /\ c.kind = "transfer" /\ c.status = "open" /\ now < c.expiry
        /\ nextTx <= MaxTx
        /\ c.pb \in DOMAIN pending
        /\ pending[c.pb].type = "contract" /\ pending[c.pb].rid = cid
        /\ nextTx' = nextTx + 1
        /\ TransferPendingBalance(c.pb, c.receiver, c.pt, nextTx)
        /\ contracts' = [contracts EXCEPT ![cid].status = "executed"]
        /\ UNCHANGED <<suspended, now, policy>>

\* Mutant: the cancel callback refuses a suspended sender's escrow.
CancelTransferChecksAccount(cid) ==
    LET c == contracts[cid]
    IN  /\ c.status = "open"
        /\ c.pb \in DOMAIN pending
        /\ pending[c.pb].type = "contract" /\ pending[c.pb].rid = cid
        /\ pending[c.pb].account \notin suspended
        /\ Withdraw(c.pb)
        /\ contracts' = [contracts EXCEPT ![cid].status = "cancelled"]
        /\ UNCHANGED <<suspended, fees, now, nextTx, policy>>

\* cancelTransfer (also the cancel callback of "pay"): the escrow goes back
\* to its owner through BalanceStub.Withdraw.
CancelTransfer(cid) ==
    LET c == contracts[cid]
    IN  /\ c.status = "open"
        /\ c.pb \in DOMAIN pending
        /\ pending[c.pb].type = "contract" /\ pending[c.pb].rid = cid
        /\ Withdraw(c.pb)
        /\ contracts' = [contracts EXCEPT ![cid].status = "cancelled"]
        /\ UNCHANGED <<suspended, fees, now, nextTx, policy>>

\* Mutant: the pending time is not compared with the transaction time.
BalancePendingWithdrawEarly(id) ==
    /\ id \in DOMAIN pending
    /\ pending[id].account \notin suspended
    /\ Withdraw(id)
    /\ UNCHANGED <<suspended, contracts, fees, now, nextTx, policy>>

\* balance/pending/withdraw: a holder of the pending balance's account takes
\* it back once its pending time has come.  The type is not checked.
BalancePendingWithdraw(id) ==
    /\ id \in DOMAIN pending
    /\ pending[id].ptime <= now
    /\ pending[id].account \notin suspended
    /\ Withdraw(id)
    /\ UNCHANGED <<suspended, contracts, fees, now, nextTx, policy>>

\* account/suspend and account/unsuspend (personal accounts only).
AccountSuspend(a) ==
    /\ a \notin suspended
    /\ suspended' = suspended \cup {a}
    /\ UNCHANGED <<bal, pending, contracts, fees, now, nextTx, settled, policy>>

AccountUnsuspend(a) ==
    /\ a \in suspended
    /\ suspended' = suspended \ {a}
    /\ UNCHANGED <<bal, pending, contracts, fees, now, nextTx, settled, policy>>

\* The environment: transaction time moves forward.
Tick ==
    /\ now < MaxTime
    /\ now' = now + 1
    /\ UNCHANGED <<bal, suspended, pending, contracts, fees, nextTx, settled, policy>>

-----------------------------------------------------------------------------
\* contractCallback: the contract service calls back contract cid, which is
\* routed to executeTransfer or cancelTransfer.
ContractCallback(cid) == ExecuteTransfer(cid) \/ CancelTransfer(cid)

LedgerInit ==
    /\ bal = InitBal
    /\ suspended = {}
    /\ pending = <<>>
    /\ contracts = <<>>
    /\ fees = {}
    /\ now = 1
    /\ nextTx = 1
    /\ settled = [i \in TxIds |-> 0]
    /\ policy = InitPolicy

LedgerNext ==
    \/ \E s, r \in Accounts, amount \in Amounts, pt \in {NoTime} \cup (now + 1)..MaxTime :
          \E multi \in (IF s \in Joint THEN {TRUE} ELSE BOOLEAN) :
            \E exp \in (IF multi THEN (now + 1)..(MaxTime + 1) ELSE {NoTime}) :
              Transfer(s, r, amount, pt, multi, exp)
    \/ \E cid \in DOMAIN contracts : ContractCallback(cid)
    \/ \E id \in DOMAIN pending : BalancePendingWithdraw(id)
    \/ \E a \in Personal : AccountSuspend(a) \/ AccountUnsuspend(a)
    \/ Tick

LedgerSpec == LedgerInit /\ [][LedgerNext]_ledgerVars

\* Fairness.  The contract service calls back every contract until a
\* callback succeeds (retries are its responsibility, and an expired
\* contract is cancelled), and transaction time moves on.  Clients and
\* administrators (transfers, withdrawals, suspension) are not fair.
LedgerFairness ==
    /\ \A cid \in TxIds : WF_ledgerVars(cid \in DOMAIN contracts /\ ContractCallback(cid))
    /\ WF_ledgerVars(Tick)

LedgerFairSpec == LedgerSpec /\ LedgerFairness

-----------------------------------------------------------------------------
(* Properties                                                              *)

\* Value held by the ledger: balances, escrowed pending balances (amount and
\* the fee taken with it) and fee utxos not yet pruned.
PendingValue == MapThenSumSet(LAMBDA i : pending[i].amount + pending[i].fee, DOMAIN pending)
FeeValue == MapThenSumSet(LAMBDA f : f.amount, fees)
LedgerValue == SumFunction(bal) + PendingValue + FeeValue

\* Conservation (spec section 8): transfers, escrow deposits, contract
\* execution and cancellation and pending withdrawal only move value between
\* balances, pending balances and fee utxos; the total never changes.
LedgerConservation == LedgerValue = SumFunction(InitBal)

\* Non-negativity (spec section 8): no balance ever goes below zero, however
\* transfers, deposits and callbacks interleave.
NonNegativeBalances == \A a \in Accounts : bal[a] >= 0

\* Escrow exclusivity (spec section 8): a pending balance reaches exactly one
\* terminal transition (execute, cancel or withdraw) and is gone afterwards;
\* a live pending balance has not been terminated.
EscrowExclusive ==
    \A i \in TxIds : /\ settled[i] <= 1
                     /\ i \in DOMAIN pending => settled[i] = 0

\* A time-locked pending balance (type account) is never paid out before
\* its pending time: balancePendingWithdraw compares PendingTime with the
\* transaction time.
TimeLockRespected ==
    [][\A i \in DOMAIN pending :
          (pending[i].type = "account" /\ i \notin DOMAIN pending')
              => now >= pending[i].ptime]_ledgerVars

\* A contract transfer pays out only to a receiver that is not suspended:
\* transfer refuses a suspended receiver ("the receiver account is
\* suspended"), so its escrowed form should not pay one either when the
\* contract executes.
ExecutedReceiverActive ==
    [][\A cid \in DOMAIN contracts :
         (contracts[cid].status = "open" /\ contracts'[cid].status = "executed")
             => contracts[cid].receiver \notin suspended]_ledgerVars

\* An escrow held for a contract is eventually released (paid out, relayed
\* into a time lock, returned by cancelTransfer or withdrawn), whatever
\* transfers and suspensions happen meanwhile: cancelTransfer does not look
\* at the accounts, so a suspended sender's escrow is not stranded.
EscrowReleased ==
    \A i \in TxIds :
        (i \in DOMAIN pending /\ pending[i].type = "contract") ~> (i \notin DOMAIN pending)

-----------------------------------------------------------------------------
(* Refinement: the ledger implements the abstract escrow ledger of module  *)
(* Escrow.  A pending balance of type contract is a revocable escrow of    *)
(* its owner for the contract's receiver, held until the contract's expiry *)
(* (its pending time); one of type account is a time lock of its owner.   *)
(* A pending id is closed once it has been settled, and the fee pool is    *)
(* the fee utxos.                                                          *)
EscrowOf(i) ==
    LET pb == pending[i]
    IN  [owner |-> pb.account,
         beneficiary |-> IF pb.type = "contract" THEN contracts[pb.rid].receiver
                                                 ELSE pb.account,
         amount |-> pb.amount, fee |-> pb.fee, unlock |-> pb.ptime,
         revocable |-> pb.type = "contract"]

Abstract == INSTANCE Escrow WITH
    Ids <- TxIds,
    Values <- 0..SumFunction(InitBal),
    Times <- 0..(MaxTime + 1),
    held <- [i \in DOMAIN pending |-> EscrowOf(i)],
    closed <- {i \in TxIds : settled[i] > 0},
    feePool <- FeeValue

\* The ledger implements the escrow ledger: every transfer, deposit,
\* executeTransfer (paid out, or relayed into a time lock of the receiver),
\* cancelTransfer and balance/pending/withdraw is a step of Escrow or leaves
\* its state alone.  In particular an escrowed fee goes to the fee utxos
\* when the contract executes and back to the sender when it is cancelled,
\* and a relayed time lock carries no fee.
EscrowRefinement == Abstract!Spec
=============================================================================
