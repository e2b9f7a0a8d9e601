------------------------------ MODULE AuditLog ------------------------------
(***************************************************************************)
(* The balance log rows that the ledger's handlers write beside their      *)
(* balance updates (balance.go, BalanceStub.PutBalanceLog).  Each handler  *)
(* of Ledger is taken whole and conjoined with the rows it puts:           *)
(*                                                                          *)
(*   transfer, instant      Receive row of the receiver, Send row of the   *)
(*                          sender (amount negated, fee recorded)          *)
(*   transfer, time lock    Send row of the sender only                    *)
(*   transfer, contract     Deposit row of the sender (BalanceStub.Deposit)*)
(*   executeTransfer        Receive row of the receiver, unless re-wrapped *)
(*                          into a time lock                               *)
(*   cancel / withdraw      Withdraw row of the owner (amount + fee)       *)
(*                                                                          *)
(* A row is stored under the key BLOG_<address>_<created_time in ns>, and  *)
(* PutState replaces whatever the key held.  The model's clock `now` is    *)
(* the transaction timestamp: two transactions with the same `now` carry   *)
(* the same timestamp.  Rows of pay, refund, the prunes, mint and burn are *)
(* not modelled here (those handlers are not part of Ledger).              *)
(***************************************************************************)
EXTENDS Ledger

VARIABLE
    blog    \* the balance log rows: <<address, created time>> -> row

auditVars == <<ledgerVars, blog>>

\* Every row records the account's balance after the step (Amount).
\* NewBalanceTransferLog: the sender's row has the negated amount and the
\* fee; the receiver's row the amount and no fee.
SendLog(amount, fee, after) == [type |-> "send", diff |-> -amount, fee |-> fee, amount |-> after]
ReceiveLog(amount, after) == [type |-> "receive", diff |-> amount, fee |-> 0, amount |-> after]

\* NewBalanceDepositLog: the negated amount, and the escrowed fee.
DepositLog(pb, after) == [type |-> "deposit", diff |-> -pb.amount, fee |-> pb.fee, amount |-> after]

\* NewBalanceWithdrawLog: amount + fee come back; no fee is recorded.
WithdrawLog(pb, after) == [type |-> "withdraw", diff |-> pb.amount + pb.fee, fee |-> 0, amount |-> after]

\* PutBalanceLog under CreateLogKey(address, created time): rows maps the
\* keys written by one transaction to their rows; an existing row with the
\* same key is replaced.
PutBalanceLogs(rows) == blog' = rows @@ blog

-----------------------------------------------------------------------------
\* transfer, with the rows of the branch BalanceStub.Transfer or Deposit
\* takes.
TransferLogged(s, r, amount, pt, multi, exp) ==
    LET fee == CalcFee(s, "transfer", amount)
    IN  /\ Transfer(s, r, amount, pt, multi, exp)
        /\ PutBalanceLogs(
              IF multi \/ s \in Joint
              THEN <<s, now>> :> DepositLog([amount |-> amount, fee |-> fee], bal'[s])
              ELSE IF pt > now
              THEN <<s, now>> :> SendLog(amount, fee, bal'[s])
              ELSE (<<s, now>> :> SendLog(amount, fee, bal'[s]))
                   @@ (<<r, now>> :> ReceiveLog(amount, bal'[r])))

\* executeTransfer: TransferPendingBalance logs the receiver's credit; the
\* re-wrap into a time lock writes no row.
ExecuteTransferLogged(cid) ==
    LET c == contracts[cid]
    IN  /\ ExecuteTransfer(cid)
        /\ IF c.pt > now
           THEN UNCHANGED blog
           ELSE PutBalanceLogs(<<c.receiver, now>> :>
                                   ReceiveLog(pending[c.pb].amount, bal'[c.receiver]))

\* cancelTransfer and balance/pending/withdraw: BalanceStub.Withdraw logs
\* the owner's credit.
CancelTransferLogged(cid) ==
    LET pb == pending[contracts[cid].pb]
    IN  /\ CancelTransfer(cid)
        /\ PutBalanceLogs(<<pb.account, now>> :> WithdrawLog(pb, bal'[pb.account]))

BalancePendingWithdrawLogged(id) ==
    /\ BalancePendingWithdraw(id)
    /\ PutBalanceLogs(<<pending[id].account, now>> :>
                          WithdrawLog(pending[id], bal'[pending[id].account]))

AuditInit ==
    /\ LedgerInit
    /\ blog = [k \in {} |-> {}]

AuditNext ==
    \/ \E s, r \in Accounts, amount \in Amounts, pt \in {NoTime} \cup (now + 1)..MaxTime :
          \E multi \in (IF s \in Joint THEN {TRUE} ELSE BOOLEAN) :
            \E exp \in (IF multi THEN (now + 1)..(MaxTime + 1) ELSE {NoTime}) :
              TransferLogged(s, r, amount, pt, multi, exp)
    \/ \E cid \in DOMAIN contracts : ExecuteTransferLogged(cid) \/ CancelTransferLogged(cid)
    \/ \E id \in DOMAIN pending : BalancePendingWithdrawLogged(id)
    \/ (\E a \in Personal : AccountSuspend(a) \/ AccountUnsuspend(a)) /\ UNCHANGED blog
    \/ Tick /\ UNCHANGED blog

AuditSpec == AuditInit /\ [][AuditNext]_auditVars

-----------------------------------------------------------------------------
(* Properties                                                              *)

\* What the rows of an account say it gained: each row's diff, less the
\* fee recorded beside it.
LogNet(a) ==
    MapThenSumSet(LAMBDA k : blog[k].diff - blog[k].fee, {k \in DOMAIN blog : k[1] = a})

\* The audit log is complete (spec section 3: one BalanceLogEntry per
\* mutation, never updated or deleted): replaying an account's rows from
\* the initial balance gives its balance, after any sequence of transfers,
\* callbacks and withdrawals.
LogsMatchBalance == \A a \in Accounts : bal[a] = InitBal[a] + LogNet(a)
=============================================================================
