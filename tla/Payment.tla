------------------------------ MODULE Payment ------------------------------
(***************************************************************************)
(* The payment engine of kiesnet-token (pay_tx.go, pay_stub.go) on top of   *)
(* the ledger: pay, the pay contract callback executePay, pay/refund and    *)
(* pay/prune.  A pay does not credit the merchant: it writes a pay row      *)
(* under the merchant, and pay/prune later folds the rows whose             *)
(* created_time lies after the merchant's cursor (Balance.LastPrunedPayID)  *)
(* into the merchant's balance, at most PaysPruneSize rows per call.        *)
(*                                                                          *)
(* A transaction's timestamp is chosen by its client, so a transaction may  *)
(* commit carrying a timestamp up to Delay ticks older than the clock.      *)
(***************************************************************************)
EXTENDS Ledger

CONSTANTS
    PruneSize,   \* PaysPruneSize: rows folded by one pay/prune call
    SafeMargin,  \* the 10 minutes subtracted from ts by the safety flag
    PruneFlags,  \* values of the safety flag callers pass to pay/prune
    Delay,       \* how much older than the clock a timestamp may be
    Orders,      \* order ids a customer may give
    Memos,       \* memos a customer may give
    NoOrder      \* the empty order id of refunds

ASSUME /\ PruneSize \in Nat \ {0} /\ SafeMargin \in Nat /\ Delay \in Nat
       /\ PruneFlags \subseteq BOOLEAN
       /\ Orders \cap Memos = {} /\ NoOrder \notin Orders \cup Memos

VARIABLES
    pays,       \* PAY_<payid>: pay and refund rows, a function id -> record
    payCursor,  \* created_time encoded in Balance.LastPrunedPayID (0: none)
    pruned,     \* history: ids of the rows some pay/prune folded in
    payDocs     \* order id and memo of the document of each pay contract

payVars == <<pays, payCursor, pruned, payDocs>>
vars == <<ledgerVars, payVars>>

PayRec == [merchant: Accounts, amount: Int, fee: Int, refund: Nat,
           rid: Accounts, parent: TxIds \cup {0}, time: Time,
           order: Orders \cup Memos \cup {NoOrder}]
PayDoc == [order: Orders, memo: Memos]

\* Timestamps a transaction committed now may carry.
TxTime == {t \in Time : t <= now /\ now - t <= Delay}

PaymentTypeOK ==
    /\ TypeOK
    /\ DOMAIN pays \subseteq TxIds /\ \A i \in DOMAIN pays : pays[i] \in PayRec
    /\ payCursor \in [Accounts -> 0..MaxTime]
    /\ pruned \subseteq DOMAIN pays
    /\ DOMAIN payDocs \subseteq TxIds /\ \A c \in DOMAIN payDocs : payDocs[c] \in PayDoc

\* NewPay: the row PayStub writes; its key carries ts and the tx id.
NewPay(merchant, amount, fee, rid, parent, order, ts) ==
    [merchant |-> merchant, amount |-> amount, fee |-> fee, refund |-> 0,
     rid |-> rid, parent |-> parent, time |-> ts, order |-> order]

\* PayStub.Pay: the pay row for the merchant under id, and the sender's
\* balance debited by the amount (the fee stays in the row).
PayStubPay(s, r, amount, fee, order, ts, id) ==
    /\ pays' = pays @@ (id :> NewPay(r, amount, fee, s, 0, order, ts))
    /\ bal' = [bal EXCEPT ![s] = @ - amount]

\* PayStub.PayPendingBalance: the pay row of an escrowed pay, written with
\* the arguments in the order the caller gives them, and the pending
\* balance deleted.
PayPendingBalance(pid, fee, merchant, memo, order, ts, id) ==
    /\ pays' = pays @@ (id :> NewPay(merchant, pending[pid].amount, fee,
                                     pending[pid].account, 0, order, ts))
    /\ DelPending(pid)

\* Mutant: the refund amount is subtracted from TotalRefund.
PayStubRefundNegTotal(pid, amount, fee, ts, id) ==
    /\ pays' = [pays EXCEPT ![pid].refund = @ - amount]
                 @@ (id :> NewPay(pays[pid].merchant, -amount, -fee, pays[pid].rid,
                                  pid, NoOrder, ts))
    /\ bal' = [bal EXCEPT ![pays[pid].rid] = @ + amount]

\* PayStub.Refund: a row with the negated amount and fee under the
\* merchant, the parent's TotalRefund increased, and the customer credited.
PayStubRefund(pid, amount, fee, ts, id) ==
    /\ pays' = [pays EXCEPT ![pid].refund = @ + amount]
                 @@ (id :> NewPay(pays[pid].merchant, -amount, -fee, pays[pid].rid,
                                  pid, NoOrder, ts))
    /\ bal' = [bal EXCEPT ![pays[pid].rid] = @ + amount]

-----------------------------------------------------------------------------
(* pay (pay_tx.go).  A joint sender, or a caller asking for extra signers,  *)
(* escrows the amount in a contract of kind "pay" (BalanceStub.Deposit with *)
(* no fee: it is computed at execution).  Otherwise PayStub.Pay writes the  *)
(* row with the merchant's fee and debits the sender by the amount only.    *)
Pay(s, r, amount, multi, exp, doc, ts) ==
    LET id      == nextTx
        signers == multi \/ s \in Joint
    IN  /\ nextTx <= MaxTx
        /\ s # r
        /\ s \notin suspended
        /\ r \notin suspended
        /\ bal[s] >= amount
        /\ nextTx' = nextTx + 1
        /\ IF signers
           THEN /\ contracts' = contracts @@ (id :> [kind |-> "pay", pb |-> id,
                        sender |-> s, receiver |-> r, pt |-> NoTime,
                        expiry |-> exp, status |-> "open"])
                /\ payDocs' = payDocs @@ (id :> doc)
                /\ Deposit(id, s, id, amount, 0, exp)
                /\ UNCHANGED pays
           ELSE /\ PayStubPay(s, r, amount, CalcFee(r, "pay", amount), doc.order, ts, id)
                /\ UNCHANGED <<contracts, pending, payDocs>>
        /\ UNCHANGED <<suspended, fees, now, settled, payCursor, pruned, policy>>

\* executePay: the pay contract is complete; the fee is computed now, on the
\* merchant, and PayPendingBalance writes the row.  The call passes the
\* document's order id as the memo and its memo as the order id.
ExecutePay(cid, ts) ==
    LET c  == contracts[cid]
        pb == pending[c.pb]
        id == nextTx
    IN  /\ c.kind = "pay" /\ c.status = "open" /\ now < c.expiry
        /\ nextTx <= MaxTx
        /\ c.pb \in DOMAIN pending
        /\ pb.type = "contract" /\ pb.rid = cid
        /\ nextTx' = nextTx + 1
        /\ PayPendingBalance(c.pb, CalcFee(c.receiver, "pay", pb.amount), c.receiver,
                              payDocs[cid].order, payDocs[cid].memo, ts, id)
        /\ contracts' = [contracts EXCEPT ![cid].status = "executed"]
        /\ UNCHANGED <<bal, suspended, fees, now, payCursor, pruned, payDocs, policy>>

\* Mutant: the amount being refunded is left out of the bound.
RefundAllowedUnbounded(p, amount) == p.amount >= p.refund
\* The refunds of a pay, this one included, stay within its amount.
RefundAllowed(p, amount) == p.amount >= p.refund + amount

\* The refund's share of the parent's fee: amount * fee / parentAmount
\* (Amount.MulRat, floored) for a partial refund, the whole fee otherwise.
RefundFee(parent, amount) ==
    IF amount # parent.amount THEN (amount * parent.fee) \div parent.amount
    ELSE parent.fee

\* pay/refund: the merchant gives back part of a pay.  PayStub.Refund
\* writes a negative row under the merchant, adds to the parent's
\* TotalRefund and credits the customer at once.  The merchant's balance
\* is read but never compared with the amount.
PayRefund(pid, amount, ts) ==
    LET p  == pays[pid]
        s  == p.merchant
        r  == p.rid
        id == nextTx
    IN  /\ nextTx <= MaxTx
        /\ s # r
        /\ RefundAllowed(p, amount)
        /\ s \notin suspended
        /\ r \notin suspended
        /\ nextTx' = nextTx + 1
        /\ PayStubRefund(pid, amount, RefundFee(p, amount), ts, id)
        /\ UNCHANGED <<suspended, pending, contracts, fees, now, settled, payCursor, pruned, payDocs, policy>>

\* GetPaySumByTime: the rows of `a` with stime < created_time <= etime, in
\* created_time order, cut after PaysPruneSize rows.  Rows with equal
\* created_time come in any order.
PruneBatches(a, stime, etime) ==
    LET cand == {i \in DOMAIN pays : pays[i].merchant = a
                                     /\ stime < pays[i].time /\ pays[i].time <= etime}
    IN  IF Cardinality(cand) <= PruneSize THEN {cand}
        ELSE {b \in kSubset(PruneSize, cand) :
                \A i \in b, j \in cand \ b : pays[i].time <= pays[j].time}

\* The end time of pay/prune: the optional parameter or ts, clamped to
\* ts - 10 minutes when the safety flag is set.
PruneEnd(safely, end, ts) ==
    LET etime == IF end = NoTime THEN ts ELSE end
    IN  IF safely /\ etime > ts - SafeMargin THEN ts - SafeMargin ELSE etime

\* Mutant: the batch's fee is not taken off what the merchant receives.
AppliedGross(sum, fee) == sum
\* What pay/prune adds to the balance: sum - fee.
Applied(sum, fee) == sum - fee

\* pay/prune: fold the batch into the balance (sum - fee), move the cursor to
\* the last row folded, and put the batch's fee (possibly negative) as a
\* fee utxo of the account.
PayPrune(a, safely, end, ts) ==
    LET id == nextTx
    IN  /\ nextTx <= MaxTx
        /\ a \notin suspended
        /\ \E b \in PruneBatches(a, payCursor[a], PruneEnd(safely, end, ts)) :
             LET sum == MapThenSumSet(LAMBDA i : pays[i].amount, b)
                 fee == MapThenSumSet(LAMBDA i : pays[i].fee, b)
             IN  /\ bal' = [bal EXCEPT ![a] = @ + Applied(sum, fee)]
                 /\ payCursor' = IF b = {} THEN payCursor
                                 ELSE [payCursor EXCEPT ![a] =
                                         Max({pays[i].time : i \in b})]
                 /\ fees' = CreateFee(fees, a, fee, id, ts)
                 /\ pruned' = pruned \cup b
        /\ nextTx' = nextTx + 1
        /\ UNCHANGED <<suspended, pending, contracts, now, settled, pays, payDocs, policy>>

-----------------------------------------------------------------------------
PaymentInit ==
    /\ LedgerInit
    /\ pays = <<>>
    /\ payCursor = [a \in Accounts |-> 0]
    /\ pruned = {}
    /\ payDocs = <<>>

PaymentNext ==
    \/ \E s, r \in Accounts, amount \in Amounts, doc \in PayDoc, ts \in TxTime :
          \E multi \in (IF s \in Joint THEN {TRUE} ELSE BOOLEAN) :
            \E exp \in (IF multi THEN (now + 1)..(MaxTime + 1) ELSE {NoTime}) :
              Pay(s, r, amount, multi, exp, doc, ts)
    \/ \E cid \in DOMAIN contracts, ts \in TxTime : ExecutePay(cid, ts)
    \/ \E pid \in DOMAIN pays, amount \in Amounts, ts \in TxTime : PayRefund(pid, amount, ts)
    \/ \E a \in Accounts, safely \in PruneFlags, end \in {NoTime} \cup Time, ts \in TxTime :
          PayPrune(a, safely, end, ts)

\* The payment engine alone: pays, callbacks and prunes, with the ledger
\* handlers a pay contract needs (its cancellation), suspension and the
\* clock.
PayEngineNext ==
    \/ PaymentNext
    \/ /\ \/ \E cid \in DOMAIN contracts : CancelTransfer(cid)
          \/ \E a \in Personal : AccountSuspend(a) \/ AccountUnsuspend(a)
          \/ Tick
       /\ UNCHANGED payVars

\* The whole system: every ledger handler leaves the pay rows alone.
Next == (LedgerNext /\ UNCHANGED payVars) \/ PaymentNext

Spec == PaymentInit /\ [][Next]_vars

-----------------------------------------------------------------------------
(* Properties                                                              *)

\* Value still held in pay rows: rows no pay/prune has folded in yet.
PayValue == MapThenSumSet(LAMBDA i : pays[i].amount, DOMAIN pays \ pruned)

\* Refund accounting (spec: cumulative refunds never exceed the pay): the
\* TotalRefund kept on a pay equals the amounts of the refund rows written
\* against it and never exceeds the pay's amount, however refunds of the
\* same pay interleave with pays, prunes and other refunds.
RefundAccounting ==
    \A p \in DOMAIN pays :
        pays[p].parent = 0 =>
            /\ pays[p].refund =
                 MapThenSumSet(LAMBDA q : -pays[q].amount,
                               {q \in DOMAIN pays : pays[q].parent = p})
            /\ pays[p].refund <= pays[p].amount

\* A pay row is never stranded: every row pay/prune has not folded in yet
\* still lies after its merchant's cursor, so a later pay/prune reaches it
\* (the cursor is resumable, spec Scenario E).
NoStrandedPay ==
    \A i \in DOMAIN pays \ pruned : pays[i].time > payCursor[pays[i].merchant]

\* The order id a pay row records is the order id the customer gave to
\* pay, whether the pay was immediate or went through a contract.
OrderRecorded ==
    \A i \in DOMAIN pays : pays[i].parent = 0 => pays[i].order \in Orders
=============================================================================
