-------------------------------- MODULE Fees --------------------------------
(***************************************************************************)
(* fee/prune (fee_tx.go, FeeStub.GetFeeSumByTime) on top of the payment     *)
(* engine.  Fee rows are never deleted: fee/prune sums the rows whose       *)
(* created_time lies after the token's cursor (Token.LastPrunedFeeID) and   *)
(* up to the end time, at most FeePruneSize of them, into the balance of    *)
(* the fee policy's target, and moves the cursor to the last row summed.    *)
(*                                                                          *)
(* QueryPruneFee (queries.go) gives the selector the key "created_time"     *)
(* twice, once with $gt and once with $lte.  Which of the two bounds the    *)
(* store's JSON decoder keeps is not fixed by the code: KeptBound is        *)
(* "both" (the intended query), "lower" (first key wins) or "upper" (last   *)
(* key wins).                                                               *)
(***************************************************************************)
EXTENDS Payment

CONSTANTS
    FeePruneSize,  \* FeePruneSize: fee rows summed by one fee/prune call
    KeptBound,     \* which created_time bound the prune query keeps
    FeePruneFlags  \* values of the safety flag callers pass to fee/prune

ASSUME /\ FeePruneSize \in Nat \ {0}
       /\ KeptBound \in {"both", "lower", "upper"}
       /\ FeePruneFlags \subseteq BOOLEAN

VARIABLES
    feeCursor,  \* created_time encoded in Token.LastPrunedFeeID (0: none)
    swept       \* history: how many times each fee row has been summed

feeVars == <<feeCursor, swept>>
allVars == <<vars, feeVars>>

FeesTypeOK ==
    /\ PaymentTypeOK
    /\ feeCursor \in 0..MaxTime
    /\ swept \in [TxIds -> Nat]

\* The selector of QueryPruneFee, with the bound(s) the store keeps.
InFeeRange(t, stime, etime) ==
    CASE KeptBound = "both"  -> stime < t /\ t <= etime
      [] KeptBound = "lower" -> stime < t
      [] KeptBound = "upper" -> t <= etime

\* Mutant: the query ignores the cursor.
FeeBatchesFromStart(stime, etime) ==
    LET cand == {f \in fees : f.time <= etime}
    IN  IF Cardinality(cand) <= FeePruneSize THEN {cand}
        ELSE {b \in kSubset(FeePruneSize, cand) :
                \A f \in b, g \in cand \ b : f.time <= g.time}

\* GetFeeSumByTime: the fee rows in range sorted by created_time, cut after
\* FeePruneSize rows; rows with equal created_time come in any order.
FeeBatches(stime, etime) ==
    LET cand == {f \in fees : InFeeRange(f.time, stime, etime)}
    IN  IF Cardinality(cand) <= FeePruneSize THEN {cand}
        ELSE {b \in kSubset(FeePruneSize, cand) :
                \A f \in b, g \in cand \ b : f.time <= g.time}

\* The end time of fee/prune: the optional parameter or ts, clamped to
\* ts - 10 minutes when the safety flag is set.
FeeEnd(safely, end, ts) ==
    LET etime == IF end = NoTime THEN ts ELSE end
    IN  IF safely /\ etime > ts - SafeMargin THEN ts - SafeMargin ELSE etime

\* fee/prune: without a fee policy there is nothing to prune; otherwise a
\* holder of the policy's target account (its suspension is not checked)
\* sums the batch into the target's balance and, when the batch is not
\* empty, moves the cursor to its last row.
FeePrune(safely, end, ts) ==
    \E b \in FeeBatches(feeCursor, FeeEnd(safely, end, ts)) :
        /\ policy # NoPolicy
        /\ b # {}
        /\ bal' = [bal EXCEPT ![policy.target] = @ + MapThenSumSet(LAMBDA f : f.amount, b)]
        /\ feeCursor' = Max({f.time : f \in b})
        /\ swept' = [i \in TxIds |-> IF \E f \in b : f.id = i THEN swept[i] + 1 ELSE swept[i]]
        /\ UNCHANGED <<suspended, pending, contracts, fees, now, nextTx, settled, payVars, policy>>

-----------------------------------------------------------------------------
FeesInit ==
    /\ PaymentInit
    /\ feeCursor = 0
    /\ swept = [i \in TxIds |-> 0]

FeePruneNext ==
    \E safely \in FeePruneFlags, end \in {NoTime} \cup Time, ts \in TxTime :
        FeePrune(safely, end, ts)

\* Pays, refunds and prunes produce fee rows of both signs; fee/prune
\* sweeps them.
FeesNext ==
    \/ PayEngineNext /\ UNCHANGED feeVars
    \/ FeePruneNext

FeesSpec == FeesInit /\ [][FeesNext]_allVars

-----------------------------------------------------------------------------
(* Properties                                                              *)

\* Value in fee rows no fee/prune has summed yet.
UnsweptFeeValue == MapThenSumSet(LAMBDA f : f.amount, {f \in fees : swept[f.id] = 0})

\* Conservation through both prunes: balances, escrows, unpruned pay rows
\* and unswept fee rows always add up to the initial supply.
FeesConservation ==
    SumFunction(bal) + PendingValue + PayValue + UnsweptFeeValue = SumFunction(InitBal)

\* A fee row is summed into the target at most once, however fee/prune
\* calls with different end times and flags follow each other.
FeeSweptOnce == \A i \in TxIds : swept[i] <= 1

\* Fee pruning is resumable (spec Scenario E): every fee row not yet summed
\* lies after the cursor, where the next fee/prune will find it.
NoStrandedFee == \A f \in fees : swept[f.id] = 0 => f.time > feeCursor
=============================================================================
