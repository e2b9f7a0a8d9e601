# TLA+ models of kiesnet-token

These modules model the token chaincode in `src/`, a Hyperledger Fabric Go
chaincode. It keeps balances, moves value between accounts, takes fees,
escrows multi-signature and time-locked transfers, and settles merchant pays
in batches. The models are checked with TLC. `PROJECT.json` lists every
component, run, mutant, finding and hazard, and maps each definition to the
source lines it translates.

## The system

### Execution model

Every handler (`transfer`, `pay`, `pay/refund`, `pay/prune`, ...) runs as
one Fabric transaction. Fabric commits a transaction atomically, or not at
all if it returns an error. It aborts a transaction whose reads were
overwritten by an earlier commit (MVCC). So **each handler is one atomic
step**: an early return is a guard, and the writes are the primed
variables. There are no threads, locks or crashes inside a handler.

Concurrency lives *between* transactions:

- any handler of any client may commit next;
- the external contract service (multi-signature approval) may call back
  `execute` or `cancel` on an open contract at any time before its expiry;
- each transaction carries a **client-chosen timestamp**. A transaction may
  commit carrying a timestamp older than ones already committed: it was
  endorsed earlier, or its client's clock is behind. Two transactions may
  carry the same timestamp.

### Components and state

| Component | Source | State | Operations that change state |
|---|---|---|---|
| AddressCodec | address.go, token.go | none | none (pure encoding: NewAddress, String, ID, Validate, ParseAddress, ValidateTokenCode) |
| AccountDirectory | account*.go | accounts, holders, suspension | account/create, holder add/remove (+ contract callbacks), suspend, unsuspend |
| LedgerEngine | balance*.go, transfer_tx.go | `BLC_` balances, `PBLC_` pending balances, `BLOG_` balance log rows | transfer (instant, time-locked, contract), executeTransfer, cancelTransfer, balance/pending/withdraw, Supply |
| FeeEngine | fee*.go, last_pruned_fee_id*.go | `FEE_` fee rows, the token's fee cursor | CalcFee (pure), CreateFee, fee/prune |
| PaymentEngine | pay*.go | `PAY_` pay and refund rows, each balance's pay cursor | pay, executePay, pay/refund, pay/prune |
| Token | token*.go | supply, max supply, fee policy | token create, mint, burn, update (+ contract callbacks) |
| Contract callbacks | contract_tx.go | none of its own | routes execute and cancel of each document kind |

### How they interact

A handler looks up accounts (AccountDirectory), checks holders and
suspension, and asks `CalcFee` for the fee. Then it either mutates
balances directly or creates a contract and escrows the amount
(`BalanceStub.Deposit`). The contract service later calls
`executeTransfer`/`executePay` or `cancelTransfer` with the contract
document. A pay does not credit the merchant. It writes a pay row, and
`pay/prune` folds the rows after the merchant's cursor into its balance,
at most `PaysPruneSize` (900) per call. Fees are rows too: `fee/prune` sums
them into the fee target's balance.

### What makes each component correct

- Ledger: value is conserved (balances + escrows + unpruned fee rows).
  Balances stay non-negative. An escrow is terminated exactly once. A
  time lock is never released early. Abstractly, the ledger is an escrow
  ledger (module `Escrow`): value moves between balances, escrows and a
  fee pool, and only along the moves an escrow allows. A contract escrow
  is eventually released while the contract service keeps calling back.
- Payment: value is conserved with unpruned pay rows counted. A pay's
  TotalRefund equals its refund rows and never exceeds its amount. No
  unpruned row is ever left behind the cursor (pruning is resumable). The
  recorded order id is the one given.
- Fees: every fee row is swept into the target exactly once, and the
  cursor never skips or re-reads a row.
- Token: it is created once, even when several token/create contracts
  race. 0 <= supply <= max supply, and supply equals the value in the
  system. A nil fee policy means there are no fee rows (fee/prune relies
  on it).
- Audit log: one row per balance mutation, never replaced, so an account's
  rows replay to its balance.
- Accounts: a joint account keeps between 2 and 128 holders, even with
  several holder contracts executing in any order.

### Hard behaviours

- Escrow callbacks race each other and `balance/pending/withdraw`.
- Prune cursors are times compared with `$gt`, against rows whose
  timestamps are client-chosen and may tie or arrive late.
- Batch cuts are made at `PaysPruneSize` and `FeePruneSize`.
- Refunds are credited at once, but the merchant is charged only at prune.
- Partial refund fees are floored.
- The fee is computed at execute time, with the policy then in force.

## Modules

| Module | Models | Extends |
|---|---|---|
| `Escrow` | the abstract ledger: balances, escrows (owner, beneficiary, amount, fee, unlock time, revocable), closed escrow ids, a fee pool; Send, Hold, Return, PayOut, Relay, Tick | — |
| `Ledger` | balances, pending balances, contracts as the contract service holds them, fee rows, the token's fee policy; transfer, executeTransfer, cancelTransfer (through `ContractCallback`), balance/pending/withdraw, suspend/unsuspend; the refinement mapping to `Escrow` | `Escrow` by `INSTANCE` |
| `Payment` | pay rows, pay cursors, pay contract documents; pay, executePay, pay/refund, pay/prune; `Next` composes it with every Ledger handler | `Ledger` |
| `Fees` | the token's fee cursor; fee/prune; `FeesNext` composes it with the payment engine | `Payment` |
| `Token` | whether the token is issued, the supply, the genesis account's holder count, create, mint and burn contracts; token/create, executeTokenCreate, token/mint, token/burn, executeTokenMint/Burn, their cancellation, token/update; `TokenNext` composes them with every Ledger handler | `Ledger` |
| `AuditLog` | the balance log rows under their `(address, created time)` keys; every Ledger handler conjoined with the rows it puts (`TransferLogged`, ...) | `Ledger` |
| `Accounts` | personal accounts, joint accounts' holder sets, the Holder relation rows, account contracts; account/create, holder add/remove, their callbacks, suspension | — |
| `AddressCodec` | token codes and addresses as byte sequences: strings.ToUpper over UTF-8, hex encoding and decoding, NewAddress, String, ID, Validate, ParseAddress, ValidateTokenCode | — |
| `MCLedger`, `MCPayment`, `MCFees`, `MCToken`, `MCAccounts`, `MCAuditLog` | constants for TLC (`MCAccounts` also extends `AddressCodec`) | the module they check |

### Correspondence with the code

- `bal[a]` is `Balance.Amount`.
- `pending[id]` is the `PendingBalance` row under `PBLC_<id>`.
- `fees` is the set of `Fee` rows not yet pruned.
- `pays[id]` is a `Pay` row. Its `time` is `created_time`, and `refund` is
  `TotalRefund`.
- `payCursor[a]` is the created_time encoded in `Balance.LastPrunedPayID`
  (0 when empty, i.e. `txtime.Unix(0,0)`).
- `contracts[cid]` is what the contract service holds: the document's kind,
  pending-balance id, parties and pending time, the expiry, and whether it
  is still open.
- `feeCursor` is the created_time encoded in `Token.LastPrunedFeeID`.
- `issued` is whether `TKN_<code>` exists. `createContracts` are the
  token/create documents (the number of holders they name, and status).
  Before token/create the accounts exist with zero balances, since
  account/create only asks the meta chaincode.
- `supply` is `Token.Supply`. `genesisHolders` is the number of holders of
  the genesis account, which decides between a direct mint or burn and a
  contract. `tokenContracts` are the open and closed token documents.
- In `Accounts`, `personal` is the set of kids that have a personal
  account (its address is derived from the kid). `holders[j]` is a joint
  account's `Holders` set. `holderRows` are the `HOLDER_` relation rows.
  `actr` is the bag of open account contracts, and `created` counts the
  contracts the handlers have made.
- `policy` is `Token.FeePolicy`: `NoPolicy` (nil), or its target address
  and its rates by function (`"transfer"`, `"pay"`). `CalcFee` and
  fee/prune read it; `CreateToken` and `TokenUpdate` write it. The
  answers of the meta chaincode are small sets: `MetaPolicies`,
  `InitialSupplies` and `SupplyAmounts`.
- In `AuditLog`, `blog[<<a, t>>]` is the `BalanceLog` row under
  `BLOG_<a>_<t>`: its type, signed diff and recorded fee. `now` is the
  transaction timestamp, so two transactions at the same `now` write the
  same key.
- The transaction id is `nextTx`, a counter. It keys new pending
  balances, pay rows and fee rows, as `stub.GetTxID()` does.

Each action is one handler, with every stub call it makes. For example,
`Transfer` contains `BalanceStub.Transfer` or `BalanceStub.Deposit`, and
`CreateFee`. Its guards are the handler's early returns (self-transfer,
suspension, balance). Authentication, holder checks and argument parsing
are abstracted: the caller is always a holder. The stub operations
`BalanceTransfer`, `Deposit`, `TransferPendingBalance` and `Withdraw` are
operators shared by the actions that call them.

`AddressCodec` keeps the byte-level control of `address.go`: a Go string
is a sequence of bytes, and an input is written as runes and encoded in
UTF-8 by `ToUpper`, because `strings.ToUpper` works on runes and can change
the byte length before `ParseAddress` splits off the last `AddrHexLen`
bytes. `NewAddress` takes an id of `2 * IdLen` hex digits (a kid) as the
id bytes and hashes any other id (a tx id); `Validate` checks the code,
the type and the checksum suffix. SHAKE-256 is the constant operator
`Shake(n, bytes)`; the properties hold for any function there, and
`MCShake` is a small stand-in that separates the inputs.

`AuditLog` rows carry the balance after the step (`Amount` of the
`BalanceLog`), read from the balance object after the handler updated it.
No property is stated about the newest row's amount: under the model's
forward-only clock it holds by construction. What could break it in the
code is a transaction committing with an older client timestamp, whose
row balance/logs (sorted by created_time) would then list below older
ones; the model's clock does not go backwards for ledger transactions.

History variables, which the code does not have:

- `settled` counts the terminal transitions of each pending balance;
- `pruned` is the set of pay rows some prune has folded in;
- `swept` counts how many times each fee row has been summed by fee/prune.

Environment actions:

- `Tick` advances the clock;
- the contract service is modelled by the guards of the callbacks: the
  contract is open and `now < expiry` for execute (executeTransfer does
  not look at the expiry itself), and any time for cancel.
  `ContractCallback(cid)` is `contractCallback` routing a transfer
  document to `executeTransfer` or `cancelTransfer`;
- a Payment transaction's timestamp is any of `TxTime`, up to `Delay`
  ticks behind the clock.

## Runs

| Run | Cfg | Expect | What it shows |
|---|---|---|---|
| ledger | MCLedger.cfg | pass | Transfers of every kind, both callbacks, pending withdrawal and suspension, in every order. They conserve value, keep balances non-negative, terminate each escrow once and respect time locks. The ledger implements `Escrow` (`EscrowRefinement`), and under the contract service's fairness every contract escrow is released (`EscrowReleased`). |
| ledger_suspended_receiver | MCLedgerSuspended.cfg | violation | A receiver suspended while a contract transfer to it is open is credited when the contract executes (see Findings). |
| fees | MCFees.cfg | pass | Pays (instant and by contract), refunds and safe pay prunes with no clock skew put fee rows of both signs (refund rows carry negative fees); safe fee prunes with the intended query sweep them. Value is conserved through both prunes (`FeesConservation`), TotalRefund equals its refund rows and stays within the pay, and each fee row is swept exactly once. Whether a row is stranded behind a prune cursor is not asked here: with no skew and batches larger than the rows it cannot happen, so the question belongs to the batch-tie runs. |
| fees_duplicate_key | MCFeesTwice.cfg | violation | If the store keeps only the `$lte` key of the duplicated `created_time` selector, a fee row is credited twice. |
| fees_batch_tie | MCFeesBatch.cfg | violation | A fee batch cut between equal timestamps strands a fee row. |
| token | MCToken.cfg | pass | token/create, direct or by contracts that race each other and a direct create; then mint and burn, direct or by contract, with contracts executed against the supply and balance of the moment and interleaved with transfers. The supply stays in [0, MaxSupply] and equal to the value in the system, and no balance goes negative. The meta chaincode may answer a negative amount, which both handlers refuse. token/update clears the rates or moves the target in between, and never leaves fee rows under a nil policy. |
| accounts | MCAccounts.cfg | pass | Holder add and remove contracts race each other and a holder's self-removal. A joint account keeps at least 2 holders, adding never passes the limit, and the Holder rows always match the holder sets. The address of every existing account's type survives String and ParseAddress for every bounded code and id (`AccountAddressesRoundTrip`, spec §8), and every bounded input ParseAddress accepts is, upper-cased, the text of an address NewAddress derives from its own code, type and ID (`ParsedAddressesDerived`). |
| accounts_create_limit | MCAccountsCreate.cfg | violation | account/create lets a joint account be born with more holders than the limit. |
| payment_refund_negative | MCPaymentRefund.cfg | violation | A merchant's balance goes negative (see Findings). |
| payment_batch_tie | MCPaymentBatch.cfg | violation | A batch cut between equal timestamps strands a row. |
| payment_order_id | MCPaymentOrder.cfg | violation | A pay by contract records its memo as order id. |
| audit_log_collision | MCAuditLogCollision.cfg | violation | Two transactions of one account with the same timestamp: the second log row replaces the first (see Findings). |

### Bounds

- **ledger:** two personal accounts and one joint account (the genesis
  account and fee target, so exempt from fees).
  - Amounts {1, 2}; transfer rate 1/2 capped at 1, so a fee of 1 occurs.
  - Initial balances 3, 0 and 0: `p1` can fund two escrows at once, or
    one with a fee, and the others only spend what they receive, so some
    transfers fail on balance.
  - Times 1..2 and 3 transactions: enough for two contract escrows to be
    open at once, for a time lock to be set at time 1 and released at time
    2, and for a contract to be created and then executed (directly or
    relayed into a time lock), cancelled or withdrawn. 165K distinct
    states; the liveness check over them is what limits the instance
    (initial balances 2, 1, 1 give 1.57M states, too many for it).
- **fees:** customer `c` (2 tokens), merchant `m` (0), joint genesis `g`
  (0, the fee target).
  - Pay rate 1/2 capped at 1; amounts {1, 2}.
  - Times 1..3, 4 transactions: a pay at time 1, a partial or full refund,
    a pay prune (safety margin 1 tick, so its end time is a tick back)
    that puts the fee row, another pay, and a fee prune at a later time.
  - `PruneSize` and `FeePruneSize` 4 ≥ the number of rows, so batches are
    not cut. 0.78M distinct states.
  - The payment violation runs (`MCPayment`) use times 1..2, with `g`
    starting at 1.
- **token:** personal `p1` and the genesis `j1`, both empty before
  token/create, `MaxSupply` 3. token/create names 1 or 2 holders, so it is
  direct or a contract; the meta chaincode answers an initial supply of
  0, 2 or 4 (4 is refused), and -1, 0, 1 or 2 to mint and burn. 3
  transactions are enough for two create contracts to race, or for a
  create and two mint or burn contracts executed after the supply or the
  genesis balance has moved. The transfer
  rate is 1 capped at 1, so `p1` pays a fee on what it got from the
  genesis account. token/update may answer no fee, the rate without a
  target (the target is kept, or is the genesis account at creation), or
  the rate with `p1` as target. 130K states.
- **accounts:** four kids, two joint addresses, at most 4 contracts, and
  a holder limit of 3 standing for 128. These allow a joint account of
  2 holders with two add contracts open at once, one of 3 holders with two
  remove contracts open at once, and a create with 3 co-holders. The kids
  and the joint addresses are symmetric (no kid or address is special in
  the code), so TLC checks modulo their permutations. 31K states.
- **address codec** (in the accounts run): `IdLen` 2, `SumLen` 1 and
  `AddrHexLen` 8 stand for 20, 4 and 50; they keep the relation
  `AddrHexLen = 2 * (1 + IdLen + SumLen)` the code has. Codes are every
  string over {A, 1} of length 3 to 6; ids are kids of 4 hex digits (both
  cases) and non-hex tx ids. The 432 parse inputs combine 8 code prefixes
  (valid, lower case, long s, e acute, a dash, too short, too long, empty)
  with tails of types 0..3, right and wrong checksums, lower case and a
  non-hex digit, plus one tail too short; 24 of them are accepted. The
  two codec properties are constant tables evaluated once per account
  type and looked up by the accounts of each state.
- **audit_log_collision:** the ledger run's instance.
- The violation runs change one bound each:
  - `MaxTime` 3 and 5 transactions, for a second prune;
  - `PruneSize` 1;
  - (the order-id run keeps the bounds).

A tick stands for any time difference. The safety margin is one tick and
the skew `Delay` is 0, so in the passing run no pay can commit at or before
a prune's end time. That is the regime the 10-minute margin is meant to
guarantee.

### Fairness

`LedgerFairSpec` adds weak fairness of two environment actions:

- `ContractCallback(cid)` for every contract: the contract service calls
  an open contract back, executing it when signed and cancelling it when
  it expires, and the spec (§5, §7) makes retrying a callback its
  responsibility;
- `Tick`: transaction time moves on.

Clients and administrators get no fairness: nobody has to transfer,
withdraw, suspend or unsuspend. Under it, `EscrowReleased` holds: every
contract escrow is eventually paid out, relayed, returned or withdrawn.
It holds because `cancelTransfer` does not look at the accounts (its ISSUE
comment asks whether it should). With a suspension check in cancel, a
suspended sender's escrow of an expired contract can be neither executed
nor cancelled (the mutant `CancelTransferChecksAccount` shows it). No
fairness is assumed for pay/prune or fee/prune: nothing makes a merchant
or the fee target call them.

### Refinement

`Escrow` is what the ledger promises without its rows: balances, a pool
of fees taken, and escrows. An escrow is revocable (a contract guards
it): it may be returned to its owner at any time, or paid to its
beneficiary, or relayed into a new time lock of the beneficiary. Or it is
a time lock: it is returned to its owner, and not before its unlock time.
`Ledger` instantiates it as `Abstract` with this mapping:

- `held` is the pending balances. A contract row is a revocable escrow
  for the contract's receiver, with the contract's expiry as unlock time.
  An account row is a time lock of its account.
- `closed` is the settled pending ids, and `feePool` the fee rows' value.

`EscrowRefinement` (`Abstract!Spec`) is a property of the ledger run. It
says more than conservation: a fee must reach the fee rows when a
contract executes, and a relayed time lock carries no fee. The mutant
`TransferPendingBalanceFeeKept` keeps the fee inside the relayed time
lock. It conserves value, yet it breaks the refinement.

## Findings

1. **Negative merchant balance** (`pay_tx.go:263`, `:294`, `:409`).
   - `pay/refund` credits the customer without comparing the merchant's
     balance with the refund.
   - The refund row is charged at the next prune, as `sum - fee`.
   - Two partial refunds of 1 against a pay of 2 with fee 1 each refund a
     floored fee of 0. The merchant is then charged the whole fee on a pay
     that was fully refunded: balance 0 becomes -1.
   - Spec §8 says no balance ever goes below zero.
2. **Pruning is not resumable across timestamp ties** (`pay_stub.go:209`,
   `queries.go:126`).
   - The batch cut stores the last row's time as the cursor. The next
     query selects created_time `$gt` that time.
   - Spec Scenario E says the follow-up prune consumes the rest.
3. **executePay swaps the order id and the memo** (`pay_tx.go:589`).

4. **Fee prune is not resumable across timestamp ties** (`fee_stub.go:127`).
   This is the same cut as finding 2, for fee rows.
5. **QueryPruneFee has the key `created_time` twice** (`queries.go:217`).
   Which bound survives depends on the store's JSON decoder. If only
   `$lte` survives, fee/prune credits rows again (`FeeSweptOnce`). If only
   `$gt` survives, it ignores the end time and the safety margin.
6. **A joint account can be created with more than 128 holders**
   (`account_tx.go:68`).
   - accountCreate checks the number of distinct co-holder *addresses*
     (at most 128). It then adds the invoker, and every holder of a joint
     co-holder address (`GetSignableIDs`).
   - `executeAccountCreate` does not check again.
   - With the limit 3, TLC creates a joint account with 4 holders from 3
     personal co-holders and the invoker. Spec §2 says 2–128 holders.

8. **Balance log rows overwrite each other** (`balance_stub.go:128`).
   - `PutBalanceLog` keys a row by the account's address and the
     transaction's timestamp in nanoseconds; `PutState` replaces a key.
   - The timestamp is the client's. Fabric serializes two transactions
     that touch the same balance, but nothing stops them carrying the same
     timestamp (SDKs that fill it at millisecond resolution, or skewed
     clocks).
   - TLC: `p1` sends 1 to `p2`, then `p2` sends 1 back at the same time.
     Each account's second row replaces its first, and the rows no longer
     add up to the balance (`LogsMatchBalance`). Spec §3 says one row per
     mutation, never updated or deleted.

7. **A suspended receiver is credited by a contract transfer**
   (`transfer_tx.go:268`).
   - `transfer` refuses a suspended receiver (`transfer_tx.go:90`), but
     `executeTransfer` credits the receiver without looking at its
     account. Its ISSUE comment asks whether it should.
   - TLC creates a contract transfer to `p2`, suspends `p2`, and the
     execute callback pays `p2`. `executePay` has the same gap
     (`pay_tx.go:588`).

## Not modelled (yet), and the plan

Remaining plan, in order:

1. **Genesis holders from Accounts**: compose Token with Accounts so that
   holder changes of the genesis account switch mint and burn between the
   direct and the contract path while contracts are open.
2. token/update together with pay contracts and prunes, so that a pay
   executed after an update pays the new rate (hazard at `pay_tx.go:585`),
   and fees are swept to a moved target (`fee_tx.go:146`). The runs are
   limited to 12, and the fees run has no room for the policy answers.
3. A refinement of Payment: a pay contract's escrow becomes a pay row, not
   a balance, so it needs an abstract pay ledger of its own.
4. Balance log rows of pay, refund, the prunes, mint and burn, in
   `AuditLog` over Fees and Token.

Observed, not a run: `ParseAddress` and `ValidateTokenCode` upper-case
with `strings.ToUpper`, so a code written with U+017F (long s) is accepted
as the code with S (`address.go:43`, `token.go:16`); the bounded inputs
include it and `ParsedAddressesDerived` holds, because the parsed address
is the canonical one. U+00E9 upper-cases to two non-code bytes and is
refused. Spec §2 speaks of ASCII codes only.

Observed, not a run: a token created without co-holders gets a joint
genesis account with one holder (`CreateToken` calls `CreateJointAccount`
with the invoker alone), while spec §3 says a joint account has at least
two. `Token` models it (`genesisHolders` = 1).

Out of reach:

- SHAKE-256 itself (a stand-in function is used), `ParseCode` and `Equal`
  (read-only helpers);
- listing and pagination queries;
- JSON formatting of documents and logs;
- the contract service's signature collection, which is represented only
  by which callbacks may fire.
