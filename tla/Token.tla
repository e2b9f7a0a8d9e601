-------------------------------- MODULE Token -------------------------------
(***************************************************************************)
(* The token's supply (token_tx.go, TokenStub.Mint/Burn, BalanceStub.Supply)*)
(* on top of the ledger.  token/mint and token/burn ask the token's meta    *)
(* chaincode (invokeKNT) for the mintable or burnable amount; it is any     *)
(* non-negative amount here.  When the genesis account has more than one   *)
(* holder, the operation becomes a contract ("token/mint", "token/burn")    *)
(* that the contract service executes later, or cancels with contractVoid. *)
(*                                                                          *)
(* The initial state is the chaincode before token/create: accounts may    *)
(* exist (account/create only asks the meta chaincode) but hold nothing.   *)
(* token/create issues the token, directly or through a "token/create"     *)
(* contract when co-holders are named, with the meta chaincode's initial   *)
(* supply and fee policy.                                                   *)
(***************************************************************************)
EXTENDS Ledger

CONSTANTS
    MaxSupply,       \* Token.MaxSupply
    SupplyAmounts,   \* amounts the meta chaincode may answer, negative ones too
    HolderCounts,    \* numbers of holders the genesis account may have
    MetaPolicies,    \* fee policies the meta chaincode may answer (NoPolicy: no fee)
    NoTarget,        \* the empty target_address of an answer
    InitialSupplies  \* initial_supply values the meta chaincode may answer

ASSUME /\ MaxSupply \in Nat /\ SupplyAmounts \subseteq Int
       /\ HolderCounts \subseteq 1..128 /\ 1 \in HolderCounts
       /\ InitialSupplies \subseteq Int
       /\ \A a \in Accounts : InitBal[a] = 0
       /\ InitPolicy = NoPolicy

VARIABLES
    issued,          \* the token's state exists (GetTokenState succeeds)
    supply,          \* Token.Supply
    genesisHolders,  \* the number of holders of the genesis account
    tokenContracts,  \* "token/mint" and "token/burn" contracts, id -> record
    createContracts  \* "token/create" contracts: id -> number of holders and status

tokenVars == <<issued, supply, genesisHolders, tokenContracts, createContracts>>
tokenAllVars == <<ledgerVars, tokenVars>>

TokenContractRec == [kind: {"mint", "burn"}, amount: Nat,
                     status: {"open", "executed", "cancelled"}]

CreateContractRec == [holders: HolderCounts, status: {"open", "executed", "cancelled"}]

TokenTypeOK ==
    /\ TypeOK
    /\ issued \in BOOLEAN
    /\ DOMAIN createContracts \subseteq TxIds
    /\ \A c \in DOMAIN createContracts : createContracts[c] \in CreateContractRec
    /\ supply \in Int
    /\ genesisHolders \in HolderCounts
    /\ DOMAIN tokenContracts \subseteq TxIds
    /\ \A c \in DOMAIN tokenContracts : tokenContracts[c] \in TokenContractRec

\* Mutant: the answer of the meta chaincode is taken as it is.
KNTAmountAny(amount) == TRUE

\* tokenMint / tokenBurn: "not mintable" / "not burnable" when the amount
\* the meta chaincode answers is negative.
KNTAmountValid(amount) == amount >= 0

\* Mutant: the supply is not clamped to MaxSupply.
MintUnclamped(amount) ==
    /\ supply < MaxSupply
    /\ supply' = supply + amount
    /\ bal' = [bal EXCEPT ![Genesis] = @ + amount]

\* Mutant: the amount past MaxSupply is credited anyway.
MintCreditsAll(amount) ==
    /\ supply < MaxSupply
    /\ LET real == IF supply + amount > MaxSupply THEN MaxSupply - supply ELSE amount
       IN  /\ supply' = supply + real
           /\ bal' = [bal EXCEPT ![Genesis] = @ + amount]

\* BalanceStub.Supply: the genesis balance changes by a signed amount (the
\* Mint or Burn log records it).
Supply(amount) == bal' = [bal EXCEPT ![Genesis] = @ + amount]

\* TokenStub.Mint: "max supplied" when the supply has reached MaxSupply;
\* otherwise the supply grows by the amount, clamped to MaxSupply, and the
\* real difference is supplied to the genesis balance.
Mint(amount) ==
    /\ supply < MaxSupply
    /\ LET real == IF supply + amount > MaxSupply THEN MaxSupply - supply ELSE amount
       IN  /\ supply' = supply + real
           /\ Supply(real)

\* Mutant: the burn is not clamped to the genesis balance.
BurnUnclamped(amount) ==
    /\ supply # 0
    /\ IF amount <= 0
       THEN UNCHANGED <<supply, bal>>
       ELSE /\ supply' = supply - amount
            /\ bal' = [bal EXCEPT ![Genesis] = @ - amount]

\* TokenStub.Burn: "no supply" when the supply is 0; the amount is clamped
\* to the genesis balance, nothing happens when that leaves nothing, and
\* otherwise balance and supply both shrink by it.
Burn(amount) ==
    /\ supply # 0
    /\ LET real == IF bal[Genesis] < amount THEN bal[Genesis] ELSE amount
       IN  IF real <= 0
           THEN UNCHANGED <<supply, bal>>
           ELSE /\ supply' = supply - real
                /\ Supply(-real)

\* contract.CreateContract for a token document, keyed by the tx id.
NewTokenContract(kind, amount) ==
    /\ nextTx <= MaxTx
    /\ tokenContracts' = tokenContracts @@ (nextTx :> [kind |-> kind,
                             amount |-> amount, status |-> "open"])
    /\ nextTx' = nextTx + 1
    /\ UNCHANGED <<supply, bal>>

-----------------------------------------------------------------------------
\* token/mint by a holder of the genesis account.
TokenMint(amount) ==
    /\ issued
    /\ supply < MaxSupply
    /\ KNTAmountValid(amount)
    /\ IF genesisHolders > 1
       THEN NewTokenContract("mint", amount)
       ELSE Mint(amount) /\ UNCHANGED <<tokenContracts, nextTx>>
    /\ UNCHANGED <<suspended, pending, contracts, fees, now, settled, genesisHolders, policy,
                   issued, createContracts>>

\* token/burn by a holder of the genesis account.
TokenBurn(amount) ==
    /\ issued
    /\ bal[Genesis] # 0
    /\ KNTAmountValid(amount)
    /\ supply >= amount
    /\ IF genesisHolders > 1
       THEN NewTokenContract("burn", amount)
       ELSE Burn(amount) /\ UNCHANGED <<tokenContracts, nextTx>>
    /\ UNCHANGED <<suspended, pending, contracts, fees, now, settled, genesisHolders, policy,
                   issued, createContracts>>

\* executeTokenMint / executeTokenBurn: the contract service finalises the
\* contract; the stub re-reads the token and the genesis balance.
ExecuteTokenMint(cid) ==
    /\ tokenContracts[cid].kind = "mint" /\ tokenContracts[cid].status = "open"
    /\ Mint(tokenContracts[cid].amount)
    /\ tokenContracts' = [tokenContracts EXCEPT ![cid].status = "executed"]
    /\ UNCHANGED <<suspended, pending, contracts, fees, now, nextTx, settled, genesisHolders, policy,
                   issued, createContracts>>

ExecuteTokenBurn(cid) ==
    /\ tokenContracts[cid].kind = "burn" /\ tokenContracts[cid].status = "open"
    /\ Burn(tokenContracts[cid].amount)
    /\ tokenContracts' = [tokenContracts EXCEPT ![cid].status = "executed"]
    /\ UNCHANGED <<suspended, pending, contracts, fees, now, nextTx, settled, genesisHolders, policy,
                   issued, createContracts>>

\* contractVoid: cancelling a token contract changes nothing of the token.
CancelTokenContract(cid) ==
    /\ tokenContracts[cid].status = "open"
    /\ tokenContracts' = [tokenContracts EXCEPT ![cid].status = "cancelled"]
    /\ UNCHANGED <<ledgerVars, issued, supply, genesisHolders, createContracts>>

NoRates == [fn \in {} |-> 0]

\* Mutant: an empty answer makes the policy nil.
TokenUpdateNil(meta) ==
    /\ issued
    /\ IF meta = NoPolicy
       THEN /\ policy # NoPolicy
            /\ policy' = NoPolicy
       ELSE policy' = [meta EXCEPT !.target = IF @ # NoTarget THEN @
                                   ELSE IF policy = NoPolicy THEN Genesis ELSE policy.target]
    /\ UNCHANGED <<bal, suspended, pending, contracts, fees, now, nextTx, settled,
                   tokenVars>>

\* tokenUpdate: the token takes the fee policy the meta chaincode answers
\* (getValidatedTokenMeta).  An answer without fee keeps an existing
\* policy's target and removes its rates ("we must not make
\* Token.FeePolicy nil"), and changes nothing when there is no policy; an
\* answer without a target keeps the current one, or the genesis account.
TokenUpdate(meta) ==
    /\ issued
    /\ IF meta = NoPolicy
       THEN /\ policy # NoPolicy
            /\ policy' = [policy EXCEPT !.rates = NoRates]
       ELSE policy' = [meta EXCEPT !.target = IF @ # NoTarget THEN @
                                   ELSE IF policy = NoPolicy THEN Genesis ELSE policy.target]
    /\ UNCHANGED <<bal, suspended, pending, contracts, fees, now, nextTx, settled,
                   tokenVars>>

\* getValidatedTokenMeta: the initial supply must be between 0 and the max
\* supply (decimal and max_supply are not modelled: MaxSupply is the meta
\* chaincode's max_supply).
MetaValid(initSupply) == 0 <= initSupply /\ initSupply <= MaxSupply

\* The fee policy a token is created with: none when the meta has no fee,
\* and the genesis account as target when the meta names none.
CreatedPolicy(meta) ==
    IF meta = NoPolicy THEN NoPolicy
    ELSE [meta EXCEPT !.target = IF @ # NoTarget THEN @ ELSE Genesis]

\* TokenStub.CreateToken: a new joint genesis account of the n holders,
\* whose zero balance is supplied the initial supply when it is positive,
\* and the token state with that supply and the fee policy.
CreateToken(n, initSupply, meta) ==
    /\ issued' = TRUE
    /\ genesisHolders' = n
    /\ supply' = initSupply
    /\ policy' = CreatedPolicy(meta)
    /\ IF initSupply > 0 THEN Supply(initSupply) ELSE UNCHANGED bal

\* token/create: "already issued token" when the token state exists; the
\* meta is validated; with co-holders (n > 1 signable ids) the creation
\* becomes a "token/create" contract, otherwise the token is created.
TokenCreate(n, initSupply, meta) ==
    /\ ~issued
    /\ MetaValid(initSupply)
    /\ IF n > 1
       THEN /\ nextTx <= MaxTx
            /\ createContracts' = createContracts @@ (nextTx :> [holders |-> n, status |-> "open"])
            /\ nextTx' = nextTx + 1
            /\ UNCHANGED <<issued, supply, genesisHolders, policy, bal>>
       ELSE /\ CreateToken(n, initSupply, meta)
            /\ UNCHANGED <<createContracts, nextTx>>
    /\ UNCHANGED <<suspended, pending, contracts, fees, now, settled, tokenContracts>>

\* Mutant: the callback does not look for an issued token.
ExecuteTokenCreateUnchecked(cid, initSupply, meta) ==
    /\ createContracts[cid].status = "open"
    /\ MetaValid(initSupply)
    /\ CreateToken(createContracts[cid].holders, initSupply, meta)
    /\ createContracts' = [createContracts EXCEPT ![cid].status = "executed"]
    /\ UNCHANGED <<suspended, pending, contracts, fees, now, nextTx, settled, tokenContracts>>

\* executeTokenCreate: the contract service finalises the contract.  The
\* callback fails with "already issued token" when another token/create got
\* there first, and otherwise asks the meta chaincode again: the supply and
\* the policy are those of execution time.
ExecuteTokenCreate(cid, initSupply, meta) ==
    /\ createContracts[cid].status = "open"
    /\ ~issued
    /\ MetaValid(initSupply)
    /\ CreateToken(createContracts[cid].holders, initSupply, meta)
    /\ createContracts' = [createContracts EXCEPT ![cid].status = "executed"]
    /\ UNCHANGED <<suspended, pending, contracts, fees, now, nextTx, settled, tokenContracts>>

\* contractVoid on a "token/create" contract.
CancelCreateContract(cid) ==
    /\ createContracts[cid].status = "open"
    /\ createContracts' = [createContracts EXCEPT ![cid].status = "cancelled"]
    /\ UNCHANGED <<ledgerVars, issued, supply, genesisHolders, tokenContracts>>

-----------------------------------------------------------------------------
TokenInit ==
    /\ LedgerInit
    /\ issued = FALSE
    /\ supply = 0
    /\ genesisHolders = 1
    /\ tokenContracts = <<>>
    /\ createContracts = <<>>

TokenNext ==
    \/ LedgerNext /\ UNCHANGED tokenVars
    \/ \E n \in HolderCounts, s \in InitialSupplies, meta \in MetaPolicies :
          TokenCreate(n, s, meta)
    \/ \E cid \in DOMAIN createContracts, s \in InitialSupplies, meta \in MetaPolicies :
          ExecuteTokenCreate(cid, s, meta)
    \/ \E cid \in DOMAIN createContracts : CancelCreateContract(cid)
    \/ \E amount \in SupplyAmounts : TokenMint(amount) \/ TokenBurn(amount)
    \/ \E cid \in DOMAIN tokenContracts :
          \/ ExecuteTokenMint(cid)
          \/ ExecuteTokenBurn(cid)
          \/ CancelTokenContract(cid)
    \/ \E meta \in MetaPolicies : TokenUpdate(meta)

TokenSpec == TokenInit /\ [][TokenNext]_tokenAllVars

-----------------------------------------------------------------------------
(* Properties                                                              *)

\* Supply bound (spec section 8): 0 <= Token.Supply <= MaxSupply, however
\* mint and burn contracts created against an older supply are executed.
SupplyBounded == 0 <= supply /\ supply <= MaxSupply

\* The supply is the value in the system: balances, escrows and fee rows
\* add up to Token.Supply after every mint, burn, transfer and callback.
SupplyMatchesValue == LedgerValue = supply

\* A nil fee policy means there is no fee row, as fee/prune assumes when it
\* returns an empty sum without looking (fee rows are never deleted): once
\* a transfer has paid a fee, no token/update leaves the token without a
\* policy.
FeeRowsHavePolicy == policy = NoPolicy => fees = {}
=============================================================================
