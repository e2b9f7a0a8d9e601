------------------------------ MODULE Accounts ------------------------------
(***************************************************************************)
(* The account directory (account_tx.go, account_stub.go): personal        *)
(* accounts, joint accounts with their holder sets, and the Holder         *)
(* relation rows (HOLDER_<kid>_<account>) that index them.                  *)
(*                                                                          *)
(* A personal account is identified by its holder's kid (its address is    *)
(* derived from it).  Creating a joint account, and adding or removing     *)
(* another holder, goes through a contract: the handler validates and      *)
(* creates the contract, and the contract service later calls              *)
(* executeAccountCreate / executeAccountHolderAdd / ...Remove, which        *)
(* validate again against the account as it is then, or cancels it         *)
(* (contractVoid).  Balances, authentication and address encoding are left *)
(* out: the invoker is any kid.                                            *)
(***************************************************************************)
EXTENDS Integers, FiniteSets, Bags, TLC

CONSTANTS
    Kids,          \* holder identifiers (kid)
    JointIds,      \* addresses available to new joint accounts (from tx ids)
    MaxHolders,    \* 128: the limit on holders of a joint account
    MaxContracts   \* bound on the contracts the handlers create

ASSUME /\ Kids \cap JointIds = {}
       /\ MaxHolders \in Nat /\ MaxContracts \in Nat

Addresses == Kids \cup JointIds   \* personal accounts are named by their kid

VARIABLES
    personal,    \* kids whose personal account exists
    suspended,   \* personal accounts with a suspended time
    holders,     \* joint account -> its Holders set
    holderRows,  \* the Holder relation: <<kid, account>> rows in the store
    actr,        \* open account contracts at the contract service (a bag)
    created      \* how many account contracts the handlers have created

vars == <<personal, suspended, holders, holderRows, actr, created>>

ContractRec ==
    [kind: {"account/create"}, set: SUBSET Kids]
    \cup [kind: {"account/holder/add", "account/holder/remove"},
          account: JointIds, holder: Kids]

AccountsTypeOK ==
    /\ personal \subseteq Kids
    /\ suspended \subseteq personal
    /\ DOMAIN holders \subseteq JointIds
    /\ \A j \in DOMAIN holders : holders[j] \subseteq Kids
    /\ holderRows \subseteq Kids \X Addresses
    /\ IsABag(actr) /\ BagToSet(actr) \subseteq ContractRec
    /\ created \in 0..MaxContracts

Joints == DOMAIN holders
Existing == personal \cup Joints

\* Mutant: a joint co-holder address stands for itself, not its holders.
SignableIDsSelf(a) == {a}

\* GetSignableIDs: the holder of a personal account, the holders of a
\* joint one.
SignableIDs(a) == IF a \in Kids THEN {a} ELSE holders[a]

\* contract.CreateContract: one more open contract with this document.
NewContract(rec) ==
    /\ created < MaxContracts
    /\ actr' = actr (+) SetToBag({rec})
    /\ created' = created + 1

\* The contract service finalises an open contract (execute or cancel).
CloseContract(c) == actr' = actr (-) SetToBag({c})

\* Mutant: the relation row of a removed holder is left in the store.
RemoveHolderKeepRow(j, k) ==
    /\ k \in holders[j]
    /\ holders' = [holders EXCEPT ![j] = @ \ {k}]
    /\ UNCHANGED holderRows

\* AccountStub.AddHolder / RemoveHolder: the account's Holders set and the
\* Holder relation row change together.
AddHolder(j, k) ==
    /\ k \notin holders[j]
    /\ holders' = [holders EXCEPT ![j] = @ \cup {k}]
    /\ holderRows' = holderRows \cup {<<k, j>>}

RemoveHolder(j, k) ==
    /\ k \in holders[j]
    /\ holders' = [holders EXCEPT ![j] = @ \ {k}]
    /\ holderRows' = holderRows \ {<<k, j>>}

-----------------------------------------------------------------------------
\* account/create without co-holders: AccountStub.CreateAccount ("existed
\* account" when it exists), with its zero balance and its holder row.
CreateAccount(k) ==
    /\ k \notin personal
    /\ personal' = personal \cup {k}
    /\ holderRows' = holderRows \cup {<<k, k>>}
    /\ UNCHANGED <<suspended, holders, actr, created>>

\* account/create with co-holder addresses: the invoker's personal account
\* must exist, at most 128 distinct addresses, each of which must exist;
\* the holders are the invoker and the signable ids of every address, at
\* least two of them.  The joint account is created by the contract.
AccountCreateJoint(k, addrs) ==
    /\ k \in personal
    /\ Cardinality(addrs) <= MaxHolders
    /\ addrs \subseteq Existing
    /\ LET hs == {k} \cup UNION {SignableIDs(a) : a \in addrs}
       IN  /\ Cardinality(hs) >= 2
           /\ NewContract([kind |-> "account/create", set |-> hs])
    /\ UNCHANGED <<personal, suspended, holders, holderRows>>

\* account/holder/add: "already has max holders", "no authority",
\* the target's personal account must exist, "existed holder".
AccountHolderAdd(j, k, t) ==
    /\ Cardinality(holders[j]) <= MaxHolders - 1
    /\ k \in holders[j]
    /\ t \in personal
    /\ t \notin holders[j]
    /\ NewContract([kind |-> "account/holder/add", account |-> j, holder |-> t])
    /\ UNCHANGED <<personal, suspended, holders, holderRows>>

\* account/holder/remove: "the account has minimum holders (2)", "no
\* authority"; a holder removing itself does so at once, any other removal
\* ("not existed holder" otherwise) goes through a contract.
AccountHolderRemove(j, k, t) ==
    /\ Cardinality(holders[j]) >= 3
    /\ k \in holders[j]
    /\ IF t = k
       THEN RemoveHolder(j, k) /\ UNCHANGED <<actr, created>>
       ELSE /\ t \in holders[j]
            /\ NewContract([kind |-> "account/holder/remove", account |-> j,
                            holder |-> t])
            /\ UNCHANGED <<holders, holderRows>>
    /\ UNCHANGED <<personal, suspended>>

\* executeAccountCreate: AccountStub.CreateJointAccount at a fresh random
\* address, with the holders of the document and one row per holder.
ExecuteAccountCreate(c) ==
    /\ c.kind = "account/create"
    /\ \E j \in JointIds \ Joints :
          /\ holders' = holders @@ (j :> c.set)
          /\ holderRows' = holderRows \cup (c.set \X {j})
    /\ CloseContract(c)
    /\ UNCHANGED <<personal, suspended, created>>

\* Mutant: the callback does not look at the account's size again.
ExecuteAccountHolderAddUnchecked(c) ==
    /\ c.kind = "account/holder/add"
    /\ AddHolder(c.account, c.holder)
    /\ CloseContract(c)
    /\ UNCHANGED <<personal, suspended, created>>

\* executeAccountHolderAdd: validated again against the account as it is
\* now ("already has max holders", "existed holder").
ExecuteAccountHolderAdd(c) ==
    /\ c.kind = "account/holder/add"
    /\ Cardinality(holders[c.account]) <= MaxHolders - 1
    /\ AddHolder(c.account, c.holder)
    /\ CloseContract(c)
    /\ UNCHANGED <<personal, suspended, created>>

\* Mutant: the callback does not look at the account's size again.
ExecuteAccountHolderRemoveUnchecked(c) ==
    /\ c.kind = "account/holder/remove"
    /\ RemoveHolder(c.account, c.holder)
    /\ CloseContract(c)
    /\ UNCHANGED <<personal, suspended, created>>

\* executeAccountHolderRemove: "the account has minimum holders (2)",
\* "not existed holder", checked again when the contract executes.
ExecuteAccountHolderRemove(c) ==
    /\ c.kind = "account/holder/remove"
    /\ Cardinality(holders[c.account]) >= 3
    /\ RemoveHolder(c.account, c.holder)
    /\ CloseContract(c)
    /\ UNCHANGED <<personal, suspended, created>>

\* contractVoid: cancelling an account contract leaves the accounts alone.
CancelAccountContract(c) ==
    /\ CloseContract(c)
    /\ UNCHANGED <<personal, suspended, holders, holderRows, created>>

\* account/suspend and account/unsuspend of a personal account.
AccountSuspend(k) ==
    /\ k \in personal \ suspended
    /\ suspended' = suspended \cup {k}
    /\ UNCHANGED <<personal, holders, holderRows, actr, created>>

AccountUnsuspend(k) ==
    /\ k \in suspended
    /\ suspended' = suspended \ {k}
    /\ UNCHANGED <<personal, holders, holderRows, actr, created>>

-----------------------------------------------------------------------------
AccountsInit ==
    /\ personal = {}
    /\ suspended = {}
    /\ holders = [j \in {} |-> {}]
    /\ holderRows = {}
    /\ actr = EmptyBag
    /\ created = 0

AccountsNext ==
    \/ \E k \in Kids : CreateAccount(k) \/ AccountSuspend(k) \/ AccountUnsuspend(k)
    \/ \E k \in Kids, addrs \in SUBSET Addresses : AccountCreateJoint(k, addrs)
    \/ \E j \in Joints, k, t \in Kids :
          AccountHolderAdd(j, k, t) \/ AccountHolderRemove(j, k, t)
    \/ \E c \in BagToSet(actr) :
          \/ ExecuteAccountCreate(c)
          \/ ExecuteAccountHolderAdd(c)
          \/ ExecuteAccountHolderRemove(c)
          \/ CancelAccountContract(c)

AccountsSpec == AccountsInit /\ [][AccountsNext]_vars

-----------------------------------------------------------------------------
(* Properties                                                              *)

\* A joint account always has at least two holders (spec section 2), even
\* when removal contracts created against the same account execute one
\* after another, or a holder removes itself while they are open.
JointMinHolders == \A j \in Joints : Cardinality(holders[j]) >= 2

\* A Holder row exists exactly when the holder has authority over the
\* account (spec section 2): the relation the holder queries read agrees
\* with the accounts' Holders sets after every create, add and remove.
HolderRowsMatch ==
    holderRows = {<<k, k>> : k \in personal}
                 \cup UNION {holders[j] \X {j} : j \in Joints}

\* Adding holders never takes an existing joint account past 128 holders,
\* however many add contracts were created while it had room.
HolderAddBounded ==
    [][\A j \in Joints :
         Cardinality(holders'[j]) > Cardinality(holders[j])
            => Cardinality(holders'[j]) <= MaxHolders]_vars

\* A joint account has at most 128 holders (spec section 2), the ones it
\* is created with included.
JointMaxHolders == \A j \in Joints : Cardinality(holders[j]) <= MaxHolders
=============================================================================
