----------------------------- MODULE MinerWallet -----------------------------
(***************************************************************************)
(* The wallet of a node that mines, and the way of its transactions into   *)
(* the contract: a command calls the RPC, the RPC the wallet's policy, the *)
(* policy looks up the miner's key and the contract's state, signs and     *)
(* sends a transaction; the mempool checks it and a block executes it      *)
(* (plugin/dapp/pos33/commands, rpc, wallet, executor).                    *)
(*                                                                         *)
(* The contract's state is reduced to what the wallet asks for: whose BLS  *)
(* key is bound and who has stake.  The blocks are those after the fork    *)
(* UseEntrust.                                                             *)
(***************************************************************************)
EXTENDS Naturals, FiniteSets

CONSTANTS
    Acc,        \* the accounts a wallet may use for mining
    NoAcc,
    MaxPool     \* bound on the transactions that wait for a block

VARIABLES
    label,      \* the account labelled "mining", NoAcc for none
    locked,     \* the wallet is locked
    pool,       \* transactions sent and not yet in a block
    bound,      \* accounts whose BLS address is bound to them
    recorded,   \* accounts with a consignee record
    staked      \* those of them with tickets

walletVars == <<label, locked, pool, bound, recorded, staked>>

Kind == {"BlsBind", "FeeRate", "Migrate", "Entrust", "Unentrust", "Miner"}

Tx(k, a) == [kind |-> k, acc |-> a]

WalletInit ==
    /\ label = NoAcc /\ locked = TRUE
    /\ pool = {} /\ bound = {} /\ recorded = {} /\ staked = {}

\* The key of the account labelled "mining".  Addresses are those of ethID
\* (ycc.go, defaultDriver), so the wallet has the key of its address.
GetMiner == IF locked THEN NoAcc ELSE label

\* The owner creates or relabels the account.
SetLabel ==
    /\ \E a \in Acc \ {label} : label' = a
    /\ UNCHANGED <<locked, pool, bound, recorded, staked>>

Lock ==
    /\ locked' = ~locked
    /\ UNCHANGED <<label, pool, bound, recorded, staked>>

\* In the mempool: a miner transaction is only made with its block.
CheckTx(tx) == tx.kind # "Miner"

SendTx(tx) ==
    /\ CheckTx(tx) /\ Cardinality(pool) < MaxPool
    /\ pool' = pool \cup {tx}
    /\ UNCHANGED <<label, locked, bound, recorded, staked>>

\* Mutated: any binding of a miner counts for the one asked about.
NotBoundAny(a) == bound = {}

\* Query_Pos33BlsAddr fails for a BLS address that is not bound.
NotBound(a) == a \notin bound

\* Query_Pos33ConsigneeEntrust fails for an address that was never entrusted to.
NoRecord(a) == a \notin recorded

BlsBind(a) == NotBound(a) /\ SendTx(Tx("BlsBind", a))

Migrate(a) == NoRecord(a) /\ SendTx(Tx("Migrate", a))

SetMinerFeeRate(a) == SendTx(Tx("FeeRate", a))

\* The wallet's requests: each is about the account GetMiner gives, or fails.
OnBlsBind == GetMiner # NoAcc /\ BlsBind(GetMiner)

OnMigrate == GetMiner # NoAcc /\ Migrate(GetMiner)

OnSetMinerFeeRate == GetMiner # NoAcc /\ SetMinerFeeRate(GetMiner)

\* What the consensus client asks for.
OnWalletGetMiner == GetMiner

\* The calls of the RPC that end in the wallet.
WalletCalls == OnBlsBind \/ OnMigrate \/ OnSetMinerFeeRate

\* The command entrust and SetPos33Entrust of the RPC only make a transaction of
\* either sign; its owner signs and sends it.
NewEntrust(a) == {Tx("Entrust", a), Tx("Unentrust", a)}

Entrusts == \E a \in Acc : \E tx \in NewEntrust(a) : SendTx(tx)

\* GetTypeMap: what the contract has an action for.  Fee rates and migration are
\* commented out, so their transactions only pay their fee.
TypeMap == {"BlsBind", "Entrust", "Unentrust", "Miner"}

\* A block executes a transaction.
ExecTx(tx) ==
    /\ tx \in pool
    /\ pool' = pool \ {tx}
    /\ UNCHANGED <<label, locked>>
    /\ IF tx.kind \notin TypeMap THEN UNCHANGED <<bound, recorded, staked>>
       ELSE /\ bound' = IF tx.kind = "BlsBind" THEN bound \cup {tx.acc} ELSE bound
            /\ recorded' = IF tx.kind = "Entrust" THEN recorded \cup {tx.acc} ELSE recorded
            /\ staked' = CASE tx.kind = "Entrust" -> staked \cup {tx.acc}
                           [] tx.kind = "Unentrust" -> staked \ {tx.acc}
                           [] OTHER -> staked

\* A transaction expires or is dropped.
LoseTx ==
    /\ \E tx \in pool : pool' = pool \ {tx}
    /\ UNCHANGED <<label, locked, bound, recorded, staked>>

WalletNext ==
    \/ SetLabel \/ Lock
    \/ WalletCalls \/ Entrusts
    \/ \E tx \in pool : ExecTx(tx)
    \/ LoseTx

\* Types of the wallet's part of the state.
WalletTypeOK ==
    /\ label \in Acc \cup {NoAcc} /\ locked \in BOOLEAN
    /\ pool \subseteq [kind : Kind \ {"Miner"}, acc : Acc]
    /\ bound \subseteq Acc /\ recorded \subseteq Acc /\ staked \subseteq recorded
=============================================================================
