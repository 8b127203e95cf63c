------------------------------- MODULE NodeLife -------------------------------
(***************************************************************************)
(* The life of one node that mines: the consensus client waits until the   *)
(* chain is in sync, its wallet has a miner and the miner has stake        *)
(* (CreateBlock), then runs the loop of pos33 until it is closed           *)
(* (plugin/consensus/pos33/pos33.go, node.go).  The wallet is MinerWallet. *)
(***************************************************************************)
EXTENDS MinerWallet, Sequences

CONSTANTS
    Ticker,        \* the goroutines of runLoop that ask whether the chain is in sync
    ForceMining,   \* configuration
    Silent         \* a goroutine waits for its ticker

VARIABLES
    caughtUp,      \* IsCaughtUp: the blockchain is in sync
    key,           \* client.priv and myAddr
    phase,         \* where CreateBlock is
    closing,       \* Close waits for its message on done to be received
    isSync,        \* of runLoop
    syncCh,        \* of runLoop, capacity 1
    tick           \* what a goroutine wants to send to syncCh

clientVars == <<caughtUp, key, phase, closing, isSync, syncCh, tick>>
vars == <<walletVars, clientVars>>

Init ==
    /\ WalletInit 
    /\ caughtUp = FALSE
    /\ key = NoAcc /\ phase = "poll" /\ closing = FALSE
    /\ isSync = FALSE /\ syncCh = << >>
    /\ tick = [t \in Ticker |-> Silent]

\* The blockchain falls behind or catches up.
Sync ==
    /\ caughtUp' = ~caughtUp
    /\ UNCHANGED <<walletVars, key, phase, closing, isSync, syncCh, tick>>

\* myCount asks the wallet for the key until it has one, then for the tickets.
MyKey == IF key = NoAcc THEN OnWalletGetMiner ELSE key

\* Mutated: the key is only asked for before the loop.
PollKeyOnce ==
    /\ phase = "poll" /\ ~closing
    /\ IF caughtUp \/ ForceMining
       THEN phase' = IF key \in staked THEN "run" ELSE "poll"
       ELSE UNCHANGED phase
    /\ isSync' = caughtUp
    /\ UNCHANGED <<walletVars, caughtUp, key, closing, syncCh, tick>>

\* A turn of the loop in CreateBlock; minerstart is set in the configuration.
\* The run loop starts when the miner has tickets.
Poll ==
    /\ phase = "poll" /\ ~closing
    /\ IF caughtUp \/ ForceMining
       THEN /\ key' = MyKey
            /\ phase' = IF MyKey \in staked THEN "run" ELSE "poll"
       ELSE UNCHANGED <<key, phase>>
    /\ isSync' = caughtUp
    /\ UNCHANGED <<walletVars, caughtUp, closing, syncCh, tick>>

Close ==
    /\ ~closing
    /\ closing' = TRUE
    /\ UNCHANGED <<walletVars, caughtUp, key, phase, isSync, syncCh, tick>>

\* Mutated: the loop of CreateBlock does not look at done.
DoneRunning ==
    /\ closing /\ phase = "run" /\ isSync
    /\ phase' = "stopped"
    /\ UNCHANGED <<walletVars, caughtUp, key, closing, isSync, syncCh, tick>>

\* case <-done, in CreateBlock or in runLoop, which does not get to its select
\* while it is not in sync.
Done ==
    /\ closing
    /\ phase = "poll" \/ (phase = "run" /\ isSync)
    /\ phase' = "stopped"
    /\ UNCHANGED <<walletVars, caughtUp, key, closing, isSync, syncCh, tick>>

\* Mutated: the loop waits for the tickers to learn that it is in sync.
WaitSyncTold ==
    /\ phase = "run" /\ ~isSync /\ syncCh # << >>
    /\ isSync' = Head(syncCh)
    /\ syncCh' = << >>
    /\ UNCHANGED <<walletVars, caughtUp, key, phase, closing, tick>>

\* if !isSync
WaitSync ==
    /\ phase = "run" /\ ~isSync
    /\ isSync' = caughtUp
    /\ UNCHANGED <<walletVars, caughtUp, key, phase, closing, syncCh, tick>>

\* case isSync = <-syncCh
TakeSync ==
    /\ phase = "run" /\ isSync /\ syncCh # << >>
    /\ isSync' = Head(syncCh)
    /\ syncCh' = << >>
    /\ UNCHANGED <<walletVars, caughtUp, key, phase, closing, tick>>

\* A ticker fires: the answer is as old as the wait for room in syncCh.  Nobody
\* reads it when the loop has ended.
Tick(t) ==
    /\ phase = "run" /\ tick[t] = Silent
    /\ tick' = [tick EXCEPT ![t] = caughtUp]
    /\ UNCHANGED <<walletVars, caughtUp, key, phase, closing, isSync, syncCh>>

\* syncCh <- n.IsCaughtUp()
TickSends(t) ==
    /\ tick[t] # Silent /\ syncCh = << >>
    /\ syncCh' = <<tick[t]>>
    /\ tick' = [tick EXCEPT ![t] = Silent]
    /\ UNCHANGED <<walletVars, caughtUp, key, phase, closing, isSync>>

Wallet == WalletNext /\ UNCHANGED clientVars

Loop == WaitSync \/ TakeSync

Next ==
    \/ Wallet
    \/ Sync \/ Close
    \/ Poll \/ Loop \/ Done
    \/ \E t \in Ticker : Tick(t) \/ TickSends(t)

Spec == Init /\ [][Next]_vars

\* The loops go on and a select takes what is ready.  Transactions leave the pool
\* one way or the other.  The owner repeats blsbind until the key is bound, and
\* not every binding sent is lost.
FairSpec ==
    /\ Spec
    /\ WF_vars(Poll) /\ WF_vars(WaitSync) /\ WF_vars(Done)
    /\ WF_vars(((\E tx \in pool : ExecTx(tx)) \/ LoseTx) /\ UNCHANGED clientVars)
    /\ SF_vars(OnBlsBind /\ UNCHANGED clientVars)
    /\ \A a \in Acc : SF_vars(ExecTx(Tx("BlsBind", a)) /\ UNCHANGED clientVars)
-----------------------------------------------------------------------------
(* Properties *)

\* Types; the loop never runs without a key, which it would panic for.
TypeOK ==
    /\ WalletTypeOK
    /\ {caughtUp, closing, isSync} \subseteq BOOLEAN
    /\ key \in Acc \cup {NoAcc}
    /\ phase \in {"poll", "run", "stopped"}
    /\ phase = "run" => key # NoAcc
    /\ syncCh \in {<< >>, <<TRUE>>, <<FALSE>>}

\* A node whose chain is in sync, whose wallet stays open and whose miner has
\* stake starts to mine, unless it took up the key of another account before.
NodeStarts ==
    \A a \in Acc :
        <>[](/\ caughtUp /\ ~locked
             /\ label = a /\ a \in staked
             /\ key \in {NoAcc, a})
            => <>[](phase # "poll")

\* A node whose chain stays in sync can be closed, in whichever loop it is.
CloseReturns == <>[]caughtUp => (closing ~> phase = "stopped")

\* Old answers of the tickers do not keep a node out of sync: when the chain stays
\* in sync the loop does so too, in the end.
StaysInSync == <>[]caughtUp => []<>(phase = "run" => isSync)

\* The key of the account that stays the mining account gets bound.
MinerBound ==
    \A a \in Acc : <>[](label = a /\ ~locked) => <>[](a \in bound)
=============================================================================
