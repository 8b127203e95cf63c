----------------------------- MODULE NodeWorkers -----------------------------
(***************************************************************************)
(* The three jobs the run loop spreads over goroutines: verifying the      *)
(* votes of a message, drawing with the node's stake and signing ballots.  *)
(* All three are called from the run loop, one call at a time              *)
(* (plugin/consensus/pos33/node.go).                                       *)
(***************************************************************************)
EXTENDS VerifyVotes

VARIABLES
    wins, drawn, sent, sortQueue, sortBusy, sortGot,         \* doSort
    size, handed, hand, closed, ended, signed                \* signVotes

sortVars == <<wins, drawn, sent, sortQueue, sortBusy, sortGot>>
signVars == <<size, handed, hand, closed, ended, signed>>
allVars == <<vars, sortVars, signVars>>

Sorting == INSTANCE DoSort
    WITH wins <- wins, drawn <- drawn, sent <- sent,
         queue <- sortQueue, busy <- sortBusy, got <- sortGot

Signing == INSTANCE SignVotes
    WITH size <- size, handed <- handed, hand <- hand, closed <- closed,
         ended <- ended, signed <- signed

PoolsInit == Init /\ Sorting!Init /\ Signing!Init

\* The run loop is in none of the three calls.
LoopFree == valid = << >> /\ wins = << >> /\ size = 0

\* handleVoteMsg, sortCommittee or voteBlock.
LoopCalls ==
    /\ LoopFree
    /\ \/ Call /\ UNCHANGED <<sortVars, signVars>>
       \/ (Sorting!Call \/ Sorting!CallNone) /\ UNCHANGED <<vars, signVars>>
       \/ Signing!Call /\ UNCHANGED <<vars, sortVars>>

Verifies == (CallerStep \/ \E w \in Worker : WorkerStep(w)) /\ UNCHANGED <<sortVars, signVars>>

Feeds == Sorting!Feed /\ UNCHANGED <<vars, signVars>>

SortWorks(w) == Sorting!WorkerStep(w) /\ UNCHANGED <<vars, signVars>>

Hands == (Signing!Close \/ Signing!Return) /\ UNCHANGED <<vars, sortVars>>

Signs(w) == Signing!SignerStep(w) /\ UNCHANGED <<vars, sortVars>>

PoolsNext ==
    \/ LoopCalls
    \/ Verifies
    \/ Feeds \/ \E w \in Worker : SortWorks(w)
    \/ Hands \/ \E w \in Worker : Signs(w)

\* A goroutine that can go on goes on.
PoolsSpec ==
    /\ PoolsInit /\ [][PoolsNext]_allVars
    /\ WF_allVars(CallerStep /\ UNCHANGED <<sortVars, signVars>>)
    /\ WF_allVars(Feeds) /\ WF_allVars(Hands)
    /\ \A w \in Worker :
          /\ WF_allVars(WorkerStep(w) /\ UNCHANGED <<sortVars, signVars>>)
          /\ WF_allVars(SortWorks(w))
          /\ WF_allVars(Signs(w))
-----------------------------------------------------------------------------
(* Properties *)

\* doSort returns exactly the units that won, once per call (SortDraw).
SortImplements == Sorting!SortImplements

\* No ballot leaves the node unsigned (SignVotes).
AllSigned == Signing!AllSigned

\* The run loop comes back from every call.
LoopReturns == []<>LoopFree
=============================================================================
