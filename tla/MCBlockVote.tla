----------------------------- MODULE MCBlockVote -----------------------------
(* Small instances of the block vote for TLC. *)
EXTENDS BlockVote

CONSTANTS nA, nB, nC   \* the nodes

\* Three sorts in each round: in round 0 nA is the first candidate and nB has two
\* votes, in round 1 nB is the first and nA has two votes.
MCTwoRounds == 1..6
MCTwoOwners == <<nA, nB, nB, nB, nA, nA>>
MCTwoViews ==
    {[r \in 0..1 |-> [n \in {nA, nB} |-> IF r = 0 THEN 1..3 ELSE 4..6]]}

\* Four sorts in round 0, three in round 1.
MCFewerLater == 1..7
MCFewerLaterOwners == <<nA, nA, nB, nB, nB, nA, nA>>
MCFewerLaterViews ==
    {[r \in 0..1 |-> [n \in {nA, nB} |-> IF r = 0 THEN 1..4 ELSE 5..7]]}

\* Four sorts, one node drew two.
MCFourSorts == 1..4
MCFourOwners == <<nA, nB, nC, nA>>

\* Every node has set the whole committee for round 0, none for round 1.
MCOneRound == {[r \in 0..1 |-> [n \in {nA, nB, nC} |-> IF r = 0 THEN 1..4 ELSE {}]]}
=============================================================================
