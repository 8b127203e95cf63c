------------------------------- MODULE SortDraw -------------------------------
(* What doSort promises: asked to draw with a number of stake units, it tells,
   once, exactly those that won (plugin/consensus/pos33/sortition.go). *)
EXTENDS Naturals

CONSTANT MaxCount   \* bound on the stake units a node draws with

VARIABLES
    wins,     \* for each unit of the draw, whether its hash wins; << >> between calls
    drawn     \* the units the last draw returned

\* The draws of a node with stake.
Draw == UNION {[1..n -> BOOLEAN] : n \in 1..MaxCount}

Init == wins = << >> /\ drawn = {}

Ask ==
    /\ wins = << >>
    /\ wins' \in Draw
    /\ UNCHANGED drawn

\* A node without stake, or without its miner's key, draws nothing.
AskNone ==
    /\ wins = << >>
    /\ drawn' = {}
    /\ UNCHANGED wins

Answer ==
    /\ wins # << >>
    /\ wins' = << >>
    /\ drawn' = {i \in DOMAIN wins : wins[i]}

Next == Ask \/ AskNone \/ Answer

Spec == Init /\ [][Next]_<<wins, drawn>>
=============================================================================
