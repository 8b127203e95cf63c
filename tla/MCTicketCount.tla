---------------------------- MODULE MCTicketCount ----------------------------
(* TicketCount with two miners that are alike. *)
EXTENDS TicketCount, TLC

CONSTANTS mA, mB   \* the miners

Miners == {mA, mB}

OneEach == [m \in Miners |-> 1]

MinersAlike == Permutations(Miners)
=============================================================================
