-------------------------------- MODULE Pools --------------------------------
(* The sizes of the worker pools of the run loop: eight goroutines and request
   channels of capacity eight for verifying votes and for drawing
   (plugin/consensus/pos33/node.go, sortition.go). *)
EXTENDS Naturals, FiniteSets

CONSTANTS
    MaxVotes,    \* bound on the votes of one message
    MaxCount,    \* bound on the stake units a node draws with
    Worker,      \* the goroutines of a pool
    QueueSize    \* capacity of n.vCh and of n.sortCh

ASSUME PoolAssumption ==
    /\ MaxVotes \in Nat
    /\ MaxCount \in Nat
    /\ QueueSize \in Nat \ {0}
=============================================================================
