------------------------------ MODULE Broadcast ------------------------------
(* What the votes of a round may expect of the network: a node handles a
   message of its own when it sends it, every other node handles it later, in any
   order or never, and no node handles it twice
   (plugin/consensus/pos33/node.go, gossip2.go). *)
EXTENDS Naturals

CONSTANTS
    Node,
    Msg,
    Author     \* the node that sends a message

VARIABLE handled    \* how often a node handled a message

Init == handled = [n \in Node |-> [m \in Msg |-> 0]]

Send(m) ==
    /\ handled[Author[m]][m] = 0
    /\ handled' = [handled EXCEPT ![Author[m]][m] = 1]

Handle(n, m) ==
    /\ n # Author[m] /\ handled[Author[m]][m] = 1
    /\ handled[n][m] = 0
    /\ handled' = [handled EXCEPT ![n][m] = 1]

Next == \E m \in Msg : Send(m) \/ \E n \in Node : Handle(n, m)

Spec == Init /\ [][Next]_handled
=============================================================================
