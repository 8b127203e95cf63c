-------------------------------- MODULE Network --------------------------------
(***************************************************************************)
(* The gossip of the nodes over the connections they have: Gossip composed *)
(* with Peers.  A message of a run loop only gets to a node that a chain   *)
(* of connections leads to; the peers a forwarding node knows travel on    *)
(* the last topic that run joins.                                          *)
(***************************************************************************)
EXTENDS Gossip

CONSTANTS BootPeers, Malformed, ForwardPeers

VARIABLES conn, known

Mesh == INSTANCE Peers

peerVars == <<conn, known>>

netVars == <<vars, peerVars>>

NetInit == Init /\ Mesh!PeersInit

Subscribed == {n \in Node : joined[n] = Topics}

Over(A) == A /\ UNCHANGED peerVars

Connects(A) == A /\ UNCHANGED vars

Arrive(n, m) == Mesh!Reaches(n, Author[m]) /\ Receive(n, m)

Carries(n, m) == Arrive(n, m) \/ Pipeline(n, m)

NetNext ==
    \/ \E n \in Node : Over(Join(n))
    \/ \E m \in Msg : Over(Send(m))
    \/ \E n \in Node, m \in Msg : Over(Carries(n, m))
    \/ Connects(Mesh!PeersNext(Subscribed))

NetSpec == NetInit /\ [][NetNext]_netVars

PeersArrive ==
    \E n \in Subscribed, f \in Subscribed \cap ForwardPeers : Mesh!SendPeerstore(f, n, Node)

\* The goroutines go on: run joins the topics, messages get through, the timers of
\* bootstrap and sendPeerstore fire, and dialling a node that runs does not fail
\* for ever.  Nothing is assumed of discovery or of pubsub.
FairNet ==
    /\ NetSpec
    /\ WF_netVars(\E n \in Node : Over(Join(n)))
    /\ WF_netVars(\E n \in Node, m \in Msg : Over(Pipeline(n, m)))
    /\ WF_netVars(Connects(\E n \in Node : Mesh!Bootstrap(n, Node)))
    /\ WF_netVars(Connects(PeersArrive))
-----------------------------------------------------------------------------
(* Properties *)

\* Once no more connections are lost, nodes that boot from one forwarding node are
\* connected with each other for good, although neither has the other in its
\* configuration and their lists have peers that are gone or malformed.
Meshed ==
    <>[][conn \subseteq conn']_conn =>
        \A n, p \in Node : Mesh!ShareForwarder(n, p) => <>[]Mesh!Linked(n, p)
=============================================================================
