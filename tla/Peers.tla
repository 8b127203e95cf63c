-------------------------------- MODULE Peers --------------------------------
(***************************************************************************)
(* How nodes get connected (plugin/consensus/pos33/gossip2.go): bootstrap  *)
(* dials the configured peers at start and every minute, a forwarding node *)
(* publishes the peers it knows, who receives that dials them, and a node  *)
(* dials peers that discovery (DHT, mdns) finds.                           *)
(*                                                                         *)
(* Addresses are abstract: the peerstore is the set of peers it has an     *)
(* address of.  libp2p is external: a connection may fail to come about    *)
(* and may be lost, as often as it likes.                                  *)
(***************************************************************************)
EXTENDS Naturals, FiniteSets, Sequences, Functions

CONSTANTS
    Node,
    BootPeers,     \* for each node, the bootPeers of its configuration in order
    Malformed,     \* an entry that is not the address of a peer
    ForwardPeers   \* the nodes that publish the peers they know

VARIABLES
    conn,          \* the connections: sets of two nodes
    known          \* for each node that publishes it, its peerstore

PeersInit == conn = {} /\ known = [f \in ForwardPeers |-> {}]

Linked(n, p) == {n, p} \in conn

\* pubsub relays a message to the peers of a peer.
Reaches(n, p) == Linked(n, p) \/ \E q \in Node : Linked(n, q) /\ Linked(q, p)

\* Mutated: the loop ends at the first peer that does not connect.
DialledFirst(n, up) ==
    {BootPeers[n][i] : i \in {j \in DOMAIN BootPeers[n] :
        /\ \A h \in 1..j : BootPeers[n][h] # Malformed
        /\ \A h \in 1..(j - 1) : BootPeers[n][h] \in up}}

\* bootstrap returns at an entry that is malformed and goes on after a peer that
\* does not connect.
Dialled(n, up) ==
    {BootPeers[n][i] : i \in {j \in DOMAIN BootPeers[n] :
        \A h \in 1..j : BootPeers[n][h] # Malformed}}

\* Of the peers a node dials, those in up answer; a peer that is dialled learns
\* the caller's address (identify, and the handler of raddrPid).
Dial(n, peers, up) ==
    /\ conn' = conn \cup {{n, p} : p \in peers \cap up}
    /\ known' = [q \in ForwardPeers |->
                    known[q] \cup (IF q = n THEN peers ELSE {})
                             \cup (IF q \in peers \cap up THEN {n} ELSE {})]

\* At start and every 60 seconds.
Bootstrap(n, up) == Dial(n, Dialled(n, up), up)

\* A node receives the peers that another one knows.
HandlePeers(n, peers, up) == Dial(n, peers \ {n}, up)

\* sendPeerstore of f, every 60 seconds, reaches n; the host knows its own address.
SendPeerstore(f, n, up) ==
    /\ f \in ForwardPeers /\ n # f /\ Reaches(f, n)
    /\ HandlePeers(n, known[f] \cup {f}, up)

\* discover, HandlePeerFound: the DHT or mdns found p.  The goroutine of discover
\* ends with the first peer that does not answer; none needs to be found.
Discover(n, p, up) == p # n /\ Dial(n, {p}, up)

\* A connection is lost.
Drop ==
    /\ \E c \in conn : conn' = conn \ {c}
    /\ UNCHANGED known

\* The nodes in subscribed have joined the topic of peers.
PeersNext(subscribed) ==
    \/ Drop
    \/ \E n, p \in Node : \E up \in SUBSET {p} : Discover(n, p, up)
    \/ \E n \in Node : \E up \in SUBSET Range(BootPeers[n]) : Bootstrap(n, up)
    \/ \E n \in subscribed, f \in subscribed \cap ForwardPeers :
          \E up \in SUBSET (known[f] \cup {f}) : SendPeerstore(f, n, up)
-----------------------------------------------------------------------------
(* Properties *)

\* Node f is among the boot peers of n, before the first malformed entry.
Boots(n, f) ==
    \E i \in DOMAIN BootPeers[n] :
        BootPeers[n][i] = f /\ \A h \in 1..(i - 1) : BootPeers[n][h] # Malformed

\* Two nodes that boot from one forwarding node.
ShareForwarder(n, p) == n # p /\ \E f \in ForwardPeers : Boots(n, f) /\ Boots(p, f)
=============================================================================
