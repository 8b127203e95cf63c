-------------------------------- MODULE Gossip --------------------------------
(***************************************************************************)
(* The way of a message from the run loop of one node to that of another   *)
(* (plugin/consensus/pos33/gossip2.go, node.go): the sender handles its    *)
(* own message and publishes it on a topic; each subscriber's goroutine    *)
(* drops what comes from itself and puts the rest into g.C; goroutines of  *)
(* handleGossipMsg decode it and put it into the channel the run loop      *)
(* reads.                                                                  *)
(*                                                                         *)
(* A channel is the set of messages in it: four goroutines decode at once, *)
(* so its order is not that in which messages are handled.  pubsub is      *)
(* external: it gives a message to each node at most once, or never.        *)
(***************************************************************************)
EXTENDS Naturals, FiniteSets

CONSTANTS
    Node,
    Msg,
    Author,        \* the node that sends a message
    TopicOf,       \* the number of its topic, in the order run joins them
    Topics,        \* how many topics there are
    GossipRoom,    \* capacity of g.C
    Decoders,      \* goroutines of handleGossipMsg
    MsgRoom        \* capacity of the channel they write to

ASSUME GossipAssumption ==
    /\ Author \in [Msg -> Node]
    /\ TopicOf \in [Msg -> Nat] /\ Topics \in Nat
    /\ {GossipRoom, Decoders, MsgRoom} \subseteq Nat \ {0}

VARIABLES
    joined,        \* for each node, how many topics run has joined
    wire,          \* messages published
    seen,          \* for each node, the messages pubsub gave it
    C,             \* g.C
    decoding,      \* the messages in the goroutines of handleGossipMsg
    msgch,         \* the channel of decoded messages
    handled        \* how often a node handled a message

vars == <<joined, wire, seen, C, decoding, msgch, handled>>

None == [n \in Node |-> {}]

Init ==
    /\ joined = [n \in Node |-> 0]
    /\ wire = {}
    /\ seen = None /\ C = None /\ decoding = None /\ msgch = None
    /\ handled = [n \in Node |-> [m \in Msg |-> 0]]

\* run joins and subscribes to the topics one after the other, while the run
\* loop goes on.
Join(n) ==
    /\ joined[n] < Topics
    /\ joined' = [joined EXCEPT ![n] = @ + 1]
    /\ UNCHANGED <<wire, seen, C, decoding, msgch, handled>>

Joined(n, m) == TopicOf[m] <= joined[n]

\* sendCommitteeerSort, voteCommittee, sendBlockVotes and the maker of a block:
\* the message is handled here and published.  gossip returns an error, which
\* nobody looks at, when the topic is not joined.
Send(m) ==
    LET n == Author[m] IN
    /\ handled[n][m] = 0
    /\ handled' = [handled EXCEPT ![n][m] = @ + 1]
    /\ wire' = IF Joined(n, m) THEN wire \cup {m} ELSE wire
    /\ UNCHANGED <<joined, seen, C, decoding, msgch>>

\* pubsub has the message for node n, which may be its own.
Offered(n, m) == m \in wire /\ Joined(n, m) /\ m \notin seen[n]

\* Mutated: the subscriber's goroutine takes every message.
WantedAny(n, m) == TRUE

\* g.h.ID() == m.ReceivedFrom
Wanted(n, m) == n # Author[m]

\* Mutated: the goroutines of all topics see the last one, that of the peers.
ReceiveAsPeers(n, m) ==
    /\ Offered(n, m)
    /\ seen' = [seen EXCEPT ![n] = @ \cup {m}]
    /\ UNCHANGED <<joined, wire, C, decoding, msgch, handled>>

\* The subscriber's goroutine: g.C <- m.Data.  A message that is lost on the way,
\* or because the subscriber is blocked on g.C, is never received.
Receive(n, m) ==
    /\ Offered(n, m)
    /\ Wanted(n, m) => Cardinality(C[n]) < GossipRoom
    /\ seen' = [seen EXCEPT ![n] = @ \cup {m}]
    /\ C' = IF Wanted(n, m) THEN [C EXCEPT ![n] = @ \cup {m}] ELSE C
    /\ UNCHANGED <<joined, wire, decoding, msgch, handled>>

\* data := <-n.gss.C
Decode(n, m) ==
    /\ m \in C[n]
    /\ Cardinality(decoding[n]) < Decoders
    /\ C' = [C EXCEPT ![n] = @ \ {m}]
    /\ decoding' = [decoding EXCEPT ![n] = @ \cup {m}]
    /\ UNCHANGED <<joined, wire, seen, msgch, handled>>

\* ch <- pm
Pass(n, m) ==
    /\ m \in decoding[n]
    /\ Cardinality(msgch[n]) < MsgRoom
    /\ decoding' = [decoding EXCEPT ![n] = @ \ {m}]
    /\ msgch' = [msgch EXCEPT ![n] = @ \cup {m}]
    /\ UNCHANGED <<joined, wire, seen, C, handled>>

\* The run loop: msg := <-msgch.
HandlePos33Msg(n, m) ==
    /\ m \in msgch[n]
    /\ msgch' = [msgch EXCEPT ![n] = @ \ {m}]
    /\ handled' = [handled EXCEPT ![n][m] = @ + 1]
    /\ UNCHANGED <<joined, wire, seen, C, decoding>>

Pipeline(n, m) == Decode(n, m) \/ Pass(n, m) \/ HandlePos33Msg(n, m)

Next ==
    \/ \E n \in Node : Join(n)
    \/ \E m \in Msg : Send(m)
    \/ \E n \in Node, m \in Msg : Receive(n, m) \/ Pipeline(n, m)

Spec == Init /\ [][Next]_vars
-----------------------------------------------------------------------------
(* Properties *)

\* Types.
TypeOK ==
    /\ joined \in [Node -> 0..Topics]
    /\ wire \subseteq Msg
    /\ {seen, C, decoding, msgch} \subseteq [Node -> SUBSET Msg]
    /\ handled \in [Node -> [Msg -> Nat]]

\* What Election and BlockVote assume of a broadcast: no node handles a message
\* twice, not even its own, which comes back to it from pubsub, however the
\* goroutines are scheduled and whatever the channels hold.
Casts == INSTANCE Broadcast
    WITH Node <- Node, Msg <- Msg, Author <- Author, handled <- handled
ImplementsBroadcast == Casts!Spec

\* What pubsub gave a node, and is not the node's own, its run loop handles: the
\* goroutines and channels on the way lose nothing.
ReceivedIsHandled ==
    \A n \in Node, m \in Msg :
        m \in seen[n] /\ n # Author[m] ~> handled[n][m] > 0
=============================================================================
