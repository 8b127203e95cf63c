----------------------------- MODULE GossipProofs -----------------------------
(***************************************************************************)
(* The way of a message through the goroutines of a node keeps what the    *)
(* votes of a round expect of a broadcast, for any nodes, messages, topics *)
(* and channel capacities: proofs about Gossip, and about Network for any  *)
(* connections.                                                            *)
(***************************************************************************)
EXTENDS Network, TLAPS

\* Where message m is on its way to the run loop of node n.
InFlight(n, m) == m \in C[n] \/ m \in decoding[n] \/ m \in msgch[n]

\* A message is in one place of the way at most.
OnePlace(n, m) ==
    /\ ~(m \in C[n] /\ m \in decoding[n])
    /\ ~(m \in C[n] /\ m \in msgch[n])
    /\ ~(m \in decoding[n] /\ m \in msgch[n])

\* A message on its way is another node's, pubsub gave it once, and it has not
\* been handled; what pubsub has was published, and handled by its sender.
Underway(n, m) ==
    /\ handled[n][m] \in {0, 1}
    /\ m \in wire => handled[Author[m]][m] = 1
    /\ m \in seen[n] => m \in wire
    /\ InFlight(n, m) => n # Author[m] /\ m \in seen[n] /\ handled[n][m] = 0
    /\ n # Author[m] /\ handled[n][m] = 1 => m \in seen[n]
    /\ OnePlace(n, m)

\* The inductive invariant.
Inv == TypeOK /\ \A n \in Node, m \in Msg : Underway(n, m)

LEMMA InitInv == Init => Inv
BY GossipAssumption DEF Init, None, Inv, TypeOK, Underway, InFlight, OnePlace

LEMMA StepTypes == Inv /\ [Next]_vars => TypeOK'
<1> SUFFICES ASSUME Inv, [Next]_vars PROVE TypeOK'
  OBVIOUS
<1> USE GossipAssumption DEF Inv, TypeOK
<1>1. ASSUME NEW n \in Node, Join(n) PROVE TypeOK'
  BY <1>1 DEF Join
<1>2. ASSUME NEW m \in Msg, Send(m) PROVE TypeOK'
  BY <1>2 DEF Send
<1>3. ASSUME NEW n \in Node, NEW m \in Msg, Receive(n, m) PROVE TypeOK'
  BY <1>3 DEF Receive
<1>5. ASSUME NEW n \in Node, NEW m \in Msg, Decode(n, m) PROVE TypeOK'
  BY <1>5 DEF Decode
<1>6. ASSUME NEW n \in Node, NEW m \in Msg, Pass(n, m) PROVE TypeOK'
  BY <1>6 DEF Pass
<1>7. ASSUME NEW n \in Node, NEW m \in Msg, HandlePos33Msg(n, m) PROVE TypeOK'
  BY <1>7 DEF HandlePos33Msg
<1>8. CASE UNCHANGED vars
  BY <1>8 DEF vars
<1> QED
  BY <1>1, <1>2, <1>3, <1>5, <1>6, <1>7, <1>8 DEF Next, Pipeline

LEMMA StepUnderway ==
    ASSUME Inv, [Next]_vars, NEW p \in Node, NEW q \in Msg
    PROVE  Underway(p, q)'
<1>0. Author[q] \in Node /\ Underway(p, q) /\ Underway(Author[q], q)
  BY GossipAssumption DEF Inv
<1>1. ASSUME NEW n \in Node, Join(n) PROVE Underway(p, q)'
  BY <1>0, <1>1 DEF Join, Underway, InFlight, OnePlace
<1>2. ASSUME NEW m \in Msg, Send(m) PROVE Underway(p, q)'
  <2>1. Author[m] \in Node
    BY GossipAssumption
  <2>2. CASE m = q
    BY <1>0, <1>2, <2>1, <2>2 DEF Send, Inv, TypeOK, Underway, InFlight, OnePlace
  <2>3. CASE m # q
    <3>1. handled'[p][q] = handled[p][q] /\ handled'[Author[q]][q] = handled[Author[q]][q]
      BY <1>0, <1>2, <2>1, <2>3 DEF Send, Inv, TypeOK
    <3> QED
      BY <1>0, <1>2, <2>3, <3>1 DEF Send, Underway, InFlight, OnePlace
  <2> QED
    BY <2>2, <2>3
<1>3. ASSUME NEW n \in Node, NEW m \in Msg, Receive(n, m) PROVE Underway(p, q)'
  BY <1>0, <1>3 DEF Receive, Offered, Wanted, Inv, TypeOK, Underway, InFlight, OnePlace
<1>5. ASSUME NEW n \in Node, NEW m \in Msg, Decode(n, m) PROVE Underway(p, q)'
  BY <1>0, <1>5 DEF Decode, Inv, TypeOK, Underway, InFlight, OnePlace
<1>6. ASSUME NEW n \in Node, NEW m \in Msg, Pass(n, m) PROVE Underway(p, q)'
  BY <1>0, <1>6 DEF Pass, Inv, TypeOK, Underway, InFlight, OnePlace
<1>7. ASSUME NEW n \in Node, NEW m \in Msg, HandlePos33Msg(n, m) PROVE Underway(p, q)'
  <2>1. Underway(n, m) /\ m \in msgch[n]
    BY <1>7 DEF Inv, HandlePos33Msg
  <2>2. n # Author[m] /\ handled[n][m] = 0 /\ m \in seen[n]
    BY <2>1 DEF Underway, InFlight
  <2>3. handled' = [handled EXCEPT ![n][m] = 1]
    BY <1>7, <2>2 DEF HandlePos33Msg, Inv, TypeOK
  <2>4. handled'[Author[q]][q] = handled[Author[q]][q]
    BY <1>0, <2>2, <2>3 DEF Inv, TypeOK
  <2>5. CASE n = p /\ m = q
    <3>1. handled'[p][q] = 1
      BY <2>3, <2>5 DEF Inv, TypeOK
    <3>2. ~InFlight(p, q)'
      BY <1>7, <2>1, <2>5 DEF HandlePos33Msg, Inv, TypeOK, Underway, InFlight, OnePlace
    <3> QED
      BY <1>0, <1>7, <2>2, <2>4, <2>5, <3>1, <3>2
      DEF HandlePos33Msg, Underway, InFlight, OnePlace
  <2>6. CASE ~(n = p /\ m = q)
    <3>1. handled'[p][q] = handled[p][q]
      BY <2>3, <2>6 DEF Inv, TypeOK
    <3>2. InFlight(p, q)' <=> InFlight(p, q)
      BY <1>7, <2>6 DEF HandlePos33Msg, Inv, TypeOK, InFlight
    <3>3. OnePlace(p, q)'
      BY <1>0, <1>7, <2>6 DEF HandlePos33Msg, Inv, TypeOK, Underway, OnePlace
    <3> QED
      BY <1>0, <1>7, <2>4, <3>1, <3>2, <3>3 DEF HandlePos33Msg, Underway
  <2> QED
    BY <2>5, <2>6
<1>8. CASE UNCHANGED vars
  BY <1>0, <1>8 DEF vars, Underway, InFlight, OnePlace
<1> QED
  BY <1>1, <1>2, <1>3, <1>5, <1>6, <1>7, <1>8 DEF Next, Pipeline

LEMMA StepInv == Inv /\ [Next]_vars => Inv'
BY StepTypes, StepUnderway DEF Inv

\* A node handles its own message when it sends it, another node's at most once
\* (ImplementsBroadcast).
THEOREM GossipIsBroadcast == Spec => ImplementsBroadcast
<1>1. Init => Casts!Init
  BY DEF Init, Casts!Init
<1>2. Inv /\ [Next]_vars => [Casts!Next]_handled
  <2> SUFFICES ASSUME Inv, [Next]_vars PROVE Casts!Next \/ UNCHANGED handled
    OBVIOUS
  <2>1. ASSUME NEW m \in Msg, Send(m) PROVE Casts!Send(m)
    <3>1. Author[m] \in Node
      BY GossipAssumption
    <3> QED
      BY <2>1, <3>1 DEF Send, Casts!Send, Inv, TypeOK
  <2>2. ASSUME NEW n \in Node, NEW m \in Msg, HandlePos33Msg(n, m) PROVE Casts!Handle(n, m)
    <3>1. Underway(n, m) /\ InFlight(n, m)
      BY <2>2 DEF Inv, HandlePos33Msg, InFlight
    <3>2. n # Author[m] /\ handled[n][m] = 0 /\ handled[Author[m]][m] = 1
      BY <3>1 DEF Underway
    <3> QED
      BY <2>2, <3>2 DEF HandlePos33Msg, Casts!Handle, Inv, TypeOK
  <2>3. CASE \/ \E n \in Node : Join(n)
             \/ \E n \in Node, m \in Msg : Receive(n, m) \/ Decode(n, m) \/ Pass(n, m)
    BY <2>3 DEF Join, Receive, Decode, Pass
  <2>4. CASE UNCHANGED vars
    BY <2>4 DEF vars
  <2> QED
    BY <2>1, <2>2, <2>3, <2>4 DEF Next, Pipeline, Casts!Next
<1> QED
  BY <1>1, <1>2, InitInv, StepInv, PTL DEF Spec, ImplementsBroadcast, Casts!Spec

\* A step of the network is one of the goroutines or leaves them alone: a
\* connection decides only whether a message arrives.
LEMMA NetworkSteps == [NetNext]_netVars => [Next]_vars
<1> SUFFICES ASSUME [NetNext]_netVars PROVE Next \/ UNCHANGED vars
  OBVIOUS
<1>1. ASSUME NEW n \in Node, Over(Join(n)) PROVE Next
  BY <1>1 DEF Over, Next
<1>2. ASSUME NEW m \in Msg, Over(Send(m)) PROVE Next
  BY <1>2 DEF Over, Next
<1>3. ASSUME NEW n \in Node, NEW m \in Msg, Over(Carries(n, m)) PROVE Next
  BY <1>3 DEF Over, Carries, Arrive, Next
<1>4. CASE Connects(Mesh!PeersNext(Subscribed))
  BY <1>4 DEF Connects
<1>5. CASE UNCHANGED netVars
  BY <1>5 DEF netVars
<1> QED
  BY <1>1, <1>2, <1>3, <1>4, <1>5 DEF NetNext

\* However nodes find and lose each other, what the run loops see is a
\* broadcast (ImplementsBroadcast, for the network the run checks).
THEOREM NetworkIsBroadcast == NetSpec => ImplementsBroadcast
<1>1. NetInit => Init
  BY DEF NetInit
<1>2. NetSpec => Spec
  BY <1>1, NetworkSteps, PTL DEF NetSpec, Spec
<1> QED
  BY <1>2, GossipIsBroadcast
=============================================================================
