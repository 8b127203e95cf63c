------------------------------ MODULE SignVotes ------------------------------
(***************************************************************************)
(* signVotes signs a node's ballots in goroutines it starts for the call:  *)
(* it hands each ballot to one of them over an unbuffered channel, closes  *)
(* the channel and waits for all of them to end                            *)
(* (plugin/consensus/pos33/node.go).                                       *)
(***************************************************************************)
EXTENDS Pools

VARIABLES
    size,      \* ballots of the call, 0 between calls
    handed,    \* ballots given to a goroutine
    hand,      \* the ballot a goroutine signs, 0 for none
    closed,    \* close(ch)
    ended,     \* the goroutines that called wg.Done
    signed     \* ballots with a signature

vars == <<size, handed, hand, closed, ended, signed>>

Init ==
    /\ size = 0 /\ handed = 0 /\ closed = FALSE
    /\ hand = [w \in Worker |-> 0]
    /\ ended = {} /\ signed = {}

\* voteBlock calls signVotes with its ballots, one at least.
Call ==
    /\ size = 0
    /\ size' \in 1..MaxCount
    /\ UNCHANGED <<handed, hand, closed, ended, signed>>

\* ch <- v
Hand(w) ==
    /\ handed < size
    /\ hand[w] = 0
    /\ handed' = handed + 1
    /\ hand' = [hand EXCEPT ![w] = handed + 1]
    /\ UNCHANGED <<size, closed, ended, signed>>

\* v.Sign(priv)
Sign(w) ==
    /\ hand[w] # 0
    /\ signed' = signed \cup {hand[w]}
    /\ hand' = [hand EXCEPT ![w] = 0]
    /\ UNCHANGED <<size, handed, closed, ended>>

Close ==
    /\ size # 0 /\ handed = size /\ ~closed
    /\ closed' = TRUE
    /\ UNCHANGED <<size, handed, hand, ended, signed>>

\* The range loop ends and wg.Done is called.
End(w) ==
    /\ closed /\ hand[w] = 0 /\ w \notin ended
    /\ ended' = ended \cup {w}
    /\ UNCHANGED <<size, handed, hand, closed, signed>>

\* Mutated: one wg.Add(1) for all goroutines.
AllEndedOne == ended # {}

\* wg.Wait
AllEnded == ended = Worker

Return ==
    /\ closed
    /\ AllEnded
    /\ size' = 0 /\ handed' = 0 /\ closed' = FALSE
    /\ hand' = [w \in Worker |-> 0]
    /\ ended' = {} /\ signed' = {}

SignerStep(w) == Hand(w) \/ Sign(w) \/ End(w)

Next == Call \/ Close \/ Return \/ \E w \in Worker : SignerStep(w)
-----------------------------------------------------------------------------
(* Properties *)

\* Types; no ballot is with two goroutines.
TypeOK ==
    /\ size \in 0..MaxCount /\ handed \in 0..size
    /\ hand \in [Worker -> 0..handed]
    /\ ended \subseteq Worker
    /\ signed \subseteq 1..handed
    /\ \A w, x \in Worker : hand[w] = hand[x] /\ hand[w] # 0 => w = x

\* When signVotes returns every ballot is signed: none is broadcast without its
\* signature while a goroutine still works on it.
AllSigned == [][size # 0 /\ size' = 0 => signed = 1..size]_vars
=============================================================================
