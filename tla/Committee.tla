------------------------------ MODULE Committee ------------------------------
(***************************************************************************)
(* The sorts (winning lottery tickets) of one height and round, and how a  *)
(* committee and its candidates are chosen among them                      *)
(* (plugin/consensus/pos33/node.go).                                       *)
(*                                                                         *)
(* A sort is named by its rank in the order of the sort hashes, so the     *)
(* lists the code sorts by hash are sets here.                             *)
(***************************************************************************)
EXTENDS Naturals, FiniteSets

CONSTANTS
    Node,           \* the nodes, each with one mining address
    Sort,           \* the sorts drawn by all nodes
    Owner,          \* the node that drew a sort
    VoterSize,      \* Pos33VoterSize
    CommitteeSize,  \* Pos33CommitteeSize
    MustVotes       \* Pos33MustVotes

ASSUME CommitteeAssumption ==
    /\ IsFiniteSet(Node)
    /\ Sort \subseteq Nat /\ IsFiniteSet(Sort)
    /\ Owner \in [Sort -> Node]
    /\ {VoterSize, CommitteeSize, MustVotes} \subseteq Nat \ {0}

\* The position of s in the sorted list of S, from 0.
Index(s, S) == Cardinality({t \in S : t < s})

\* The first k of the sorted list of S.
Smallest(S, k) == {s \in S : Index(s, S) < k}

\* The sorts in S that n drew.
Mine(n, S) == {s \in S : Owner[s] = n}

\* Mutated: a sort needs no number of votes.
ElectAny(css, svmp) == Smallest({t \in css : svmp[t] > 0}, CommitteeSize)

\* setCommittee: of the sorts that are known and voted for, the first
\* CommitteeSize, and of those the ones with enough votes.
Elect(css, svmp) ==
    {s \in Smallest({t \in css : svmp[t] > 0}, CommitteeSize) :
        svmp[s] >= MustVotes}

\* The first sort of each address in the committee C.  The loop ends at the
\* third member only if that member is the first of its address.
Candidates(C) ==
    LET firsts == {s \in C : \A t \in C : t < s => Owner[t] # Owner[s]}
    IN  {s \in firsts : \A t \in firsts : t < s => Index(t, C) # 2}
=============================================================================
