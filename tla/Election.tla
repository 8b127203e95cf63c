------------------------------- MODULE Election -------------------------------
(***************************************************************************)
(* The election of the committee of one height and round: nodes broadcast  *)
(* their sorts, then a vote on the sorts they know, then each node sets its *)
(* committee from the votes it received (plugin/consensus/pos33/node.go).  *)
(*                                                                         *)
(* In round 0 a node draws, votes and sets its committee when its chain    *)
(* reaches 10, 5 and 2 blocks before the height, in a later round on       *)
(* timeouts.  Either way the steps of one node come in this order, but a   *)
(* pre-block of a faster node makes it set its committee earlier.  Nodes   *)
(* are not synchronised, and broadcasts are delayed, reordered or lost     *)
(* (never delivered).                                                      *)
(***************************************************************************)
EXTENDS Committee

CONSTANT
    MaxCalls   \* bound on how often a node runs voteCommittee

ASSUME MaxCallsAssumption == MaxCalls \in Nat \ {0}

VARIABLES
    stage,     \* "start", then "drawn" once a node drew, "voted" once it voted
    css,       \* committee.css: the sorts a node knows
    svmp,      \* committee.svmp: the votes a node counted for each sort
    setted,    \* committee.setted
    comm,      \* committee.comm
    cast,      \* the votes on sorts sent so far
    counted,   \* the votes on sorts that reached a node
    late       \* TRUE once a node went on before everything had reached it

vars == <<stage, css, svmp, setted, comm, cast, counted, late>>

\* The no-th call of voteCommittee by a node.
Ballot == [from : Node, no : 1..MaxCalls, mine : SUBSET Sort, select : SUBSET Sort]

Init ==
    /\ stage = [n \in Node |-> "start"]
    /\ css = [n \in Node |-> {}]
    /\ svmp = [n \in Node |-> [s \in Sort |-> 0]]
    /\ setted = [n \in Node |-> FALSE]
    /\ comm = css
    /\ cast = {}
    /\ counted = css
    /\ late = FALSE

\* sortCommittee: draw, broadcast the sorts and handle them here.
SortCommittee(n) ==
    /\ stage[n] = "start"
    /\ stage' = [stage EXCEPT ![n] = "drawn"]
    /\ css' = [css EXCEPT ![n] = @ \cup Mine(n, Sort)]
    /\ UNCHANGED <<svmp, setted, comm, cast, counted, late>>

\* handleVoterSort: the sorts of node m reach n, the first batch counts.
HandleVoterSort(n, m) ==
    /\ stage[m] # "start"
    /\ Mine(m, Sort) # {}
    /\ Mine(m, css[n]) = {}
    /\ css' = [css EXCEPT ![n] = @ \cup Mine(m, Sort)]
    /\ UNCHANGED <<stage, svmp, setted, comm, cast, counted, late>>

\* Mutated: a ballot counts for its own sorts only.
TallyMine(votes, b) ==
    [s \in Sort |-> IF s \in b.mine THEN votes[s] + Cardinality(b.mine) ELSE votes[s]]

\* The votes after ballot b: its sender's sorts vote for every selected sort.
Tally(votes, b) ==
    [s \in Sort |-> IF s \in b.select THEN votes[s] + Cardinality(b.mine) ELSE votes[s]]

\* The ballot of n: it selects the first VoterSize sorts it knows, and votes
\* with its own sorts among them.
BallotOf(n) ==
    LET select == Smallest(css[n], VoterSize)
    IN  [from |-> n,
         no |-> Cardinality({b \in cast : b.from = n}) + 1,
         mine |-> Mine(n, select),
         select |-> select]

\* Mutated: the node's own ballot comes back to it and is counted again.
VoteCommitteeEchoed(n) ==
    /\ stage[n] # "start"
    /\ stage' = [stage EXCEPT ![n] = "voted"]
    /\ late' = (late \/ css[n] # Sort)
    /\ LET b == BallotOf(n)
       IN  IF b.mine = {} THEN UNCHANGED <<svmp, cast, counted>>
           ELSE /\ b.no <= MaxCalls
                /\ svmp' = [svmp EXCEPT ![n] = Tally(@, b)]
                /\ cast' = cast \cup {b}
                /\ UNCHANGED counted
    /\ UNCHANGED <<css, setted, comm>>

\* voteCommittee: broadcast the ballot and handle it here, if it has votes.
\* A second call comes from a block that is added again after a reorganisation
\* and from two timers of one height.
VoteCommittee(n) ==
    /\ stage[n] # "start"
    /\ stage' = [stage EXCEPT ![n] = "voted"]
    /\ late' = (late \/ css[n] # Sort)
    /\ LET b == BallotOf(n)
       IN  IF b.mine = {} THEN UNCHANGED <<svmp, cast, counted>>
           ELSE /\ b.no <= MaxCalls
                /\ svmp' = [svmp EXCEPT ![n] = Tally(@, b)]
                /\ cast' = cast \cup {b}
                /\ counted' = [counted EXCEPT ![n] = @ \cup {b}]
    /\ UNCHANGED <<css, setted, comm>>

\* handleCommittee: the ballot b reaches n.
HandleCommittee(n, b) ==
    /\ b \notin counted[n]
    /\ svmp' = [svmp EXCEPT ![n] = Tally(@, b)]
    /\ counted' = [counted EXCEPT ![n] = @ \cup {b}]
    /\ UNCHANGED <<stage, css, setted, comm, cast, late>>

\* Whether n may set its committee: its own turn has come after it voted, or a
\* pre-block of another node, which has set its committee and is a candidate in
\* it, makes n vote on the block.
Due(n) ==
    \/ stage[n] = "voted"
    \/ \E m \in Node \ {n} : Mine(m, Candidates(comm[m])) # {}

\* Mutated: a committee is set again from what arrived meanwhile.
SetCommitteeAgain(n) ==
    /\ Due(n)
    /\ setted' = [setted EXCEPT ![n] = TRUE]
    /\ comm' = [comm EXCEPT ![n] = Elect(css[n], svmp[n])]
    /\ late' = (late \/ cast \ counted[n] # {} \/ \E m \in Node : stage[m] # "voted")
    /\ UNCHANGED <<stage, css, svmp, cast, counted>>

\* setCommittee: once, from what has arrived.
SetCommittee(n) ==
    /\ Due(n)
    /\ ~setted[n]
    /\ setted' = [setted EXCEPT ![n] = TRUE]
    /\ comm' = [comm EXCEPT ![n] = Elect(css[n], svmp[n])]
    /\ late' = (late \/ cast \ counted[n] # {} \/ \E m \in Node : stage[m] # "voted")
    /\ UNCHANGED <<stage, css, svmp, cast, counted>>

Next ==
    \/ \E n \in Node : SortCommittee(n)
    \/ \E n, m \in Node : HandleVoterSort(n, m)
    \/ \E n \in Node : VoteCommittee(n)
    \/ \E n \in Node : \E b \in cast : HandleCommittee(n, b)
    \/ \E n \in Node : SetCommittee(n)

Spec == Init /\ [][Next]_vars
-----------------------------------------------------------------------------
(* Properties *)

\* Types.  A committee holds known sorts only.
TypeOK ==
    /\ stage \in [Node -> {"start", "drawn", "voted"}]
    /\ css \in [Node -> SUBSET Sort]
    /\ svmp \in [Node -> [Sort -> Nat]]
    /\ setted \in [Node -> BOOLEAN]
    /\ comm \in [Node -> SUBSET Sort] /\ \A n \in Node : comm[n] \subseteq css[n]
    /\ cast \subseteq Ballot
    /\ counted \in [Node -> SUBSET cast]
    /\ late \in BOOLEAN

\* The sorts whose owners voted for sort s.
Supporters(s) == UNION {b.mine : b \in {c \in cast : s \in c.select}}

\* Nobody is on a committee without the votes of MustVotes different sorts:
\* the counters of handleCommittee count each supporting sort once.
ElectedByVotes ==
    \A n \in Node : \A s \in comm[n] : Cardinality(Supporters(s)) >= MustVotes

\* When sorts are too few for two disjoint sets of MustVotes, any two sorts
\* that sit on committees, of the same node or of different nodes, were
\* selected together by some voter: no two groups of nodes that heard
\* different things can elect apart.
CommonVoter ==
    Cardinality(Sort) < 2 * MustVotes =>
        \A s, t \in UNION {comm[n] : n \in Node} :
            \E b \in cast : {s, t} \subseteq b.select

\* If every node had all sorts when it voted and all votes when it set its
\* committee, every committee is the first VoterSize sorts of all.
TimelyAgreement ==
    ~late /\ Cardinality(Sort) >= MustVotes =>
        \A n \in Node : setted[n] =>
            comm[n] = Smallest(Smallest(Sort, VoterSize), CommitteeSize)

\* A committee is set once: votes that arrive later never change it, so the
\* candidates a node votes on stay the same.
CommitteeFixed == [][\A n \in Node : setted[n] => setted'[n] /\ comm'[n] = comm[n]]_vars
=============================================================================
