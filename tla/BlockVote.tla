------------------------------- MODULE BlockVote -------------------------------
(***************************************************************************)
(* The nodes agree on the maker of one block: candidates broadcast         *)
(* pre-blocks, committee members vote for one of them, a candidate with a  *)
(* majority of the votes makes the block, and a timeout starts another     *)
(* round (plugin/consensus/pos33/node.go).                                 *)
(*                                                                         *)
(* Pre-blocks and votes for a height are exchanged while its parent is     *)
(* still being made, on top of one common grandparent.  Which committee    *)
(* each node has set for a round is an outcome of module Election.         *)
(***************************************************************************)
EXTENDS Committee

CONSTANTS
    MaxRound,   \* bound on the rounds
    Outcomes,   \* the committees the nodes may have set, by round and node
    MayCrash,   \* the nodes that may restart, each once
    Timely      \* TRUE if timers outlast every delivery

Round == 0..MaxRound

ASSUME BlockVoteAssumption ==
    /\ MaxRound \in Nat
    /\ MayCrash \subseteq Node
    /\ Outcomes \subseteq [Round -> [Node -> SUBSET Sort]]
    /\ Timely \in BOOLEAN

\* The block being made is 2 above the common grandparent, the parent 1.
Height == 2

\* The majority a maker and blockCheck ask for.
Majority == VoterSize \div 2 + 1

VARIABLES
    comm,       \* committee.comm, by round and node
    co,         \* the rest of the committee structs, by node and round
    tip,        \* height of a node's chain
    best,       \* the block of the height on a node's chain, if any
    known,      \* the blocks of the height a node has seen
    round,      \* round of the run loop
    timer,      \* what the run loop does next: "pre", "nch", "tch" or "none"
    preBlocks,  \* the pre-blocks broadcast, by round and sort
    ballots,    \* the block votes broadcast
    blocks,     \* the blocks made
    crashed     \* the nodes that restarted

vars == <<comm, co, tip, best, known, round, timer, preBlocks, ballots, blocks, crashed>>

\* A vote of a sort.  A node that restarted may cast it again, and the lists of
\* votes then hold both.
Vote == [sort : Sort, again : BOOLEAN]

\* bvmp holds pairs of a vote and the candidate it is for.
Struct == [preMaked : BOOLEAN, bmp : SUBSET Sort, armed : BOOLEAN,
           voted : BOOLEAN, bvmp : SUBSET (Vote \X Sort),
           makerIsMe : BOOLEAN, maked : BOOLEAN]

Ballot == [round : Round, cand : Sort, votes : SUBSET Vote]
Block == [round : Round, maker : Sort, votes : SUBSET Vote]

NewStruct == [preMaked |-> FALSE, bmp |-> {}, armed |-> FALSE, voted |-> FALSE,
              bvmp |-> {}, makerIsMe |-> FALSE, maked |-> FALSE]

\* Mutated: the votes are not kept apart by candidate.
VotesForAny(bvmp, c) == {p[1] : p \in bvmp}

VotesFor(bvmp, c) == {p[1] : p \in {q \in bvmp : q[2] = c}}

\* The order sort.Sort gives two votes.
Before(w, v) == w.sort < v.sort \/ (w.sort = v.sort /\ v.again /\ ~w.again)

\* minerTx: the first VoterSize of the sorted votes.
Kept(votes) ==
    {v \in votes : Cardinality({w \in votes : Before(w, v)}) < VoterSize}

\* The votes of node n in its committee of round r.
MyVotes(n, r) ==
    {[sort |-> s, again |-> n \in crashed] : s \in Mine(n, comm[r][n])}

\* myCandidataeSort: the candidate of n in its committee of round r, if any.
MyCandidate(n, r) == Mine(n, Candidates(comm[r][n]))

First(S) == CHOOSE s \in S : \A t \in S : s <= t
-----------------------------------------------------------------------------
(* The handlers of a node in one round.  A scene is all they read and write:  *)
(* the node's struct and chain, and what has been broadcast.                 *)

Scene(n, r) == [c |-> co[n][r], tip |-> tip[n], best |-> best[n],
                known |-> known[n], preBlocks |-> preBlocks,
                ballots |-> ballots, blocks |-> blocks]

\* newBlock: a block holds the votes its maker was chosen with.
NewBlock(r, c, votes) == [round |-> r, maker |-> c, votes |-> Kept(votes)]

\* setBlock: a block that is written is on the chain.
SetBlock(W, b) ==
    [W EXCEPT !.tip = Height, !.best = {b},
              !.known = @ \cup {b}, !.blocks = @ \cup {b}]

\* makeBlock0: the maker writes the block on its chain, once it has the parent.
MakeBlock(W, n, r) ==
    LET votes(c) == VotesFor(W.c.bvmp, c)
        due == {c \in MyCandidate(n, r) : Cardinality(votes(c)) >= Majority}
        V   == [W EXCEPT !.c.maked = TRUE]
    IN  IF ~W.c.makerIsMe \/ W.c.maked \/ W.tip < Height - 1 \/ due = {} THEN W
        ELSE SetBlock(V, NewBlock(r, First(due), votes(First(due))))

\* Mutated: votes are handled the same when the height has its block.
HandleVotesLate(W, n, r, vs, c) ==
    LET V == [W EXCEPT !.c.bvmp = @ \cup (vs \X {c})]
    IN  IF \/ Cardinality(VotesFor(V.c.bvmp, c)) <= VoterSize \div 2
           \/ c \notin MyCandidate(n, r)
        THEN V
        ELSE MakeBlock([V EXCEPT !.c.makerIsMe = TRUE], n, r)

\* Mutated: a majority that is complete before the parent is forgotten.
HandleVotesForgets(W, n, r, vs, c) ==
    LET V == [W EXCEPT !.c.bvmp = @ \cup (vs \X {c})]
    IN  IF \/ W.tip # Height - 1
           \/ Cardinality(VotesFor(V.c.bvmp, c)) <= VoterSize \div 2
           \/ c \notin MyCandidate(n, r)
        THEN V
        ELSE MakeBlock([V EXCEPT !.c.makerIsMe = TRUE], n, r)

\* handleVoteMsg: the votes vs for c.
HandleVotes(W, n, r, vs, c) ==
    LET V == [W EXCEPT !.c.bvmp = @ \cup (vs \X {c})]
    IN  IF \/ W.tip >= Height
           \/ Cardinality(VotesFor(V.c.bvmp, c)) <= VoterSize \div 2
           \/ c \notin MyCandidate(n, r)
        THEN V
        ELSE MakeBlock([V EXCEPT !.c.makerIsMe = TRUE], n, r)

\* verifyPreBlock: the candidates whose pre-block is here.
CandidatesHere(W, n, r) == Candidates(comm[r][n]) \cap W.c.bmp

\* Mutated: a node votes each time it is asked to.
VoteBlockAgain(W, n, r) ==
    LET here == CandidatesHere(W, n, r)
        vs   == MyVotes(n, r)
        V    == [W EXCEPT !.c.voted = TRUE]
        bal  == [round |-> r, cand |-> First(here), votes |-> vs]
    IN  IF here = {} THEN W
        ELSE IF vs = {} THEN V
        ELSE HandleVotes([V EXCEPT !.ballots = @ \cup {bal}], n, r, vs, First(here))

\* voteBlock: vote, once, for the first candidate whose pre-block is here.
VoteBlock(W, n, r) ==
    LET here == CandidatesHere(W, n, r)
        vs   == MyVotes(n, r)
        V    == [W EXCEPT !.c.voted = TRUE]
        bal  == [round |-> r, cand |-> First(here), votes |-> vs]
    IN  IF here = {} \/ W.c.voted THEN W
        ELSE IF vs = {} THEN V
        ELSE HandleVotes([V EXCEPT !.ballots = @ \cup {bal}], n, r, vs, First(here))

\* handleBlockMsg: the first pre-block starts a timer, with three the node votes.
HandleBlock(W, n, r, c) ==
    LET bmp == W.c.bmp \cup {c}
        V   == [W EXCEPT !.c.bmp = bmp,
                         !.c.armed = @ \/ Cardinality(bmp) = 1]
    IN  IF Cardinality(bmp) > 2 THEN VoteBlock(V, n, r) ELSE V

\* makePreBlock: once a round, a candidate broadcasts its pre-block.
MakePreBlock(W, n, r) ==
    LET V == [W EXCEPT !.c.preMaked = TRUE]
        c == First(MyCandidate(n, r))
    IN  IF W.c.preMaked THEN W
        ELSE IF MyCandidate(n, r) = {} THEN V
        ELSE HandleBlock([V EXCEPT !.preBlocks = @ \cup {<<r, c>>}], n, r, c)

\* The step of node n in round r that ends in scene W.
Becomes(n, r, W) ==
    /\ co' = [co EXCEPT ![n][r] = W.c]
    /\ tip' = [tip EXCEPT ![n] = W.tip]
    /\ best' = [best EXCEPT ![n] = W.best]
    /\ known' = [known EXCEPT ![n] = W.known]
    /\ preBlocks' = W.preBlocks
    /\ ballots' = W.ballots
    /\ blocks' = W.blocks
-----------------------------------------------------------------------------
Init ==
    /\ comm \in Outcomes
    /\ co = [n \in Node |-> [r \in Round |-> NewStruct]]
    /\ tip = [n \in Node |-> Height - 2]
    /\ best = [n \in Node |-> {}]
    /\ known = [n \in Node |-> {}]
    /\ round = [n \in Node |-> 0]
    /\ timer = [n \in Node |-> "pre"]
    /\ preBlocks = {} /\ ballots = {} /\ blocks = {}
    /\ crashed = {}

\* The run loop handles the grandparent.
NewGrandparent(n) ==
    /\ timer[n] = "pre"
    /\ timer' = [timer EXCEPT ![n] = "none"]
    /\ Becomes(n, 0, MakePreBlock(Scene(n, 0), n, 0))
    /\ UNCHANGED <<comm, round, crashed>>

\* The parent is added to the chain and handled: its timer leads to nch.
NewParent(n) ==
    /\ timer[n] = "none" /\ tip[n] = Height - 2
    /\ tip' = [tip EXCEPT ![n] = Height - 1]
    /\ round' = [round EXCEPT ![n] = 0]
    /\ timer' = [timer EXCEPT ![n] = "nch"]
    /\ UNCHANGED <<comm, co, best, known, preBlocks, ballots, blocks, crashed>>

\* case height := <-nch: make the block if its votes are here, and take part
\* in the round.  The channel is ignored once the height has its block.
Nch(n) ==
    /\ timer[n] = "nch" /\ tip[n] = Height - 1
    /\ LET r == round[n]
       IN  Becomes(n, r, MakePreBlock(MakeBlock(Scene(n, r), n, r), n, r))
    /\ timer' = [timer EXCEPT ![n] = "tch"]
    /\ UNCHANGED <<comm, round, crashed>>

\* Every broadcast of round r has reached every node.
Delivered(r) ==
    \A n \in Node :
        /\ co[n][r].preMaked
        /\ \A c \in Sort : <<r, c>> \in preBlocks => c \in co[n][r].bmp
        /\ \A b \in ballots : b.round = r => b.votes \X {b.cand} \subseteq co[n][r].bvmp

\* case height := <-tch: the block timed out, the next round starts.
Tch(n) ==
    /\ timer[n] = "tch" /\ tip[n] = Height - 1
    /\ round[n] < MaxRound
    /\ Timely => /\ Delivered(round[n]) /\ blocks = {}
                 /\ \A m \in Node : timer[m] = "tch" /\ ~co[m][round[n]].armed
    /\ round' = [round EXCEPT ![n] = @ + 1]
    /\ timer' = [timer EXCEPT ![n] = "nch"]
    /\ UNCHANGED <<comm, co, tip, best, known, preBlocks, ballots, blocks, crashed>>

\* handleBlockMsg for a pre-block of another node; a restarted node sends its
\* pre-block again.
HandleBlockMsg(n, r, c) ==
    /\ Owner[c] # n
    /\ c \notin co[n][r].bmp \/ Owner[c] \in crashed
    /\ Becomes(n, r, HandleBlock(Scene(n, r), n, r, c))
    /\ UNCHANGED <<comm, round, timer, crashed>>

\* handleVoteMsg for the votes of another node.
HandleVoteMsg(n, b) ==
    /\ \A v \in b.votes : Owner[v.sort] # n
    /\ ~(b.votes \X {b.cand} \subseteq co[n][b.round].bvmp)
    /\ Becomes(n, b.round, HandleVotes(Scene(n, b.round), n, b.round, b.votes, b.cand))
    /\ UNCHANGED <<comm, round, timer, crashed>>

\* case hr := <-n.vbch, from the timer of the first pre-block.
VoteTimer(n, r) ==
    /\ co[n][r].armed
    /\ Timely => Delivered(r)
    /\ LET W == [Scene(n, r) EXCEPT !.c.armed = FALSE]
       IN  Becomes(n, r, VoteBlock(W, n, r))
    /\ UNCHANGED <<comm, round, timer, crashed>>

\* blockCheck: the votes of a received block.
BlockCheck(b) == Cardinality(b.votes) >= Majority

\* A block made elsewhere passes blockCheck and is added to the chain.
AddBlock(n, b) ==
    /\ b \notin known[n] /\ BlockCheck(b)
    /\ tip[n] = Height - 1
    /\ tip' = [tip EXCEPT ![n] = Height]
    /\ best' = [best EXCEPT ![n] = {b}]
    /\ known' = [known EXCEPT ![n] = @ \cup {b}]
    /\ UNCHANGED <<comm, co, round, timer, preBlocks, ballots, blocks, crashed>>

\* A second block of the height is as difficult as the first (blockDiff), so
\* the framework asks the node which is better.  Any that passes blockCheck is.
CmpBestBlock(n, b) ==
    /\ b \notin known[n]
    /\ tip[n] = Height
    /\ known' = [known EXCEPT ![n] = @ \cup {b}]
    /\ best' = [best EXCEPT ![n] = IF BlockCheck(b) THEN {b} ELSE @]
    /\ UNCHANGED <<comm, co, tip, round, timer, preBlocks, ballots, blocks, crashed>>

\* A restart: the chain stays, everything in memory is lost.  The elections
\* from some round r0 on may still reach the node, the earlier ones do not.
Crash(n) ==
    /\ n \in MayCrash \ crashed
    /\ crashed' = crashed \cup {n}
    /\ co' = [co EXCEPT ![n] = [r \in Round |-> NewStruct]]
    /\ \E r0 \in 0..(MaxRound + 1) :
          comm' = [r \in Round |-> IF r < r0 THEN [comm[r] EXCEPT ![n] = {}]
                                   ELSE comm[r]]
    /\ round' = [round EXCEPT ![n] = 0]
    /\ timer' = [timer EXCEPT ![n] = IF tip[n] = Height - 2 THEN "pre"
                                     ELSE IF tip[n] = Height - 1 THEN "nch"
                                     ELSE "none"]
    /\ UNCHANGED <<tip, best, known, preBlocks, ballots, blocks>>

Next ==
    \/ \E n \in Node : NewGrandparent(n)
    \/ \E n \in Node : NewParent(n)
    \/ \E n \in Node : Nch(n)
    \/ \E n \in Node : Tch(n)
    \/ \E n \in Node : \E p \in preBlocks : HandleBlockMsg(n, p[1], p[2])
    \/ \E n \in Node : \E b \in ballots : HandleVoteMsg(n, b)
    \/ \E n \in Node, r \in Round : VoteTimer(n, r)
    \/ \E n \in Node : \E b \in blocks : AddBlock(n, b)
    \/ \E n \in Node : \E b \in blocks : CmpBestBlock(n, b)
    \/ \E n \in Node : Crash(n)

Spec == Init /\ [][Next]_vars

\* A node that can go on goes on: broadcasts arrive, timers fire.
FairSpec == Spec /\ WF_vars(Next)
-----------------------------------------------------------------------------
(* Properties *)

\* Types.
TypeOK ==
    /\ comm \in [Round -> [Node -> SUBSET Sort]]
    /\ co \in [Node -> [Round -> Struct]]
    /\ tip \in [Node -> 0..Height]
    /\ best \in [Node -> SUBSET Block]
    /\ known \in [Node -> SUBSET Block]
    /\ round \in [Node -> Round]
    /\ timer \in [Node -> {"pre", "nch", "tch", "none"}]
    /\ preBlocks \subseteq Round \X Sort
    /\ ballots \subseteq Ballot
    /\ blocks \subseteq Block
    /\ crashed \subseteq Node

SortsOf(votes) == {v.sort : v \in votes}

Revoters(sorts) == {s \in sorts : Owner[s] \in crashed}

\* A sort votes for one candidate in a round, in however many pre-blocks and
\* timers voteBlock is called for, unless its node restarted in between (the
\* votes are not saved).
OneVotePerRound ==
    \A b, d \in ballots :
        \A s \in SortsOf(b.votes) \cap SortsOf(d.votes) :
            b.round = d.round /\ Owner[s] \notin crashed => b.cand = d.cand

\* A block is made from votes cast in its round for its maker, whose pre-block
\* was broadcast.  They are a majority of different sorts, where a sort counts
\* twice only if its node restarted and voted again.
BlockFromVotes ==
    \A b \in blocks :
        /\ <<b.round, b.maker>> \in preBlocks
        /\ \A v \in b.votes : \E d \in ballots :
              d.round = b.round /\ d.cand = b.maker /\ v \in d.votes
        /\ LET voters == SortsOf(b.votes)
           IN  2 * (Cardinality(voters) + Cardinality(Revoters(voters))) > VoterSize

\* The sorts that voted in round r.
Voters(r) == UNION {SortsOf(b.votes) : b \in {d \in ballots : d.round = r}}

\* As long as fewer votes than two majorities can be cast in a round, counting
\* the sorts of restarted nodes twice, no two makers win the round.
OneMakerPerRound ==
    \A b, d \in blocks :
        /\ b.round = d.round
        /\ Cardinality(Voters(b.round)) + Cardinality(Revoters(Voters(b.round)))
             < 2 * Majority
        => b.maker = d.maker

\* A node makes one block of a height, in all rounds together and across a
\* restart: it has that block on its chain before it can make another.
NodeMakesOnce ==
    \A b, d \in blocks : Owner[b.maker] = Owner[d.maker] => b = d

\* Of the blocks of the height that a node has seen, the one on its chain has
\* the most votes (doc.go); nodes that have seen the same blocks then agree.
MoreVotesWin ==
    \A n \in Node : \A b \in known[n], d \in best[n] :
        Cardinality(b.votes) <= Cardinality(d.votes)

\* If every broadcast arrives before the timers fire, the first round makes a
\* block and every node adds it.
BlockInFirstRound == <>[](\A n \in Node : tip[n] = Height /\ round[n] = 0)
=============================================================================
