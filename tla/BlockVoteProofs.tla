--------------------------- MODULE BlockVoteProofs ---------------------------
(***************************************************************************)
(* Votes and makers, for any nodes, sorts, committees, rounds and          *)
(* restarts: proofs about BlockVote.  Nothing is assumed of timers or      *)
(* deliveries, nor of the committees the nodes have set.                   *)
(***************************************************************************)
EXTENDS BlockVote, FiniteSetTheorems, FunctionTheorems, WellFoundedInduction, TLAPS

-----------------------------------------------------------------------------
(* Sets of sorts and votes *)

LEMMA Least ==
    ASSUME NEW S \in SUBSET Nat, S # {}
    PROVE  First(S) \in S /\ \A t \in S : First(S) <= t
<1> DEFINE less == {p \in Nat \X Nat : p[1] < p[2]}
<1>1. less = OpToRel(<, Nat)
  BY Zenon DEF OpToRel
<1>2. IsWellFoundedOn(less, Nat)
  BY <1>1, NatLessThanWellFounded
<1>3. PICK s \in S : \A t \in S : <<t, s>> \notin less
  BY <1>2, WFMin
<1>4. \A t \in S : s <= t
  <2> SUFFICES ASSUME NEW t \in S, t < s PROVE FALSE
    OBVIOUS
  <2>1. <<t, s>> \in Nat \X Nat /\ <<t, s>>[1] < <<t, s>>[2]
    OBVIOUS
  <2>2. <<t, s>> \in less
    BY <2>1
  <2> QED
    BY <1>3, <2>2
<1> QED
  BY <1>4 DEF First

LEMMA VotesFinite == IsFiniteSet(Vote)
<1> DEFINE f == [v \in Vote |-> <<v.sort, v.again>>]
<1>1. IsFiniteSet({FALSE} \cup {TRUE})
  BY FS_Singleton, FS_AddElement
<1>2. IsFiniteSet(BOOLEAN)
  <2>1. BOOLEAN = {FALSE} \cup {TRUE}
    OBVIOUS
  <2> QED
    BY <1>1, <2>1
<1>3. IsFiniteSet(Sort \X BOOLEAN)
  BY <1>2, FS_Product, CommitteeAssumption
<1>4. f \in Injection(Vote, Sort \X BOOLEAN)
  BY DEF Injection, IsInjective, Vote
<1> QED
  BY <1>3, <1>4, FS_Injection

\* Where a vote is in the order of the sorted votes.
Rank(v) == 2 * v.sort + (IF v.again THEN 1 ELSE 0)

\* A block holds a majority of votes if its maker has one: minerTx cuts the
\* list off at VoterSize.
LEMMA KeptMajority ==
    ASSUME NEW votes \in SUBSET Vote, Cardinality(votes) >= Majority
    PROVE  Kept(votes) \in SUBSET votes /\ Cardinality(Kept(votes)) >= Majority
<1> DEFINE K == Kept(votes)
           ahead(v) == {w \in votes : Before(w, v)}
<1>1. K \subseteq votes /\ K = {v \in votes : Cardinality(ahead(v)) < VoterSize}
  BY DEF Kept
<1>2. IsFiniteSet(votes) /\ IsFiniteSet(K)
  BY <1>1, VotesFinite, FS_Subset
<1>3. Cardinality(K) \in Nat
  BY <1>2, FS_CardinalityType
<1>4. VoterSize \in Nat \ {0}
  BY CommitteeAssumption
<1>5. Majority \in Nat /\ Majority <= VoterSize
  BY <1>4 DEF Majority
<1>6. ASSUME Cardinality(K) < VoterSize, K # votes
      PROVE  FALSE
  <2> DEFINE ranks == {Rank(v) : v \in votes \ K}
  <2>1. ranks \in SUBSET Nat /\ ranks # {}
    <3>1. \A v \in votes : Rank(v) \in Nat
      <4> SUFFICES ASSUME NEW v \in votes PROVE Rank(v) \in Nat
        OBVIOUS
      <4>1. v.sort \in Nat
        BY CommitteeAssumption DEF Vote
      <4> QED
        BY <4>1 DEF Rank
    <3> HIDE DEF K
    <3>2. votes \ K # {}
      BY <1>1, <1>6
    <3> QED
      BY <3>1, <3>2
  <2>2. First(ranks) \in ranks /\ \A i \in ranks : First(ranks) <= i
    BY <2>1, Least
  <2>3. PICK v \in votes \ K : \A w \in votes \ K : Rank(v) <= Rank(w)
    BY <2>2
  <2>4. ahead(v) \subseteq K
    <3> SUFFICES ASSUME NEW w \in votes, Before(w, v), w \notin K PROVE FALSE
      OBVIOUS
    <3>1. Rank(v) <= Rank(w)
      BY <2>3
    <3>2. v.sort \in Nat /\ w.sort \in Nat /\ v.again \in BOOLEAN /\ w.again \in BOOLEAN
      BY CommitteeAssumption DEF Vote
    <3> QED
      BY <3>1, <3>2 DEF Before, Rank
  <2>5. IsFiniteSet(ahead(v)) /\ Cardinality(ahead(v)) <= Cardinality(K)
    BY <1>2, <2>4, FS_Subset
  <2>6. Cardinality(ahead(v)) \in Nat
    BY <2>5, FS_CardinalityType
  <2>7. Cardinality(ahead(v)) < VoterSize
    BY <1>3, <1>4, <1>6, <2>5, <2>6
  <2> QED
    BY <1>1, <2>3, <2>7
<1>7. CASE K = votes
  BY <1>1, <1>7
<1>8. CASE Cardinality(K) >= VoterSize
  BY <1>1, <1>3, <1>4, <1>5, <1>8
<1> QED
  BY <1>3, <1>4, <1>6, <1>7, <1>8

\* A sort has two votes at most, and only if its node restarted.
LEMMA VotesOfSorts ==
    ASSUME NEW V \in SUBSET Vote, \A v \in V : v.again => Owner[v.sort] \in crashed
    PROVE  /\ IsFiniteSet(V) /\ IsFiniteSet(SortsOf(V))
           /\ Cardinality(V) <= Cardinality(SortsOf(V)) + Cardinality(Revoters(SortsOf(V)))
<1> DEFINE A == {v \in V : v.again}
           N == {v \in V : ~v.again}
           S == SortsOf(V)
           R == Revoters(S)
<1>1. S \in SUBSET Sort /\ R \in SUBSET Sort
  BY DEF SortsOf, Revoters, Vote
<1>2. IsFiniteSet(V) /\ IsFiniteSet(A) /\ IsFiniteSet(N) /\ IsFiniteSet(S) /\ IsFiniteSet(R)
  BY <1>1, VotesFinite, FS_Subset, CommitteeAssumption
<1>3. Cardinality(N) <= Cardinality(S)
  <2>1. [v \in N |-> v.sort] \in Injection(N, S)
    BY DEF Injection, IsInjective, SortsOf, Vote
  <2> QED
    BY <1>2, <2>1, FS_Injection
<1>4. Cardinality(A) <= Cardinality(R)
  <2>1. [v \in A |-> v.sort] \in Injection(A, R)
    BY DEF Injection, IsInjective, SortsOf, Revoters, Vote
  <2> QED
    BY <1>2, <2>1, FS_Injection
<1>5. Cardinality(A \cup N) = Cardinality(A) + Cardinality(N) - Cardinality(A \cap N)
  BY <1>2, FS_Union
<1>6. A \cup N = V /\ A \cap N = {}
  OBVIOUS
<1>7. /\ Cardinality(A) \in Nat /\ Cardinality(N) \in Nat /\ Cardinality(V) \in Nat
      /\ Cardinality(S) \in Nat /\ Cardinality(R) \in Nat /\ Cardinality({}) = 0
  BY <1>2, FS_CardinalityType, FS_EmptySet
<1>8. Cardinality(V) = Cardinality(A) + Cardinality(N) - Cardinality({})
  BY <1>5, <1>6
<1> HIDE DEF A, N, S, R
<1>9. Cardinality(V) <= Cardinality(S) + Cardinality(R)
  BY <1>3, <1>4, <1>7, <1>8
<1> QED
  BY <1>2, <1>9 DEF S, R
-----------------------------------------------------------------------------
(* The invariant.  Its parts are stated of sets of ballots and blocks, so that *)
(* they can be said of a scene while a handler runs.                         *)

\* A pre-block was broadcast for the candidate of ballot b, and only restarted
\* nodes vote again.
GoodBallot(b, pre) ==
    /\ <<b.round, b.cand>> \in pre
    /\ \A v \in b.votes : v.again => Owner[v.sort] \in crashed

\* A vote goes to one candidate in a round.
OneCandidate(bals) ==
    \A b, d \in bals : \A v \in b.votes \cap d.votes : b.round = d.round => b.cand = d.cand

\* v was cast for c in round r.
Cast(bals, r, c, v) == \E d \in bals : d.round = r /\ d.cand = c /\ v \in d.votes

\* A block has a majority of votes, all cast in its round for its maker.
GoodBlock(b, bals) ==
    /\ Cardinality(b.votes) >= Majority
    /\ \A v \in b.votes : Cast(bals, b.round, b.maker, v)

\* v is of this life of its node, not of one that a restart ended.
Living(v) == v.again <=> Owner[v.sort] \in crashed

\* What node n has in memory of round r is what was broadcast, and it remembers
\* to have voted if it has.
Remembers(n, r, c, pre, bals) ==
    /\ \A s \in c.bmp : <<r, s>> \in pre
    /\ \A p \in c.bvmp : Cast(bals, r, p[2], p[1])
    /\ \A b \in bals : \A v \in b.votes :
          b.round = r /\ Owner[v.sort] = n /\ Living(v) => c.voted

\* A node that made a block has it, or another of the height, on its chain.
MakerDone(n, t, bls) == \A b \in bls : Owner[b.maker] = n => t = Height

OneBlock(bls) == \A b, d \in bls : Owner[b.maker] = Owner[d.maker] => b = d

Inv ==
    /\ TypeOK
    /\ \A b \in ballots : GoodBallot(b, preBlocks)
    /\ OneCandidate(ballots)
    /\ \A b \in blocks : GoodBlock(b, ballots)
    /\ OneBlock(blocks)
    /\ \A n \in Node : MakerDone(n, tip[n], blocks)
    /\ \A n \in Node, r \in Round : Remembers(n, r, co[n][r], preBlocks, ballots)

\* The same of the scene of node n in round r.
Scenes == [c : Struct, tip : 0..Height, best : SUBSET Block, known : SUBSET Block,
           preBlocks : SUBSET (Round \X Sort), ballots : SUBSET Ballot,
           blocks : SUBSET Block]

GoodScene(W, n, r) ==
    /\ W \in Scenes
    /\ \A b \in W.ballots : GoodBallot(b, W.preBlocks)
    /\ OneCandidate(W.ballots)
    /\ \A b \in W.blocks : GoodBlock(b, W.ballots)
    /\ OneBlock(W.blocks)
    /\ MakerDone(n, W.tip, W.blocks)
    /\ Remembers(n, r, W.c, W.preBlocks, W.ballots)

\* What scene V has more than W: only ballots and blocks of n.
Grows(W, V, n, r) ==
    /\ W.preBlocks \subseteq V.preBlocks
    /\ W.ballots \subseteq V.ballots
    /\ W.blocks \subseteq V.blocks
    /\ \A b \in V.ballots \ W.ballots : b.round = r /\ \A v \in b.votes : Owner[v.sort] = n
    /\ \A b \in V.blocks \ W.blocks : Owner[b.maker] = n

\* A handler that takes a good scene W to V.
Keeps(W, V, n, r) == GoodScene(V, n, r) /\ Grows(W, V, n, r)

LEMMA KeepsTransitive ==
    ASSUME NEW U, NEW V, NEW W, NEW n, NEW r, Keeps(U, V, n, r), Keeps(V, W, n, r)
    PROVE  Keeps(U, W, n, r)
BY DEF Keeps, Grows

LEMMA KeepsReflexive ==
    ASSUME NEW W, NEW n, NEW r, GoodScene(W, n, r)
    PROVE  Keeps(W, W, n, r)
BY DEF Keeps, Grows

\* The candidate of a node is one of its own sorts.
LEMMA CandidateType ==
    ASSUME NEW n \in Node, NEW r \in Round, comm[r][n] \in SUBSET Sort
    PROVE  /\ Candidates(comm[r][n]) \in SUBSET Sort
           /\ MyCandidate(n, r) \in SUBSET Sort
           /\ \A c \in MyCandidate(n, r) : Owner[c] = n
BY DEF Candidates, MyCandidate, Mine

LEMMA MajorityType == Majority \in Nat /\ Majority = VoterSize \div 2 + 1
BY CommitteeAssumption DEF Majority

LEMMA LeastSort == ASSUME NEW S \in SUBSET Sort, S # {} PROVE First(S) \in S
BY Least, CommitteeAssumption
\* Every vote for c was cast.
LEMMA VotesForCast ==
    ASSUME NEW n \in Node, NEW r \in Round, NEW W, GoodScene(W, n, r), NEW c \in Sort
    PROVE  /\ VotesFor(W.c.bvmp, c) \in SUBSET Vote
           /\ \A v \in VotesFor(W.c.bvmp, c) : Cast(W.ballots, r, c, v)
<1>1. W.c.bvmp \in SUBSET (Vote \X Sort)
  BY DEF GoodScene, Scenes, Struct
<1>2. \A p \in W.c.bvmp : Cast(W.ballots, r, p[2], p[1])
  BY DEF GoodScene, Remembers
<1> QED
  BY <1>1, <1>2 DEF VotesFor

LEMMA SetBlockType ==
    ASSUME NEW W \in Scenes, NEW b \in Block
    PROVE  LET V == SetBlock(W, b)
           IN  /\ V \in Scenes
               /\ V.c = W.c /\ V.tip = Height /\ V.blocks = W.blocks \cup {b}
               /\ V.preBlocks = W.preBlocks /\ V.ballots = W.ballots
<1> DEFINE V1 == [W EXCEPT !.tip = Height]
           V2 == [V1 EXCEPT !.best = {b}]
           V3 == [V2 EXCEPT !.known = @ \cup {b}]
           V4 == [V3 EXCEPT !.blocks = @ \cup {b}]
<1>1. Height \in 0..Height
  BY DEF Height
<1>2. V1 \in Scenes
  BY <1>1 DEF Scenes
<1>3. \A V \in Scenes : [V EXCEPT !.best = {b}] \in Scenes
  BY DEF Scenes
<1>4. \A V \in Scenes : [V EXCEPT !.known = @ \cup {b}] \in Scenes
  BY DEF Scenes
<1>5. \A V \in Scenes : [V EXCEPT !.blocks = @ \cup {b}] \in Scenes
  BY DEF Scenes
<1>6. V4 \in Scenes
  <2> HIDE DEF V1, V2, V3, V4
  <2>1. V2 \in Scenes
    BY <1>2, <1>3 DEF V2
  <2>2. V3 \in Scenes
    BY <1>4, <2>1 DEF V3
  <2> QED
    BY <1>5, <2>2 DEF V4
<1>7. SetBlock(W, b) = V4
  BY Zenon DEF SetBlock
<1>8. /\ V4.c = W.c /\ V4.tip = Height /\ V4.blocks = W.blocks \cup {b}
      /\ V4.preBlocks = W.preBlocks /\ V4.ballots = W.ballots
  BY DEF Scenes
<1> QED
  BY <1>6, <1>7, <1>8

-----------------------------------------------------------------------------
(* The handlers *)

\* makeBlock0 runs only below the height, and then the node has no block yet.
LEMMA MakeBlockKeeps ==
    ASSUME NEW n \in Node, NEW r \in Round, comm[r][n] \in SUBSET Sort,
           NEW W, GoodScene(W, n, r), W.tip < Height
    PROVE  Keeps(W, MakeBlock(W, n, r), n, r)
<1> DEFINE votes(c) == VotesFor(W.c.bvmp, c)
           due == {c \in MyCandidate(n, r) : Cardinality(votes(c)) >= Majority}
           c0 == First(due)
           b == NewBlock(r, c0, votes(c0))
           U == [W EXCEPT !.c.maked = TRUE]
           V == SetBlock(U, b)
<1>1. CASE MakeBlock(W, n, r) = W
  BY <1>1, KeepsReflexive
<1>2. CASE due # {} /\ MakeBlock(W, n, r) = V
  <2>0. W \in Scenes
    BY DEF GoodScene
  <2>1. c0 \in due /\ c0 \in Sort /\ Owner[c0] = n
    <3>1. due \in SUBSET Sort
      BY CandidateType
    <3>2. c0 \in due
      BY <1>2, <3>1, LeastSort
    <3> QED
      BY <3>2, CandidateType
  <2>2. votes(c0) \in SUBSET Vote /\ \A v \in votes(c0) : Cast(W.ballots, r, c0, v)
    BY <2>1, VotesForCast
  <2>3. Kept(votes(c0)) \in SUBSET votes(c0) /\ Cardinality(Kept(votes(c0))) >= Majority
    BY <2>1, <2>2, KeptMajority
  <2>4. b = [round |-> r, maker |-> c0, votes |-> Kept(votes(c0))]
    BY DEF NewBlock
  <2>5. /\ U \in Scenes /\ U.c = [W.c EXCEPT !.maked = TRUE]
        /\ U.preBlocks = W.preBlocks /\ U.ballots = W.ballots /\ U.blocks = W.blocks
    BY <2>0 DEF Scenes, Struct
  <2>6. U.c.bmp = W.c.bmp /\ U.c.bvmp = W.c.bvmp /\ U.c.voted = W.c.voted
    BY <2>0, <2>5 DEF Scenes, Struct
  <2> HIDE DEF c0, due, votes, b, U, V
  <2>7. b \in Block /\ b.maker = c0 /\ b.round = r /\ b.votes = Kept(votes(c0))
    BY <2>1, <2>2, <2>3, <2>4 DEF Block
  <2>8. GoodBlock(b, W.ballots)
    BY <2>2, <2>3, <2>7 DEF GoodBlock
  <2>9. \A d \in W.blocks : Owner[d.maker] # n
    <3>1. W.tip # Height
      BY <2>0 DEF Scenes, Height
    <3> QED
      BY <3>1 DEF GoodScene, MakerDone
  <2>10. /\ V \in Scenes
         /\ V.c = U.c /\ V.tip = Height /\ V.blocks = W.blocks \cup {b}
         /\ V.preBlocks = W.preBlocks /\ V.ballots = W.ballots
    BY <2>5, <2>7, SetBlockType DEF V
  <2>11. OneBlock(V.blocks)
    BY <2>1, <2>7, <2>9, <2>10 DEF OneBlock, GoodScene
  <2>12. Remembers(n, r, V.c, V.preBlocks, V.ballots)
    BY <2>6, <2>10 DEF GoodScene, Remembers
  <2>13. GoodScene(V, n, r)
    BY <2>8, <2>10, <2>11, <2>12 DEF GoodScene, MakerDone
  <2>14. Grows(W, V, n, r)
    BY <2>1, <2>7, <2>10 DEF Grows
  <2> QED
    BY <1>2, <2>13, <2>14 DEF Keeps
<1> QED
  BY <1>1, <1>2 DEF MakeBlock

\* handleVoteMsg with votes that were cast.
LEMMA HandleVotesKeeps ==
    ASSUME NEW n \in Node, NEW r \in Round, comm[r][n] \in SUBSET Sort,
           NEW W, GoodScene(W, n, r),
           NEW vs \in SUBSET Vote, NEW c \in Sort, \A v \in vs : Cast(W.ballots, r, c, v)
    PROVE  Keeps(W, HandleVotes(W, n, r, vs, c), n, r)
<1> DEFINE V == [W EXCEPT !.c.bvmp = @ \cup (vs \X {c})]
           U == [V EXCEPT !.c.makerIsMe = TRUE]
<1>1. Keeps(W, V, n, r)
  <2>1. /\ V.c = [W.c EXCEPT !.bvmp = W.c.bvmp \cup (vs \X {c})]
        /\ V.tip = W.tip /\ V.blocks = W.blocks
        /\ V.preBlocks = W.preBlocks /\ V.ballots = W.ballots
    BY DEF GoodScene, Scenes
  <2>2. V \in Scenes
    BY DEF GoodScene, Scenes, Struct
  <2> HIDE DEF V
  <2>3. /\ V.c.bmp = W.c.bmp /\ V.c.voted = W.c.voted
        /\ V.c.bvmp = W.c.bvmp \cup (vs \X {c})
    BY <2>1 DEF GoodScene, Scenes, Struct
  <2>4. \A p \in V.c.bvmp : Cast(V.ballots, r, p[2], p[1])
    BY <2>1, <2>3 DEF GoodScene, Remembers
  <2> QED
    BY <2>1, <2>2, <2>3, <2>4 DEF Keeps, Grows, GoodScene, Remembers
<1>2. Keeps(W, U, n, r)
  <2>1. /\ U.c = [V.c EXCEPT !.makerIsMe = TRUE]
        /\ U.tip = V.tip /\ U.blocks = V.blocks
        /\ U.preBlocks = V.preBlocks /\ U.ballots = V.ballots
    BY <1>1 DEF Keeps, GoodScene, Scenes
  <2>2. U \in Scenes
    BY <1>1 DEF Keeps, GoodScene, Scenes, Struct
  <2> HIDE DEF U, V
  <2>3. U.c.bmp = V.c.bmp /\ U.c.voted = V.c.voted /\ U.c.bvmp = V.c.bvmp
    BY <1>1, <2>1 DEF Keeps, GoodScene, Scenes, Struct
  <2> QED
    BY <1>1, <2>1, <2>2, <2>3 DEF Keeps, Grows, GoodScene, Remembers
<1>3. CASE HandleVotes(W, n, r, vs, c) = V
  BY <1>1, <1>3
<1>4. CASE W.tip < Height /\ HandleVotes(W, n, r, vs, c) = MakeBlock(U, n, r)
  <2>1. U.tip < Height
    BY <1>4 DEF GoodScene, Scenes
  <2> HIDE DEF U, V
  <2>2. Keeps(U, MakeBlock(U, n, r), n, r)
    BY <1>2, <2>1, MakeBlockKeeps DEF Keeps
  <2> QED
    BY <1>2, <1>4, <2>2, KeepsTransitive
<1>5. W.tip \in 0..Height /\ Height = 2
  BY DEF GoodScene, Scenes, Height
<1> QED
  BY <1>3, <1>4, <1>5 DEF HandleVotes

\* voteBlock: the votes of this life of the node, for the first time.
LEMMA VoteBlockKeeps ==
    ASSUME NEW n \in Node, NEW r \in Round, comm[r][n] \in SUBSET Sort,
           NEW W, GoodScene(W, n, r)
    PROVE  Keeps(W, VoteBlock(W, n, r), n, r)
<1> DEFINE here == CandidatesHere(W, n, r)
           vs == MyVotes(n, r)
           c0 == First(here)
           bal == [round |-> r, cand |-> c0, votes |-> vs]
           V == [W EXCEPT !.c.voted = TRUE]
           U == [V EXCEPT !.ballots = @ \cup {bal}]
<1>1. CASE VoteBlock(W, n, r) = W
  BY <1>1, KeepsReflexive
<1>2. /\ V \in Scenes /\ V.tip = W.tip /\ V.blocks = W.blocks
      /\ V.preBlocks = W.preBlocks /\ V.ballots = W.ballots
      /\ V.c.voted = TRUE /\ V.c.bmp = W.c.bmp /\ V.c.bvmp = W.c.bvmp
  <2>1. W \in Scenes
    BY DEF GoodScene
  <2> QED
    BY <2>1 DEF Scenes, Struct
<1>3. CASE VoteBlock(W, n, r) = V
  <2> HIDE DEF V
  <2>1. GoodScene(V, n, r)
    BY <1>2 DEF GoodScene, Remembers
  <2> QED
    BY <1>2, <1>3, <2>1 DEF Keeps, Grows
<1>4. CASE here # {} /\ ~W.c.voted /\ VoteBlock(W, n, r) = HandleVotes(U, n, r, vs, c0)
  <2>1. here \in SUBSET Sort /\ c0 \in here
    <3>1. here \in SUBSET Sort
      BY CandidateType DEF CandidatesHere
    <3> QED
      BY <1>4, <3>1, LeastSort
  <2>2. <<r, c0>> \in W.preBlocks
    BY <2>1 DEF CandidatesHere, GoodScene, Remembers
  <2>3. /\ vs \in SUBSET Vote
        /\ \A v \in vs : Owner[v.sort] = n /\ v.again = (n \in crashed)
    <3>1. \A s \in Mine(n, comm[r][n]) : s \in Sort /\ Owner[s] = n
      BY DEF Mine
    <3>2. \A s \in Sort : [sort |-> s, again |-> n \in crashed] \in Vote
      BY DEF Vote
    <3> QED
      BY <3>1, <3>2 DEF MyVotes
  <2> HIDE DEF V, vs, here, c0
  <2>4. /\ bal \in Ballot /\ bal.round = r /\ bal.cand = c0 /\ bal.votes = vs
    BY <2>1, <2>3 DEF Ballot
  <2> HIDE DEF bal
  <2>5. /\ U \in Scenes /\ U.c = V.c /\ U.tip = V.tip /\ U.blocks = V.blocks
        /\ U.preBlocks = V.preBlocks /\ U.ballots = V.ballots \cup {bal}
    BY <1>2, <2>4 DEF Scenes
  <2> HIDE DEF U
  <2>6. GoodBallot(bal, W.preBlocks)
    BY <2>2, <2>3, <2>4 DEF GoodBallot
  <2>7. \A b \in W.ballots : b.round = r => b.votes \cap vs = {}
    BY <1>4, <2>3 DEF GoodScene, Remembers, Living
  <2>8. OneCandidate(U.ballots)
    BY <1>2, <2>4, <2>5, <2>7 DEF GoodScene, OneCandidate
  <2>9. \A b \in U.blocks : GoodBlock(b, U.ballots)
    BY <1>2, <2>5 DEF GoodScene, GoodBlock, Cast
  <2>10. Remembers(n, r, U.c, U.preBlocks, U.ballots)
    BY <1>2, <2>5 DEF GoodScene, Remembers, Cast
  <2>11. GoodScene(U, n, r)
    BY <1>2, <2>5, <2>6, <2>8, <2>9, <2>10 DEF GoodScene
  <2>12. Keeps(W, U, n, r)
    BY <1>2, <2>3, <2>4, <2>5, <2>11 DEF Keeps, Grows
  <2>13. \A v \in vs : Cast(U.ballots, r, c0, v)
    BY <2>4, <2>5 DEF Cast
  <2>14. Keeps(U, HandleVotes(U, n, r, vs, c0), n, r)
    BY <2>1, <2>3, <2>11, <2>13, HandleVotesKeeps
  <2> QED
    BY <1>4, <2>12, <2>14, KeepsTransitive
<1> QED
  BY <1>1, <1>3, <1>4 DEF VoteBlock

\* handleBlockMsg for a pre-block that was broadcast.
LEMMA HandleBlockKeeps ==
    ASSUME NEW n \in Node, NEW r \in Round, comm[r][n] \in SUBSET Sort,
           NEW W, GoodScene(W, n, r), NEW c \in Sort, <<r, c>> \in W.preBlocks
    PROVE  Keeps(W, HandleBlock(W, n, r, c), n, r)
<1> DEFINE bmp == W.c.bmp \cup {c}
           V == [W EXCEPT !.c.bmp = bmp, !.c.armed = @ \/ Cardinality(bmp) = 1]
<1>1. /\ V \in Scenes /\ V.tip = W.tip /\ V.blocks = W.blocks
      /\ V.preBlocks = W.preBlocks /\ V.ballots = W.ballots
      /\ V.c.voted = W.c.voted /\ V.c.bmp = bmp /\ V.c.bvmp = W.c.bvmp
  <2> DEFINE U == [W EXCEPT !.c.bmp = bmp]
  <2>1. W \in Scenes /\ bmp \in SUBSET Sort
    BY DEF GoodScene, Scenes, Struct
  <2> HIDE DEF bmp
  <2>2. /\ U \in Scenes /\ U.tip = W.tip /\ U.blocks = W.blocks
        /\ U.preBlocks = W.preBlocks /\ U.ballots = W.ballots
        /\ U.c.voted = W.c.voted /\ U.c.bmp = bmp /\ U.c.bvmp = W.c.bvmp
    BY <2>1 DEF Scenes, Struct
  <2>3. V = [U EXCEPT !.c.armed = @ \/ Cardinality(bmp) = 1]
    BY Zenon
  <2> HIDE DEF U, V
  <2>4. (U.c.armed \/ Cardinality(bmp) = 1) \in BOOLEAN
    OBVIOUS
  <2> QED
    BY <2>2, <2>3, <2>4 DEF Scenes, Struct
<1> HIDE DEF V
<1>2. Keeps(W, V, n, r)
  BY <1>1 DEF Keeps, Grows, GoodScene, Remembers
<1>3. Keeps(V, VoteBlock(V, n, r), n, r)
  BY <1>2, VoteBlockKeeps DEF Keeps
<1>4. HandleBlock(W, n, r, c) \in {V, VoteBlock(V, n, r)}
  BY DEF HandleBlock, V
<1> QED
  BY <1>2, <1>3, <1>4, KeepsTransitive

\* makePreBlock.
LEMMA MakePreBlockKeeps ==
    ASSUME NEW n \in Node, NEW r \in Round, comm[r][n] \in SUBSET Sort,
           NEW W, GoodScene(W, n, r)
    PROVE  Keeps(W, MakePreBlock(W, n, r), n, r)
<1> DEFINE V == [W EXCEPT !.c.preMaked = TRUE]
           c0 == First(MyCandidate(n, r))
           U == [V EXCEPT !.preBlocks = @ \cup {<<r, c0>>}]
<1>1. CASE MakePreBlock(W, n, r) = W
  BY <1>1, KeepsReflexive
<1>2. /\ V \in Scenes /\ V.tip = W.tip /\ V.blocks = W.blocks
      /\ V.preBlocks = W.preBlocks /\ V.ballots = W.ballots
      /\ V.c.voted = W.c.voted /\ V.c.bmp = W.c.bmp /\ V.c.bvmp = W.c.bvmp
  <2>1. W \in Scenes
    BY DEF GoodScene
  <2> QED
    BY <2>1 DEF Scenes, Struct
<1>3. Keeps(W, V, n, r)
  <2> HIDE DEF V
  <2> QED
    BY <1>2 DEF Keeps, Grows, GoodScene, Remembers
<1>4. CASE MyCandidate(n, r) # {} /\ MakePreBlock(W, n, r) = HandleBlock(U, n, r, c0)
  <2>1. c0 \in Sort
    BY <1>4, CandidateType, LeastSort
  <2> HIDE DEF V, c0
  <2>2. /\ U \in Scenes /\ U.c = V.c /\ U.tip = V.tip /\ U.blocks = V.blocks
        /\ U.preBlocks = V.preBlocks \cup {<<r, c0>>} /\ U.ballots = V.ballots
    <3>1. <<r, c0>> \in Round \X Sort
      BY <2>1
    <3> QED
      BY <1>2, <3>1 DEF Scenes
  <2> HIDE DEF U
  <2>3. Keeps(V, U, n, r)
    BY <1>3, <2>2 DEF Keeps, Grows, GoodScene, Remembers, GoodBallot
  <2>4. Keeps(U, HandleBlock(U, n, r, c0), n, r)
    BY <2>1, <2>2, <2>3, HandleBlockKeeps DEF Keeps
  <2> QED
    BY <1>3, <1>4, <2>3, <2>4, KeepsTransitive
<1>5. CASE MakePreBlock(W, n, r) = V
  BY <1>3, <1>5
<1> QED
  BY <1>1, <1>4, <1>5 DEF MakePreBlock
-----------------------------------------------------------------------------
(* The steps *)

LEMMA SceneGood ==
    ASSUME Inv, NEW n \in Node, NEW r \in Round
    PROVE  /\ GoodScene(Scene(n, r), n, r)
           /\ comm[r][n] \in SUBSET Sort
           /\ Scene(n, r).c = co[n][r] /\ Scene(n, r).tip = tip[n]
           /\ Scene(n, r).preBlocks = preBlocks /\ Scene(n, r).ballots = ballots
           /\ Scene(n, r).blocks = blocks
BY DEF Inv, TypeOK, GoodScene, Scenes, Scene

\* A handler that keeps its scene good keeps the invariant: what it broadcasts
\* concerns no other node or round.
LEMMA BecomesKeeps ==
    ASSUME Inv, NEW n \in Node, NEW r \in Round, NEW V,
           Keeps(Scene(n, r), V, n, r), Becomes(n, r, V),
           comm' = comm, crashed' = crashed, round' \in [Node -> Round],
           timer' \in [Node -> {"pre", "nch", "tch", "none"}]
    PROVE  Inv'
<1>1. V \in Scenes /\ GoodScene(V, n, r) /\ Grows(Scene(n, r), V, n, r)
  BY DEF Keeps, GoodScene
<1>2. /\ co' = [co EXCEPT ![n][r] = V.c] /\ tip' = [tip EXCEPT ![n] = V.tip]
      /\ best' = [best EXCEPT ![n] = V.best] /\ known' = [known EXCEPT ![n] = V.known]
      /\ preBlocks' = V.preBlocks /\ ballots' = V.ballots /\ blocks' = V.blocks
  BY DEF Becomes
<1>3. /\ preBlocks \subseteq V.preBlocks /\ ballots \subseteq V.ballots
      /\ \A b \in V.ballots \ ballots : b.round = r /\ \A v \in b.votes : Owner[v.sort] = n
      /\ \A b \in V.blocks \ blocks : Owner[b.maker] = n
  BY <1>1, SceneGood DEF Grows
<1>4. TypeOK'
  <2>1. /\ V.c \in Struct /\ V.tip \in 0..Height /\ V.best \in SUBSET Block
        /\ V.known \in SUBSET Block /\ V.preBlocks \subseteq Round \X Sort
        /\ V.ballots \subseteq Ballot /\ V.blocks \subseteq Block
    BY <1>1 DEF Scenes
  <2> QED
    BY <1>2, <2>1 DEF Inv, TypeOK, Height
<1>5. /\ \A b \in ballots' : GoodBallot(b, preBlocks)'
      /\ OneCandidate(ballots')
      /\ \A b \in blocks' : GoodBlock(b, ballots)'
      /\ OneBlock(blocks')
  BY <1>1, <1>2 DEF GoodScene, GoodBallot, OneCandidate, GoodBlock, OneBlock, Cast
<1>6. ASSUME NEW m \in Node PROVE MakerDone(m, tip'[m], blocks')
  <2>1. CASE m = n
    BY <1>1, <1>2, <2>1 DEF GoodScene, Inv, TypeOK
  <2>2. CASE m # n
    BY <1>2, <1>3, <2>2 DEF MakerDone, Inv, TypeOK
  <2> QED
    BY <2>1, <2>2
<1>7. ASSUME NEW m \in Node, NEW q \in Round
      PROVE  Remembers(m, q, co[m][q], preBlocks, ballots)'
  <2>1. CASE m = n /\ q = r
    <3>1. co'[n][r] = V.c
      BY <1>2 DEF Inv, TypeOK
    <3> QED
      BY <1>1, <1>2, <2>1, <3>1 DEF GoodScene, Remembers, Cast, Living
  <2>2. CASE ~(m = n /\ q = r)
    <3>1. co'[m][q] = co[m][q]
      BY <1>2, <2>2 DEF Inv, TypeOK
    <3>2. Remembers(m, q, co[m][q], preBlocks, ballots)
      BY DEF Inv
    <3>3. \A b \in V.ballots \ ballots : \A v \in b.votes :
             ~(b.round = q /\ Owner[v.sort] = m)
      BY <1>3, <2>2
    <3> QED
      BY <1>2, <1>3, <3>1, <3>2, <3>3 DEF Remembers, Cast, Living
  <2> QED
    BY <2>1, <2>2
<1> QED
  BY <1>4, <1>5, <1>6, <1>7 DEF Inv, MakerDone

LEMMA InitInv == Init => Inv
<1> SUFFICES ASSUME Init PROVE Inv
  OBVIOUS
<1>1. NewStruct \in Struct /\ NewStruct.bmp = {} /\ NewStruct.bvmp = {}
  BY DEF NewStruct, Struct
<1>2. comm \in [Round -> [Node -> SUBSET Sort]]
  BY BlockVoteAssumption DEF Init
<1>3. TypeOK
  <2>1. 0 \in Round /\ Height - 2 \in 0..Height
    BY BlockVoteAssumption DEF Round, Height
  <2> QED
    BY <1>1, <1>2, <2>1 DEF Init, TypeOK
<1> QED
  BY <1>1, <1>3 DEF Init, Inv, OneCandidate, OneBlock, MakerDone, Remembers

\* The votes of a node that restarts are of a former life from then on.
LEMMA CrashKeeps ==
    ASSUME Inv, NEW n \in Node, Crash(n)
    PROVE  Inv'
<1>1. NewStruct \in Struct /\ NewStruct.bmp = {} /\ NewStruct.bvmp = {}
  BY DEF NewStruct, Struct
<1>2. n \notin crashed /\ crashed' = crashed \cup {n}
  BY DEF Crash
<1>3. co' = [co EXCEPT ![n] = [r \in Round |-> NewStruct]]
  BY DEF Crash
<1>4. UNCHANGED <<tip, best, known, preBlocks, ballots, blocks>>
  BY DEF Crash
<1>5. TypeOK'
  <2>1. comm' \in [Round -> [Node -> SUBSET Sort]]
    <3>1. PICK r0 \in 0..(MaxRound + 1) :
             comm' = [r \in Round |-> IF r < r0 THEN [comm[r] EXCEPT ![n] = {}]
                                      ELSE comm[r]]
      BY DEF Crash
    <3>2. \A r \in Round : /\ comm[r] \in [Node -> SUBSET Sort]
                           /\ [comm[r] EXCEPT ![n] = {}] \in [Node -> SUBSET Sort]
      BY DEF Inv, TypeOK
    <3> QED
      BY <3>1, <3>2
  <2>2. co' \in [Node -> [Round -> Struct]]
    BY <1>1, <1>3 DEF Inv, TypeOK
  <2>3. round' \in [Node -> Round]
    BY BlockVoteAssumption DEF Crash, Inv, TypeOK, Round
  <2>4. timer' \in [Node -> {"pre", "nch", "tch", "none"}]
    BY DEF Crash, Inv, TypeOK
  <2> QED
    BY <1>2, <1>4, <2>1, <2>2, <2>3, <2>4 DEF Inv, TypeOK
<1>6. /\ \A b \in ballots' : GoodBallot(b, preBlocks)'
      /\ OneCandidate(ballots') /\ OneBlock(blocks')
      /\ \A b \in blocks' : GoodBlock(b, ballots)'
      /\ \A m \in Node : MakerDone(m, tip'[m], blocks')
  BY <1>2, <1>4 DEF Inv, GoodBallot, GoodBlock, Cast
<1>7. ASSUME NEW m \in Node, NEW q \in Round
      PROVE  Remembers(m, q, co[m][q], preBlocks, ballots)'
  <2>1. Remembers(m, q, co[m][q], preBlocks, ballots)
    BY DEF Inv
  <2>2. CASE m = n
    <3>1. co'[m][q] = NewStruct
      BY <1>3, <2>2 DEF Inv, TypeOK
    <3>2. \A b \in ballots : \A v \in b.votes : Owner[v.sort] = n => ~Living(v)'
      BY <1>2 DEF Inv, GoodBallot, Living
    <3> QED
      BY <1>1, <1>4, <2>2, <3>1, <3>2 DEF Remembers
  <2>3. CASE m # n
    <3>1. co'[m][q] = co[m][q]
      BY <1>3, <2>3 DEF Inv, TypeOK
    <3>2. \A v : Owner[v.sort] = m => (Living(v)' <=> Living(v))
      BY <1>2, <2>3 DEF Living
    <3> QED
      BY <1>4, <2>1, <3>1, <3>2 DEF Remembers, Cast
  <2> QED
    BY <2>2, <2>3
<1> QED
  BY <1>5, <1>6, <1>7 DEF Inv, MakerDone

\* A step that changes neither the structs nor what was broadcast or made.
LEMMA ChainKeeps ==
    ASSUME Inv, TypeOK', UNCHANGED <<comm, co, preBlocks, ballots, blocks, crashed>>,
           \A n \in Node : tip[n] = Height => tip'[n] = Height
    PROVE  Inv'
BY DEF Inv, GoodBallot, OneCandidate, GoodBlock, OneBlock, MakerDone, Remembers, Cast, Living

LEMMA StepInv == Inv /\ [Next]_vars => Inv'
<1> SUFFICES ASSUME Inv, [Next]_vars PROVE Inv'
  OBVIOUS
<1>0. /\ TypeOK /\ Height = 2 /\ 0 \in Round
      /\ round \in [Node -> Round] /\ timer \in [Node -> {"pre", "nch", "tch", "none"}]
  BY BlockVoteAssumption DEF Inv, TypeOK, Height, Round
<1>1. ASSUME NEW n \in Node, NewGrandparent(n) PROVE Inv'
  <2> DEFINE W == Scene(n, 0)
             V == MakePreBlock(W, n, 0)
  <2>1. /\ Becomes(n, 0, V) /\ comm' = comm /\ crashed' = crashed /\ round' = round
        /\ timer' = [timer EXCEPT ![n] = "none"]
    BY <1>1 DEF NewGrandparent
  <2>2. Keeps(W, V, n, 0)
    BY <1>0, SceneGood, MakePreBlockKeeps
  <2> HIDE DEF V
  <2> QED
    BY <1>0, <2>1, <2>2, BecomesKeeps
<1>2. ASSUME NEW n \in Node, NewParent(n) PROVE Inv'
  <2>1. TypeOK'
    BY <1>0, <1>2 DEF NewParent, TypeOK
  <2> QED
    BY <1>0, <1>2, <2>1, ChainKeeps DEF NewParent, TypeOK
<1>3. ASSUME NEW n \in Node, Nch(n) PROVE Inv'
  <2> DEFINE r == round[n]
             W == Scene(n, r)
             U == MakeBlock(W, n, r)
             V == MakePreBlock(U, n, r)
  <2>1. /\ Becomes(n, r, V) /\ comm' = comm /\ crashed' = crashed /\ round' = round
        /\ timer' = [timer EXCEPT ![n] = "tch"] /\ tip[n] = Height - 1
    BY <1>3 DEF Nch
  <2>2. r \in Round
    BY <1>0
  <2>3. GoodScene(W, n, r) /\ W.tip < Height /\ comm[r][n] \in SUBSET Sort
    BY <1>0, <2>1, <2>2, SceneGood
  <2> HIDE DEF W, r
  <2>4. Keeps(W, U, n, r)
    BY <2>2, <2>3, MakeBlockKeeps
  <2> HIDE DEF U
  <2>5. Keeps(U, V, n, r)
    BY <2>2, <2>3, <2>4, MakePreBlockKeeps DEF Keeps
  <2>6. Keeps(W, V, n, r)
    BY <2>4, <2>5, KeepsTransitive
  <2> HIDE DEF V
  <2> QED
    BY <1>0, <2>1, <2>2, <2>6, BecomesKeeps DEF W
<1>4. ASSUME NEW n \in Node, Tch(n) PROVE Inv'
  <2>1. round' \in [Node -> Round] /\ timer' \in [Node -> {"pre", "nch", "tch", "none"}]
    BY <1>0, <1>4, BlockVoteAssumption DEF Tch, Round
  <2>2. TypeOK'
    BY <1>0, <1>4, <2>1 DEF Tch, TypeOK
  <2> QED
    BY <1>4, <2>2, ChainKeeps DEF Tch
<1>5. ASSUME NEW n \in Node, NEW p \in preBlocks, HandleBlockMsg(n, p[1], p[2])
      PROVE  Inv'
  <2> DEFINE V == HandleBlock(Scene(n, p[1]), n, p[1], p[2])
  <2>1. /\ Becomes(n, p[1], V) /\ comm' = comm /\ crashed' = crashed /\ round' = round
        /\ timer' = timer
    BY <1>5 DEF HandleBlockMsg
  <2>2. p[1] \in Round /\ p[2] \in Sort /\ <<p[1], p[2]>> \in preBlocks
    <3>1. p \in Round \X Sort
      BY <1>0 DEF TypeOK
    <3>2. p = <<p[1], p[2]>>
      BY <3>1
    <3> QED
      BY <3>1, <3>2
  <2>3. Keeps(Scene(n, p[1]), V, n, p[1])
    BY <2>2, SceneGood, HandleBlockKeeps
  <2> HIDE DEF V
  <2> QED
    BY <1>0, <2>1, <2>2, <2>3, BecomesKeeps
<1>6. ASSUME NEW n \in Node, NEW b \in ballots, HandleVoteMsg(n, b) PROVE Inv'
  <2> DEFINE V == HandleVotes(Scene(n, b.round), n, b.round, b.votes, b.cand)
  <2>1. /\ Becomes(n, b.round, V) /\ comm' = comm /\ crashed' = crashed
        /\ round' = round /\ timer' = timer
    BY <1>6 DEF HandleVoteMsg
  <2>2. b.round \in Round /\ b.cand \in Sort /\ b.votes \in SUBSET Vote
    BY <1>0 DEF TypeOK, Ballot
  <2>3. \A v \in b.votes : Cast(ballots, b.round, b.cand, v)
    BY DEF Cast
  <2>4. Keeps(Scene(n, b.round), V, n, b.round)
    BY <2>2, <2>3, SceneGood, HandleVotesKeeps
  <2> HIDE DEF V
  <2> QED
    BY <1>0, <2>1, <2>2, <2>4, BecomesKeeps
<1>7. ASSUME NEW n \in Node, NEW r \in Round, VoteTimer(n, r) PROVE Inv'
  <2> DEFINE W == Scene(n, r)
             U == [W EXCEPT !.c.armed = FALSE]
             V == VoteBlock(U, n, r)
  <2>1. /\ Becomes(n, r, V) /\ comm' = comm /\ crashed' = crashed /\ round' = round
        /\ timer' = timer
    BY <1>7 DEF VoteTimer
  <2>2. GoodScene(W, n, r) /\ comm[r][n] \in SUBSET Sort
    BY SceneGood
  <2> HIDE DEF W
  <2>3. Keeps(W, U, n, r)
    <3>1. W \in Scenes
      BY <2>2 DEF GoodScene
    <3>2. /\ U \in Scenes /\ U.tip = W.tip /\ U.blocks = W.blocks
          /\ U.preBlocks = W.preBlocks /\ U.ballots = W.ballots
          /\ U.c.voted = W.c.voted /\ U.c.bmp = W.c.bmp /\ U.c.bvmp = W.c.bvmp
      BY <3>1 DEF Scenes, Struct
    <3> HIDE DEF U
    <3> QED
      BY <2>2, <3>2 DEF Keeps, Grows, GoodScene, Remembers
  <2> HIDE DEF U
  <2>4. Keeps(U, V, n, r)
    BY <2>2, <2>3, VoteBlockKeeps DEF Keeps
  <2>5. Keeps(W, V, n, r)
    BY <2>3, <2>4, KeepsTransitive
  <2> HIDE DEF V
  <2> QED
    BY <1>0, <2>1, <2>5, BecomesKeeps DEF W
<1>8. ASSUME NEW n \in Node, NEW b \in blocks, AddBlock(n, b) PROVE Inv'
  <2>1. TypeOK'
    BY <1>0, <1>8 DEF AddBlock, TypeOK
  <2> QED
    BY <1>0, <1>8, <2>1, ChainKeeps DEF AddBlock, TypeOK
<1>9. ASSUME NEW n \in Node, NEW b \in blocks, CmpBestBlock(n, b) PROVE Inv'
  <2>1. TypeOK'
    BY <1>0, <1>9 DEF CmpBestBlock, TypeOK
  <2> QED
    BY <1>9, <2>1, ChainKeeps DEF CmpBestBlock
<1>10. ASSUME NEW n \in Node, Crash(n) PROVE Inv'
  BY <1>10, CrashKeeps
<1>11. CASE UNCHANGED vars
  <2>1. TypeOK'
    BY <1>0, <1>11 DEF vars, TypeOK
  <2> QED
    BY <1>11, <2>1, ChainKeeps DEF vars
<1> QED
  BY <1>1, <1>2, <1>3, <1>4, <1>5, <1>6, <1>7, <1>8, <1>9, <1>10, <1>11 DEF Next

LEMMA InvKept == Spec => []Inv
BY InitInv, StepInv, PTL DEF Spec
-----------------------------------------------------------------------------
\* Types.
THEOREM TypesKept == Spec => []TypeOK
<1>1. Inv => TypeOK
  BY DEF Inv
<1> QED
  BY <1>1, InvKept, PTL

\* Unless its node restarted, a sort votes for one candidate in a round.
THEOREM SortsVoteOnce == Spec => []OneVotePerRound
<1>1. Inv => OneVotePerRound
  <2> SUFFICES ASSUME Inv, NEW b \in ballots, NEW d \in ballots,
                      NEW s \in SortsOf(b.votes) \cap SortsOf(d.votes),
                      b.round = d.round, Owner[s] \notin crashed
               PROVE  b.cand = d.cand
    BY DEF OneVotePerRound
  <2>1. PICK v \in b.votes : v.sort = s
    BY DEF SortsOf
  <2>2. PICK w \in d.votes : w.sort = s
    BY DEF SortsOf
  <2>3. v \in Vote /\ w \in Vote /\ ~v.again /\ ~w.again
    BY <2>1, <2>2 DEF Inv, TypeOK, Ballot, GoodBallot
  <2>4. v = w
    BY <2>1, <2>2, <2>3 DEF Vote
  <2> QED
    BY <2>4 DEF Inv, OneCandidate
<1> QED
  BY <1>1, InvKept, PTL

\* A restart adds votes of a sort, but no block is made without votes cast for
\* its maker in its round, a majority when those of restarted nodes count twice.
THEOREM BlocksHaveVotes == Spec => []BlockFromVotes
<1>1. Inv => BlockFromVotes
  <2> SUFFICES ASSUME Inv, NEW b \in blocks
               PROVE  /\ <<b.round, b.maker>> \in preBlocks
                      /\ \A v \in b.votes : \E d \in ballots :
                            d.round = b.round /\ d.cand = b.maker /\ v \in d.votes
                      /\ LET voters == SortsOf(b.votes)
                         IN  2 * (Cardinality(voters) + Cardinality(Revoters(voters)))
                               > VoterSize
    BY DEF BlockFromVotes
  <2> DEFINE S == SortsOf(b.votes)
             R == Revoters(S)
  <2>1. /\ b.votes \in SUBSET Vote /\ Cardinality(b.votes) >= Majority
        /\ \A v \in b.votes : Cast(ballots, b.round, b.maker, v)
    BY DEF Inv, TypeOK, Block, GoodBlock
  <2>2. \A v \in b.votes : v.again => Owner[v.sort] \in crashed
    BY <2>1 DEF Inv, GoodBallot, Cast
  <2>3. /\ IsFiniteSet(b.votes) /\ IsFiniteSet(S)
        /\ Cardinality(b.votes) <= Cardinality(S) + Cardinality(R)
    BY <2>1, <2>2, VotesOfSorts
  <2>4. IsFiniteSet(R)
    BY <2>3, FS_Subset DEF Revoters
  <2>5. Cardinality(b.votes) \in Nat /\ Cardinality(S) \in Nat /\ Cardinality(R) \in Nat
    BY <2>3, <2>4, FS_CardinalityType
  <2>6. <<b.round, b.maker>> \in preBlocks
    <3>1. Majority > 0
      BY CommitteeAssumption DEF Majority
    <3>2. b.votes # {}
      BY <2>1, <2>5, <3>1, FS_EmptySet, MajorityType
    <3> QED
      BY <2>1, <3>2 DEF Inv, GoodBallot, Cast
  <2>7. 2 * (Cardinality(S) + Cardinality(R)) > VoterSize
    <3> HIDE DEF S, R
    <3>1. Cardinality(S) + Cardinality(R) >= Majority
      BY <2>1, <2>3, <2>5, MajorityType
    <3>2. 2 * Majority > VoterSize
      BY CommitteeAssumption DEF Majority
    <3> QED
      BY <2>5, <3>1, <3>2, MajorityType, CommitteeAssumption
  <2> QED
    BY <2>1, <2>6, <2>7 DEF Cast
<1> QED
  BY <1>1, InvKept, PTL

\* A node makes one block of a height, across rounds and restarts.
THEOREM NodesMakeOnce == Spec => []NodeMakesOnce
<1>1. Inv => NodeMakesOnce
  BY DEF Inv, OneBlock, NodeMakesOnce
<1> QED
  BY <1>1, InvKept, PTL

\* Two makers of one round have disjoint majorities of votes, so that at least
\* two majorities were cast.
THEOREM RoundsHaveOneMaker == Spec => []OneMakerPerRound
<1>1. Inv => OneMakerPerRound
  <2> DEFINE votes(r) == UNION {b.votes : b \in {d \in ballots : d.round = r}}
             S(r) == Voters(r)
             R(r) == Revoters(Voters(r))
  <2> SUFFICES ASSUME Inv, NEW b \in blocks, NEW d \in blocks,
                      b.round = d.round, b.maker # d.maker,
                      Cardinality(S(b.round)) + Cardinality(R(b.round)) < 2 * Majority
               PROVE  FALSE
    BY DEF OneMakerPerRound
  <2> DEFINE A == votes(b.round)
             B == b.votes
             D == d.votes
  <2>1. /\ B \in SUBSET Vote /\ Cardinality(B) >= Majority
        /\ \A v \in B : Cast(ballots, b.round, b.maker, v)
        /\ D \in SUBSET Vote /\ Cardinality(D) >= Majority
        /\ \A v \in D : Cast(ballots, b.round, d.maker, v)
    BY DEF Inv, TypeOK, Block, GoodBlock
  <2>2. B \cap D = {}
    BY <2>1 DEF Inv, OneCandidate, Cast
  <2>3. B \cup D \subseteq A
    BY <2>1 DEF Cast
  <2>4. A \in SUBSET Vote /\ \A v \in A : v.again => Owner[v.sort] \in crashed
    <3>1. \A e \in ballots : e.votes \in SUBSET Vote
      BY DEF Inv, TypeOK, Ballot
    <3>2. \A e \in ballots : \A v \in e.votes : v.again => Owner[v.sort] \in crashed
      BY DEF Inv, GoodBallot
    <3> QED
      BY <3>1, <3>2
  <2>5. SortsOf(A) = S(b.round)
    BY DEF SortsOf, Voters
  <2>6. /\ IsFiniteSet(A) /\ IsFiniteSet(S(b.round))
        /\ Cardinality(A) <= Cardinality(S(b.round)) + Cardinality(R(b.round))
    BY <2>4, <2>5, VotesOfSorts
  <2>7. IsFiniteSet(B) /\ IsFiniteSet(D) /\ IsFiniteSet(R(b.round))
    BY <2>1, <2>6, VotesFinite, FS_Subset DEF Revoters
  <2>8. Cardinality(B \cup D) = Cardinality(B) + Cardinality(D) - Cardinality({})
    BY <2>2, <2>7, FS_Union
  <2>9. Cardinality(B \cup D) <= Cardinality(A)
    BY <2>3, <2>6, FS_Subset
  <2>10. /\ Cardinality(A) \in Nat /\ Cardinality(B) \in Nat /\ Cardinality(D) \in Nat
         /\ Cardinality(S(b.round)) \in Nat /\ Cardinality(R(b.round)) \in Nat
         /\ Cardinality({}) = 0
    BY <2>6, <2>7, FS_CardinalityType, FS_EmptySet
  <2> HIDE DEF A, B, D, S, R
  <2>11. Cardinality(B) + Cardinality(D) <= Cardinality(S(b.round)) + Cardinality(R(b.round))
    BY <2>6, <2>8, <2>9, <2>10
  <2> QED
    BY <2>1, <2>10, <2>11, MajorityType
<1> QED
  BY <1>1, InvKept, PTL
=============================================================================
