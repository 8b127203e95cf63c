--------------------------- MODULE ElectionProofs ---------------------------
(***************************************************************************)
(* The votes behind a committee, for any nodes, sorts and parameters:      *)
(* proofs about Election.  What is said of the votes behind a member       *)
(* assumes that a node runs voteCommittee once (MaxCalls = 1): a second    *)
(* ballot of a voter is counted on top of the first, and a counter is only *)
(* an upper bound of the votes.                                            *)
(***************************************************************************)
EXTENDS Election, FiniteSetTheorems, NaturalsInduction, WellFoundedInduction, TLAPS

\* The sorts that voted for sort s in the ballots B.
Backers(B, s) == UNION {b.mine : b \in {c \in B : s \in c.select}}

\* The ballots are finitely many, no voter has two, and a voter votes with its
\* own sorts.
OneBallot ==
    /\ IsFiniteSet(cast)
    /\ \A b, c \in cast : b.from = c.from => b = c
    /\ \A b \in cast : b.mine \subseteq Mine(b.from, Sort)

\* A counter is the number of sorts behind the ballots that were counted.
Counters ==
    \A n \in Node, s \in Sort : svmp[n][s] = Cardinality(Backers(counted[n], s))

\* The inductive invariant.
Inv == TypeOK /\ OneBallot /\ Counters /\ ElectedByVotes

LEMMA MineType == \A n, S : Mine(n, S) \subseteq S
BY DEF Mine

LEMMA ElectType ==
    ASSUME NEW S, NEW votes, NEW s \in Elect(S, votes)
    PROVE  s \in S /\ votes[s] >= MustVotes
BY DEF Elect, Smallest

\* The ballot of a node, as far as the invariants need it.
LEMMA BallotType ==
    ASSUME TypeOK, IsFiniteSet(cast), NEW n \in Node, BallotOf(n).no <= MaxCalls
    PROVE  /\ BallotOf(n) \in Ballot
           /\ BallotOf(n).from = n
           /\ BallotOf(n).mine \subseteq Mine(n, Sort)
           /\ BallotOf(n).no = Cardinality({b \in cast : b.from = n}) + 1
<1> DEFINE select == Smallest(css[n], VoterSize)
           sent == {b \in cast : b.from = n}
<1>1. select \subseteq Sort
  BY DEF TypeOK, Smallest
<1>2. Mine(n, select) \subseteq Mine(n, Sort) /\ Mine(n, select) \subseteq Sort
  BY <1>1 DEF Mine
<1>3. IsFiniteSet(sent)
  BY FS_Subset
<1>4. Cardinality(sent) \in Nat
  BY <1>3, FS_CardinalityType
<1>5. BallotOf(n) = [from |-> n, no |-> Cardinality(sent) + 1,
                     mine |-> Mine(n, select), select |-> select]
  BY DEF BallotOf
<1>6. Cardinality(sent) + 1 \in 1..MaxCalls
  BY <1>4, <1>5, MaxCallsAssumption
<1> QED
  BY <1>1, <1>2, <1>5, <1>6 DEF Ballot

LEMMA TallyType ==
    ASSUME NEW votes \in [Sort -> Nat], NEW b \in Ballot
    PROVE  Tally(votes, b) \in [Sort -> Nat]
<1>1. IsFiniteSet(b.mine)
  BY FS_Subset, CommitteeAssumption DEF Ballot
<1>2. Cardinality(b.mine) \in Nat
  BY <1>1, FS_CardinalityType
<1> QED
  BY <1>2 DEF Tally

LEMMA InitInv == Init => Inv
<1> SUFFICES ASSUME Init PROVE Inv
  OBVIOUS
<1>1. TypeOK
  BY DEF Init, TypeOK
<1>2. OneBallot
  BY FS_EmptySet DEF Init, OneBallot
<1>3. Counters
  <2> SUFFICES ASSUME NEW n \in Node, NEW s \in Sort
               PROVE  svmp[n][s] = Cardinality(Backers(counted[n], s))
    BY DEF Counters
  <2>1. Backers(counted[n], s) = {}
    BY DEF Init, Backers
  <2> QED
    BY <2>1, FS_EmptySet DEF Init
<1>4. ElectedByVotes
  BY DEF Init, ElectedByVotes
<1> QED
  BY <1>1, <1>2, <1>3, <1>4 DEF Inv

\* Types, and finitely many ballots, whatever MaxCalls is.
Types == TypeOK /\ IsFiniteSet(cast)

LEMMA StepTypes == Types /\ [Next]_vars => Types'
<1> SUFFICES ASSUME Types, [Next]_vars PROVE Types'
  OBVIOUS
<1> USE DEF Types, TypeOK
<1>1. ASSUME NEW n \in Node, SortCommittee(n) PROVE Types'
  BY <1>1, MineType DEF SortCommittee
<1>2. ASSUME NEW n \in Node, NEW m \in Node, HandleVoterSort(n, m) PROVE Types'
  BY <1>2, MineType DEF HandleVoterSort
<1>3. ASSUME NEW n \in Node, VoteCommittee(n) PROVE Types'
  <2>1. CASE BallotOf(n).mine = {}
    BY <1>3, <2>1 DEF VoteCommittee
  <2>2. CASE BallotOf(n).mine # {}
    <3>1. BallotOf(n).no <= MaxCalls
      BY <1>3, <2>2 DEF VoteCommittee
    <3>2. BallotOf(n) \in Ballot
      BY <3>1, BallotType
    <3>3. Tally(svmp[n], BallotOf(n)) \in [Sort -> Nat]
      BY <3>2, TallyType
    <3>4. IsFiniteSet(cast \cup {BallotOf(n)})
      BY FS_AddElement
    <3>5. /\ stage' = [stage EXCEPT ![n] = "voted"]
          /\ svmp' = [svmp EXCEPT ![n] = Tally(svmp[n], BallotOf(n))]
          /\ cast' = cast \cup {BallotOf(n)}
          /\ counted' = [counted EXCEPT ![n] = counted[n] \cup {BallotOf(n)}]
          /\ late' \in BOOLEAN
          /\ UNCHANGED <<css, setted, comm>>
      BY <1>3, <2>2 DEF VoteCommittee
    <3>6. svmp' \in [Node -> [Sort -> Nat]] /\ cast' \subseteq Ballot
      BY <3>2, <3>3, <3>5
    <3>7. counted' \in [Node -> SUBSET cast']
      BY <3>5
    <3> QED
      BY <3>4, <3>5, <3>6, <3>7
  <2> QED
    BY <2>1, <2>2
<1>4. ASSUME NEW n \in Node, NEW b \in cast, HandleCommittee(n, b) PROVE Types'
  <2>1. Tally(svmp[n], b) \in [Sort -> Nat]
    BY TallyType
  <2> QED
    BY <1>4, <2>1 DEF HandleCommittee
<1>5. ASSUME NEW n \in Node, SetCommittee(n) PROVE Types'
  <2>1. Elect(css[n], svmp[n]) \subseteq css[n]
    BY ElectType
  <2> QED
    BY <1>5, <2>1 DEF SetCommittee
<1>6. CASE UNCHANGED vars
  BY <1>6 DEF vars
<1> QED
  BY <1>1, <1>2, <1>3, <1>4, <1>5, <1>6 DEF Next

\* The ballot of a voter that may run voteCommittee once is its first one.
LEMMA FirstBallot ==
    ASSUME MaxCalls = 1, Types, NEW n \in Node, BallotOf(n).no <= MaxCalls
    PROVE  /\ BallotOf(n) \in Ballot
           /\ BallotOf(n).from = n
           /\ BallotOf(n).mine \subseteq Mine(n, Sort)
           /\ \A c \in cast : c.from # n
<1> DEFINE sent == {b \in cast : b.from = n}
<1>1. /\ BallotOf(n) \in Ballot
      /\ BallotOf(n).from = n
      /\ BallotOf(n).mine \subseteq Mine(n, Sort)
      /\ BallotOf(n).no = Cardinality(sent) + 1
  BY BallotType DEF Types
<1>2. IsFiniteSet(sent)
  BY FS_Subset DEF Types
<1>3. Cardinality(sent) = 0
  BY <1>1, <1>2, FS_CardinalityType
<1>4. sent = {}
  BY <1>2, <1>3, FS_EmptySet
<1> QED
  BY <1>1, <1>4

\* Only voteCommittee sends a ballot, and only the first one of a node.
LEMMA StepOneBallot ==
    ASSUME MaxCalls = 1, Types, OneBallot, [Next]_vars
    PROVE  OneBallot'
<1> USE DEF OneBallot
<1>1. ASSUME NEW n \in Node, VoteCommittee(n), BallotOf(n).mine # {}
      PROVE  OneBallot'
  <2>1. BallotOf(n).no <= MaxCalls /\ cast' = cast \cup {BallotOf(n)}
    BY <1>1 DEF VoteCommittee
  <2>2. /\ BallotOf(n).from = n
        /\ BallotOf(n).mine \subseteq Mine(n, Sort)
        /\ \A c \in cast : c.from # n
    BY <2>1, FirstBallot
  <2>3. IsFiniteSet(cast \cup {BallotOf(n)})
    BY FS_AddElement
  <2> QED
    BY <2>1, <2>2, <2>3 DEF Mine
<1>2. CASE cast' = cast
  BY <1>2 DEF Mine
<1> QED
  BY <1>1, <1>2 DEF Next, vars, SortCommittee, HandleVoterSort, VoteCommittee,
     HandleCommittee, SetCommittee

\* A ballot of another voter adds its own sorts to those behind what it selects.
LEMMA AddBallot ==
    ASSUME NEW B \in SUBSET Ballot, NEW b \in Ballot, NEW s \in Sort,
           \A c \in B : c.from # b.from /\ c.mine \subseteq Mine(c.from, Sort),
           b.mine \subseteq Mine(b.from, Sort),
           NEW votes \in [Sort -> Nat], votes[s] = Cardinality(Backers(B, s))
    PROVE  Tally(votes, b)[s] = Cardinality(Backers(B \cup {b}, s))
<1>1. CASE s \in b.select
  <2>1. Backers(B \cup {b}, s) = Backers(B, s) \cup b.mine
    BY <1>1 DEF Backers
  <2>2. Backers(B, s) \cap b.mine = {}
    BY DEF Backers, Mine
  <2>3. Backers(B, s) \in SUBSET Sort /\ b.mine \in SUBSET Sort
    BY DEF Backers, Ballot
  <2>4. IsFiniteSet(Backers(B, s)) /\ IsFiniteSet(b.mine)
    BY <2>3, FS_Subset, CommitteeAssumption
  <2>5. /\ Cardinality(Backers(B, s)) \in Nat /\ Cardinality(b.mine) \in Nat
        /\ Cardinality({}) = 0
    BY <2>4, FS_CardinalityType, FS_EmptySet
  <2>6. Cardinality(Backers(B, s) \cup b.mine)
            = Cardinality(Backers(B, s)) + Cardinality(b.mine) - Cardinality({})
    BY <2>2, <2>4, FS_Union
  <2>7. Tally(votes, b)[s] = votes[s] + Cardinality(b.mine)
    BY <1>1 DEF Tally
  <2> QED
    <3> DEFINE x == Cardinality(Backers(B, s))
               y == Cardinality(b.mine)
    <3>1. x + y - Cardinality({}) = x + y
      <4>1. \A i, j \in Nat : i + j - 0 = i + j
        OBVIOUS
      <4> QED
        BY <2>5, <4>1
    <3> QED
      BY <2>1, <2>6, <2>7, <3>1
<1>2. CASE s \notin b.select
  <2>1. Backers(B \cup {b}, s) = Backers(B, s)
    BY <1>2 DEF Backers
  <2> QED
    BY <1>2, <2>1 DEF Tally
<1> QED
  BY <1>1, <1>2

\* A node counts each ballot once, and no two ballots are of one voter.
LEMMA StepCounters ==
    ASSUME MaxCalls = 1, Types, OneBallot, Counters, [Next]_vars
    PROVE  Counters'
<1> SUFFICES ASSUME NEW p \in Node, NEW s \in Sort
             PROVE  svmp'[p][s] = Cardinality(Backers(counted'[p], s))
  BY DEF Counters, Backers
<1>0. /\ svmp[p] \in [Sort -> Nat] /\ counted[p] \in SUBSET Ballot
      /\ counted[p] \subseteq cast
      /\ svmp[p][s] = Cardinality(Backers(counted[p], s))
  BY DEF Counters, Types, TypeOK
<1>1. ASSUME NEW n \in Node, NEW b \in Ballot,
             \A c \in counted[n] : c.from # b.from,
             b.mine \subseteq Mine(b.from, Sort),
             svmp' = [svmp EXCEPT ![n] = Tally(svmp[n], b)],
             counted' = [counted EXCEPT ![n] = counted[n] \cup {b}]
      PROVE  svmp'[p][s] = Cardinality(Backers(counted'[p], s))
  <2>1. CASE n = p
    <3>1. \A c \in counted[p] : c.from # b.from /\ c.mine \subseteq Mine(c.from, Sort)
      BY <1>0, <1>1, <2>1 DEF OneBallot
    <3>2. Tally(svmp[p], b)[s] = Cardinality(Backers(counted[p] \cup {b}, s))
      BY <1>0, <1>1, <3>1, AddBallot
    <3>3. svmp'[p] = Tally(svmp[p], b) /\ counted'[p] = counted[p] \cup {b}
      BY <1>1, <2>1 DEF Types, TypeOK
    <3> QED
      BY <3>2, <3>3
  <2>2. CASE n # p
    <3>1. svmp'[p] = svmp[p] /\ counted'[p] = counted[p]
      BY <1>1, <2>2 DEF Types, TypeOK
    <3> QED
      BY <1>0, <3>1
  <2> QED
    BY <2>1, <2>2
<1>2. ASSUME NEW n \in Node, VoteCommittee(n), BallotOf(n).mine # {}
      PROVE  svmp'[p][s] = Cardinality(Backers(counted'[p], s))
  <2>1. /\ BallotOf(n).no <= MaxCalls
        /\ svmp' = [svmp EXCEPT ![n] = Tally(svmp[n], BallotOf(n))]
        /\ counted' = [counted EXCEPT ![n] = counted[n] \cup {BallotOf(n)}]
    BY <1>2 DEF VoteCommittee
  <2>2. /\ BallotOf(n) \in Ballot
        /\ BallotOf(n).from = n
        /\ BallotOf(n).mine \subseteq Mine(n, Sort)
        /\ \A c \in cast : c.from # n
    BY <2>1, FirstBallot
  <2>3. counted[n] \subseteq cast
    BY DEF Types, TypeOK
  <2> QED
    BY <1>1, <2>1, <2>2, <2>3
<1>3. ASSUME NEW n \in Node, NEW b \in cast, HandleCommittee(n, b)
      PROVE  svmp'[p][s] = Cardinality(Backers(counted'[p], s))
  <2>1. b \in Ballot /\ counted[n] \subseteq cast
    BY DEF Types, TypeOK
  <2>2. \A c \in counted[n] : c.from # b.from
    BY <1>3, <2>1 DEF OneBallot, HandleCommittee
  <2>3. b.mine \subseteq Mine(b.from, Sort)
    BY DEF OneBallot
  <2> QED
    BY <1>1, <1>3, <2>1, <2>2, <2>3 DEF HandleCommittee
<1>4. CASE UNCHANGED <<svmp, counted>>
  BY <1>0, <1>4
<1> QED
  BY <1>2, <1>3, <1>4 DEF Next, vars, SortCommittee, HandleVoterSort, VoteCommittee,
     SetCommittee

\* The sorts behind the counted ballots are among those behind all ballots.
LEMMA Supported ==
    ASSUME Types, NEW B \in SUBSET cast, NEW s \in Sort
    PROVE  /\ Backers(B, s) \subseteq Supporters(s)
           /\ Supporters(s) \in SUBSET Sort
           /\ IsFiniteSet(Backers(B, s)) /\ IsFiniteSet(Supporters(s))
           /\ Cardinality(Backers(B, s)) \in Nat /\ Cardinality(Supporters(s)) \in Nat
           /\ Cardinality(Backers(B, s)) <= Cardinality(Supporters(s))
<1>1. Backers(B, s) \subseteq Supporters(s)
  BY DEF Backers, Supporters
<1>2. Supporters(s) \in SUBSET Sort
  BY DEF Supporters, Types, TypeOK, Ballot
<1>3. IsFiniteSet(Supporters(s))
  BY <1>2, FS_Subset, CommitteeAssumption
<1>4. /\ IsFiniteSet(Backers(B, s))
      /\ Cardinality(Backers(B, s)) <= Cardinality(Supporters(s))
  BY <1>1, <1>3, FS_Subset
<1> QED
  BY <1>1, <1>2, <1>3, <1>4, FS_CardinalityType

\* The sorts behind s, of which there are only more as ballots are sent.
LEMMA SupportGrows ==
    ASSUME Types, Types', cast \subseteq cast', NEW s \in Sort
    PROVE  /\ Cardinality(Supporters(s)) \in Nat /\ Cardinality(Supporters(s)') \in Nat
           /\ Cardinality(Supporters(s)) <= Cardinality(Supporters(s)')
<1>1. Supporters(s) \subseteq Supporters(s)'
  BY DEF Supporters
<1>2. Supporters(s)' \in SUBSET Sort
  BY DEF Supporters, Types, TypeOK, Ballot
<1>3. IsFiniteSet(Supporters(s)')
  BY <1>2, FS_Subset, CommitteeAssumption
<1>4. IsFiniteSet(Supporters(s)) /\ Cardinality(Supporters(s)) <= Cardinality(Supporters(s)')
  BY <1>1, <1>3, FS_Subset
<1> QED
  BY <1>3, <1>4, FS_CardinalityType

\* setCommittee takes only sorts whose counter, and so whose number of
\* supporters, is MustVotes.
LEMMA StepElected ==
    ASSUME Types, Types', Counters, ElectedByVotes, [Next]_vars
    PROVE  ElectedByVotes'
<1> SUFFICES ASSUME NEW p \in Node, NEW s \in comm'[p]
             PROVE  Cardinality(Supporters(s)') >= MustVotes
  BY DEF ElectedByVotes
<1>1. cast \subseteq cast'
  BY DEF Next, vars, SortCommittee, HandleVoterSort, VoteCommittee, HandleCommittee,
     SetCommittee
<1>2. s \in Sort /\ MustVotes \in Nat
  BY CommitteeAssumption DEF Types, TypeOK
<1>3. /\ Cardinality(Supporters(s)) \in Nat /\ Cardinality(Supporters(s)') \in Nat
      /\ Cardinality(Supporters(s)) <= Cardinality(Supporters(s)')
  BY <1>1, <1>2, SupportGrows
<1>4. Cardinality(Supporters(s)) >= MustVotes
  <2>1. CASE s \in comm[p]
    BY <2>1 DEF ElectedByVotes
  <2>2. CASE s \notin comm[p]
    <3>1. s \in Elect(css[p], svmp[p])
      BY <2>2 DEF Types, TypeOK, Next, vars, SortCommittee, HandleVoterSort,
         VoteCommittee, HandleCommittee, SetCommittee
    <3>2. svmp[p][s] >= MustVotes
      BY <3>1, ElectType
    <3>3. svmp[p][s] = Cardinality(Backers(counted[p], s))
      BY <1>2 DEF Counters
    <3>4. counted[p] \in SUBSET cast
      BY DEF Types, TypeOK
    <3>5. /\ Cardinality(Backers(counted[p], s)) \in Nat
          /\ Cardinality(Backers(counted[p], s)) <= Cardinality(Supporters(s))
      BY <1>2, <3>4, Supported
    <3> QED
      BY <1>2, <1>3, <3>2, <3>3, <3>5
  <2> QED
    BY <2>1, <2>2
<1> QED
  BY <1>2, <1>3, <1>4
-----------------------------------------------------------------------------
(* Committees when everybody is in time *)

\* A set of naturals that holds 0 and every successor holds all naturals.
LEMMA NatSetInduction ==
    ASSUME NEW A \in SUBSET Nat, 0 \in A, \A n \in A : n + 1 \in A
    PROVE  A = Nat
<1> DEFINE T == Nat \ A
           R == OpToRel(<, Nat)
<1>1. SUFFICES ASSUME T # {} PROVE FALSE
  OBVIOUS
<1>2. T \subseteq Nat
  OBVIOUS
<1>3. IsWellFoundedOn(R, Nat)
  BY NatLessThanWellFounded
<1>4. \A y, x \in Nat : y < x => <<y, x>> \in R
  BY DEF OpToRel
<1> HIDE DEF T, R
<1>5. PICK x \in T : \A y \in T : ~ (<<y, x>> \in R)
  BY <1>1, <1>2, <1>3, WFMin
<1>6. \A y \in T : ~ (y < x)
  BY <1>2, <1>4, <1>5
<1>7. x \in Nat /\ x # 0
  BY <1>2 DEF T
<1>8. x - 1 \in A
  BY <1>6, <1>7 DEF T
<1>9. x \in A
  BY <1>7, <1>8
<1> QED
  BY <1>9 DEF T

\* A nonempty set of naturals has a least element.
LEMMA Least ==
    ASSUME NEW T \in SUBSET Nat, T # {}
    PROVE  \E x \in T : \A y \in T : ~ (y < x)
<1> DEFINE R == OpToRel(<, Nat)
<1>1. IsWellFoundedOn(R, Nat)
  BY NatLessThanWellFounded
<1>2. \A y, x \in Nat : y < x => <<y, x>> \in R
  BY DEF OpToRel
<1> HIDE DEF R
<1>3. PICK x \in T : \A y \in T : ~ (<<y, x>> \in R)
  BY <1>1, WFMin
<1> QED
  BY <1>2, <1>3

\* The first k of a list that has k elements are k.
LEMMA SmallestFull ==
    ASSUME NEW S \in SUBSET Nat, IsFiniteSet(S), NEW k \in Nat, Cardinality(S) >= k
    PROVE  Cardinality(Smallest(S, k)) >= k
<1> DEFINE A == {i \in Nat : i <= Cardinality(S) => Cardinality(Smallest(S, i)) >= i}
<1>0. /\ Cardinality(S) \in Nat
      /\ \A T \in SUBSET S : IsFiniteSet(T) /\ Cardinality(T) \in Nat
  BY FS_Subset, FS_CardinalityType
<1>1. \A i \in Nat : Smallest(S, i) \in SUBSET S
  BY DEF Smallest
<1>2. 0 \in A
  BY <1>0, <1>1
<1>3. ASSUME NEW i \in A PROVE i + 1 \in A
  <2> SUFFICES ASSUME i + 1 <= Cardinality(S)
               PROVE  Cardinality(Smallest(S, i + 1)) >= i + 1
    OBVIOUS
  <2> DEFINE B == Smallest(S, i)
             C == Smallest(S, i + 1)
  <2>0. i \in Nat
    OBVIOUS
  <2>1. Cardinality(B) >= i
    BY <1>0, <2>0
  <2>2. /\ B \in SUBSET S /\ IsFiniteSet(B) /\ Cardinality(B) \in Nat
        /\ C \in SUBSET S /\ IsFiniteSet(C) /\ Cardinality(C) \in Nat
    BY <1>0, <1>1
  <2>3. \A x \in S : Index(x, S) \in Nat
    BY <1>0 DEF Index
  <2>4. B \subseteq C
    <3>1. \A x \in S : Index(x, S) < i => Index(x, S) < i + 1
      BY <2>0, <2>3
    <3> QED
      BY <3>1 DEF Smallest
  <2>5. CASE Cardinality(B) >= i + 1
    <3>1. Cardinality(B) <= Cardinality(C)
      BY <2>2, <2>4, FS_Subset
    <3> HIDE DEF B, C, A
    <3> QED
      BY <2>0, <2>2, <2>5, <3>1 DEF C
  <2>6. CASE ~ (Cardinality(B) >= i + 1)
    <3>1. Cardinality(B) = i
      BY <2>1, <2>2, <2>6
    <3>2. S \ B # {}
      BY <1>0, <2>2, <3>1
    <3>3. PICK x \in S \ B : \A y \in S \ B : ~ (y < x)
      BY <3>2, Least
    <3>4. {t \in S : t < x} \subseteq B
      BY <3>3
    <3>5. Index(x, S) <= i
      BY <2>2, <3>1, <3>4, FS_Subset DEF Index
    <3>6. x \in C
      BY <2>3, <3>5 DEF Smallest
    <3>7. Cardinality(B \cup {x}) = i + 1
      BY <2>2, <3>1, <3>3, FS_AddElement
    <3>8. Cardinality(B \cup {x}) <= Cardinality(C)
      BY <2>2, <2>4, <3>6, FS_Subset
    <3> HIDE DEF B, C, A
    <3> QED
      BY <2>0, <2>2, <3>7, <3>8 DEF C
  <2> QED
    BY <2>5, <2>6
<1>4. A = Nat
  <2> HIDE DEF A
  <2>1. A \in SUBSET Nat
    BY DEF A
  <2> QED
    BY <1>2, <1>3, <2>1, NatSetInduction
<1> QED
  BY <1>4

\* The sorts that a voter who knows all sorts selects.
First == Smallest(Sort, VoterSize)

\* A counter is at least the number of sorts behind the counted ballots, and is
\* not raised without a ballot for the sort.
CountersCover ==
    \A n \in Node, s \in Sort :
        /\ svmp[n][s] >= Cardinality(Backers(counted[n], s))
        /\ svmp[n][s] > 0 => \E b \in counted[n] : s \in b.select

\* While everybody is in time, all ballots are for the same sorts, and every
\* node that voted knew all sorts and voted with all its own.
BallotsAgree ==
    ~late =>
        /\ \A b \in cast : b.select = First /\ b.mine = Mine(b.from, First)
        /\ \A n \in Node : stage[n] = "voted" =>
               /\ css[n] = Sort
               /\ Mine(n, First) # {} => \E b \in cast : b.from = n

Timely == Types /\ CountersCover /\ BallotsAgree /\ TimelyAgreement

LEMMA InitTimely == Init => Timely
<1> SUFFICES ASSUME Init PROVE Timely
  OBVIOUS
<1>1. Types
  BY InitInv, FS_EmptySet DEF Init, Types, Inv
<1>2. CountersCover
  <2> SUFFICES ASSUME NEW n \in Node, NEW s \in Sort
               PROVE  /\ svmp[n][s] >= Cardinality(Backers(counted[n], s))
                      /\ ~ (svmp[n][s] > 0)
    BY DEF CountersCover
  <2>1. Backers(counted[n], s) = {}
    BY DEF Init, Backers
  <2>2. Cardinality({}) = 0
    BY FS_EmptySet
  <2> QED
    BY <2>1, <2>2 DEF Init
<1>3. BallotsAgree
  BY DEF Init, BallotsAgree
<1>4. TimelyAgreement
  BY DEF Init, TimelyAgreement
<1> QED
  BY <1>1, <1>2, <1>3, <1>4 DEF Timely

\* A ballot raises the counter of what it selects by its sender's sorts, of
\* which some may have been counted before.
LEMMA CountBallot ==
    ASSUME NEW B \in SUBSET Ballot, NEW b \in Ballot, NEW s \in Sort,
           NEW votes \in [Sort -> Nat], votes[s] >= Cardinality(Backers(B, s)),
           votes[s] > 0 => \E c \in B : s \in c.select
    PROVE  /\ Tally(votes, b)[s] >= Cardinality(Backers(B \cup {b}, s))
           /\ Tally(votes, b)[s] > 0 => \E c \in B \cup {b} : s \in c.select
<1>1. CASE s \in b.select
  <2>1. Backers(B \cup {b}, s) = Backers(B, s) \cup b.mine
    BY <1>1 DEF Backers
  <2>2. Backers(B, s) \in SUBSET Sort /\ b.mine \in SUBSET Sort
    BY DEF Backers, Ballot
  <2>3. IsFiniteSet(Backers(B, s)) /\ IsFiniteSet(b.mine)
    BY <2>2, FS_Subset, CommitteeAssumption
  <2> DEFINE x == Cardinality(Backers(B, s))
             y == Cardinality(b.mine)
             z == Cardinality(Backers(B, s) \cap b.mine)
             u == Cardinality(Backers(B, s) \cup b.mine)
  <2>4. IsFiniteSet(Backers(B, s) \cap b.mine)
    BY <2>3, FS_Intersection
  <2>5. u = x + y - z
    BY <2>3, FS_Union
  <2>6. x \in Nat /\ y \in Nat /\ z \in Nat
    BY <2>3, <2>4, FS_CardinalityType
  <2>7. Tally(votes, b)[s] = votes[s] + y
    BY <1>1 DEF Tally
  <2>8. votes[s] \in Nat /\ votes[s] >= x
    OBVIOUS
  <2>9. votes[s] + y >= u
    <3> HIDE DEF x, y, z, u
    <3> QED
      BY <2>5, <2>6, <2>8
  <2> QED
    BY <1>1, <2>1, <2>7, <2>9
<1>2. CASE s \notin b.select
  <2>1. Backers(B \cup {b}, s) = Backers(B, s)
    BY <1>2 DEF Backers
  <2> QED
    BY <1>2, <2>1 DEF Tally
<1> QED
  BY <1>1, <1>2

LEMMA StepCover ==
    ASSUME Types, CountersCover, [Next]_vars
    PROVE  CountersCover'
<1> SUFFICES ASSUME NEW p \in Node, NEW s \in Sort
             PROVE  /\ svmp'[p][s] >= Cardinality(Backers(counted'[p], s))
                    /\ svmp'[p][s] > 0 => \E b \in counted'[p] : s \in b.select
  BY DEF CountersCover, Backers
<1> DEFINE Goal == /\ svmp'[p][s] >= Cardinality(Backers(counted'[p], s))
                   /\ svmp'[p][s] > 0 => \E b \in counted'[p] : s \in b.select
<1>0. /\ svmp[p] \in [Sort -> Nat] /\ counted[p] \in SUBSET Ballot
      /\ svmp[p][s] >= Cardinality(Backers(counted[p], s))
      /\ svmp[p][s] > 0 => \E b \in counted[p] : s \in b.select
  BY DEF CountersCover, Types, TypeOK
<1>1. ASSUME NEW n \in Node, NEW b \in Ballot,
             svmp' = [svmp EXCEPT ![n] = Tally(svmp[n], b)],
             counted' = [counted EXCEPT ![n] = counted[n] \cup {b}]
      PROVE  Goal
  <2>1. CASE n = p
    <3>1. /\ Tally(svmp[p], b)[s] >= Cardinality(Backers(counted[p] \cup {b}, s))
          /\ Tally(svmp[p], b)[s] > 0 => \E c \in counted[p] \cup {b} : s \in c.select
      BY <1>0, CountBallot
    <3>2. svmp'[p] = Tally(svmp[p], b) /\ counted'[p] = counted[p] \cup {b}
      BY <1>1, <2>1 DEF Types, TypeOK
    <3> QED
      BY <3>1, <3>2
  <2>2. CASE n # p
    <3>1. svmp'[p] = svmp[p] /\ counted'[p] = counted[p]
      BY <1>1, <2>2 DEF Types, TypeOK
    <3> QED
      BY <1>0, <3>1
  <2> QED
    BY <2>1, <2>2
<1>2. ASSUME NEW n \in Node, VoteCommittee(n), BallotOf(n).mine # {}
      PROVE  Goal
  <2>1. /\ BallotOf(n).no <= MaxCalls
        /\ svmp' = [svmp EXCEPT ![n] = Tally(svmp[n], BallotOf(n))]
        /\ counted' = [counted EXCEPT ![n] = counted[n] \cup {BallotOf(n)}]
    BY <1>2 DEF VoteCommittee
  <2>2. BallotOf(n) \in Ballot
    BY <2>1, BallotType DEF Types
  <2> QED
    BY <1>1, <2>1, <2>2
<1>3. ASSUME NEW n \in Node, NEW b \in cast, HandleCommittee(n, b)
      PROVE  Goal
  <2>1. b \in Ballot
    BY DEF Types, TypeOK
  <2> QED
    BY <1>1, <1>3, <2>1 DEF HandleCommittee
<1>4. ASSUME UNCHANGED <<svmp, counted>> PROVE Goal
  BY <1>0, <1>4
<1>5. ASSUME NEW n \in Node, VoteCommittee(n), BallotOf(n).mine = {} PROVE Goal
  BY <1>4, <1>5 DEF VoteCommittee
<1>6. ASSUME NEW n \in Node, SortCommittee(n) \/ SetCommittee(n) PROVE Goal
  BY <1>4, <1>6 DEF SortCommittee, SetCommittee
<1>7. ASSUME NEW n \in Node, NEW m \in Node, HandleVoterSort(n, m) PROVE Goal
  BY <1>4, <1>7 DEF HandleVoterSort
<1>8. ASSUME UNCHANGED vars PROVE Goal
  BY <1>4, <1>8 DEF vars
<1> HIDE DEF Goal
<1>9. Goal
  BY <1>2, <1>3, <1>5, <1>6, <1>7, <1>8 DEF Next
<1> QED
  BY <1>9 DEF Goal

\* Once late, always late.
LEMMA StepAgree ==
    ASSUME Types, Types', BallotsAgree, [Next]_vars
    PROVE  BallotsAgree'
<1> SUFFICES ASSUME ~late'
             PROVE  /\ \A b \in cast' : b.select = First /\ b.mine = Mine(b.from, First)
                    /\ \A p \in Node : stage'[p] = "voted" =>
                           /\ css'[p] = Sort
                           /\ Mine(p, First) # {} => \E b \in cast' : b.from = p
  BY DEF BallotsAgree, First, Smallest, Index, Mine
<1> DEFINE Goal == /\ \A b \in cast' : b.select = First /\ b.mine = Mine(b.from, First)
                   /\ \A p \in Node : stage'[p] = "voted" =>
                          /\ css'[p] = Sort
                          /\ Mine(p, First) # {} => \E b \in cast' : b.from = p
<1>0. /\ ~late
      /\ \A b \in cast : b.select = First /\ b.mine = Mine(b.from, First)
      /\ \A p \in Node : stage[p] = "voted" =>
             /\ css[p] = Sort
             /\ Mine(p, First) # {} => \E b \in cast : b.from = p
  BY DEF Types, TypeOK, BallotsAgree, Next, vars, SortCommittee, HandleVoterSort,
     VoteCommittee, HandleCommittee, SetCommittee
<1>1. ASSUME NEW n \in Node, VoteCommittee(n) PROVE Goal
  <2>1. css[n] = Sort /\ css' = css /\ stage' = [stage EXCEPT ![n] = "voted"]
    BY <1>1 DEF VoteCommittee
  <2>2. /\ BallotOf(n).select = First /\ BallotOf(n).mine = Mine(n, First)
        /\ BallotOf(n).from = n
    BY <2>1 DEF BallotOf, First
  <2>3. CASE Mine(n, First) = {}
    <3>1. cast' = cast
      BY <1>1, <2>2, <2>3 DEF VoteCommittee
    <3> QED
      BY <1>0, <2>1, <2>3, <3>1 DEF Types, TypeOK
  <2>4. CASE Mine(n, First) # {}
    <3>1. cast' = cast \cup {BallotOf(n)}
      BY <1>1, <2>2, <2>4 DEF VoteCommittee
    <3>2. \A p \in Node : p # n /\ stage'[p] = "voted" => stage[p] = "voted"
      BY <2>1 DEF Types, TypeOK
    <3> QED
      BY <1>0, <2>1, <2>2, <3>1, <3>2
  <2> QED
    BY <2>3, <2>4
<1>2. ASSUME cast' = cast, \A p \in Node : stage'[p] = "voted" => stage[p] = "voted",
             \A p \in Node : css[p] \subseteq css'[p]
      PROVE  Goal
  <2>1. \A p \in Node : css'[p] \subseteq Sort
    BY DEF Types, TypeOK
  <2>2. \A p \in Node : css[p] = Sort => css'[p] = Sort
    BY <1>2, <2>1
  <2>3. \A b \in cast' : b.select = First /\ b.mine = Mine(b.from, First)
    BY <1>0, <1>2
  <2>4. ASSUME NEW p \in Node, stage'[p] = "voted"
        PROVE  /\ css'[p] = Sort
               /\ Mine(p, First) # {} => \E b \in cast' : b.from = p
    BY <1>0, <1>2, <2>2, <2>4
  <2> QED
    BY <2>3, <2>4
<1>3. ASSUME NEW n \in Node, SortCommittee(n) PROVE Goal
  BY <1>2, <1>3 DEF SortCommittee, Types, TypeOK
<1>4. ASSUME NEW n \in Node, NEW m \in Node, HandleVoterSort(n, m) PROVE Goal
  BY <1>2, <1>4 DEF HandleVoterSort, Types, TypeOK
<1>5. ASSUME UNCHANGED <<stage, css, cast>> PROVE Goal
  BY <1>2, <1>5
<1>6. ASSUME NEW n \in Node, SetCommittee(n) \/ \E b \in cast : HandleCommittee(n, b)
      PROVE  Goal
  BY <1>5, <1>6 DEF HandleCommittee, SetCommittee
<1>7. ASSUME UNCHANGED vars PROVE Goal
  BY <1>5, <1>7 DEF vars
<1> HIDE DEF Goal
<1>8. Goal
  BY <1>1, <1>3, <1>4, <1>6, <1>7 DEF Next
<1> QED
  BY <1>8 DEF Goal

\* The committee of a node that has counted every ballot of voters that knew
\* all sorts.
LEMMA ElectFirst ==
    ASSUME Types, CountersCover, BallotsAgree, ~late, VoterSize >= MustVotes,
           Cardinality(Sort) >= MustVotes, NEW n \in Node, cast \subseteq counted[n],
           \A m \in Node : stage[m] = "voted"
    PROVE  Elect(css[n], svmp[n]) = Smallest(First, CommitteeSize)
<1>1. /\ \A b \in cast : b.select = First /\ b.mine = Mine(b.from, First)
      /\ \A m \in Node : Mine(m, First) # {} => \E b \in cast : b.from = m
      /\ css[n] = Sort /\ counted[n] = cast
  BY DEF BallotsAgree, Types, TypeOK
<1>2. First \in SUBSET Sort /\ Sort \in SUBSET Nat /\ IsFiniteSet(First)
  BY FS_Subset, CommitteeAssumption DEF First, Smallest
<1>3. VoterSize \in Nat /\ MustVotes \in Nat \ {0} /\ Cardinality(Sort) \in Nat
  BY FS_CardinalityType, CommitteeAssumption
<1>4. Cardinality(First) >= MustVotes
  <2> DEFINE S == Smallest(Sort, MustVotes)
  <2>1. Cardinality(S) >= MustVotes
    BY <1>2, <1>3, SmallestFull, CommitteeAssumption
  <2>2. S \subseteq First
    <3>1. \A s \in Sort : Index(s, Sort) \in Nat
      BY FS_Subset, FS_CardinalityType, CommitteeAssumption DEF Index
    <3>2. \A s \in Sort : Index(s, Sort) < MustVotes => Index(s, Sort) < VoterSize
      BY <1>3, <3>1
    <3> QED
      BY <3>2 DEF First, Smallest
  <2>3. /\ Cardinality(S) <= Cardinality(First)
        /\ Cardinality(S) \in Nat /\ Cardinality(First) \in Nat
    BY <1>2, <2>2, FS_Subset, FS_CardinalityType
  <2> HIDE DEF S
  <2> QED
    BY <1>3, <2>1, <2>3
<1>5. ASSUME NEW s \in First PROVE svmp[n][s] >= MustVotes
  <2>1. First \subseteq Backers(cast, s)
    <3> SUFFICES ASSUME NEW t \in First PROVE t \in Backers(cast, s)
      OBVIOUS
    <3>1. Owner[t] \in Node /\ t \in Mine(Owner[t], First)
      BY <1>2, CommitteeAssumption DEF Mine
    <3>2. PICK b \in cast : b.from = Owner[t]
      BY <1>1, <3>1
    <3> QED
      BY <1>1, <3>1, <3>2 DEF Backers
  <2>2. s \in Sort /\ svmp[n] \in [Sort -> Nat]
    BY <1>2 DEF Types, TypeOK
  <2>3. IsFiniteSet(Backers(cast, s))
    BY <2>2, Supported
  <2>4. /\ Cardinality(First) <= Cardinality(Backers(cast, s))
        /\ Cardinality(First) \in Nat /\ Cardinality(Backers(cast, s)) \in Nat
    BY <1>2, <2>1, <2>3, FS_Subset, FS_CardinalityType
  <2>5. svmp[n][s] >= Cardinality(Backers(cast, s)) /\ svmp[n][s] \in Nat
    BY <1>1, <2>2 DEF CountersCover
  <2> QED
    BY <1>3, <1>4, <2>4, <2>5
<1>6. \A s \in Sort : svmp[n][s] > 0 => s \in First
  BY <1>1 DEF CountersCover
<1>7. \A s \in First : svmp[n][s] > 0
  <2>1. \A s \in First : svmp[n][s] \in Nat
    BY <1>2 DEF Types, TypeOK
  <2> QED
    BY <1>3, <1>5, <2>1
<1>8. {t \in css[n] : svmp[n][t] > 0} = First
  BY <1>1, <1>2, <1>6, <1>7
<1>9. Smallest(First, CommitteeSize) \subseteq First
  BY DEF Smallest
<1> QED
  BY <1>5, <1>8, <1>9 DEF Elect

LEMMA StepTimely ==
    ASSUME Types, CountersCover, BallotsAgree, TimelyAgreement, [Next]_vars,
           VoterSize >= MustVotes
    PROVE  TimelyAgreement'
<1> SUFFICES ASSUME ~late', Cardinality(Sort) >= MustVotes, NEW p \in Node, setted'[p]
             PROVE  comm'[p] = Smallest(First, CommitteeSize)
  BY DEF TimelyAgreement, First
<1>1. ~late
  BY DEF Types, TypeOK, Next, vars, SortCommittee, HandleVoterSort, VoteCommittee,
     HandleCommittee, SetCommittee
<1>2. setted[p] => comm[p] = Smallest(First, CommitteeSize)
  BY <1>1 DEF TimelyAgreement, First
<1>3. ASSUME NEW n \in Node, SetCommittee(n)
      PROVE  comm'[p] = Smallest(First, CommitteeSize)
  <2>1. /\ cast \subseteq counted[n] /\ \A m \in Node : stage[m] = "voted"
        /\ setted' = [setted EXCEPT ![n] = TRUE]
        /\ comm' = [comm EXCEPT ![n] = Elect(css[n], svmp[n])]
    BY <1>3 DEF SetCommittee
  <2>2. Elect(css[n], svmp[n]) = Smallest(First, CommitteeSize)
    BY <1>1, <2>1, ElectFirst
  <2> QED
    BY <1>2, <2>1, <2>2 DEF Types, TypeOK
<1>4. CASE UNCHANGED <<setted, comm>>
  BY <1>2, <1>4
<1> QED
  BY <1>3, <1>4 DEF Next, vars, SortCommittee, HandleVoterSort, VoteCommittee,
     HandleCommittee
-----------------------------------------------------------------------------
\* Types, however often voteCommittee runs.
THEOREM TypesKept == Spec => []TypeOK
<1>1. Init => Types
  BY InitInv, FS_EmptySet DEF Init, Types, Inv
<1>2. Types => TypeOK
  BY DEF Types
<1> QED
  BY <1>1, <1>2, StepTypes, PTL DEF Spec

\* setCommittee takes effect once, and no later vote changes the committee,
\* however often voteCommittee runs.
THEOREM CommitteesFixed == Spec => CommitteeFixed
<1>1. Init => Types
  BY InitInv, FS_EmptySet DEF Init, Types, Inv
<1>2. Types /\ [Next]_vars =>
          [\A n \in Node : setted[n] => setted'[n] /\ comm'[n] = comm[n]]_vars
  <2> SUFFICES ASSUME Types, Next, NEW p \in Node, setted[p]
               PROVE  setted'[p] /\ comm'[p] = comm[p]
    OBVIOUS
  <2>1. ASSUME NEW n \in Node, SetCommittee(n) PROVE setted'[p] /\ comm'[p] = comm[p]
    <3>1. n # p
      BY <2>1 DEF SetCommittee
    <3> QED
      BY <2>1, <3>1 DEF SetCommittee, Types, TypeOK
  <2>2. CASE UNCHANGED <<setted, comm>>
    BY <2>2
  <2> QED
    BY <2>1, <2>2 DEF Next, SortCommittee, HandleVoterSort, VoteCommittee, HandleCommittee
<1> QED
  BY <1>1, <1>2, StepTypes, PTL DEF Spec, CommitteeFixed

\* If every voter sends one ballot, the counters are right.
LEMMA InvKept ==
    ASSUME MaxCalls = 1
    PROVE  Spec => []Inv
<1>1. Inv /\ [Next]_vars => Inv'
  <2> SUFFICES ASSUME Inv, [Next]_vars PROVE Inv'
    OBVIOUS
  <2>1. Types /\ OneBallot /\ Counters /\ ElectedByVotes
    BY DEF Inv, Types, OneBallot
  <2>2. Types'
    BY <2>1, StepTypes
  <2>3. OneBallot' /\ Counters'
    BY <2>1, StepOneBallot, StepCounters
  <2>4. ElectedByVotes'
    BY <2>1, <2>2, StepElected
  <2> QED
    BY <2>2, <2>3, <2>4 DEF Inv, Types
<1> QED
  BY <1>1, InitInv, PTL DEF Spec

\* If every voter sends one ballot, nobody is on a committee without the votes
\* of MustVotes different sorts.
THEOREM CommitteesElected ==
    ASSUME MaxCalls = 1
    PROVE  Spec => []ElectedByVotes
<1>1. Inv => ElectedByVotes
  BY DEF Inv
<1> QED
  BY <1>1, InvKept, PTL

\* Two sets of supporters of MustVotes sorts meet when the sorts are too few,
\* and the owner of a sort in both has sent one ballot, which selects both.
THEOREM CommitteesMeet ==
    ASSUME MaxCalls = 1
    PROVE  Spec => []CommonVoter
<1>1. Inv => CommonVoter
  <2> SUFFICES ASSUME Inv, Cardinality(Sort) < 2 * MustVotes,
                      NEW s \in UNION {comm[n] : n \in Node},
                      NEW t \in UNION {comm[n] : n \in Node}
               PROVE  \E b \in cast : {s, t} \subseteq b.select
    BY DEF CommonVoter
  <2> DEFINE S == Supporters(s)
             T == Supporters(t)
  <2>1. s \in Sort /\ t \in Sort
    BY DEF Inv, TypeOK
  <2>2. /\ S \in SUBSET Sort /\ IsFiniteSet(S) /\ Cardinality(S) \in Nat
        /\ T \in SUBSET Sort /\ IsFiniteSet(T) /\ Cardinality(T) \in Nat
    BY <2>1, Supported DEF Inv, Types, OneBallot
  <2>3. Cardinality(S) >= MustVotes /\ Cardinality(T) >= MustVotes
    BY DEF Inv, ElectedByVotes
  <2>4. S \cap T # {}
    <3> SUFFICES ASSUME S \cap T = {} PROVE FALSE
      OBVIOUS
    <3>1. /\ IsFiniteSet(S \cup T)
          /\ Cardinality(S \cup T) = Cardinality(S) + Cardinality(T) - Cardinality({})
      BY <2>2, FS_Union
    <3>2. S \cup T \in SUBSET Sort
      BY <2>2
    <3>3. /\ Cardinality(S \cup T) <= Cardinality(Sort)
          /\ Cardinality(S \cup T) \in Nat /\ Cardinality(Sort) \in Nat
          /\ Cardinality({}) = 0 /\ MustVotes \in Nat
      BY <3>1, <3>2, FS_Subset, FS_CardinalityType, FS_EmptySet, CommitteeAssumption
    <3> HIDE DEF S, T
    <3> QED
      BY <2>2, <2>3, <3>1, <3>3
  <2>5. PICK x \in S : x \in T
    BY <2>4
  <2>6. PICK b \in cast : s \in b.select /\ x \in b.mine
    BY <2>5 DEF Supporters
  <2>7. PICK c \in cast : t \in c.select /\ x \in c.mine
    BY <2>5 DEF Supporters
  <2>8. b.from = Owner[x] /\ c.from = Owner[x]
    BY <2>6, <2>7 DEF Inv, OneBallot, Mine
  <2>9. b = c
    BY <2>8 DEF Inv, OneBallot
  <2> QED
    BY <2>6, <2>7, <2>9
<1> QED
  BY <1>1, InvKept, PTL

\* If all sorts had reached every voter and all ballots everybody who set a
\* committee, all committees are the first sorts, for as many calls of
\* voteCommittee as you like.  A ballot must hold the votes that elect
\* (VoterSize is 25 and MustVotes 17).
THEOREM TimelyCommittees ==
    ASSUME VoterSize >= MustVotes
    PROVE  Spec => []TimelyAgreement
<1>1. Timely /\ [Next]_vars => Timely'
  <2> SUFFICES ASSUME Timely, [Next]_vars PROVE Timely'
    OBVIOUS
  <2>1. Types /\ CountersCover /\ BallotsAgree /\ TimelyAgreement
    BY DEF Timely
  <2>2. Types'
    BY <2>1, StepTypes
  <2>3. CountersCover' /\ BallotsAgree'
    BY <2>1, <2>2, StepCover, StepAgree
  <2>4. TimelyAgreement'
    BY <2>1, StepTimely
  <2> QED
    BY <2>2, <2>3, <2>4 DEF Timely
<1>2. Timely => TimelyAgreement
  BY DEF Timely
<1> QED
  BY <1>1, <1>2, InitTimely, PTL DEF Spec
=============================================================================
