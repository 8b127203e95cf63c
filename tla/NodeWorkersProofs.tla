--------------------------- MODULE NodeWorkersProofs ---------------------------
(***************************************************************************)
(* The worker pools are correct for any number of goroutines, votes, stake *)
(* units and ballots and any capacity of the channels: proofs about        *)
(* NodeWorkers.  Each of the three calls has an invariant of its own,      *)
(* since the other two leave its variables alone (Projects).               *)
(***************************************************************************)
EXTENDS NodeWorkers, FiniteSetTheorems, TLAPS

\* A step of the node is a step of each call or leaves the call as it is.
LEMMA Projects ==
    ASSUME [PoolsNext]_allVars
    PROVE  [Next]_vars /\ [Sorting!Next]_sortVars /\ [Signing!Next]_signVars
BY DEF PoolsNext, allVars, LoopCalls, Verifies, Feeds, SortWorks, Hands, Signs,
       Next, Sorting!Next, Signing!Next

-----------------------------------------------------------------------------
(* verifyVotes *)

\* Where verifyVotes is determines what is sent, looked at and collected; it
\* stops sending after the last vote or after a vote that is bad.
Progress ==
    /\ pc = "idle" <=> valid = << >>
    /\ pc = "idle" => k = 0 /\ got = {}
    /\ pc # "idle" => valid \in Batch /\ k <= Size
    /\ pc = "send" => k < Size
    /\ pc \in {"peek", "putback", "collect"} => k > 0
    /\ pc = "putback" <=> held # 0
    /\ pc \in {"send", "peek", "putback"} => got = {}
    /\ pc = "collect" => k = Size \/ \E v \in 1..k : ~valid[v]

\* The inductive invariant.
VerifyInv == TypeOK /\ Conserved /\ Progress

\* A message's votes are numbered from 1 to its size.
LEMMA BatchSize ==
    ASSUME NEW f \in Batch
    PROVE  /\ Cardinality(DOMAIN f) \in Nat \ {0}
           /\ DOMAIN f = 1..Cardinality(DOMAIN f)
           /\ f \in [DOMAIN f -> BOOLEAN]
           /\ f # << >>
<1>1. PICK n \in 1..MaxVotes : f \in [1..n -> BOOLEAN]
  BY DEF Batch
<1>2. n \in Nat \ {0}
  BY PoolAssumption
<1>3. Cardinality(1..n) = n
  BY <1>2, FS_Interval, n - 1 + 1 = n
<1>4. DOMAIN f = 1..n /\ 1 \in DOMAIN f
  BY <1>1, <1>2
<1>5. f # << >>
  BY <1>4
<1> QED
  BY <1>1, <1>2, <1>3, <1>4, <1>5

\* A set of k of the first k numbers has all of them.
LEMMA FullSubset ==
    ASSUME NEW n \in Nat, NEW S \in SUBSET (1..n), Cardinality(S) = n
    PROVE  S = 1..n
<1>1. IsFiniteSet(1..n) /\ Cardinality(1..n) = n
  BY FS_Interval
<1> QED
  BY <1>1, FS_Subset, Zenon

LEMMA VerifyInitInv == Init => VerifyInv
<1> SUFFICES ASSUME Init PROVE VerifyInv
  OBVIOUS
<1>1. TypeOK
  BY DEF Init, TypeOK
<1>2. Busy = {} /\ Held = {}
  BY DEF Init, Busy, Held
<1>3. 1..k = {}
  BY DEF Init
<1>4. \A w \in Worker : busy[w] = 0
  BY DEF Init
<1>5. Conserved
  BY <1>2, <1>3, <1>4 DEF Init, Conserved
<1>6. Progress
  BY DEF Init, Progress
<1> QED
  BY <1>1, <1>5, <1>6 DEF VerifyInv

LEMMA VerifyStepInv == VerifyInv /\ [Next]_vars => VerifyInv'
<1> SUFFICES ASSUME VerifyInv, [Next]_vars PROVE VerifyInv'
  OBVIOUS
<1>0. valid # << >> => /\ Size \in Nat \ {0} /\ DOMAIN valid = 1..Size
                       /\ valid \in [1..Size -> BOOLEAN]
  BY BatchSize DEF VerifyInv, TypeOK, Size
<1>1. CASE Call
  BY <1>1, BatchSize DEF VerifyInv, Call, TypeOK, Conserved, Progress, Busy, Held, Size
<1>2. CASE Send
  BY <1>2, <1>0 DEF VerifyInv, Send, TypeOK, Conserved, Progress, Busy, Held, Size
<1>3. CASE PeekNothing
  BY <1>3, <1>0 DEF VerifyInv, PeekNothing, TypeOK, Conserved, Progress, Busy, Held, Size
<1>4. CASE PeekResult
  BY <1>4, <1>0 DEF VerifyInv, PeekResult, TypeOK, Conserved, Progress, Busy, Held, Size
<1>5. CASE PutBack
  BY <1>5, <1>0 DEF VerifyInv, PutBack, TypeOK, Conserved, Progress, Busy, Held, Size
<1>6. ASSUME NEW v \in ch, Collect(v) PROVE VerifyInv'
  BY <1>6, <1>0 DEF VerifyInv, Collect, TypeOK, Conserved, Progress, Busy, Held, Size
<1>7. ASSUME NEW v \in ch, Return(v) PROVE VerifyInv'
  <2>1. got \cup {v} = 1..k
    <3>1. k \in Nat /\ got \cup {v} \in SUBSET (1..k)
      BY <1>7 DEF VerifyInv, TypeOK, Conserved
    <3>2. Cardinality(got \cup {v}) = k
      BY <1>7 DEF Return, IsLast
    <3> QED
      BY <3>1, <3>2, FullSubset
  <2>2. queue = {} /\ Busy = {} /\ ch = {v} /\ Held = {}
    BY <2>1, <1>7 DEF VerifyInv, Conserved
  <2>3. TypeOK'
    BY <2>2, <1>7 DEF Return, VerifyInv, TypeOK
  <2>4. Conserved'
    BY <2>2, <1>7 DEF Return, VerifyInv, Conserved, Busy, Held
  <2>5. Progress'
    BY <1>7 DEF Return, VerifyInv, Progress
  <2> QED
    BY <2>3, <2>4, <2>5 DEF VerifyInv
<1>8. ASSUME NEW w \in Worker, Take(w) PROVE VerifyInv'
  BY <1>8, <1>0 DEF VerifyInv, Take, TypeOK, Conserved, Progress, Busy, Held, Size
<1>9. ASSUME NEW w \in Worker, Reply(w) PROVE VerifyInv'
  BY <1>9, <1>0 DEF VerifyInv, Reply, TypeOK, Conserved, Progress, Busy, Held, Size
<1>10. CASE UNCHANGED vars
  BY <1>10 DEF VerifyInv, vars, TypeOK, Conserved, Progress, Busy, Held, Size
<1> QED
  BY <1>1, <1>2, <1>3, <1>4, <1>5, <1>6, <1>7, <1>8, <1>9, <1>10
  DEF Next, CallerStep, WorkerStep

-----------------------------------------------------------------------------
(* doSort *)

\* The instance counts as the module does.
LEMMA SameSize ==
    ASSUME NEW S
    PROVE  Sorting!Cardinality(S) = Cardinality(S)
BY DEF Sorting!Cardinality, Cardinality

\* The inductive invariant.
SortInv == Sorting!TypeOK /\ Sorting!Conserved

\* The units of a draw are numbered from 1 to its size.
LEMMA DrawSize ==
    ASSUME NEW f \in Sorting!Draw
    PROVE  /\ Cardinality(DOMAIN f) \in Nat \ {0}
           /\ Cardinality(DOMAIN f) <= MaxCount
           /\ DOMAIN f = 1..Cardinality(DOMAIN f)
           /\ f # << >>
<1>1. PICK n \in 1..MaxCount : f \in [1..n -> BOOLEAN]
  BY DEF Sorting!Draw
<1>2. n \in Nat \ {0} /\ n <= MaxCount
  BY <1>1, PoolAssumption
<1>3. Cardinality(1..n) = n
  BY <1>2, FS_Interval, n - 1 + 1 = n
<1>4. DOMAIN f = 1..n /\ 1 \in DOMAIN f
  BY <1>1, <1>2
<1> QED
  BY <1>2, <1>3, <1>4

\* Between two draws there is no unit.
LEMMA NoUnits == DOMAIN << >> = {} /\ Cardinality(DOMAIN << >>) = 0
<1>1. DOMAIN << >> = {}
  OBVIOUS
<1> QED
  BY <1>1, FS_EmptySet

\* When the number of results is the number of units, every unit has answered.
LEMMA AllAnswered ==
    ASSUME SortInv, wins # << >>, NEW w \in Worker, sortBusy[w] # 0, Sorting!IsLast(sortBusy[w])
    PROVE  /\ sortGot \cup {sortBusy[w]} = DOMAIN wins
           /\ sent = Sorting!Size
           /\ sortQueue = {} /\ Sorting!Busy = {sortBusy[w]}
<1>1. Sorting!Size \in Nat \ {0} /\ DOMAIN wins = 1..Sorting!Size
  BY DrawSize, SameSize DEF SortInv, Sorting!TypeOK, Sorting!Size
<1>2. sortBusy[w] \in Sorting!Busy
  BY DEF Sorting!Busy
<1>3. sortGot \cup {sortBusy[w]} \subseteq 1..sent
  BY <1>2 DEF SortInv, Sorting!Conserved
<1>4. sent \in Nat /\ sent <= Sorting!Size
  BY DEF SortInv, Sorting!TypeOK, Sorting!Conserved
<1>5. sortGot \cup {sortBusy[w]} \in SUBSET (1..Sorting!Size)
  BY <1>1, <1>3, <1>4
<1>6. IsFiniteSet(1..Sorting!Size) /\ Cardinality(1..Sorting!Size) = Sorting!Size
  BY <1>1, FS_Interval
<1>7. sortGot \cup {sortBusy[w]} = 1..Sorting!Size
  <2>1. Cardinality(sortGot \cup {sortBusy[w]}) = Sorting!Size
    BY SameSize DEF Sorting!IsLast
  <2> QED
    BY <1>5, <1>6, <2>1, FS_Subset, Zenon
<1>8. sent = Sorting!Size
  <2>1. Sorting!Size \in 1..Sorting!Size
    BY <1>1
  <2>2. Sorting!Size \in 1..sent
    BY <2>1, <1>3, <1>7
  <2> QED
    BY <1>1, <1>4, <2>2
<1>9. sortQueue \cap (sortGot \cup {sortBusy[w]}) = {} /\ sortQueue \subseteq sortGot \cup {sortBusy[w]}
  BY <1>1, <1>2, <1>7, <1>8 DEF SortInv, Sorting!Conserved
<1>10. Sorting!Busy \subseteq sortGot \cup {sortBusy[w]} /\ Sorting!Busy \cap sortGot = {}
  BY <1>1, <1>7, <1>8 DEF SortInv, Sorting!Conserved
<1> QED
  BY <1>1, <1>2, <1>7, <1>8, <1>9, <1>10

LEMMA SortInitInv == Sorting!Init => SortInv
<1> SUFFICES ASSUME Sorting!Init PROVE SortInv
  OBVIOUS
<1>1. Sorting!Busy = {}
  BY DEF Sorting!Init, Sorting!Busy
<1>2. Sorting!Size = 0
  BY NoUnits, SameSize DEF Sorting!Init, Sorting!Size
<1>3. Sorting!TypeOK
  BY DEF Sorting!Init, Sorting!TypeOK
<1>4. Sorting!Conserved
  BY <1>1, <1>2 DEF Sorting!Init, Sorting!Conserved
<1> QED
  BY <1>3, <1>4 DEF SortInv

LEMMA SortStepInv == SortInv /\ [Sorting!Next]_sortVars => SortInv'
<1> SUFFICES ASSUME SortInv, [Sorting!Next]_sortVars PROVE SortInv'
  OBVIOUS
<1>0. wins # << >> => Sorting!Size \in Nat \ {0} /\ DOMAIN wins = 1..Sorting!Size /\ Sorting!Size <= MaxCount
  BY DrawSize, SameSize DEF SortInv, Sorting!TypeOK, Sorting!Size
<1>1. CASE Sorting!Call
  <2>1. Sorting!Size' \in Nat /\ wins' # << >>
    BY <1>1, DrawSize, SameSize DEF Sorting!Call, Sorting!Size
  <2>2. sent = 0 /\ sortGot = {} /\ sortQueue = {} /\ Sorting!Busy = {}
    BY <1>1 DEF Sorting!Call, SortInv, Sorting!Conserved
  <2> QED
    BY <1>1, <2>1, <2>2 DEF Sorting!Call, SortInv, Sorting!TypeOK, Sorting!Conserved, Sorting!Busy
<1>2. CASE Sorting!CallNone
  BY <1>2 DEF Sorting!CallNone, SortInv, Sorting!TypeOK, Sorting!Conserved, Sorting!Busy, Sorting!Size
<1>3. CASE Sorting!Feed
  <2>1. wins # << >>
    BY <1>3, NoUnits, SameSize DEF Sorting!Feed, SortInv, Sorting!TypeOK, Sorting!Size
  <2>2. sent + 1 \in 1..Sorting!Size /\ sent \in Nat
    BY <1>3, <1>0, <2>1 DEF Sorting!Feed, SortInv, Sorting!TypeOK
  <2>3. 1..(sent + 1) = (1..sent) \cup {sent + 1} /\ sent + 1 \notin 1..sent
    BY <2>2
  <2>4. Sorting!TypeOK'
    BY <1>3, <1>0, <2>1, <2>2 DEF Sorting!Feed, SortInv, Sorting!TypeOK
  <2>5. Sorting!Conserved'
    BY <1>3, <1>0, <2>1, <2>2, <2>3 DEF Sorting!Feed, SortInv, Sorting!TypeOK, Sorting!Conserved, Sorting!Busy, Sorting!Size
  <2> QED
    BY <2>4, <2>5 DEF SortInv
<1>4. ASSUME NEW w \in Worker, Sorting!Take(w) PROVE SortInv'
  <2>1. PICK i \in sortQueue : sortBusy' = [sortBusy EXCEPT ![w] = i] /\ sortQueue' = sortQueue \ {i}
    BY <1>4 DEF Sorting!Take
  <2>2. i \in Nat \ {0} /\ i \in DOMAIN wins
    BY <1>0 DEF SortInv, Sorting!TypeOK
  <2>3. Sorting!Busy' = Sorting!Busy \cup {i}
    BY <1>4, <2>1, <2>2 DEF Sorting!Busy, Sorting!Take, SortInv, Sorting!TypeOK
  <2>4. Sorting!TypeOK'
    BY <1>4, <2>1, <2>2 DEF Sorting!Take, SortInv, Sorting!TypeOK
  <2>5. Sorting!Conserved'
    BY <1>4, <2>1, <2>2, <2>3 DEF Sorting!Take, SortInv, Sorting!TypeOK, Sorting!Conserved, Sorting!Busy, Sorting!Size
  <2> QED
    BY <2>4, <2>5 DEF SortInv
<1>5. ASSUME NEW w \in Worker, Sorting!Collect(w) PROVE SortInv'
  <2>1. Sorting!Busy' = Sorting!Busy \ {sortBusy[w]} /\ sortBusy[w] \in Sorting!Busy
    BY <1>5 DEF Sorting!Busy, Sorting!Collect, SortInv, Sorting!TypeOK, Sorting!Conserved
  <2>2. Sorting!TypeOK'
    BY <1>5, <2>1, <1>0 DEF Sorting!Collect, SortInv, Sorting!TypeOK, Sorting!Conserved
  <2>3. Sorting!Conserved'
    BY <1>5, <2>1 DEF Sorting!Collect, SortInv, Sorting!TypeOK, Sorting!Conserved, Sorting!Size, Sorting!Busy
  <2> QED
    BY <2>2, <2>3 DEF SortInv
<1>6. ASSUME NEW w \in Worker, Sorting!Return(w) PROVE SortInv'
  <2>1. sortGot \cup {sortBusy[w]} = DOMAIN wins /\ sortQueue = {} /\ Sorting!Busy = {sortBusy[w]}
    BY <1>6, AllAnswered DEF Sorting!Return
  <2>2. \A x \in Worker : sortBusy'[x] = 0
    <3>1. \A x \in Worker : sortBusy[x] # 0 => sortBusy[x] \in Sorting!Busy
      BY DEF Sorting!Busy
    <3>2. \A x \in Worker : sortBusy[x] # 0 => x = w
      BY <3>1, <2>1, <1>6 DEF Sorting!Return, SortInv, Sorting!Conserved
    <3> QED
      BY <3>2, <1>6 DEF Sorting!Return, SortInv, Sorting!TypeOK
  <2>3. Sorting!Busy' = {}
    BY <2>2 DEF Sorting!Busy
  <2>4. Sorting!Size' = 0
    BY <1>6, NoUnits, SameSize DEF Sorting!Return, Sorting!Size
  <2>5. Sorting!TypeOK'
    BY <1>6, <2>1, <1>0, PoolAssumption DEF Sorting!Return, SortInv, Sorting!TypeOK
  <2>6. Sorting!Conserved'
    BY <1>6, <2>1, <2>2, <2>3, <2>4 DEF Sorting!Return, Sorting!Conserved
  <2> QED
    BY <2>5, <2>6 DEF SortInv
<1>7. CASE UNCHANGED sortVars
  BY <1>7 DEF sortVars, SortInv, Sorting!TypeOK, Sorting!Conserved, Sorting!Busy, Sorting!Size
<1> QED
  BY <1>1, <1>2, <1>3, <1>4, <1>5, <1>6, <1>7 DEF Sorting!Next, Sorting!WorkerStep

-----------------------------------------------------------------------------
(* signVotes *)

\* A ballot that was handed over is signed or with a goroutine; the goroutines
\* end without one, once all have been handed over.
SignInv ==
    /\ Signing!TypeOK
    /\ \A i \in 1..handed : i \in signed \/ \E w \in Worker : hand[w] = i
    /\ closed = FALSE \/ (closed = TRUE /\ handed = size /\ size # 0)
    /\ ended = {} \/ closed = TRUE
    /\ \A w \in ended : hand[w] = 0

LEMMA SignInitInv == Signing!Init => SignInv
<1> SUFFICES ASSUME Signing!Init PROVE SignInv
  OBVIOUS
<1>1. 1..handed = {} /\ 0 \in 0..MaxCount /\ 0 \in 0..0
  BY PoolAssumption DEF Signing!Init
<1>2. Signing!TypeOK
  BY <1>1 DEF Signing!Init, Signing!TypeOK
<1> QED
  BY <1>1, <1>2 DEF Signing!Init, SignInv

LEMMA SignStepInv == SignInv /\ [Signing!Next]_signVars => SignInv'
<1> SUFFICES ASSUME SignInv, [Signing!Next]_signVars PROVE SignInv'
  OBVIOUS
<1>0. /\ MaxCount \in Nat /\ size \in Nat /\ handed \in Nat /\ handed <= size
      /\ hand \in [Worker -> 0..handed] /\ signed \subseteq 1..handed
  BY PoolAssumption DEF SignInv, Signing!TypeOK
<1>1. CASE Signing!Call
  <2>1. handed = 0
    BY <1>0, <1>1 DEF Signing!Call
  <2> QED
    <3>1. size' \in 0..MaxCount /\ handed \in 0..size'
      BY <1>0, <1>1, <2>1 DEF Signing!Call
    <3>2. closed = FALSE /\ ended = {}
      BY <1>1 DEF Signing!Call, SignInv
    <3> QED
      BY <1>0, <1>1, <2>1, <3>1, <3>2 DEF Signing!Call, SignInv, Signing!TypeOK
<1>2. ASSUME NEW w \in Worker, Signing!Hand(w) PROVE SignInv'
  <2>1. /\ closed = FALSE /\ ended = {}
        /\ handed' = handed + 1 /\ handed + 1 \in 1..size
        /\ hand' = [hand EXCEPT ![w] = handed + 1]
        /\ \A x \in Worker : hand[x] # handed + 1
        /\ UNCHANGED <<size, closed, ended, signed>>
    BY <1>0, <1>2 DEF Signing!Hand, SignInv
  <2>2. \A i \in 1..handed + 1 : i \in 1..handed \/ i = handed + 1
    BY <1>0
  <2>3. Signing!TypeOK'
    BY <1>0, <1>2, <2>1, <2>2 DEF Signing!Hand, SignInv, Signing!TypeOK
  <2>4. \A i \in 1..handed + 1 : i \in signed \/ \E x \in Worker : hand'[x] = i
    BY <1>0, <1>2, <2>1, <2>2 DEF Signing!Hand, SignInv
  <2> QED
    BY <2>1, <2>3, <2>4 DEF SignInv
<1>3. ASSUME NEW w \in Worker, Signing!Sign(w) PROVE SignInv'
  <2>1. /\ hand' = [hand EXCEPT ![w] = 0] /\ hand[w] \in 1..handed
        /\ signed' = signed \cup {hand[w]}
        /\ UNCHANGED <<size, handed, closed, ended>>
    BY <1>0, <1>3 DEF Signing!Sign
  <2>2. Signing!TypeOK'
    <3>1. hand' \in [Worker -> 0..handed] /\ signed' \subseteq 1..handed
      <4>1. 0 \in 0..handed
        BY <1>0
      <4>2. hand' \in [Worker -> 0..handed]
        BY <1>0, <2>1, <4>1
      <4>3. signed' \subseteq 1..handed
        BY <1>0, <2>1
      <4> QED
        BY <4>2, <4>3
    <3>2. \A x, y \in Worker : hand'[x] = hand'[y] /\ hand'[x] # 0 => x = y
      BY <1>0, <2>1 DEF SignInv, Signing!TypeOK
    <3> QED
      BY <2>1, <3>1, <3>2 DEF SignInv, Signing!TypeOK
  <2>3. \A i \in 1..handed : i \in signed' \/ \E x \in Worker : hand'[x] = i
    BY <1>0, <2>1 DEF SignInv
  <2> QED
    BY <1>0, <2>1, <2>2, <2>3 DEF SignInv, Signing!TypeOK
<1>4. CASE Signing!Close
  BY <1>0, <1>4 DEF Signing!Close, SignInv, Signing!TypeOK
<1>5. ASSUME NEW w \in Worker, Signing!End(w) PROVE SignInv'
  <2>1. /\ closed = TRUE /\ hand[w] = 0 /\ ended' = ended \cup {w}
        /\ UNCHANGED <<size, handed, hand, closed, signed>>
    BY <1>5 DEF Signing!End, SignInv
  <2> QED
    BY <2>1 DEF SignInv, Signing!TypeOK
<1>6. CASE Signing!Return
  <2>1. 1..handed' = {} /\ 0 \in 0..MaxCount /\ handed' = 0 /\ 0 \in 0..0
    BY PoolAssumption, <1>6 DEF Signing!Return
  <2>2. Signing!TypeOK'
    BY <1>6, <2>1 DEF Signing!Return, Signing!TypeOK
  <2> QED
    BY <1>6, <2>1, <2>2 DEF Signing!Return, SignInv
<1>7. CASE UNCHANGED signVars
  BY <1>7 DEF signVars, SignInv, Signing!TypeOK
<1> QED
  BY <1>1, <1>2, <1>3, <1>4, <1>5, <1>6, <1>7 DEF Signing!Next, Signing!SignerStep

\* Once all goroutines have ended every ballot is signed.
LEMMA EndedSigned ==
    ASSUME SignInv, [Signing!Next]_signVars, size # 0, size' = 0
    PROVE  signed = 1..size
<1>1. Signing!Return
  BY DEF Signing!Next, Signing!SignerStep, Signing!Call, Signing!Hand, Signing!Sign,
         Signing!Close, Signing!End, signVars
<1>2. handed = size /\ \A w \in Worker : hand[w] = 0
  BY <1>1 DEF Signing!Return, Signing!AllEnded, SignInv
<1>3. \A i \in 1..handed : i # 0
  BY PoolAssumption DEF SignInv, Signing!TypeOK
<1> QED
  BY <1>2, <1>3 DEF SignInv, Signing!TypeOK

-----------------------------------------------------------------------------
(* The node *)

Inv == VerifyInv /\ SortInv /\ SignInv

LEMMA InitInv == PoolsInit => Inv
BY VerifyInitInv, SortInitInv, SignInitInv DEF PoolsInit, Inv

LEMMA StepInv == Inv /\ [PoolsNext]_allVars => Inv'
BY Projects, VerifyStepInv, SortStepInv, SignStepInv DEF Inv

\* The types of all three calls.
THEOREM TypeCorrect == PoolsSpec => [](TypeOK /\ Sorting!TypeOK /\ Signing!TypeOK)
<1>1. Inv => TypeOK /\ Sorting!TypeOK /\ Signing!TypeOK
  BY DEF Inv, VerifyInv, SortInv, SignInv
<1> QED
  BY <1>1, InitInv, StepInv, PTL DEF PoolsSpec

\* Every request of verifyVotes is in one place (Conserved): none is lost, none
\* answered twice.
THEOREM RequestsConserved == PoolsSpec => []Conserved
<1>1. Inv => Conserved
  BY DEF Inv, VerifyInv
<1> QED
  BY <1>1, InitInv, StepInv, PTL DEF PoolsSpec

\* Nothing is left over when verifyVotes closes the results' channel (Quiet).
THEOREM ReturnsQuiet == PoolsSpec => []Quiet
<1>1. Inv => Quiet
  BY DEF Inv, VerifyInv, TypeOK, Progress, Conserved, Quiet
<1> QED
  BY <1>1, InitInv, StepInv, PTL DEF PoolsSpec

\* verifyVotes answers as VoteCheck promises (Implements): each call once, with
\* whether all votes of its message are valid.
THEOREM ChecksAllVotes == PoolsSpec => Implements
<1>1. Init => Check!Init
  BY DEF Init, Check!Init
<1>2. VerifyInv /\ [Next]_vars => [Check!Next]_<<valid, verdict>>
  <2> SUFFICES ASSUME VerifyInv, [Next]_vars
               PROVE  Check!Next \/ UNCHANGED <<valid, verdict>>
    OBVIOUS
  <2>1. CASE Call
    BY <2>1 DEF Call, VerifyInv, Progress, Check!Next, Check!Ask, Check!Batch, Batch
  <2>2. ASSUME NEW v \in ch, Return(v) PROVE Check!Answer
    <3>1. valid # << >> /\ DOMAIN valid = 1..Size
      BY <2>2, BatchSize DEF Return, VerifyInv, TypeOK, Progress, Size
    <3>2. k \in Nat /\ got \cup {v} = 1..k
      <4>1. k \in Nat /\ got \cup {v} \in SUBSET (1..k)
        BY <2>2 DEF VerifyInv, TypeOK, Conserved
      <4>2. Cardinality(got \cup {v}) = k
        BY <2>2 DEF Return, IsLast
      <4> QED
        BY <4>1, <4>2, FullSubset
    <3>3. k = Size \/ \E u \in 1..k : ~valid[u]
      BY <2>2 DEF Return, VerifyInv, Progress
    <3>4. 1..k \subseteq DOMAIN valid
      BY <3>1, <3>2, <2>2 DEF VerifyInv, TypeOK
    <3>5. (\A u \in got \cup {v} : valid[u]) <=> \A u \in DOMAIN valid : valid[u]
      BY <3>1, <3>2, <3>3, <3>4
    <3> QED
      BY <3>1, <3>5, <2>2 DEF Return, Check!Answer
  <2>3. CASE CallerStep
    BY <2>3, <2>2 DEF CallerStep, Send, PeekNothing, PeekResult, PutBack, Collect, Check!Next
  <2>4. CASE \E w \in Worker : WorkerStep(w)
    BY <2>4 DEF WorkerStep, Take, Reply
  <2>5. CASE UNCHANGED vars
    BY <2>5 DEF vars
  <2> QED
    BY <2>1, <2>3, <2>4, <2>5 DEF Next, Check!Next
<1>3. PoolsInit => Check!Init
  BY <1>1 DEF PoolsInit
<1>4. Inv /\ [PoolsNext]_allVars => [Check!Next]_<<valid, verdict>>
  BY <1>2, Projects DEF Inv
<1> QED
  BY <1>3, <1>4, InitInv, StepInv, PTL DEF PoolsSpec, Implements, Check!Spec

\* No request of a draw is lost, answered twice or left to the next draw, whose
\* channel it would not reach.
THEOREM DrawsConserved == PoolsSpec => []Sorting!Conserved
<1>1. Inv => Sorting!Conserved
  BY DEF Inv, SortInv
<1> QED
  BY <1>1, InitInv, StepInv, PTL DEF PoolsSpec

\* doSort returns exactly the units that won, once per call, in whatever order
\* the workers answer (SortImplements).
THEOREM DrawsAreComplete == PoolsSpec => SortImplements
<1>1. Sorting!Init => Sorting!Sorts!Init
  BY DEF Sorting!Init, Sorting!Sorts!Init
<1>2. SortInv /\ [Sorting!Next]_sortVars => [Sorting!Sorts!Next]_<<wins, drawn>>
  <2> SUFFICES ASSUME SortInv, [Sorting!Next]_sortVars
               PROVE  Sorting!Sorts!Next \/ UNCHANGED <<wins, drawn>>
    OBVIOUS
  <2>1. CASE Sorting!Call
    BY <2>1 DEF Sorting!Call, Sorting!Draw, Sorting!Sorts!Next, Sorting!Sorts!Ask, Sorting!Sorts!Draw
  <2>2. CASE Sorting!CallNone
    BY <2>2 DEF Sorting!CallNone, Sorting!Sorts!Next, Sorting!Sorts!AskNone
  <2>3. ASSUME NEW w \in Worker, Sorting!Return(w) PROVE Sorting!Sorts!Answer
    BY <2>3, AllAnswered DEF Sorting!Return, Sorting!Sorts!Answer
  <2>4. CASE Sorting!Feed \/ \E w \in Worker : Sorting!WorkerStep(w)
    BY <2>4, <2>3 DEF Sorting!Feed, Sorting!WorkerStep, Sorting!Take, Sorting!Collect, Sorting!Sorts!Next
  <2>5. CASE UNCHANGED sortVars
    BY <2>5 DEF sortVars
  <2> QED
    BY <2>1, <2>2, <2>4, <2>5 DEF Sorting!Next
<1>3. PoolsInit => Sorting!Sorts!Init
  BY <1>1 DEF PoolsInit
<1>4. Inv /\ [PoolsNext]_allVars => [Sorting!Sorts!Next]_<<wins, drawn>>
  BY <1>2, Projects DEF Inv
<1> QED
  BY <1>3, <1>4, InitInv, StepInv, PTL
  DEF PoolsSpec, SortImplements, Sorting!SortImplements, Sorting!Sorts!Spec

\* signVotes returns when every ballot of the call is signed (AllSigned): none is
\* broadcast while a goroutine still works on it.
THEOREM BallotsAreSigned == PoolsSpec => AllSigned
<1>1. Inv /\ [PoolsNext]_allVars =>
         [size # 0 /\ size' = 0 => signed = 1..size]_signVars
  BY Projects, EndedSigned DEF Inv
<1>2. Signing!vars = signVars
  BY DEF Signing!vars, signVars
<1> QED
  BY <1>1, <1>2, InitInv, StepInv, PTL
  DEF PoolsSpec, AllSigned, Signing!AllSigned, Signing!vars, signVars
=============================================================================
