--------------------------- MODULE BlockCheckProofs ---------------------------
(***************************************************************************)
(* Sorts, bindings and blocks when last blocks are replaced, for any       *)
(* nodes, quorums, draws, heights and rounds: proofs about BlockCheck.     *)
(***************************************************************************)
EXTENDS BlockCheck, SequenceTheorems, TLAPS

\* The blocks there are.
Blocks == Range(Root) \cup {m[2] : m \in made}

\* A chain from height 1 on that has all of the root's heights.
GoodChain(c, S) ==
    /\ c \in Seq(S) /\ Len(c) >= SortBlocks
    /\ \A i \in 1..Len(c) : c[i].height = i

\* A block on top of such a chain.
GoodBlock(m, S) ==
    /\ m = <<m[1], m[2]>>
    /\ GoodChain(m[1], S) /\ m[2].height = Len(m[1]) + 1

\* Tables by node, height and round.
Table(f) == f = [n \in Node |-> [h \in Height |-> [r \in Round |-> f[n][h][r]]]]

Types ==
    /\ chain = [n \in Node |-> chain[n]]
    /\ \A n \in Node : GoodChain(chain[n], Blocks)
    /\ \A m \in made : GoodBlock(m, Blocks)
    /\ blsMp \in [Node -> SUBSET Binder]
    /\ Table(myss)

\* What a node drew is its own, of the height and round it is kept for.
Mine ==
    \A n \in Node, h \in Height, r \in Round : \A s \in myss[n][h][r] :
        s.owner = n /\ s.height = h /\ s.round = r

\* Node n redrew s for height h with the block SortBlocks below, which is still
\* on its chain d if the height has no block yet.
DrawnFrom(n, d, h, r, s) ==
    /\ h <= Len(d) + 1
    /\ h = Len(d) + 1 => s = Sort(n, h, r, MinerSeed(d[h - SortBlocks]))

Redraws ==
    \A n \in Node, h \in Height, r \in Round \ {0} :
        \A s \in myss[n][h][r] : DrawnFrom(n, chain[n], h, r, s)

\* A node that took back no binding has cached only what its chain has bound.
Cached == \A n \in Node \ undone : blsMp[n] \subseteq Bound(chain[n])

\* The inductive invariant; what it is joined with for redraws and for bindings.
Inv == Types /\ Mine /\ StaleStaysAlone

-----------------------------------------------------------------------------
(* Chains *)

LEMMA HeightIn ==
    ASSUME NEW h \in Height
    PROVE  h \in Nat /\ h > SortBlocks /\ h - SortBlocks \in Nat \ {0}
BY BlockCheckAssumption DEF Height

\* Chains with a common start have the same part below a height.
LEMMA SamePrefix ==
    ASSUME NEW S, NEW c \in Seq(S), NEW d \in Seq(S), NEW k \in Nat,
           k <= Len(c), k <= Len(d), \A i \in 1..k : c[i] = d[i]
    PROVE  SubSeq(c, 1, k) = SubSeq(d, 1, k)
<1> DEFINE x == SubSeq(c, 1, k)
           y == SubSeq(d, 1, k)
<1>1. \A i \in 1..k : c[i] \in S /\ d[i] \in S
  <2>1. \A i \in 1..k : i \in 1..Len(c) /\ i \in 1..Len(d)
    BY LenProperties
  <2> QED
    BY <2>1, ElementOfSeq
<1>2. x \in Seq(S) /\ y \in Seq(S) /\ Len(x) = k /\ Len(y) = k
  BY <1>1, SubSeqProperties, k - 1 + 1 = k, k < 1 => k = 0
<1>3. \A i \in 1..k : x[i] = c[i] /\ y[i] = d[i]
  <2>1. \A i \in 1..k - 1 + 1 : x[i] = c[1 + i - 1] /\ y[i] = d[1 + i - 1]
    BY <1>1, SubSeqProperties
  <2>2. k - 1 + 1 = k /\ \A i \in 1..k : 1 + i - 1 = i
    OBVIOUS
  <2> QED
    BY <2>1, <2>2
<1> HIDE DEF x, y
<1>4. x = y
  BY <1>2, <1>3, SeqEqual
<1> QED
  BY <1>4 DEF x, y

\* c is what is left of node n's chain below a block that n adds: all of it, or
\* all but its last block.
Parent(n, c) ==
    /\ GoodChain(c, Blocks) /\ GoodChain(chain[n], Blocks)
    /\ Len(chain[n]) = Len(c) \/ Len(chain[n]) = Len(c) + 1
    /\ \A i \in 1..Len(c) : c[i] = chain[n][i]

LEMMA ParentAll ==
    ASSUME Types, NEW n \in Node
    PROVE  Parent(n, chain[n])
BY DEF Types, Parent

LEMMA ParentFront ==
    ASSUME Types, NEW n \in Node, NEW m \in made, Front(chain[n]) = m[1]
    PROVE  Parent(n, m[1])
<1> DEFINE d == chain[n]
           k == Len(d) - 1
<1>1. GoodChain(d, Blocks) /\ GoodChain(m[1], Blocks)
  BY DEF Types, GoodBlock
<1>2. d \in Seq(Blocks) /\ Len(d) \in Nat /\ Len(d) >= 1 /\ k \in Nat
  BY <1>1, BlockCheckAssumption, LenProperties DEF GoodChain
<1> HIDE DEF d
<1>3. \A i \in 1..k : d[i] \in Blocks
  BY <1>2, ElementOfSeq
<1>4. /\ Len(SubSeq(d, 1, k)) = k
      /\ \A i \in 1..k : SubSeq(d, 1, k)[i] = d[i]
  <2>1. /\ Len(SubSeq(d, 1, k)) = IF 1 <= k THEN k - 1 + 1 ELSE 0
        /\ \A i \in 1..k - 1 + 1 : SubSeq(d, 1, k)[i] = d[1 + i - 1]
    BY <1>2, <1>3, SubSeqProperties
  <2>2. k - 1 + 1 = k /\ \A i \in 1..k : 1 + i - 1 = i
    BY <1>2
  <2> QED
    BY <1>2, <2>1, <2>2
<1>5. m[1] = SubSeq(d, 1, k)
  BY DEF Front, d
<1> QED
  BY <1>1, <1>2, <1>4, <1>5 DEF Parent, d

\* The chain with a block more.
LEMMA Appended ==
    ASSUME NEW S, NEW T, S \subseteq T, NEW c, GoodChain(c, S),
           NEW b \in T, b.height = Len(c) + 1
    PROVE  /\ GoodChain(Append(c, b), T)
           /\ Len(c) \in Nat /\ Len(Append(c, b)) = Len(c) + 1
           /\ \A i \in 1..Len(c) : Append(c, b)[i] = c[i]
           /\ Append(c, b)[Len(c) + 1] = b
<1>1. c \in Seq(S) /\ c \in Seq(T) /\ Len(c) \in Nat
  BY SeqMonotonic, LenProperties DEF GoodChain
<1>2. /\ Append(c, b) \in Seq(T) /\ Len(Append(c, b)) = Len(c) + 1
      /\ \A i \in 1..Len(c) : Append(c, b)[i] = c[i]
      /\ Append(c, b)[Len(c) + 1] = b
  BY <1>1, AppendProperties
<1>3. \A i \in 1..(Len(c) + 1) : i \in 1..Len(c) \/ i = Len(c) + 1
  BY <1>1
<1>4. \A i \in 1..Len(Append(c, b)) : Append(c, b)[i].height = i
  BY <1>2, <1>3 DEF GoodChain
<1>5. Len(Append(c, b)) >= SortBlocks
  BY <1>1, <1>2, BlockCheckAssumption DEF GoodChain
<1> QED
  BY <1>1, <1>2, <1>4, <1>5 DEF GoodChain

\* What connecting a block does to chains: every chain stays one, and the blocks
\* not drawn from their own chain stay with their makers.
LEMMA Connected ==
    ASSUME Inv, NEW n \in Node, NEW c, NEW b, Parent(n, c), Connect(n, c, b),
           made \subseteq made', b \in Blocks', b.height = Len(c) + 1,
           CheckSort(c, b.sort) \/ b.sort.owner = n
    PROVE  /\ chain' = [x \in Node |-> chain'[x]]
           /\ \A x \in Node : GoodChain(chain'[x], Blocks')
           /\ StaleStaysAlone'
<1> DEFINE d == chain[n]
           e == Append(c, b)
<1>1. Blocks \subseteq Blocks'
  BY DEF Blocks
<1>2. chain' = [chain EXCEPT ![n] = e]
  BY DEF Connect
<1>3. /\ GoodChain(e, Blocks') /\ Len(c) \in Nat /\ Len(e) = Len(c) + 1
      /\ \A i \in 1..Len(c) : e[i] = c[i]
      /\ e[Len(c) + 1] = b
  BY <1>1, Appended DEF Parent
<1> HIDE DEF e
<1>4. /\ chain' = [x \in Node |-> chain'[x]]
      /\ chain'[n] = e /\ \A x \in Node \ {n} : chain'[x] = chain[x]
  BY <1>2 DEF Inv, Types
<1>5. \A x \in Node : GoodChain(chain'[x], Blocks')
  <2>1. \A f : GoodChain(f, Blocks) => GoodChain(f, Blocks')
    BY <1>1, SeqMonotonic DEF GoodChain
  <2> QED
    BY <1>3, <1>4, <2>1 DEF Inv, Types
<1>6. /\ c \in Seq(Blocks') /\ d \in Seq(Blocks') /\ e \in Seq(Blocks')
      /\ Len(d) \in Nat /\ Len(c) <= Len(d)
      /\ \A i \in 1..Len(c) : c[i] = d[i]
  BY <1>1, <1>3, SeqMonotonic, LenProperties DEF Parent, GoodChain
<1>7. ASSUME NEW i \in Height, i <= Len(e), ~OwnSeeds(e, i)
      PROVE  e[i].sort.owner = n
  <2>1. i \in Nat /\ i > 0 /\ i - 1 \in Nat
    BY HeightIn, BlockCheckAssumption
  <2>2. CASE i <= Len(c)
    <3>1. i \in 1..Len(c) /\ e[i] = d[i] /\ i <= Len(d)
      BY <1>3, <1>6, <2>1, <2>2
    <3>2. SubSeq(e, 1, i - 1) = SubSeq(d, 1, i - 1)
      <4>1. \A j \in 1..(i - 1) : j \in 1..Len(c)
        BY <1>3, <2>1, <2>2
      <4>2. \A j \in 1..(i - 1) : e[j] = d[j]
        BY <1>3, <1>6, <4>1
      <4>3. i - 1 <= Len(e) /\ i - 1 <= Len(d)
        BY <1>3, <1>6, <2>1, <2>2
      <4> QED
        BY <1>6, <2>1, <4>2, <4>3, SamePrefix
    <3>3. ~OwnSeeds(d, i)
      BY <1>7, <3>1, <3>2 DEF OwnSeeds
    <3> QED
      BY <3>1, <3>3 DEF Inv, StaleStaysAlone
  <2>3. CASE i = Len(c) + 1
    <3>1. SubSeq(e, 1, i - 1) = c
      <4>1. i - 1 = Len(c) /\ Len(c) <= Len(e)
        BY <1>3, <2>3
      <4>2. SubSeq(e, 1, Len(c)) = SubSeq(c, 1, Len(c))
        BY <1>3, <1>6, <4>1, SamePrefix
      <4>3. SubSeq(c, 1, Len(c)) = c
        BY <1>6, SubSeqFull
      <4> QED
        BY <4>1, <4>2, <4>3
    <3>2. ~CheckSort(c, b.sort)
      BY <1>3, <1>7, <2>3, <3>1 DEF OwnSeeds
    <3> QED
      BY <1>3, <2>3, <3>2
  <2> QED
    BY <1>3, <1>7, <2>1, <2>2, <2>3
<1>8. StaleStaysAlone'
  <2> SUFFICES ASSUME NEW x \in Node, NEW i \in Height, i <= Len(chain'[x]),
                      ~OwnSeeds(chain'[x], i)
               PROVE  chain'[x][i].sort.owner = x
    BY DEF StaleStaysAlone, OwnSeeds
  <2>1. CASE x = n
    BY <1>4, <1>7, <2>1
  <2>2. CASE x # n
    BY <1>4, <2>2 DEF Inv, StaleStaysAlone
  <2> QED
    BY <2>1, <2>2
<1> QED
  BY <1>4, <1>5, <1>8

\* A table with another entry.
Entered(f, n, h, r, v) == [f EXCEPT ![n][h][r] = v]

LEMMA TableExcept ==
    ASSUME NEW f, NEW g, Table(f), NEW n, NEW h, NEW r, NEW v,
           g = Entered(f, n, h, r, v)
    PROVE  /\ Table(g)
           /\ \A m \in Node, k \in Height, q \in Round :
                 g[m][k][q] = IF m = n /\ k = h /\ q = r THEN v ELSE f[m][k][q]
<1> DEFINE u == [f[n][h] EXCEPT ![r] = v]
           t == [f[n] EXCEPT ![h] = u]
<1>1. g = [f EXCEPT ![n] = t]
  BY DEF Entered
<1>2. f = [m \in Node |-> f[m]]
  BY Zenon DEF Table
<1>3. \A m \in Node : f[m] = [k \in Height |-> f[m][k]]
  BY DEF Table
<1>4. \A m \in Node, k \in Height : f[m][k] = [q \in Round |-> f[m][k][q]]
  BY DEF Table
<1> HIDE DEF u, t
<1>5. ASSUME NEW m \in Node, NEW k \in Height, NEW q \in Round
      PROVE  g[m][k][q] = IF m = n /\ k = h /\ q = r THEN v ELSE f[m][k][q]
  <2>1. CASE m = n
    <3>1. g[m] = t
      BY <1>1, <1>2, <2>1
    <3>2. t[k] = IF k = h THEN u ELSE f[m][k]
      BY <1>3, <2>1 DEF t
    <3>3. k = h => u[q] = IF q = r THEN v ELSE f[m][k][q]
      BY <1>4, <2>1 DEF u
    <3>4. CASE k = h
      BY <2>1, <3>1, <3>2, <3>3, <3>4
    <3>5. CASE k # h
      BY <2>1, <3>1, <3>2, <3>5
    <3> QED
      BY <3>4, <3>5
  <2>2. CASE m # n
    BY <1>1, <1>2, <2>2
  <2> QED
    BY <2>1, <2>2
<1>6. g = [m \in Node |-> g[m]]
  BY <1>1, <1>2
<1>7. ASSUME NEW m \in Node
      PROVE  g[m] = [k \in Height |-> [q \in Round |-> g[m][k][q]]]
  <2>1. CASE m = n
    <3>1. g[m] = t
      BY <1>1, <1>2, <2>1
    <3>2. t = [k \in Height |-> t[k]]
      BY <1>3, <2>1 DEF t
    <3>3. ASSUME NEW k \in Height
          PROVE  t[k] = [q \in Round |-> t[k][q]]
      <4>1. CASE k = h
        <5>1. t[k] = u
          BY <1>3, <2>1, <4>1 DEF t
        <5>2. u = [q \in Round |-> u[q]]
          BY <1>4, <2>1, <4>1 DEF u
        <5> QED
          BY <5>1, <5>2
      <4>2. CASE k # h
        BY <1>3, <1>4, <2>1, <4>2 DEF t
      <4> QED
        BY <4>1, <4>2
    <3>4. t = [k \in Height |-> [q \in Round |-> t[k][q]]]
      BY <3>2, <3>3
    <3> QED
      BY <3>1, <3>4
  <2>2. CASE m # n
    <3>1. g[m] = f[m]
      BY <1>1, <1>2, <2>2
    <3>2. f[m] = [k \in Height |-> [q \in Round |-> f[m][k][q]]]
      BY <1>3, <1>4
    <3> QED
      BY <3>1, <3>2
  <2> QED
    BY <2>1, <2>2
<1>8. Table(g)
  BY <1>6, <1>7, Zenon DEF Table
<1> QED
  BY <1>5, <1>8
-----------------------------------------------------------------------------
(* Steps *)

\* Node n adds block b on top of c, valid or its own.
Connects(n, c, b) ==
    /\ Parent(n, c) /\ Connect(n, c, b)
    /\ b \in Blocks' /\ b.height = Len(c) + 1
    /\ CheckSort(c, b.sort) \/ b.sort.owner = n

\* What a node drew and keeps for sorts it made itself.
LEMMA SortCommitteeOf ==
    ASSUME Inv, NEW n \in Node, NEW h, NEW r, NEW ss, SortCommittee(n, h, r, ss),
           \A s \in ss : s.owner = n /\ s.height = h /\ s.round = r
    PROVE  /\ Table(myss)' /\ Mine'
           /\ \A m \in Node, k \in Height, q \in Round :
                 myss'[m][k][q] = IF ss # {} /\ m = n /\ k = h /\ q = r THEN ss
                                  ELSE myss[m][k][q]
           /\ UNCHANGED <<chain, made, blsMp, undone, failed>>
<1>1. /\ myss' = IF ss = {} THEN myss ELSE [myss EXCEPT ![n][h][r] = ss]
      /\ UNCHANGED <<chain, made, blsMp, undone, failed>>
  BY DEF SortCommittee
<1>2. Table(myss)
  BY DEF Inv, Types
<1>3. /\ Table(myss')
      /\ \A m \in Node, k \in Height, q \in Round :
            myss'[m][k][q] = IF ss # {} /\ m = n /\ k = h /\ q = r THEN ss
                             ELSE myss[m][k][q]
  <2>1. CASE ss = {}
    BY <1>1, <1>2, <2>1
  <2>2. CASE ss # {}
    <3>1. myss' = Entered(myss, n, h, r, ss)
      BY <1>1, <2>2 DEF Entered
    <3>2. /\ Table(myss')
          /\ \A m \in Node, k \in Height, q \in Round :
                myss'[m][k][q] = IF m = n /\ k = h /\ q = r THEN ss ELSE myss[m][k][q]
      BY <1>2, <3>1, TableExcept
    <3> QED
      BY <2>2, <3>2
  <2> QED
    BY <2>1, <2>2
<1>4. Mine'
  BY <1>3 DEF Inv, Mine
<1>5. Table(myss)'
  BY <1>3 DEF Table
<1> QED
  BY <1>1, <1>3, <1>4, <1>5

LEMMA DrawsOf ==
    ASSUME NEW n, NEW h, NEW r, NEW seed
    PROVE  \A s \in Drawn(n, h, r, seed) :
              s = Sort(n, h, r, seed) /\ s.owner = n /\ s.height = h /\ s.round = r
BY DEF Drawn, Sort

LEMMA HandleNewBlockInv ==
    ASSUME Inv, NEW n \in Node, HandleNewBlock(n)
    PROVE  /\ UNCHANGED <<chain, made, blsMp, undone, failed>> /\ Table(myss)' /\ Mine'
           /\ \A m \in Node, k \in Height, q \in Round \ {0} :
                 myss'[m][k][q] = myss[m][k][q]
<1> DEFINE b == Head(bch[n])
           ss == DrawAfter(n, b)
<1>1. SortCommittee(n, b.height + SortBlocks, 0, ss)
  BY DEF HandleNewBlock
<1>2. \A s \in ss : s.owner = n /\ s.height = b.height + SortBlocks /\ s.round = 0
  BY DrawsOf DEF DrawAfter
<1> HIDE DEF b, ss
<1> QED
  BY <1>1, <1>2, SortCommitteeOf

LEMMA ReSortitionInv ==
    ASSUME Inv, NEW n \in Node, NEW r \in Round \ {0}, ReSortition(n, r)
    PROVE  /\ UNCHANGED <<chain, made, blsMp, undone, failed>> /\ Table(myss)' /\ Mine'
           /\ \A m \in Node, k \in Height, q \in Round \ {0} :
                 \/ myss'[m][k][q] = myss[m][k][q]
                 \/ /\ m = n /\ k = Len(chain[n]) + 1 /\ q = r
                    /\ \A s \in myss'[m][k][q] :
                          s = Sort(n, k, r, MinerSeed(chain[n][k - SortBlocks]))
<1> DEFINE h == Len(chain[n]) + 1
           ss == Redraw(n, chain[n], r)
<1>1. SortCommittee(n, h, r, ss)
  BY DEF ReSortition
<1>2. \A s \in ss : /\ s = Sort(n, h, r, MinerSeed(chain[n][h - SortBlocks]))
                     /\ s.owner = n /\ s.height = h /\ s.round = r
  BY DrawsOf DEF Redraw
<1> HIDE DEF h, ss
<1> QED
  BY <1>1, <1>2, SortCommitteeOf DEF h

\* Node n fails to make a block or makes one with its sort s.
LEMMA MakeBlockOf ==
    ASSUME Inv, NEW n \in Node, NEW h \in Height, NEW r \in Round,
           NEW s \in myss[n][h][r], NEW V, MakeBlock(n, s, V)
    PROVE  /\ s.owner = n /\ s.height = h /\ s.round = r /\ h = Len(chain[n]) + 1
           /\ UNCHANGED <<myss, undone>>
           /\ blsMp' = [blsMp EXCEPT ![n] = @ \cup (V \cap Binder)]
           /\ \/ /\ \E v \in V : v \notin Bound(chain[n])
                 /\ failed' = failed \cup {n} /\ UNCHANGED <<chain, made>>
              \/ \E b : /\ Connects(n, chain[n], b) /\ b.sort = s
                        /\ made' = made \cup {<<chain[n], b>>}
                        /\ UNCHANGED failed
<1>1. s.owner = n /\ s.height = h /\ s.round = r
  BY DEF Inv, Mine
<1>2. /\ h = Len(chain[n]) + 1 /\ UNCHANGED <<myss, undone>>
      /\ blsMp' = [blsMp EXCEPT ![n] = @ \cup (V \cap Binder)]
  BY <1>1 DEF MakeBlock
<1>3. CASE V \subseteq Bound(chain[n])
  <2>1. PICK binds \in SUBSET (Binder \ Bound(chain[n])) :
          LET b == [height |-> s.height, sort |-> s, binds |-> binds]
          IN  /\ Connect(n, chain[n], b)
              /\ made' = made \cup {<<chain[n], b>>}
              /\ UNCHANGED failed
    BY <1>3 DEF MakeBlock
  <2> DEFINE b == [height |-> s.height, sort |-> s, binds |-> binds]
  <2>2. Connect(n, chain[n], b) /\ made' = made \cup {<<chain[n], b>>} /\ UNCHANGED failed
    BY <2>1
  <2>3. b.sort = s /\ b.height = s.height
    OBVIOUS
  <2> HIDE DEF b
  <2>4. b \in Blocks'
    <3>1. b = <<chain[n], b>>[2]
      OBVIOUS
    <3> QED
      BY <2>2, <3>1 DEF Blocks
  <2>5. Connects(n, chain[n], b)
    BY <1>1, <1>2, <2>2, <2>3, <2>4, ParentAll DEF Connects, Inv
  <2> QED
    BY <1>1, <1>2, <2>2, <2>3, <2>5
<1>4. CASE ~(V \subseteq Bound(chain[n]))
  BY <1>1, <1>2, <1>4 DEF MakeBlock
<1> QED
  BY <1>3, <1>4

\* Node n takes over a block of another.
LEMMA TakesBlock ==
    ASSUME Inv, NEW n \in Node, NEW m \in made,
           AddBlock(n, m[1], m[2]) \/ ReplaceBlock(n, m[1], m[2])
    PROVE  Connects(n, m[1], m[2]) /\ UNCHANGED <<made, myss, blsMp, failed>>
<1>1. GoodBlock(m, Blocks)
  BY DEF Inv, Types
<1>2. Connect(n, m[1], m[2]) /\ UNCHANGED <<made, myss, blsMp, failed>> /\ CheckBlock(n, m[1], m[2])
  BY DEF AddBlock, ReplaceBlock
<1>3. m[2] \in Blocks'
  BY <1>2 DEF Blocks
<1>4. Parent(n, m[1])
  <2>1. CASE chain[n] = m[1]
    BY <2>1, ParentAll DEF Inv
  <2>2. CASE Front(chain[n]) = m[1]
    BY <2>2, ParentFront DEF Inv
  <2> QED
    BY <2>1, <2>2 DEF AddBlock, ReplaceBlock
<1> QED
  BY <1>1, <1>2, <1>3, <1>4 DEF Connects, CheckBlock, GoodBlock

LEMMA StepInv ==
    ASSUME Inv, [Next]_vars
    PROVE  Inv'
<1>1. ASSUME UNCHANGED <<chain, made>>, Table(myss)', Mine', blsMp' \in [Node -> SUBSET Binder]
      PROVE  Inv'
  BY <1>1 DEF Inv, Types, Blocks, StaleStaysAlone
<1>2. ASSUME NEW n \in Node, NEW c, NEW b, Connects(n, c, b), UNCHANGED myss,
             made' = made \/ made' = made \cup {<<c, b>>},
             blsMp' \in [Node -> SUBSET Binder]
      PROVE  Inv'
  <2>1. /\ made \subseteq made' /\ Blocks \subseteq Blocks'
        /\ \A f : GoodChain(f, Blocks) => GoodChain(f, Blocks')
    BY <1>2, SeqMonotonic DEF Blocks, GoodChain
  <2>2. /\ chain' = [x \in Node |-> chain'[x]]
        /\ \A x \in Node : GoodChain(chain'[x], Blocks')
        /\ StaleStaysAlone'
    BY <1>2, <2>1, Connected DEF Connects
  <2>3. \A m \in made' : GoodBlock(m, Blocks')
    <3>1. \A m \in made : GoodBlock(m, Blocks')
      BY <2>1 DEF Inv, Types, GoodBlock
    <3>2. GoodBlock(<<c, b>>, Blocks')
      BY <1>2, <2>1 DEF Connects, Parent, GoodBlock
    <3> QED
      BY <1>2, <3>1, <3>2
  <2>4. Types' /\ Mine'
    BY <1>2, <2>2, <2>3 DEF Inv, Types, Mine, Table
  <2> QED
    BY <2>2, <2>4 DEF Inv
<1>3. Table(myss) /\ Mine /\ blsMp \in [Node -> SUBSET Binder]
  BY DEF Inv, Types
<1>4. ASSUME NEW n \in Node, HandleNewBlock(n) PROVE Inv'
  BY <1>1, <1>3, <1>4, HandleNewBlockInv
<1>5. ASSUME NEW n \in Node, NEW r \in Round \ {0}, ReSortition(n, r) PROVE Inv'
  BY <1>1, <1>3, <1>5, ReSortitionInv
<1>6. ASSUME NEW n \in Node, NEW s \in sent, HandleVoterSort(n, s) PROVE Inv'
  BY <1>1, <1>3, <1>6 DEF HandleVoterSort, Table, Mine
<1>7. ASSUME NEW n \in Node, NEW v \in Node, CheckVote(n, v) PROVE Inv'
  <2>1. /\ UNCHANGED <<chain, made, myss>> /\ v \in Binder
        /\ blsMp' = [blsMp EXCEPT ![n] = @ \cup {v}]
    BY <1>7 DEF CheckVote
  <2>2. blsMp' \in [Node -> SUBSET Binder]
    BY <1>3, <2>1
  <2> QED
    BY <1>1, <1>3, <2>1, <2>2 DEF Table, Mine
<1>8. ASSUME NEW n \in Node, NEW h \in Height, NEW r \in Round, NEW s \in myss[n][h][r],
             NEW V \in Quorums, MakeBlock(n, s, V)
      PROVE  Inv'
  <2>1. /\ UNCHANGED myss /\ blsMp' = [blsMp EXCEPT ![n] = @ \cup (V \cap Binder)]
        /\ \/ UNCHANGED <<chain, made>>
           \/ \E b : Connects(n, chain[n], b) /\ made' = made \cup {<<chain[n], b>>}
    BY <1>8, MakeBlockOf
  <2>2. blsMp' \in [Node -> SUBSET Binder]
    BY <1>3, <2>1
  <2>3. Table(myss)' /\ Mine'
    BY <1>3, <2>1 DEF Table, Mine
  <2>4. CASE UNCHANGED <<chain, made>>
    BY <1>1, <2>2, <2>3, <2>4
  <2>5. ASSUME NEW b, Connects(n, chain[n], b), made' = made \cup {<<chain[n], b>>}
        PROVE  Inv'
    BY <1>2, <2>1, <2>2, <2>5
  <2> QED
    BY <2>1, <2>4, <2>5
<1>9. ASSUME NEW n \in Node, NEW m \in made,
             AddBlock(n, m[1], m[2]) \/ ReplaceBlock(n, m[1], m[2])
      PROVE  Inv'
  BY <1>2, <1>3, <1>9, TakesBlock
<1>10. CASE UNCHANGED vars
  BY <1>1, <1>3, <1>10 DEF vars, Table, Mine
<1> QED
  BY <1>4, <1>5, <1>6, <1>7, <1>8, <1>9, <1>10 DEF Next
LEMMA InitInv == Init => Inv
<1> SUFFICES ASSUME Init PROVE Inv
  OBVIOUS
<1>1. /\ chain = [n \in Node |-> Root] /\ made = {} /\ blsMp = [n \in Node |-> {}]
      /\ myss = [n \in Node |-> [h \in Height |-> [r \in Round |->
                    IF r = 0 THEN Of(n, FirstSorts(h)) ELSE {}]]]
  BY DEF Init
<1>2. GoodChain(Root, Blocks)
  <2>1. Root \in Seq(Range(Root)) /\ Range(Root) \subseteq Blocks /\ Len(Root) = SortBlocks
    BY BlockCheckAssumption DEF Blocks
  <2>2. Root \in Seq(Blocks)
    BY <2>1, SeqMonotonic
  <2> QED
    BY <2>1, <2>2, BlockCheckAssumption DEF GoodChain
<1>3. Table(myss)
  <2>1. \A n \in Node, h \in Height, r \in Round :
           myss[n][h][r] = IF r = 0 THEN Of(n, FirstSorts(h)) ELSE {}
    BY <1>1
  <2>2. myss = [n \in Node |-> [h \in Height |-> [r \in Round |-> myss[n][h][r]]]]
    BY <1>1, <2>1
  <2> QED
    BY <2>2, Zenon DEF Table
<1>4. Types
  BY <1>1, <1>2, <1>3 DEF Types
<1>5. Mine
  <2> SUFFICES ASSUME NEW n \in Node, NEW h \in Height, NEW r \in Round,
                      NEW s \in myss[n][h][r]
               PROVE  s.owner = n /\ s.height = h /\ s.round = r
    BY DEF Mine
  <2>1. r = 0 /\ s \in Of(n, FirstSorts(h))
    BY <1>1
  <2>2. s.owner = n /\ \E m \in Node : s \in Drawn(m, h, 0, ZeroHash)
    BY <2>1 DEF Of, FirstSorts
  <2> QED
    BY <2>1, <2>2, DrawsOf
<1>6. StaleStaysAlone
  <2> SUFFICES ASSUME NEW n \in Node, NEW i \in Height PROVE ~(i <= Len(chain[n]))
    BY DEF StaleStaysAlone
  <2>1. Len(chain[n]) = SortBlocks
    BY <1>1, BlockCheckAssumption
  <2> QED
    BY <2>1, HeightIn, BlockCheckAssumption
<1> QED
  BY <1>4, <1>5, <1>6 DEF Inv

\* A block made with a sort that its chain does not give, drawn from a block that
\* was replaced, is on its maker's chain only: every other node that runs
\* CheckBlock refuses it (StaleStaysAlone).
THEOREM StaleBlocksStayAlone == Spec => []StaleStaysAlone
<1>1. Inv => StaleStaysAlone
  BY DEF Inv
<1> QED
  BY <1>1, InitInv, StepInv, PTL DEF Spec
-----------------------------------------------------------------------------
(* Redraws *)

\* A redrawn sort is verified with the block it was drawn from.
LEMMA RedrawnOK ==
    ASSUME NEW c, NEW S, GoodChain(c, S), NEW n, NEW r, NEW h \in Height,
           h = Len(c) + 1
    PROVE  CheckSort(c, Sort(n, h, r, MinerSeed(c[h - SortBlocks])))
<1> DEFINE g == h - SortBlocks
           s == Sort(n, h, r, MinerSeed(c[g]))
<1>1. s.height = h /\ s.owner = n /\ s.round = r
  BY DEF Sort
<1>2. h \in Nat /\ g \in Nat \ {0} /\ Len(c) \in Nat /\ SortBlocks \in Nat \ {0}
  BY HeightIn, LenProperties, BlockCheckAssumption DEF GoodChain
<1>3. g <= Len(c) /\ g \in 1..Len(c)
  BY <1>2
<1>4. SortSeed(c, g) = MinerSeed(c[g])
  <2>1. c[g].height = g
    BY <1>3 DEF GoodChain
  <2>2. CASE g < SortBlocks
    BY <1>2, <2>1, <2>2 DEF SortSeed, MinerSeed
  <2>3. CASE ~(g < SortBlocks)
    BY <2>3 DEF SortSeed
  <2> QED
    BY <2>2, <2>3
<1>5. VerifySort(s, SortSeed(c, g))
  BY <1>1, <1>4 DEF VerifySort, VrfVerify, Sort
<1> HIDE DEF s
<1>6. CheckSort(c, s)
  BY <1>1, <1>3, <1>5 DEF CheckSort
<1> QED
  BY <1>6 DEF s

LEMMA StepRedraws ==
    ASSUME SortBlocks > 1, Inv, Redraws, RedrawnValid, [Next]_vars
    PROVE  Redraws' /\ RedrawnValid'
<1>1. ASSUME UNCHANGED <<chain, made>>,
             \A n \in Node, h \in Height, r \in Round \ {0} : myss'[n][h][r] = myss[n][h][r]
      PROVE  Redraws' /\ RedrawnValid'
  BY <1>1 DEF Redraws, RedrawnValid, DrawnFrom
<1>2. ASSUME NEW n \in Node, NEW c, NEW b, Connects(n, c, b), UNCHANGED myss
      PROVE  Redraws'
  <2> DEFINE d == chain[n]
             e == Append(c, b)
  <2>1. /\ chain' = [chain EXCEPT ![n] = e] /\ b \in Blocks' \cup Blocks
        /\ GoodChain(c, Blocks) /\ GoodChain(d, Blocks)
        /\ b.height = Len(c) + 1
    BY <1>2 DEF Connects, Connect, Parent
  <2>2. /\ Len(c) \in Nat /\ Len(e) = Len(c) + 1 /\ Len(d) \in Nat
        /\ \A i \in 1..Len(c) : e[i] = c[i]
    BY <2>1, Appended, LenProperties DEF GoodChain
  <2>3. /\ Len(d) = Len(c) \/ Len(d) = Len(c) + 1
        /\ \A i \in 1..Len(c) : c[i] = d[i]
    BY <1>2 DEF Connects, Parent
  <2> HIDE DEF d, e
  <2>4. chain'[n] = e /\ \A x \in Node \ {n} : chain'[x] = chain[x]
    BY <2>1 DEF Inv, Types
  <2> SUFFICES ASSUME NEW x \in Node, NEW h \in Height, NEW r \in Round \ {0},
                      NEW s \in myss[x][h][r]
               PROVE  DrawnFrom(x, chain'[x], h, r, s)
    BY <1>2 DEF Redraws, DrawnFrom, Sort, MinerSeed
  <2>5. DrawnFrom(x, chain[x], h, r, s)
    BY DEF Redraws
  <2>6. CASE x # n
    BY <2>4, <2>5, <2>6
  <2>7. CASE x = n
    <3>1. h \in Nat /\ h > SortBlocks /\ h - SortBlocks \in Nat \ {0} /\ SortBlocks \in Nat
      BY HeightIn, BlockCheckAssumption
    <3>2. h <= Len(d) + 1
      BY <2>5, <2>7 DEF DrawnFrom, d
    <3>3. h <= Len(e) + 1
      BY <2>2, <2>3, <3>1, <3>2
    <3>4. ASSUME h = Len(e) + 1
          PROVE  s = Sort(n, h, r, MinerSeed(e[h - SortBlocks]))
      <4>a. \A i, k, l, q \in Nat :
              /\ q > 1 /\ (l = k \/ l = k + 1) /\ i <= l + 1 /\ i = k + 1 + 1 /\ i > q
              => i = l + 1 /\ i - q \in 1..k
        OBVIOUS
      <4>b. SortBlocks > 1 /\ h = Len(c) + 1 + 1
        BY <2>2, <3>4
      <4>1. h = Len(d) + 1 /\ h - SortBlocks \in 1..Len(c)
        BY <2>2, <2>3, <3>1, <3>2, <4>a, <4>b
      <4>2. s = Sort(n, h, r, MinerSeed(d[h - SortBlocks]))
        BY <2>5, <2>7, <4>1 DEF DrawnFrom, d
      <4> QED
        BY <2>2, <2>3, <4>1, <4>2
    <3> QED
      BY <2>4, <2>7, <3>3, <3>4 DEF DrawnFrom
  <2> QED
    BY <2>6, <2>7
<1>3. ASSUME NEW n \in Node, HandleNewBlock(n) PROVE Redraws' /\ RedrawnValid'
  BY <1>1, <1>3, HandleNewBlockInv
<1>4. ASSUME NEW n \in Node, NEW q \in Round \ {0}, ReSortition(n, q)
      PROVE  Redraws' /\ RedrawnValid'
  <2>1. /\ UNCHANGED <<chain, made>>
        /\ \A m \in Node, h \in Height, r \in Round \ {0} :
              \/ myss'[m][h][r] = myss[m][h][r]
              \/ /\ m = n /\ h = Len(chain[n]) + 1 /\ r = q
                 /\ \A s \in myss'[m][h][r] :
                       s = Sort(n, h, q, MinerSeed(chain[n][h - SortBlocks]))
    BY <1>4, ReSortitionInv
  <2>2. \A h \in Height : h \in Nat
    BY HeightIn
  <2>3. Redraws'
    <3> SUFFICES ASSUME NEW m \in Node, NEW h \in Height, NEW r \in Round \ {0},
                        NEW s \in myss'[m][h][r]
                 PROVE  DrawnFrom(m, chain[m], h, r, s)
      BY <2>1 DEF Redraws, DrawnFrom
    <3>1. CASE myss'[m][h][r] = myss[m][h][r]
      BY <3>1 DEF Redraws
    <3>2. CASE myss'[m][h][r] # myss[m][h][r]
      BY <2>1, <2>2, <3>2 DEF DrawnFrom
    <3> QED
      BY <3>1, <3>2
  <2> QED
    BY <2>1, <2>3 DEF RedrawnValid
<1>5. ASSUME NEW n \in Node, NEW s \in sent, HandleVoterSort(n, s)
      PROVE  Redraws' /\ RedrawnValid'
  BY <1>1, <1>5 DEF HandleVoterSort
<1>6. ASSUME NEW n \in Node, NEW v \in Node, CheckVote(n, v)
      PROVE  Redraws' /\ RedrawnValid'
  BY <1>1, <1>6 DEF CheckVote
<1>7. ASSUME NEW n \in Node, NEW h \in Height, NEW r \in Round, NEW s \in myss[n][h][r],
             NEW V \in Quorums, MakeBlock(n, s, V)
      PROVE  Redraws' /\ RedrawnValid'
  <2>1. /\ s.round = r /\ h = Len(chain[n]) + 1 /\ UNCHANGED myss
        /\ \/ UNCHANGED <<chain, made>>
           \/ \E b : /\ Connects(n, chain[n], b) /\ b.sort = s
                     /\ made' = made \cup {<<chain[n], b>>}
    BY <1>7, MakeBlockOf
  <2>2. ASSUME NEW b, Connects(n, chain[n], b), b.sort = s,
               made' = made \cup {<<chain[n], b>>}
        PROVE  Redraws' /\ RedrawnValid'
    <3>1. Redraws'
      BY <1>2, <2>1, <2>2
    <3>2. r > 0 => CheckSort(chain[n], s)
      <4> SUFFICES ASSUME r > 0 PROVE CheckSort(chain[n], s)
        OBVIOUS
      <4>1. s = Sort(n, h, r, MinerSeed(chain[n][h - SortBlocks]))
        BY <2>1 DEF Redraws, DrawnFrom
      <4>2. GoodChain(chain[n], Blocks)
        BY DEF Inv, Types
      <4> QED
        BY <2>1, <4>1, <4>2, RedrawnOK
    <3>3. \A m \in made' : m \in made \/ (m[1] = chain[n] /\ m[2].sort = s)
      BY <2>2
    <3>4. RedrawnValid'
      BY <2>1, <3>2, <3>3 DEF RedrawnValid
    <3> QED
      BY <3>1, <3>4
  <2> QED
    BY <1>1, <2>1, <2>2
<1>8. ASSUME NEW n \in Node, NEW m \in made,
             AddBlock(n, m[1], m[2]) \/ ReplaceBlock(n, m[1], m[2])
      PROVE  Redraws' /\ RedrawnValid'
  BY <1>2, <1>8, TakesBlock DEF RedrawnValid
<1>9. CASE UNCHANGED vars
  BY <1>1, <1>9 DEF vars
<1> QED
  BY <1>3, <1>4, <1>5, <1>6, <1>7, <1>8, <1>9 DEF Next

\* A block of a round after the first passes checkSort on its parent's chain,
\* whatever last blocks were replaced since its sort was drawn (reSortition): a
\* height's redraw uses a block below the last one.  Pos33SortBlocks is 10; with
\* 1 the block drawn from would be the one that may be replaced.
THEOREM RedrawsAreValid ==
    ASSUME SortBlocks > 1
    PROVE  Spec => []RedrawnValid
<1> DEFINE R == Redraws /\ RedrawnValid
<1>1. Init => R
  <2> SUFFICES ASSUME Init PROVE R
    OBVIOUS
  <2>1. \A n \in Node, h \in Height, r \in Round \ {0} : myss[n][h][r] = {}
    BY DEF Init
  <2> QED
    BY <2>1 DEF Init, Redraws, RedrawnValid
<1>2. Inv /\ R /\ [Next]_vars => R'
  BY StepRedraws
<1> QED
  BY <1>1, <1>2, InitInv, StepInv, PTL DEF Spec
-----------------------------------------------------------------------------
(* Bindings *)

LEMMA BoundMore ==
    ASSUME NEW c, NEW d,
           \A i \in DOMAIN c : \/ i \in DOMAIN d /\ d[i] = c[i]
                              \/ c[i].binds = {}
    PROVE  Bound(c) \subseteq Bound(d)
BY DEF Bound

LEMMA StepCached ==
    ASSUME Inv, Cached, FailsOnlyUndone, [Next]_vars
    PROVE  Cached' /\ FailsOnlyUndone'
<1>1. ASSUME UNCHANGED <<chain, blsMp, undone, failed>>
      PROVE  Cached' /\ FailsOnlyUndone'
  BY <1>1 DEF Cached, FailsOnlyUndone, Bound
<1>2. ASSUME NEW n \in Node, NEW c, NEW b, Connects(n, c, b)
      PROVE  /\ Bound(c) \subseteq Bound(chain'[n])
             /\ \A x \in Node \ {n} : chain'[x] = chain[x]
             /\ c # chain[n] /\ Last(chain[n]).binds = {} =>
                  Bound(chain[n]) \subseteq Bound(c)
  <2> DEFINE d == chain[n]
             e == Append(c, b)
  <2>1. /\ chain' = [chain EXCEPT ![n] = e] /\ GoodChain(c, Blocks) /\ GoodChain(d, Blocks)
        /\ b.height = Len(c) + 1
    BY <1>2 DEF Connects, Connect, Parent
  <2>2. /\ Len(c) \in Nat /\ Len(e) = Len(c) + 1 /\ Len(d) \in Nat
        /\ \A i \in 1..Len(c) : e[i] = c[i]
        /\ DOMAIN c = 1..Len(c) /\ DOMAIN d = 1..Len(d) /\ DOMAIN e = 1..Len(e)
    <3>1. c \in Seq(Blocks \cup {b}) /\ b \in Blocks \cup {b} /\ d \in Seq(Blocks)
      BY <2>1, SeqMonotonic DEF GoodChain
    <3>2. e \in Seq(Blocks \cup {b})
      BY <3>1, AppendProperties
    <3> QED
      BY <3>1, <3>2, AppendProperties, LenProperties
  <2>3. /\ Len(d) = Len(c) \/ Len(d) = Len(c) + 1
        /\ \A i \in 1..Len(c) : c[i] = d[i]
    BY <1>2 DEF Connects, Parent
  <2> HIDE DEF d, e
  <2>4. chain'[n] = e /\ \A x \in Node \ {n} : chain'[x] = chain[x]
    BY <2>1 DEF Inv, Types
  <2>5. Bound(c) \subseteq Bound(e)
    <3>1. \A i \in DOMAIN c : i \in DOMAIN e /\ e[i] = c[i]
      BY <2>2
    <3> QED
      BY <3>1, BoundMore
  <2>6. d[Len(d)].binds = {} => Bound(d) \subseteq Bound(c)
    <3> SUFFICES ASSUME d[Len(d)].binds = {} PROVE Bound(d) \subseteq Bound(c)
      OBVIOUS
    <3>1. \A i \in DOMAIN d : i \in DOMAIN c \/ i = Len(d)
      <4>1. \A k, l \in Nat : l = k \/ l = k + 1 => \A i \in 1..l : i \in 1..k \/ i = l
        OBVIOUS
      <4>2. \A i \in 1..Len(d) : i \in 1..Len(c) \/ i = Len(d)
        BY <2>2, <2>3, <4>1
      <4> QED
        BY <2>2, <4>2
    <3>2. \A i \in DOMAIN d : (i \in DOMAIN c /\ c[i] = d[i]) \/ d[i].binds = {}
      BY <2>2, <2>3, <3>1
    <3> QED
      BY <3>2, BoundMore
  <2> QED
    BY <2>4, <2>5, <2>6 DEF Last, d
<1>3. ASSUME NEW n \in Node, HandleNewBlock(n) PROVE Cached' /\ FailsOnlyUndone'
  BY <1>1, <1>3, HandleNewBlockInv
<1>4. ASSUME NEW n \in Node, NEW r \in Round \ {0}, ReSortition(n, r)
      PROVE  Cached' /\ FailsOnlyUndone'
  BY <1>1, <1>4, ReSortitionInv
<1>5. ASSUME NEW n \in Node, NEW s \in sent, HandleVoterSort(n, s)
      PROVE  Cached' /\ FailsOnlyUndone'
  BY <1>1, <1>5 DEF HandleVoterSort
<1>6. ASSUME NEW n \in Node, NEW v \in Node, CheckVote(n, v)
      PROVE  Cached' /\ FailsOnlyUndone'
  <2>1. /\ UNCHANGED <<chain, undone, failed>> /\ v \in Bound(chain[n])
        /\ blsMp' = [blsMp EXCEPT ![n] = @ \cup {v}]
    BY <1>6 DEF CheckVote
  <2>2. \A x \in Node : blsMp'[x] \subseteq blsMp[x] \cup (IF x = n THEN {v} ELSE {})
    BY <2>1 DEF Inv, Types
  <2> QED
    BY <2>1, <2>2 DEF Cached, FailsOnlyUndone, Bound
<1>7. ASSUME NEW n \in Node, NEW h \in Height, NEW r \in Round, NEW s \in myss[n][h][r],
             NEW V \in Quorums, MakeBlock(n, s, V)
      PROVE  Cached' /\ FailsOnlyUndone'
  <2>1. /\ UNCHANGED undone /\ blsMp' = [blsMp EXCEPT ![n] = @ \cup (V \cap Binder)]
        /\ \/ /\ \E v \in V : v \notin Bound(chain[n])
              /\ failed' = failed \cup {n} /\ UNCHANGED chain
           \/ (\E b : Connects(n, chain[n], b)) /\ UNCHANGED failed
    BY <1>7, MakeBlockOf
  <2>2. \A v \in V : v \in blsMp[n] \cup Bound(chain[n])
    BY <1>7 DEF MakeBlock, Votes, VoteOK
  <2>3. n \notin undone => V \subseteq Bound(chain[n])
    BY <2>2 DEF Cached
  <2>4. \A x \in Node \ undone : blsMp'[x] \subseteq Bound(chain[x])
    <3>1. \A x \in Node : blsMp'[x] = IF x = n THEN blsMp[n] \cup (V \cap Binder) ELSE blsMp[x]
      BY <2>1 DEF Inv, Types
    <3> QED
      BY <2>3, <3>1 DEF Cached
  <2>5. CASE UNCHANGED chain /\ \E v \in V : v \notin Bound(chain[n])
    BY <2>1, <2>3, <2>4, <2>5 DEF Cached, FailsOnlyUndone, Bound
  <2>6. ASSUME NEW b, Connects(n, chain[n], b), UNCHANGED failed
        PROVE  Cached' /\ FailsOnlyUndone'
    <3>1. \A x \in Node : Bound(chain[x]) \subseteq Bound(chain'[x])
      BY <1>2, <2>6
    <3>2. \A x \in Node \ undone : blsMp'[x] \subseteq Bound(chain'[x])
      BY <2>4, <3>1
    <3> QED
      BY <2>1, <2>6, <3>2 DEF Cached, FailsOnlyUndone, Bound
  <2> QED
    BY <2>1, <2>5, <2>6
<1>8. ASSUME NEW n \in Node, NEW m \in made,
             AddBlock(n, m[1], m[2]) \/ ReplaceBlock(n, m[1], m[2])
      PROVE  Cached' /\ FailsOnlyUndone'
  <2>1. Connects(n, m[1], m[2]) /\ UNCHANGED <<blsMp, failed>>
    BY <1>8, TakesBlock
  <2>2. /\ undone \subseteq undone'
        /\ n \in undone' \/ m[1] = chain[n] \/ Last(chain[n]).binds = {}
    BY <1>8 DEF AddBlock, ReplaceBlock
  <2>3. \A x \in Node \ undone' : Bound(chain[x]) \subseteq Bound(chain'[x])
    BY <1>2, <2>1, <2>2
  <2>4. \A x \in Node \ undone' : blsMp'[x] \subseteq Bound(chain'[x])
    BY <2>1, <2>2, <2>3 DEF Cached
  <2> QED
    BY <2>1, <2>2, <2>4 DEF Cached, FailsOnlyUndone, Bound
<1>9. CASE UNCHANGED vars
  BY <1>1, <1>9 DEF vars
<1> QED
  BY <1>3, <1>4, <1>5, <1>6, <1>7, <1>8, <1>9 DEF Next

\* The miner transaction of a node finds all its voters' keys bound, unless the
\* node took back the block with a binding that checkVote had cached
\* (FailsOnlyUndone).
THEOREM OnlyUndoneFail == Spec => []FailsOnlyUndone
<1>1. Init => Cached /\ FailsOnlyUndone
  <2> SUFFICES ASSUME Init PROVE Cached /\ FailsOnlyUndone
    OBVIOUS
  <2>1. (\A n \in Node : blsMp[n] = {}) /\ failed = {}
    BY DEF Init
  <2> QED
    BY <2>1 DEF Cached, FailsOnlyUndone
<1>2. Inv /\ Cached /\ FailsOnlyUndone /\ [Next]_vars => Cached' /\ FailsOnlyUndone'
  BY StepCached
<1> QED
  BY <1>1, <1>2, InitInv, StepInv, PTL DEF Spec
=============================================================================
