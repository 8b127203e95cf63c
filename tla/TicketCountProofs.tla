-------------------------- MODULE TicketCountProofs --------------------------
(***************************************************************************)
(* What the caches of a consensus client hold while no block is taken off  *)
(* the chain, for any miners, stakes, chain and number of restarts: proofs *)
(* about TicketCount.                                                      *)
(***************************************************************************)
EXTENDS TicketCount, FiniteSetTheorems, TLAPS

BlockType == [height : Nat, seen : SUBSET Miner, count : [Miner -> Nat]]

MapType == [id : Nat, count : [Miner -> Nat \cup {None}]]

EventType == [added : BOOLEAN, block : BlockType]

\* Blocks are numbered, and change the tickets of the miners they entrust only.
ChainOK ==
    /\ chain \in Seq(BlockType) /\ chain # << >>
    /\ \A k \in 1..Len(chain) : chain[k].height = k - 1
    /\ \A k \in 2..Len(chain) : \A m \in Miner \ chain[k].seen :
          chain[k].count[m] = chain[k - 1].count[m]

\* Heights that share a map share its counts.
Shared(tc) ==
    \A g, h \in DOMAIN tc : tc[g].id = tc[h].id /\ tc[g].id # 0 => tc[g] = tc[h]

MapsOK(tc) ==
    /\ IsFiniteSet(DOMAIN tc) /\ DOMAIN tc \subseteq Nat
    /\ tc \in [DOMAIN tc -> MapType]
    /\ Shared(tc)

Types ==
    /\ ChainOK
    /\ events \in Seq(EventType)
    /\ MapsOK(tcMap)
    /\ reorgs \in Nat

\* The blocks still to be announced are the last ones of the chain.
Announced ==
    /\ Len(events) <= Len(chain)
    /\ \A i \in 1..Len(events) :
          events[i].added /\ events[i].block = chain[Len(chain) - Len(events) + i]

\* A count c of miner m is that of height h or of a later one.
FreshFor(c, h, m) == c # None => \E g \in h..Tip : c = Block(g).count[m]

Fresh(tc) ==
    /\ DOMAIN tc \subseteq 0..Tip
    /\ \A h \in DOMAIN tc, m \in Miner : FreshFor(tc[h].count[m], h, m)

\* Totals are those of some height, and of their own unless blocks were
\* announced late.
TotalsOK ==
    /\ DOMAIN acMap \subseteq 0..Tip
    /\ \A h \in DOMAIN acMap : \E g \in 0..Tip : acMap[h] = TotalAt(g)
    /\ ~lagged => Len(events) <= 1 /\ \A h \in DOMAIN acMap : acMap[h] = TotalAt(h)

\* A client that has caught up has entered the total of the last block.
CaughtUp == events = << >> => current = Tip /\ (running => Tip \in DOMAIN acMap)

\* The inductive invariant.
Inv ==
    /\ Types
    /\ reorgs = 0 => /\ Announced /\ TotalsOK /\ CaughtUp
                     /\ ~early => Fresh(tcMap)

-----------------------------------------------------------------------------
(* The caches *)

LEMMA ChainType ==
    ASSUME ChainOK
    PROVE  /\ Tip \in Nat /\ Len(chain) = Tip + 1
           /\ \A h \in 0..Tip : Block(h) = chain[h + 1] /\ Block(h) \in BlockType
                              /\ Block(h).height = h
           /\ \A m \in Miner : Count(m) \in Nat /\ Count(m) = Block(Tip).count[m]
<1>1. Len(chain) \in Nat /\ Len(chain) >= 1
  BY DEF ChainOK
<1>2. Tip \in Nat /\ Len(chain) = Tip + 1
  BY <1>1 DEF Tip
<1>3. \A h \in 0..Tip : Block(h) = chain[h + 1] /\ Block(h) \in BlockType
                        /\ Block(h).height = h
  <2> SUFFICES ASSUME NEW h \in 0..Tip
               PROVE  Block(h) = chain[h + 1] /\ Block(h) \in BlockType /\ Block(h).height = h
    OBVIOUS
  <2>1. h + 1 \in 1..Len(chain) /\ (h + 1) - 1 = h
    BY <1>2
  <2> QED
    BY <2>1 DEF Block, ChainOK
<1>4. \A m \in Miner : Count(m) \in Nat /\ Count(m) = Block(Tip).count[m]
  BY <1>2, <1>3 DEF Count, BlockType
<1> QED
  BY <1>2, <1>3, <1>4

\* There is always an id that no height uses.
LEMMA FreshIdType ==
    ASSUME NEW tc, MapsOK(tc)
    PROVE  FreshId(tc) \in Nat \ {0} /\ \A h \in DOMAIN tc : tc[h].id # FreshId(tc)
<1> DEFINE D == DOMAIN tc
           f == [h \in D |-> tc[h].id]
           S == {tc[h].id : h \in D}
           I == 1..(Cardinality(D) + 1)
<1>1. IsFiniteSet(D) /\ Cardinality(D) \in Nat
  BY FS_CardinalityType DEF MapsOK
<1>2. IsFiniteSet(S) /\ Cardinality(S) <= Cardinality(D)
  <2>1. f \in Surjection(D, S)
    BY DEF Surjection
  <2> QED
    BY <1>1, <2>1, FS_Surjection
<1>3. Cardinality(S) \in Nat
  BY <1>2, FS_CardinalityType
<1>4. IsFiniteSet(I) /\ Cardinality(I) = Cardinality(D) + 1
  <2> DEFINE k == Cardinality(D) + 1
  <2>1. k \in Int /\ 1 \in Int /\ ~(1 > k) /\ k - 1 + 1 = k
    BY <1>1
  <2> HIDE DEF k
  <2>2. IsFiniteSet(1..k) /\ Cardinality(1..k) = IF 1 > k THEN 0 ELSE k - 1 + 1
    BY <2>1, FS_Interval
  <2> QED
    BY <2>1, <2>2 DEF k
<1>5. ~(I \subseteq S)
  <2> SUFFICES ASSUME I \subseteq S PROVE FALSE
    OBVIOUS
  <2> HIDE DEF I, S, D
  <2>1. Cardinality(I) <= Cardinality(S)
    BY <1>2, FS_Subset
  <2> QED
    BY <1>1, <1>2, <1>3, <1>4, <2>1
<1>6. \E i \in I : \A h \in D : tc[h].id # i
  BY <1>5
<1>7. FreshId(tc) \in I /\ \A h \in D : tc[h].id # FreshId(tc)
  BY <1>6 DEF FreshId
<1> QED
  BY <1>1, <1>7

LEMMA NilType == Nil \in MapType /\ Nil.id = 0 /\ \A m \in Miner : Nil.count[m] = None
BY DEF Nil, MapType, None

\* queryMinerTicketCount: the present counts are entered for height h, also for
\* the heights that share its map.
LEMMA EnterMaps ==
    ASSUME ChainOK, NEW tc, MapsOK(tc), NEW h \in Nat, NEW ms \in SUBSET Miner
    PROVE  /\ MapsOK(Enter(tc, h, ms))
           /\ DOMAIN Enter(tc, h, ms) = DOMAIN tc \cup {h}
           /\ \A g \in DOMAIN tc \cup {h}, m \in Miner :
                 \/ Enter(tc, h, ms)[g].count[m] = Count(m)
                 \/ Enter(tc, h, ms)[g].count[m] = None
                 \/ g \in DOMAIN tc /\ Enter(tc, h, ms)[g].count[m] = tc[g].count[m]
<1> DEFINE id == IF Map(tc, h).id = 0 THEN FreshId(tc) ELSE Map(tc, h).id
           new == [id |-> id,
                   count |-> [m \in Miner |-> IF m \in ms THEN Count(m) ELSE Map(tc, h).count[m]]]
           D == DOMAIN tc \cup {h}
           E == [g \in D |-> IF g = h \/ tc[g].id = id THEN new ELSE tc[g]]
<1>1. Enter(tc, h, ms) = E
  BY DEF Enter
<1>2. Map(tc, h) \in MapType
  BY NilType DEF Map, MapsOK
<1>3. id \in Nat \ {0}
  BY <1>2, FreshIdType DEF MapType
<1>4. \A m \in Miner : Count(m) \in Nat
  BY ChainType
<1>5. new \in MapType /\ new.id = id
  BY <1>2, <1>3, <1>4 DEF MapType
<1>6. \A m \in Miner : new.count[m] = IF m \in ms THEN Count(m) ELSE Map(tc, h).count[m]
  OBVIOUS
<1>7. \A g \in DOMAIN tc : tc[g] \in MapType
  BY DEF MapsOK
<1>8. \A g \in DOMAIN tc : g # h /\ tc[g].id = id => h \in DOMAIN tc /\ tc[g] = tc[h]
  <2> SUFFICES ASSUME NEW g \in DOMAIN tc, g # h, tc[g].id = id
               PROVE  h \in DOMAIN tc /\ tc[g] = tc[h]
    OBVIOUS
  <2>1. Map(tc, h).id # 0 /\ id = Map(tc, h).id
    BY FreshIdType
  <2>2. h \in DOMAIN tc /\ tc[h].id = id
    BY <2>1, NilType DEF Map
  <2> QED
    BY <1>3, <2>2 DEF MapsOK, Shared
<1> HIDE DEF id, new
<1>9. MapsOK(E)
  <2>1. DOMAIN E = D /\ IsFiniteSet(D) /\ D \subseteq Nat
    BY FS_AddElement DEF MapsOK
  <2>2. E \in [D -> MapType]
    BY <1>5, <1>7
  <2>3. Shared(E)
    <3>1. \A g \in D : E[g] = new \/ (g \in DOMAIN tc /\ E[g] = tc[g] /\ tc[g].id # id)
      OBVIOUS
    <3> HIDE DEF E
    <3> QED
      BY <1>5, <2>1, <3>1 DEF Shared, MapsOK
  <2> HIDE DEF E
  <2> QED
    BY <2>1, <2>2, <2>3 DEF MapsOK
<1>10. ASSUME NEW g \in D, NEW m \in Miner
       PROVE  \/ E[g].count[m] = Count(m)
              \/ E[g].count[m] = None
              \/ g \in DOMAIN tc /\ E[g].count[m] = tc[g].count[m]
  <2>1. CASE E[g] = tc[g] /\ g \in DOMAIN tc
    BY <2>1
  <2>2. CASE E[g] = new /\ (g = h \/ (g \in DOMAIN tc /\ tc[g].id = id))
    <3>1. CASE m \in ms
      BY <1>6, <2>2, <3>1
    <3>2. CASE m \notin ms /\ h \notin DOMAIN tc
      BY <1>6, <2>2, <3>2, NilType DEF Map
    <3>3. CASE m \notin ms /\ h \in DOMAIN tc
      <4>1. Map(tc, h) = tc[h] /\ g \in DOMAIN tc /\ tc[g] = tc[h]
        BY <1>8, <2>2, <3>3 DEF Map
      <4> QED
        BY <1>6, <2>2, <3>3, <4>1
    <3> QED
      BY <3>1, <3>2, <3>3
  <2> QED
    BY <2>1, <2>2
<1> QED
  BY <1>1, <1>9, <1>10

LEMMA EnterFresh ==
    ASSUME ChainOK, NEW tc, MapsOK(tc), Fresh(tc), NEW h \in 0..Tip, NEW ms \in SUBSET Miner
    PROVE  Fresh(Enter(tc, h, ms))
<1> DEFINE E == Enter(tc, h, ms)
<1>1. Tip \in Nat /\ h \in Nat
  BY ChainType
<1>0. /\ DOMAIN E = DOMAIN tc \cup {h}
      /\ \A g \in DOMAIN tc \cup {h}, m \in Miner :
            \/ E[g].count[m] = Count(m)
            \/ E[g].count[m] = None
            \/ g \in DOMAIN tc /\ E[g].count[m] = tc[g].count[m]
  BY <1>1, EnterMaps
<1> HIDE DEF E
<1>2. DOMAIN E \subseteq 0..Tip
  BY <1>0 DEF Fresh
<1>3. ASSUME NEW g \in DOMAIN E, NEW m \in Miner
      PROVE  FreshFor(E[g].count[m], g, m)
  <2>1. CASE E[g].count[m] = Count(m)
    <3>1. Tip \in g..Tip
      BY <1>1, <1>2
    <3> QED
      BY <2>1, <3>1, ChainType DEF FreshFor
  <2>2. CASE E[g].count[m] = None
    BY <2>2 DEF FreshFor
  <2>3. CASE g \in DOMAIN tc /\ E[g].count[m] = tc[g].count[m]
    BY <2>3 DEF Fresh
  <2> QED
    BY <1>0, <2>1, <2>2, <2>3
<1> QED
  BY <1>2, <1>3 DEF Fresh, E

LEMMA EnterSeenOK ==
    ASSUME ChainOK, MapsOK(tcMap), NEW b \in BlockType
    PROVE  /\ MapsOK(EnterSeen(b))
           /\ b.height \notin DOMAIN EnterSeen(b) => b.seen = {}
           /\ Fresh(tcMap) /\ b.height \in 0..Tip => Fresh(EnterSeen(b))
<1>1. b.height \in Nat /\ b.seen \in SUBSET Miner
  BY DEF BlockType
<1>2. CASE b.seen = {}
  BY <1>2 DEF EnterSeen
<1>3. CASE b.seen # {}
  <2>1. EnterSeen(b) = Enter(tcMap, b.height, b.seen)
    BY <1>3 DEF EnterSeen
  <2> DEFINE h == b.height
             ms == b.seen
  <2>0. h \in Nat /\ ms \in SUBSET Miner
    BY <1>1
  <2> HIDE DEF h, ms
  <2>2. MapsOK(Enter(tcMap, h, ms)) /\ DOMAIN Enter(tcMap, h, ms) = DOMAIN tcMap \cup {h}
    BY <2>0, EnterMaps
  <2>3. Fresh(tcMap) /\ h \in 0..Tip => Fresh(Enter(tcMap, h, ms))
    BY <2>0, EnterFresh
  <2> QED
    BY <2>1, <2>2, <2>3 DEF h, ms
<1> QED
  BY <1>2, <1>3

\* updateTicketCount: a block that entrusts nobody takes over the map of the
\* height before.
LEMMA UpdateMaps ==
    ASSUME ChainOK, MapsOK(tcMap), NEW b \in BlockType, UpdateTicketCount(b)
    PROVE  /\ MapsOK(tcMap')
           /\ Fresh(tcMap) /\ b.height \in 0..Tip /\ b = Block(b.height) => Fresh(tcMap')
<1> DEFINE tc == EnterSeen(b)
           h == b.height
           D == (DOMAIN tc \cup {h}) \ Old(h)
           N == [g \in D |-> IF g \in DOMAIN tc THEN tc[g] ELSE Map(tc, h - 1)]
<1>1. tcMap' = N /\ h \in Nat
  BY DEF UpdateTicketCount, BlockType
<1>2. /\ MapsOK(tc)
      /\ h \notin DOMAIN tc => b.seen = {}
      /\ Fresh(tcMap) /\ h \in 0..Tip => Fresh(tc)
  BY EnterSeenOK
<1> HIDE DEF tc
<1>3. \A g \in DOMAIN tc : tc[g] \in MapType
  BY <1>2 DEF MapsOK
<1>4. /\ Map(tc, h - 1) \in MapType
      /\ Map(tc, h - 1).id # 0 => h - 1 \in DOMAIN tc /\ Map(tc, h - 1) = tc[h - 1]
  BY <1>3, NilType DEF Map
<1>5. MapsOK(N)
  <2>1. DOMAIN N = D /\ D \subseteq Nat
    BY <1>1, <1>2 DEF MapsOK
  <2>2. IsFiniteSet(D)
    <3>1. IsFiniteSet(DOMAIN tc \cup {h})
      BY <1>2, FS_AddElement DEF MapsOK
    <3> QED
      BY <3>1, FS_Subset
  <2>3. N \in [D -> MapType]
    BY <1>3, <1>4
  <2>4. Shared(N)
    <3>1. \A g \in D : \/ g \in DOMAIN tc /\ N[g] = tc[g]
                       \/ g \notin DOMAIN tc /\ g = h /\ N[g] = Map(tc, h - 1)
      OBVIOUS
    <3> HIDE DEF N
    <3> QED
      BY <1>2, <1>4, <2>1, <3>1 DEF Shared, MapsOK
  <2> HIDE DEF N
  <2> QED
    BY <2>1, <2>2, <2>3, <2>4 DEF MapsOK
<1>6. ASSUME Fresh(tc), h \in 0..Tip, b = Block(h)
      PROVE  Fresh(N)
  <2>1. Tip \in Nat
    BY ChainType
  <2>2. DOMAIN N \subseteq 0..Tip
    BY <1>6 DEF Fresh
  <2>3. ASSUME NEW g \in D, NEW m \in Miner
        PROVE  FreshFor(N[g].count[m], g, m)
    <3>1. CASE g \in DOMAIN tc
      BY <1>6, <3>1 DEF Fresh
    <3>2. CASE g \notin DOMAIN tc
      <4>1. g = h /\ N[g] = Map(tc, h - 1) /\ b.seen = {}
        BY <1>2, <3>2
      <4>2. CASE h - 1 \notin DOMAIN tc
        <5>1. N[g].count[m] = None
          BY <4>1, <4>2, NilType DEF Map
        <5> HIDE DEF N
        <5> QED
          BY <5>1 DEF FreshFor
      <4>3. CASE h - 1 \in DOMAIN tc
        <5>1. N[g].count[m] = tc[h - 1].count[m] /\ h - 1 \in 0..Tip
          BY <1>6, <4>1, <4>3 DEF Map, Fresh
        <5>2. FreshFor(tc[h - 1].count[m], h - 1, m)
          BY <1>6, <4>3 DEF Fresh
        <5>3. Block(h).count[m] = Block(h - 1).count[m]
          <6>1. /\ Block(h) = chain[h + 1] /\ Block(h - 1) = chain[(h - 1) + 1]
                /\ Len(chain) = Tip + 1
            BY <1>6, <5>1, ChainType
          <6>2. h + 1 \in 2..Len(chain) /\ (h + 1) - 1 = (h - 1) + 1
            BY <1>1, <2>1, <1>6, <5>1, <6>1
          <6>3. m \in Miner \ chain[h + 1].seen
            BY <1>6, <4>1, <6>1
          <6>4. chain[h + 1].count[m] = chain[(h + 1) - 1].count[m]
            BY <6>2, <6>3 DEF ChainOK
          <6> QED
            BY <6>1, <6>2, <6>4
        <5> HIDE DEF N, D
        <5>4. ASSUME N[g].count[m] # None
              PROVE  \E k \in h..Tip : N[g].count[m] = Block(k).count[m]
          <6>1. PICK k \in (h - 1)..Tip : N[g].count[m] = Block(k).count[m]
            BY <5>1, <5>2, <5>4 DEF FreshFor
          <6>2. CASE k = h - 1
            <7>1. h \in h..Tip
              BY <1>1, <1>6, <2>1
            <7> QED
              BY <5>3, <6>1, <6>2, <7>1
          <6>3. CASE k # h - 1
            <7>1. k \in h..Tip
              BY <1>1, <2>1, <6>3
            <7> QED
              BY <6>1, <7>1
          <6> QED
            BY <6>2, <6>3
        <5> QED
          BY <4>1, <5>4 DEF FreshFor
      <4> QED
        BY <4>2, <4>3
    <3> QED
      BY <3>1, <3>2
  <2>4. DOMAIN N = D
    OBVIOUS
  <2> HIDE DEF N
  <2> QED
    BY <2>2, <2>3, <2>4 DEF Fresh
<1> QED
  BY <1>1, <1>2, <1>5, <1>6

\* updateTicketCount, the total: it is asked for, copied or taken over from the
\* height before, whose total is the same if the block entrusts nobody.
LEMMA UpdateTotals ==
    ASSUME ChainOK, NEW b \in BlockType, UpdateTicketCount(b),
           b.height \in 0..Tip, b = Block(b.height),
           DOMAIN acMap \subseteq 0..Tip,
           \A h \in DOMAIN acMap : \E g \in 0..Tip : acMap[h] = TotalAt(g)
    PROVE  /\ b.height \in DOMAIN acMap' /\ DOMAIN acMap' \subseteq 0..Tip
           /\ \A h \in DOMAIN acMap' : \E g \in 0..Tip : acMap'[h] = TotalAt(g)
           /\ b.height = Tip /\ (\A h \in DOMAIN acMap : acMap[h] = TotalAt(h))
                => \A h \in DOMAIN acMap' : acMap'[h] = TotalAt(h)
<1> DEFINE h == b.height
           D == (DOMAIN acMap \cup {h}) \ Old(h)
<1>1. Tip \in Nat /\ h \in Nat
  BY ChainType DEF BlockType
<1>2. acMap' = [g \in D |-> IF g = h THEN NewTotal(b) ELSE acMap[g]]
  BY DEF UpdateTicketCount
<1>3. h \notin Old(h)
  BY <1>1, CountAssumption DEF Old
<1>4. NewTotal(b) \in {Total} \cup {acMap[g] : g \in DOMAIN acMap}
  BY DEF NewTotal
<1>5. \E g \in 0..Tip : NewTotal(b) = TotalAt(g)
  BY <1>1, <1>4 DEF Total
<1>6. ASSUME h = Tip, \A g \in DOMAIN acMap : acMap[g] = TotalAt(g)
      PROVE  NewTotal(b) = TotalAt(h)
  <2>1. CASE NewTotal(b) = Total \/ (h \in DOMAIN acMap /\ NewTotal(b) = acMap[h])
    BY <1>6, <2>1 DEF Total
  <2>2. CASE b.seen = {} /\ h - 1 \in DOMAIN acMap /\ NewTotal(b) = acMap[h - 1]
    <3>1. h - 1 \in 0..Tip
      BY <2>2
    <3>2. /\ Block(h) = chain[h + 1] /\ Block(h - 1) = chain[(h - 1) + 1]
          /\ Len(chain) = Tip + 1 /\ Block(h) \in BlockType /\ Block(h - 1) \in BlockType
      BY <3>1, ChainType
    <3>3. h + 1 \in 2..Len(chain) /\ (h + 1) - 1 = (h - 1) + 1
      BY <1>1, <1>6, <3>1, <3>2
    <3>4. \A m \in Miner : chain[h + 1].count[m] = chain[(h + 1) - 1].count[m]
      BY <2>2, <3>2, <3>3 DEF ChainOK
    <3>5. \A m \in Miner : Block(h).count[m] = Block(h - 1).count[m]
      BY <3>2, <3>3, <3>4
    <3>6. Block(h).count = Block(h - 1).count
      BY <3>2, <3>5 DEF BlockType
    <3>7. TotalAt(h) = TotalAt(h - 1)
      BY <3>6 DEF TotalAt
    <3> QED
      BY <1>6, <2>2, <3>7
  <2> QED
    BY <2>1, <2>2 DEF NewTotal
<1> HIDE DEF h
<1>7. h \in DOMAIN acMap' /\ DOMAIN acMap' \subseteq 0..Tip
  BY <1>2, <1>3 DEF h
<1>8. \A g \in DOMAIN acMap' : IF g = h THEN acMap'[g] = NewTotal(b)
                               ELSE g \in DOMAIN acMap /\ acMap'[g] = acMap[g]
  BY <1>2
<1> QED
  BY <1>5, <1>6, <1>7, <1>8 DEF h
-----------------------------------------------------------------------------
(* The steps *)

LEMMA InitInv == Init => Inv
<1> SUFFICES ASSUME Init PROVE Inv
  OBVIOUS
<1> DEFINE b == [height |-> 0, seen |-> {m \in Miner : Genesis[m] > 0}, count |-> Genesis]
<1>1. b \in BlockType /\ b.height = 0
  BY CountAssumption DEF BlockType
<1>2. chain = <<b>> /\ events = <<[added |-> TRUE, block |-> chain[1]]>>
  BY DEF Init
<1> HIDE DEF b
<1>3. chain \in Seq(BlockType) /\ Len(chain) = 1 /\ chain[1] = b /\ Len(events) = 1
  BY <1>1, <1>2
<1>4. ChainOK
  BY <1>1, <1>2, <1>3 DEF ChainOK
<1>5. DOMAIN tcMap = {} /\ DOMAIN acMap = {} /\ tcMap = << >> /\ acMap = << >>
  BY DEF Init
<1>6. MapsOK(tcMap)
  BY <1>5, FS_EmptySet DEF MapsOK, Shared
<1>7. Types
  BY <1>1, <1>2, <1>3, <1>4, <1>5, <1>6 DEF Types, EventType, Init
<1>8. Announced
  BY <1>2, <1>3 DEF Announced
<1>9. TotalsOK /\ Fresh(tcMap) /\ CaughtUp
  BY <1>2, <1>3, <1>5 DEF TotalsOK, Fresh, CaughtUp
<1> QED
  BY <1>7, <1>8, <1>9 DEF Inv

\* A block that joins the chain changes no count or total of the past.
LEMMA ConnectInv ==
    ASSUME Inv, NEW seen \in SUBSET Miner, Connect(seen)
    PROVE  Inv'
<1>1. PICK f \in [Miner -> 0..MaxCount] :
         LET b == [height |-> Tip + 1, seen |-> seen, count |-> f]
         IN  /\ \A m \in Miner \ seen : f[m] = Count(m)
             /\ chain' = Append(chain, b)
             /\ events' = Append(events, [added |-> TRUE, block |-> b])
  BY DEF Connect
<1> DEFINE b == [height |-> Tip + 1, seen |-> seen, count |-> f]
<1>2. /\ Tip \in Nat /\ Len(chain) = Tip + 1 /\ ChainOK
      /\ \A m \in Miner : Count(m) = Block(Tip).count[m] /\ Block(Tip) = chain[Tip + 1]
  BY ChainType DEF Inv, Types
<1>3. /\ b \in BlockType /\ b.height = Tip + 1 /\ b.seen = seen
      /\ \A m \in Miner \ seen : b.count[m] = chain[Tip + 1].count[m]
  BY <1>1, <1>2, CountAssumption DEF BlockType
<1> HIDE DEF b
<1>4. /\ chain' = Append(chain, b) /\ events' = Append(events, [added |-> TRUE, block |-> b])
      /\ chain \in Seq(BlockType) /\ events \in Seq(EventType)
  BY <1>1 DEF b, Inv, Types, ChainOK
<1>5. /\ Len(chain') = Len(chain) + 1 /\ \A k \in 1..Len(chain) : chain'[k] = chain[k]
      /\ chain'[Len(chain) + 1] = b
      /\ chain' \in Seq(BlockType) /\ chain' # << >>
  BY <1>3, <1>4
<1>6. /\ Len(events') = Len(events) + 1 /\ \A k \in 1..Len(events) : events'[k] = events[k]
      /\ events'[Len(events) + 1] = [added |-> TRUE, block |-> b]
      /\ events' \in Seq(EventType)
  BY <1>3, <1>4 DEF EventType
<1>7. ChainOK'
  <2>1. \A k \in 1..Len(chain') : chain'[k].height = k - 1
    <3> SUFFICES ASSUME NEW k \in 1..Len(chain') PROVE chain'[k].height = k - 1
      OBVIOUS
    <3>1. CASE k = Len(chain) + 1
      BY <1>2, <1>3, <1>5, <3>1
    <3>2. CASE k \in 1..Len(chain)
      BY <1>2, <1>5, <3>2 DEF ChainOK
    <3> QED
      BY <1>2, <1>5, <3>1, <3>2
  <2>2. \A k \in 2..Len(chain') : \A m \in Miner \ chain'[k].seen :
           chain'[k].count[m] = chain'[k - 1].count[m]
    <3> SUFFICES ASSUME NEW k \in 2..Len(chain'), NEW m \in Miner \ chain'[k].seen
                 PROVE  chain'[k].count[m] = chain'[k - 1].count[m]
      OBVIOUS
    <3>1. CASE k <= Len(chain)
      <4>1. k \in 2..Len(chain) /\ k \in 1..Len(chain) /\ k - 1 \in 1..Len(chain)
        BY <1>2, <1>5, <3>1
      <4> QED
        BY <1>2, <1>5, <4>1 DEF ChainOK
    <3>2. CASE k = Len(chain) + 1
      <4>1. k - 1 = Tip + 1 /\ k - 1 \in 1..Len(chain) /\ chain'[k] = b
        BY <1>2, <1>5, <3>2
      <4> QED
        BY <1>2, <1>3, <1>5, <4>1
    <3> QED
      BY <1>2, <1>5, <3>1, <3>2
  <2> QED
    BY <1>5, <2>1, <2>2 DEF ChainOK
<1>8. UNCHANGED <<current, running, acMap, tcMap, early, reorgs>>
      /\ lagged' = (lagged \/ events # << >>)
  BY DEF Connect
<1>9. Types'
  BY <1>6, <1>7, <1>8 DEF Inv, Types, MapsOK, Shared
<1>10. Tip' = Tip + 1 /\ \A h \in 0..Tip : Block(h)' = Block(h)
  <2>1. Tip' = Tip + 1
    BY <1>2, <1>5 DEF Tip
  <2>2. \A h \in 0..Tip : h + 1 \in 1..Len(chain)
    BY <1>2
  <2> QED
    BY <1>5, <2>1, <2>2 DEF Block
<1>11. \A h \in 0..Tip : TotalAt(h)' = TotalAt(h)
  BY <1>10 DEF TotalAt
<1>12. ASSUME reorgs = 0 PROVE Announced'
  <2>1. Announced
    BY <1>12 DEF Inv
  <2>2. Len(events) \in Nat /\ Len(events') <= Len(chain')
    BY <1>4, <1>5, <1>6, <2>1 DEF Announced
  <2>3. ASSUME NEW i \in 1..Len(events')
        PROVE  events'[i].added /\ events'[i].block = chain'[Len(chain') - Len(events') + i]
    <3>1. Len(chain') - Len(events') + i = Len(chain) - Len(events) + i
      BY <1>2, <1>5, <1>6, <2>2
    <3>2. CASE i <= Len(events)
      <4>1. i \in 1..Len(events) /\ Len(chain) - Len(events) + i \in 1..Len(chain)
        BY <1>2, <2>1, <2>2, <3>2 DEF Announced
      <4> QED
        BY <1>5, <1>6, <2>1, <3>1, <4>1 DEF Announced
    <3>3. CASE i = Len(events) + 1
      <4>1. Len(chain) - Len(events) + i = Len(chain) + 1
        BY <1>2, <2>2, <3>3
      <4> QED
        BY <1>5, <1>6, <3>1, <3>3, <4>1
    <3> QED
      BY <1>6, <2>2, <3>2, <3>3
  <2> QED
    BY <2>2, <2>3 DEF Announced
<1>13. ASSUME reorgs = 0 PROVE TotalsOK'
  <2>1. TotalsOK
    BY <1>13 DEF Inv
  <2>2. DOMAIN acMap' \subseteq 0..Tip'
    BY <1>2, <1>8, <1>10, <2>1 DEF TotalsOK
  <2>3. \A h \in DOMAIN acMap' : \E g \in 0..Tip' : acMap'[h] = TotalAt(g)'
    <3> SUFFICES ASSUME NEW h \in DOMAIN acMap
                 PROVE  \E g \in 0..Tip' : acMap[h] = TotalAt(g)'
      BY <1>8
    <3>1. PICK g \in 0..Tip : acMap[h] = TotalAt(g)
      BY <2>1 DEF TotalsOK
    <3>2. g \in 0..Tip'
      BY <1>2, <1>10
    <3> QED
      BY <1>11, <3>1, <3>2
  <2>4. ~lagged' => Len(events') <= 1 /\ \A h \in DOMAIN acMap' : acMap'[h] = TotalAt(h)'
    <3> SUFFICES ASSUME ~lagged'
                 PROVE  Len(events') <= 1 /\ \A h \in DOMAIN acMap' : acMap'[h] = TotalAt(h)'
      OBVIOUS
    <3>1. ~lagged /\ events = << >>
      BY <1>8
    <3>2. Len(events') = 1
      BY <1>4, <1>6, <3>1
    <3>3. \A h \in DOMAIN acMap : h \in 0..Tip /\ acMap[h] = TotalAt(h)
      BY <2>1, <3>1 DEF TotalsOK
    <3> QED
      BY <1>8, <1>11, <3>2, <3>3
  <2> QED
    BY <2>2, <2>3, <2>4 DEF TotalsOK
<1>14. ASSUME reorgs = 0, ~early PROVE Fresh(tcMap)'
  <2>1. Fresh(tcMap)
    BY <1>14 DEF Inv
  <2>2. DOMAIN tcMap \subseteq 0..Tip'
    BY <1>2, <1>10, <2>1 DEF Fresh
  <2>3. ASSUME NEW h \in DOMAIN tcMap, NEW m \in Miner
        PROVE  FreshFor(tcMap[h].count[m], h, m)'
    <3> SUFFICES ASSUME tcMap[h].count[m] # None
                 PROVE  \E g \in h..Tip' : tcMap[h].count[m] = Block(g)'.count[m]
      BY <1>8 DEF FreshFor
    <3>1. PICK g \in h..Tip : tcMap[h].count[m] = Block(g).count[m]
      BY <2>1 DEF Fresh, FreshFor
    <3>2. g \in 0..Tip /\ g \in h..Tip'
      BY <1>2, <1>10, <2>1, <3>1 DEF Fresh
    <3> QED
      BY <1>10, <3>1, <3>2
  <2> QED
    BY <1>8, <2>2, <2>3 DEF Fresh
<1>15. CaughtUp'
  BY <1>4 DEF CaughtUp
<1> QED
  BY <1>8, <1>9, <1>12, <1>13, <1>14, <1>15 DEF Inv

\* A block taken off: nothing is claimed of the caches any more.
LEMMA DisconnectInv ==
    ASSUME Inv, Disconnect
    PROVE  Inv'
<1>1. /\ Tip > 0 /\ chain' = SubSeq(chain, 1, Len(chain) - 1)
      /\ events' = Append(events, [added |-> FALSE, block |-> Block(Tip)])
      /\ reorgs' = reorgs + 1 /\ tcMap' = tcMap
  BY DEF Disconnect
<1>2. Tip \in Nat /\ Len(chain) = Tip + 1 /\ Block(Tip) \in BlockType /\ ChainOK
  BY ChainType DEF Inv, Types
<1>3. chain' \in Seq(BlockType) /\ Len(chain') = Tip /\ \A k \in 1..Tip : chain'[k] = chain[k]
  BY <1>1, <1>2 DEF ChainOK
<1>4. ChainOK'
  <2>1. \A k \in 1..Len(chain') : chain'[k].height = k - 1
    BY <1>2, <1>3 DEF ChainOK
  <2>2. ASSUME NEW k \in 2..Len(chain')
        PROVE  \A m \in Miner \ chain'[k].seen : chain'[k].count[m] = chain'[k - 1].count[m]
    <3>1. k \in 2..Len(chain) /\ chain'[k] = chain[k] /\ chain'[k - 1] = chain[k - 1]
      BY <1>2, <1>3
    <3> QED
      BY <1>2, <3>1 DEF ChainOK
  <2>3. chain' # << >>
    BY <1>1, <1>2, <1>3
  <2> QED
    BY <1>3, <2>1, <2>2, <2>3 DEF ChainOK
<1>5. events' \in Seq(EventType)
  BY <1>1, <1>2 DEF Inv, Types, EventType
<1>6. MapsOK(tcMap)'
  BY <1>1 DEF Inv, Types, MapsOK, Shared
<1>7. reorgs' \in Nat /\ reorgs' # 0
  BY <1>1 DEF Inv, Types
<1> QED
  BY <1>4, <1>5, <1>6, <1>7 DEF Inv, Types

\* While the chain stays, what is said of the caches is said of them alone.
LEMMA ChainStays ==
    ASSUME UNCHANGED chain
    PROVE  /\ Tip' = Tip /\ ChainOK' = ChainOK
           /\ Fresh(tcMap)' <=> Fresh(tcMap')
           /\ MapsOK(tcMap)' <=> MapsOK(tcMap')
           /\ \A h : TotalAt(h)' = TotalAt(h)
<1>1. Tip' = Tip /\ \A h : Block(h)' = Block(h)
  BY DEF Tip, Block
<1>2. ChainOK' = ChainOK
  BY DEF ChainOK
<1>3. \A h : TotalAt(h)' = TotalAt(h)
  BY <1>1 DEF TotalAt
<1>4. Fresh(tcMap)' <=> Fresh(tcMap')
  BY <1>1 DEF Fresh, FreshFor
<1>5. MapsOK(tcMap)' <=> MapsOK(tcMap')
  BY DEF MapsOK, Shared
<1> QED
  BY <1>1, <1>2, <1>3, <1>4, <1>5

\* updateTicketCount with a block b that is on the chain, as the only one still
\* to be announced or later than all of them.
LEMMA UpdateInv ==
    ASSUME Inv, NEW b \in BlockType, UpdateTicketCount(b), UNCHANGED <<chain, lagged, early, reorgs>>,
           events' \in Seq(EventType),
           reorgs = 0 => /\ b.height \in 0..Tip /\ b = Block(b.height)
                         /\ ~lagged => b.height = Tip /\ Len(events') <= 1
                         /\ Announced'
                         /\ events' = << >> => b.height = Tip /\ current' = Tip
    PROVE  Inv'
<1>1. ChainOK /\ MapsOK(tcMap)
  BY DEF Inv, Types
<1>2. Types'
  <2>1. MapsOK(tcMap)'
    BY <1>1, UpdateMaps, ChainStays
  <2> QED
    BY <1>1, <2>1, ChainStays DEF Inv, Types
<1>3. ASSUME reorgs = 0 PROVE TotalsOK' /\ CaughtUp'
  <2>1. TotalsOK
    BY <1>3 DEF Inv
  <2>2. /\ b.height \in DOMAIN acMap' /\ DOMAIN acMap' \subseteq 0..Tip
        /\ \A h \in DOMAIN acMap' : \E g \in 0..Tip : acMap'[h] = TotalAt(g)
        /\ b.height = Tip /\ (\A h \in DOMAIN acMap : acMap[h] = TotalAt(h))
             => \A h \in DOMAIN acMap' : acMap'[h] = TotalAt(h)
    BY <1>1, <1>3, <2>1, UpdateTotals DEF TotalsOK
  <2>3. TotalsOK'
    BY <1>3, <2>1, <2>2, ChainStays DEF TotalsOK
  <2>4. CaughtUp'
    BY <1>3, <2>2, ChainStays DEF CaughtUp
  <2> QED
    BY <2>3, <2>4
<1>4. ASSUME reorgs = 0, ~early PROVE Fresh(tcMap)'
  BY <1>1, <1>4, UpdateMaps, ChainStays DEF Inv
<1> QED
  BY <1>2, <1>3, <1>4 DEF Inv

LEMMA AddBlockInv ==
    ASSUME Inv, AddBlock
    PROVE  Inv'
<1> DEFINE b == Head(events).block
<1>1. /\ events # << >> /\ Head(events).added /\ events' = Tail(events)
      /\ current' = b.height /\ UpdateTicketCount(b)
      /\ UNCHANGED <<chain, running, lagged, early, reorgs>>
  BY DEF AddBlock
<1>2. events \in Seq(EventType) /\ ChainOK
  BY DEF Inv, Types, EventType
<1>3. /\ Head(events) = events[1] /\ Len(events) \in Nat /\ Len(events) >= 1
      /\ events' \in Seq(EventType)
      /\ Len(events') = Len(events) - 1
      /\ \A i \in 1..(Len(events) - 1) : events'[i] = events[i + 1]
  BY <1>1, <1>2
<1>4. b \in BlockType
  <2>1. events[1] \in EventType
    BY <1>2, <1>3
  <2> QED
    BY <1>3, <2>1 DEF EventType
<1>5. ASSUME reorgs = 0
      PROVE  /\ b.height \in 0..Tip /\ b = Block(b.height)
             /\ ~lagged => b.height = Tip /\ Len(events') <= 1
             /\ Announced'
             /\ events' = << >> => b.height = Tip /\ current' = Tip
  <2> DEFINE k == Len(chain) - Len(events) + 1
  <2>1. Announced /\ TotalsOK
    BY <1>5 DEF Inv
  <2>2. /\ Tip \in Nat /\ Len(chain) = Tip + 1
        /\ \A h \in 0..Tip : Block(h) = chain[h + 1]
    BY <1>2, ChainType
  <2>3. k \in 1..Len(chain) /\ k - 1 \in 0..Tip /\ (k - 1) + 1 = k
    BY <1>3, <2>1, <2>2 DEF Announced
  <2>4. b = chain[k]
    BY <1>3, <2>1 DEF Announced
  <2> HIDE DEF b
  <2>5. b.height = k - 1
    BY <1>2, <2>3, <2>4 DEF ChainOK
  <2>6. b.height \in 0..Tip /\ b = Block(b.height)
    BY <2>2, <2>3, <2>4, <2>5
  <2>7. Len(events) = 1 => b.height = Tip
    BY <2>2, <2>5
  <2>8. Announced'
    <3>1. Len(events') <= Len(chain')
      BY <1>1, <1>3, <2>1, <2>2 DEF Announced
    <3>2. ASSUME NEW i \in 1..Len(events')
          PROVE  events'[i].added /\ events'[i].block = chain'[Len(chain') - Len(events') + i]
      <4>1. /\ i + 1 \in 1..Len(events) /\ events'[i] = events[i + 1]
            /\ Len(chain) - Len(events') + i = Len(chain) - Len(events) + (i + 1)
        BY <1>3, <2>2
      <4> QED
        BY <1>1, <2>1, <4>1 DEF Announced
    <3> QED
      BY <3>1, <3>2 DEF Announced
  <2>9. ~lagged => Len(events) = 1
    BY <1>3, <2>1 DEF TotalsOK
  <2>10. events' = << >> => Len(events) = 1
    BY <1>3
  <2> QED
    BY <1>1, <1>3, <2>6, <2>7, <2>8, <2>9, <2>10 DEF b
<1> HIDE DEF b
<1> QED
  BY <1>1, <1>3, <1>4, <1>5, UpdateInv DEF EventType

LEMMA StartInv ==
    ASSUME Inv, Start
    PROVE  Inv'
<1> DEFINE b == Block(Tip)
<1>1. UpdateTicketCount(b) /\ UNCHANGED <<chain, current, events, lagged, early, reorgs>>
  BY DEF Start
<1>2. ChainOK /\ events \in Seq(EventType)
  BY DEF Inv, Types
<1>3. b \in BlockType /\ b.height = Tip /\ Tip \in 0..Tip
  BY <1>2, ChainType
<1>4. ASSUME reorgs = 0
      PROVE  /\ b.height \in 0..Tip /\ b = Block(b.height)
             /\ ~lagged => b.height = Tip /\ Len(events') <= 1
             /\ Announced'
             /\ events' = << >> => b.height = Tip /\ current' = Tip
  BY <1>1, <1>3, <1>4 DEF Inv, TotalsOK, Announced, CaughtUp
<1> HIDE DEF b
<1> QED
  BY <1>1, <1>2, <1>3, <1>4, UpdateInv

LEMMA DelBlockInv ==
    ASSUME Inv, DelBlock
    PROVE  Inv'
<1>1. /\ events # << >> /\ ~Head(events).added /\ events' = Tail(events) /\ current' = Tip
      /\ UNCHANGED <<chain, running, lagged, early, reorgs, acMap, tcMap>>
  BY DEF DelBlock
<1>2. events \in Seq(EventType)
  BY DEF Inv, Types
<1>3. Head(events) = events[1] /\ Len(events) >= 1 /\ Len(events) \in Nat
  BY <1>1, <1>2
<1>4. reorgs # 0
  BY <1>1, <1>3 DEF Inv, Announced
<1>5. events' \in Seq(EventType)
  BY <1>1, <1>2
<1> QED
  BY <1>1, <1>4, <1>5, ChainStays DEF Inv, Types

LEMMA RestartInv ==
    ASSUME Inv, Restart
    PROVE  Inv'
<1>1. /\ ~running' /\ current' = Tip /\ events' = << >> /\ acMap' = << >> /\ tcMap' = << >>
      /\ UNCHANGED <<chain, lagged, early, reorgs>>
  BY DEF Restart
<1>2. DOMAIN acMap' = {} /\ DOMAIN tcMap' = {} /\ Len(events') = 0
  BY <1>1
<1>3. ChainOK /\ Tip \in Nat /\ Len(chain) = Tip + 1
  BY ChainType DEF Inv, Types
<1>4. MapsOK(tcMap') /\ Fresh(tcMap')
  BY <1>1, <1>2, FS_EmptySet DEF MapsOK, Shared, Fresh
<1>5. Types'
  BY <1>1, <1>3, <1>4, ChainStays DEF Inv, Types
<1>6. Announced'
  BY <1>1, <1>2, <1>3 DEF Announced
<1>7. TotalsOK'
  BY <1>1, <1>2 DEF TotalsOK
<1>8. CaughtUp'
  BY <1>1, ChainStays DEF CaughtUp
<1> QED
  BY <1>1, <1>4, <1>5, <1>6, <1>7, <1>8, ChainStays DEF Inv

\* queryTicketCount for a height the chain has enters a count that is fresh.
LEMMA QueryInv ==
    ASSUME Inv, NEW m \in Miner, NEW h \in -1..MaxHeight, QueryTicketCount(m, h)
    PROVE  Inv'
<1> DEFINE g == AskedHeight(h)
<1>1. /\ tcMap' = Enter(tcMap, g, {m}) /\ early' = (early \/ g > Tip)
      /\ UNCHANGED <<chain, current, events, running, acMap, lagged, reorgs>>
  BY DEF QueryTicketCount
<1>2. g \in Nat
  BY CountAssumption DEF AskedHeight
<1>3. ChainOK /\ MapsOK(tcMap) /\ Tip \in Nat
  BY ChainType DEF Inv, Types
<1> HIDE DEF g
<1>4. MapsOK(tcMap')
  BY <1>1, <1>2, <1>3, EnterMaps
<1>5. Types'
  BY <1>1, <1>3, <1>4, ChainStays DEF Inv, Types
<1>6. ASSUME reorgs = 0 PROVE Announced' /\ TotalsOK' /\ CaughtUp'
  BY <1>1, <1>6, ChainStays DEF Inv, Announced, TotalsOK, CaughtUp
<1>7. ASSUME reorgs = 0, ~early' PROVE Fresh(tcMap)'
  <2>1. g \in 0..Tip /\ ~early
    <3>1. ~early /\ ~(g > Tip)
      BY <1>1, <1>7, Zenon
    <3> QED
      BY <1>2, <1>3, <3>1
  <2>2. Fresh(tcMap)
    BY <1>7, <2>1 DEF Inv
  <2>3. Fresh(Enter(tcMap, g, {m}))
    BY <1>3, <2>1, <2>2, EnterFresh
  <2> QED
    BY <1>1, <2>3, ChainStays
<1> QED
  BY <1>1, <1>5, <1>6, <1>7 DEF Inv

LEMMA StepInv == Inv /\ [Next]_vars => Inv'
<1> SUFFICES ASSUME Inv, [Next]_vars PROVE Inv'
  OBVIOUS
<1>1. CASE UNCHANGED vars
  BY <1>1, ChainStays DEF vars, Inv, Types, Announced, TotalsOK, CaughtUp
<1> QED
  BY <1>1, ConnectInv, DisconnectInv, AddBlockInv, DelBlockInv, StartInv, RestartInv,
     QueryInv DEF Next

LEMMA InvKept == Spec => []Inv
BY InitInv, StepInv, PTL DEF Spec
-----------------------------------------------------------------------------
\* The count a sort is drawn or verified with is never from before its height.
THEOREM CountsAreFresh == Spec => []CountsFresh
<1>1. Inv => CountsFresh
  BY DEF Inv, Fresh, FreshFor, CountsFresh
<1> QED
  BY <1>1, InvKept, PTL

\* The total is asked for only when an entrust is seen, and is the height's own
\* if blocks are announced one by one.
THEOREM TotalsAreExact == Spec => []TotalsExact
<1>1. Inv => TotalsExact
  BY DEF Inv, TotalsOK, TotalsExact
<1> QED
  BY <1>1, InvKept, PTL

\* A client that has caught up computes no difficulty from a total of 0.
THEOREM TotalsAreReady == Spec => []TotalReady
<1>1. Inv => TotalReady
  <2> SUFFICES ASSUME Inv, running, events = << >>, reorgs = 0,
                      \A g \in 0..Tip : TotalAt(g) > 0,
                      NEW h \in -1..MaxHeight
               PROVE  AllCount(h) > 0
    BY DEF TotalReady
  <2>1. current \in DOMAIN acMap
    BY DEF Inv, CaughtUp
  <2>2. \A g \in DOMAIN acMap : acMap[g] > 0
    BY DEF Inv, TotalsOK
  <2> QED
    BY <2>1, <2>2 DEF AllCount
<1> QED
  BY <1>1, InvKept, PTL
=============================================================================
