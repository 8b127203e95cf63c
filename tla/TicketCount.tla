----------------------------- MODULE TicketCount -----------------------------
(***************************************************************************)
(* The stake caches of a consensus client: acMap, the total number of      *)
(* tickets at a height, and tcMap, the tickets of a miner at a height      *)
(* (plugin/consensus/pos33/pos33.go).  A sort is drawn and verified with   *)
(* the count and the total of the height SortBlocks below its own.         *)
(*                                                                         *)
(* The contract can only be asked for its present state, that of the last  *)
(* block of the chain, while blocks are announced to the client one by one *)
(* and later, and counts are asked for any height.                         *)
(***************************************************************************)
EXTENDS Integers, Sequences, FiniteSets, Functions

CONSTANTS
    Miner,         \* addresses that are entrusted with stake
    Genesis,       \* their tickets in the first block
    MaxCount,      \* bound on a miner's tickets
    SortBlocks,    \* Pos33SortBlocks
    MaxHeight,     \* bound on the height of the chain
    MaxSeen,       \* bound on the miners entrusted in one block
    MaxEvents,     \* bound on the announcements not yet handled
    MaxAsked,      \* bound on the counts asked for
    MaxFaults      \* bound on the blocks taken off the chain and the restarts

ASSUME CountAssumption ==
    /\ {MaxCount, SortBlocks, MaxHeight, MaxSeen} \subseteq Nat
    /\ {MaxEvents, MaxAsked, MaxFaults} \subseteq Nat
    /\ SortBlocks > 0
    /\ Genesis \in [Miner -> Nat]

None == -1   \* no entry

VARIABLES
    chain,      \* chain[h + 1]: the block of height h and each miner's tickets after it
    current,    \* GetCurrentHeight: the last block the client was told of
    events,     \* blocks added to or taken off the chain, not yet announced
    running,    \* runLoop has started
    acMap,      \* height -> total
    tcMap,      \* height -> the map of its counts
    lagged,     \* a block was connected when the one before was not yet announced
    early,      \* a count was asked for a height the chain did not have
    asked, reorgs, restarts

vars == <<chain, current, events, running, acMap, tcMap, lagged, early, asked, reorgs, restarts>>

Tip == Len(chain) - 1

Block(h) == chain[h + 1]

\* The answer of Pos33ConsigneeEntrust now, in tickets.
Count(m) == Block(Tip).count[m]

TotalAt(h) == SumFunction(Block(h).count)

\* The answer of AllPos33TicketAmount now, in tickets.
Total == TotalAt(Tip)

\* A map of counts.  Two heights with the same id share one Go map; id 0 is nil.
Nil == [id |-> 0, count |-> [m \in Miner |-> None]]

Map(tc, h) == IF h \in DOMAIN tc THEN tc[h] ELSE Nil

FreshId(tc) == CHOOSE i \in 1..Cardinality(DOMAIN tc) + 1 : \A h \in DOMAIN tc : tc[h].id # i

\* queryMinerTicketCount for each of ms: the present counts are entered for height h.
Enter(tc, h, ms) ==
    LET id == IF Map(tc, h).id = 0 THEN FreshId(tc) ELSE Map(tc, h).id
        new == [id |-> id,
                count |-> [m \in Miner |-> IF m \in ms THEN Count(m) ELSE Map(tc, h).count[m]]]
    IN [g \in DOMAIN tc \cup {h} |-> IF g = h \/ tc[g].id = id THEN new ELSE tc[g]]

\* Mutated: the counts of the miners entrusted in the block are not asked for.
EnterSeenNot(b) == tcMap

\* The loop over the transactions of a block.
EnterSeen(b) == IF b.seen = {} THEN tcMap ELSE Enter(tcMap, b.height, b.seen)

\* Mutated: an entrust does not refresh the total.
NewTotalCopied(b) ==
    LET known == IF b.height \in DOMAIN acMap THEN acMap[b.height]
                 ELSE IF b.height - 1 \in DOMAIN acMap THEN acMap[b.height - 1] ELSE 0
    IN IF known = 0 THEN Total ELSE known

\* The total entered for a block: asked for when it has an entrust, else the
\* entry it has or that of the block before, and asked for when that is 0.
NewTotal(b) ==
    LET known == IF b.seen # {} THEN Total
                 ELSE IF b.height \in DOMAIN acMap THEN acMap[b.height]
                 ELSE IF b.height - 1 \in DOMAIN acMap THEN acMap[b.height - 1] ELSE 0
    IN IF known = 0 THEN Total ELSE known

\* Heights of which the entry is deleted.
Old(h) == {h - 2 * SortBlocks - 1}

UpdateTicketCount(b) ==
    LET tc == EnterSeen(b)
        h == b.height
    IN /\ acMap' = [g \in (DOMAIN acMap \cup {h}) \ Old(h) |-> IF g = h THEN NewTotal(b) ELSE acMap[g]]
       /\ tcMap' = [g \in (DOMAIN tc \cup {h}) \ Old(h) |->
                       IF g \in DOMAIN tc THEN tc[g] ELSE Map(tc, h - 1)]

Init ==
    /\ chain = <<[height |-> 0, seen |-> {m \in Miner : Genesis[m] > 0}, count |-> Genesis]>>
    /\ events = <<[added |-> TRUE, block |-> chain[1]]>>
    /\ current = 0
    /\ running = FALSE
    /\ acMap = << >> /\ tcMap = << >>
    /\ lagged = FALSE /\ early = FALSE
    /\ asked = 0 /\ reorgs = 0 /\ restarts = 0

\* A block whose transactions entrust the miners of seen joins the chain.
Connect(seen) ==
    /\ Tip < MaxHeight /\ Len(events) < MaxEvents /\ Cardinality(seen) <= MaxSeen
    /\ \E f \in [Miner -> 0..MaxCount] :
          LET b == [height |-> Tip + 1, seen |-> seen, count |-> f]
          IN /\ \A m \in Miner \ seen : f[m] = Count(m)
             /\ chain' = Append(chain, b)
             /\ events' = Append(events, [added |-> TRUE, block |-> b])
    /\ lagged' = (lagged \/ events # << >>)
    /\ UNCHANGED <<current, running, acMap, tcMap, early, asked, reorgs, restarts>>

\* A reorganisation takes the last block off the chain.
Disconnect ==
    /\ Tip > 0 /\ Len(events) < MaxEvents /\ reorgs + restarts < MaxFaults
    /\ chain' = SubSeq(chain, 1, Len(chain) - 1)
    /\ events' = Append(events, [added |-> FALSE, block |-> Block(Tip)])
    /\ reorgs' = reorgs + 1
    /\ UNCHANGED <<current, running, acMap, tcMap, lagged, early, asked, restarts>>

\* AddBlock, called with the announcement.
AddBlock ==
    /\ events # << >> /\ Head(events).added
    /\ events' = Tail(events)
    /\ current' = Head(events).block.height
    /\ UpdateTicketCount(Head(events).block)
    /\ UNCHANGED <<chain, running, lagged, early, asked, reorgs, restarts>>

\* The announcement of a block taken off only sets the current block.
DelBlock ==
    /\ events # << >> /\ ~Head(events).added
    /\ events' = Tail(events)
    /\ current' = Tip
    /\ UNCHANGED <<chain, running, acMap, tcMap, lagged, early, asked, reorgs, restarts>>

\* runLoop starts with the last block of the chain.
Start ==
    /\ ~running
    /\ running' = TRUE
    /\ UpdateTicketCount(Block(Tip))
    /\ UNCHANGED <<chain, current, events, lagged, early, asked, reorgs, restarts>>

Restart ==
    /\ reorgs + restarts < MaxFaults
    /\ restarts' = restarts + 1
    /\ running' = FALSE
    /\ current' = Tip
    /\ events' = << >>
    /\ acMap' = << >> /\ tcMap' = << >>
    /\ UNCHANGED <<chain, lagged, early, asked, reorgs>>

\* A height below 0 means the first block.
AskedHeight(h) == IF h < 0 THEN 0 ELSE h

\* getSortSeed: a sort of height h + SortBlocks is only looked at when its seed,
\* of the block of height h, is known; below SortBlocks it is the zero hash.
SeedKnown(h) == h <= Tip \/ h < SortBlocks

\* queryTicketCount, for drawing or verifying a sort of height h + SortBlocks,
\* when the count is not in the cache.
QueryTicketCount(m, h) ==
    LET g == AskedHeight(h)
    IN /\ asked < MaxAsked /\ asked' = asked + 1
       /\ SeedKnown(h)
       /\ Map(tcMap, g).count[m] = None
       /\ tcMap' = Enter(tcMap, g, {m})
       /\ early' = (early \/ g > Tip)
       /\ UNCHANGED <<chain, current, events, running, acMap, lagged, reorgs, restarts>>

Next ==
    \/ \E seen \in SUBSET Miner : Connect(seen)
    \/ Disconnect
    \/ AddBlock
    \/ DelBlock
    \/ Start
    \/ Restart
    \/ \E m \in Miner, h \in -1..MaxHeight : QueryTicketCount(m, h)

Spec == Init /\ [][Next]_vars
-----------------------------------------------------------------------------
(* Properties *)

\* Mutated: no fallback.
AllCountOwn(h) == IF h \in DOMAIN acMap THEN acMap[h] ELSE 0

\* allCount: the total the difficulty of a sort is computed from.
AllCount(h) ==
    LET g == AskedHeight(h)
    IN IF g \in DOMAIN acMap THEN acMap[g]
       ELSE IF current \in DOMAIN acMap THEN acMap[current] ELSE 0

\* Types.
TypeOK ==
    /\ chain \in Seq([height : Nat, seen : SUBSET Miner, count : [Miner -> Nat]])
    /\ current \in Nat
    /\ events \in Seq([added : BOOLEAN,
                       block : [height : Nat, seen : SUBSET Miner, count : [Miner -> Nat]]])
    /\ DOMAIN acMap \subseteq Nat /\ DOMAIN tcMap \subseteq Nat
    /\ \A h \in DOMAIN acMap : acMap[h] \in Nat
    /\ \A h \in DOMAIN tcMap : tcMap[h] \in [id : Nat, count : [Miner -> Nat \cup {None}]]
    /\ {running, lagged, early} \subseteq BOOLEAN
    /\ {asked, reorgs, restarts} \subseteq Nat

\* The count cached for a height is never from before it: it is the miner's
\* count at that height or a later one, also where heights share a map.  (Not
\* when a count was asked for a height the chain did not yet have.)
CountsFresh ==
    reorgs = 0 /\ ~early =>
        \A h \in DOMAIN tcMap, m \in Miner :
            tcMap[h].count[m] # None => \E g \in h..Tip : tcMap[h].count[m] = Block(g).count[m]

\* When each block is announced before the next one joins, the total cached for
\* a height is that height's, although it is only asked for when an entrust is
\* seen.
TotalsExact ==
    ~lagged /\ reorgs = 0 => \A h \in DOMAIN acMap : acMap[h] = TotalAt(h)

\* While there is stake at every height and the client has caught up with the
\* chain, no difficulty is computed from a total of 0, which would let every
\* sort pass.
TotalReady ==
    running /\ events = << >> /\ reorgs = 0 /\ (\A h \in 0..Tip : TotalAt(h) > 0) =>
        \A h \in -1..MaxHeight : AllCount(h) > 0
=============================================================================
