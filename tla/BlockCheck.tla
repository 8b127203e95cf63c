------------------------------ MODULE BlockCheck ------------------------------
(***************************************************************************)
(* The sorts of the nodes and the blocks made with them while the last     *)
(* block of a chain may be replaced: a sort is drawn from a block          *)
(* SortBlocks below, is kept by every node that receives it, elects the    *)
(* maker of a block and is verified again when the block is checked        *)
(* (plugin/consensus/pos33/node.go, sortition.go, pos33.go).               *)
(*                                                                         *)
(* The election and the vote are those of Election and BlockVote: here a   *)
(* node can make a block when the owners of a majority of sorts know its   *)
(* sort and the maker accepts theirs.  A vote is signed with a BLS key,    *)
(* which a transaction in some block binds to the voter's address; the     *)
(* miner transaction fails when a voter's key is not bound.                *)
(*                                                                         *)
(* All nodes are in sync and have stake: prepareOK is TRUE.  A node of     *)
(* which it is not takes blocks of others unchecked.                       *)
(***************************************************************************)
EXTENDS Sortition, FiniteSets

CONSTANTS
    Quorums,       \* the sets of nodes whose sorts are a majority
    Binder,        \* the nodes whose binding is in a block after Root
    Root,          \* the chain all nodes start with, of SortBlocks blocks
    MaxHeight,     \* bound on the height
    MaxRound       \* bound on the rounds of a height

ASSUME BlockCheckAssumption ==
    /\ SortBlocks \in Nat \ {0}
    /\ Root \in Seq(Range(Root)) /\ Len(Root) = SortBlocks
    /\ \A h \in 1..SortBlocks : Root[h].height = h
    /\ MaxHeight \in Nat /\ MaxRound \in Nat

VARIABLES
    chain,         \* the chain of each node
    bch,           \* blocks a node has on its chain and its run loop not handled
    myss,          \* the sorts a node drew last, by height and round
    css,           \* the sorts a node keeps, by height and round
    sent,          \* the sorts broadcast
    made,          \* the blocks made, each with its parent's chain
    known,         \* what a node was given of these
    blsMp,         \* the voters of Binder whose binding a node has cached
    undone,        \* nodes that had to take back a block with a binding
    failed         \* nodes whose miner transaction failed

vars == <<chain, bch, myss, css, sent, made, known, blsMp, undone, failed>>

Height == Len(Root) + 1 .. MaxHeight
Round == 0..MaxRound

\* The sorts of the first heights, drawn with firstSortition or sortition.
FirstSorts(h) ==
    IF h > 2 * SortBlocks THEN {} ELSE UNION {Drawn(n, h, 0, ZeroHash) : n \in Node}

Of(n, ss) == {s \in ss : s.owner = n}

Init ==
    /\ chain = [n \in Node |-> Root]
    /\ bch = [n \in Node |-> << >>]
    /\ css = [n \in Node |-> [h \in Height |-> [r \in Round |->
                  IF r = 0 THEN FirstSorts(h) ELSE {}]]]
    /\ myss = [n \in Node |-> [h \in Height |-> [r \in Round |->
                  IF r = 0 THEN Of(n, FirstSorts(h)) ELSE {}]]]
    /\ sent = {} /\ made = {}
    /\ known = [n \in Node |-> {}] /\ blsMp = [n \in Node |-> {}]
    /\ undone = {} /\ failed = {}

\* handleVoterSort: the first batch of an owner is kept.
Keep(kept, ss) == kept \cup {s \in ss : Of(s.owner, kept) = {}}

\* Sorts of the last block's height are late.
HandleVoterSorts(n, h, r, ss) ==
    css' = IF h <= Len(chain[n]) THEN css ELSE [css EXCEPT ![n][h][r] = Keep(@, ss)]

\* sortCommittee: node n drew ss for height h and round r.  Its last draw stays
\* when there is none.
SortCommittee(n, h, r, ss) ==
    /\ myss' = IF ss = {} THEN myss ELSE [myss EXCEPT ![n][h][r] = ss]
    /\ HandleVoterSorts(n, h, r, ss)
    /\ sent' = sent \cup ss
    /\ UNCHANGED <<chain, made, known, blsMp, undone, failed>>

\* handleNewBlock: the sorts of round 0, SortBlocks ahead.
HandleNewBlock(n) ==
    /\ bch[n] # << >>
    /\ bch' = [bch EXCEPT ![n] = Tail(@)]
    /\ LET b == Head(bch[n])
       IN  SortCommittee(n, b.height + SortBlocks, 0, DrawAfter(n, b))

\* The next height timed out.
ReSortition(n, r) ==
    /\ Len(chain[n]) < MaxHeight
    /\ SortCommittee(n, Len(chain[n]) + 1, r, Redraw(n, chain[n], r))
    /\ UNCHANGED bch

\* Another node's sorts arrive.
HandleVoterSort(n, s) ==
    /\ s.owner # n /\ s.height > Len(chain[n])
    /\ HandleVoterSorts(n, s.height, s.round, {s})
    /\ UNCHANGED <<chain, bch, myss, sent, made, known, blsMp, undone, failed>>

\* The nodes whose key a chain has bound.
Bound(c) == (Node \ Binder) \cup UNION {c[i].binds : i \in DOMAIN c}

\* A vote is handled: checkVote caches the binding it asked for.
CheckVote(n, v) ==
    /\ v \in Binder \cap Bound(chain[n])
    /\ blsMp' = [blsMp EXCEPT ![n] = @ \cup {v}]
    /\ UNCHANGED <<chain, bch, myss, css, sent, made, known, undone, failed>>

\* Mutated: only the sort is verified.
VoteOKUnbound(n, v, t) == CheckSort(chain[n], t)

\* checkVote at node n: the voter's key and its sort.
VoteOK(n, v, t) == v \in blsMp[n] \cup Bound(chain[n]) /\ CheckSort(chain[n], t)

\* Node v votes for the sort s: it has both in its committee.
Votes(n, v, s) ==
    LET kept == css[v][s.height][s.round]
    IN  s \in kept /\ \E t \in Of(v, kept) : VoteOK(n, v, t)

\* Node n has block b on its chain, on top of c, and its run loop will handle b;
\* it would draw nothing for a height the bound leaves out.
Connect(n, c, b) ==
    /\ chain' = [chain EXCEPT ![n] = Append(c, b)]
    /\ bch' = IF b.height + SortBlocks > MaxHeight THEN bch
              ELSE [bch EXCEPT ![n] = Append(@, b)]
    /\ known' = [known EXCEPT ![n] = @ \cup {<<c, b>>}]

\* makeBlock0 and setBlock: the candidate n has the votes of V and makes the
\* block, once for a sort; it is executed here before others get it.
MakeBlock(n, s, V) ==
    LET c == chain[n] IN
    /\ s \in css[n][s.height][s.round] \cap myss[n][s.height][s.round]
    /\ s.height = Len(c) + 1
    /\ \A m \in made : m[2].sort # s
    /\ \A v \in V : Votes(n, v, s)
    /\ blsMp' = [blsMp EXCEPT ![n] = @ \cup (V \cap Binder)]
    /\ IF V \subseteq Bound(c)
       THEN \E binds \in SUBSET (Binder \ Bound(c)) :
               LET b == [height |-> s.height, sort |-> s, binds |-> binds]
               IN  /\ Connect(n, c, b)
                   /\ made' = made \cup {<<c, b>>}
                   /\ UNCHANGED failed
       ELSE /\ failed' = failed \cup {n}
            /\ UNCHANGED <<chain, bch, made, known>>
    /\ UNCHANGED <<myss, css, sent, undone>>

\* Mutated: the sort of the block is not checked.
CheckBlockBlind(n, c, b) == TRUE

\* CheckBlock: a node does not check its own blocks.
CheckBlock(n, c, b) == b.sort.owner = n \/ CheckSort(c, b.sort)

\* A block on top of the last one.
AddBlock(n, c, b) ==
    /\ chain[n] = c /\ <<c, b>> \notin known[n]
    /\ CheckBlock(n, c, b)
    /\ Connect(n, c, b)
    /\ UNCHANGED <<myss, css, sent, made, blsMp, undone, failed>>

\* Mutated: a lower block takes the place of the last ones.
ReplaceBlockLower(n, c, b) ==
    /\ IsStrictPrefix(c, chain[n]) /\ <<c, b>> \notin known[n]
    /\ CheckBlock(n, c, b)
    /\ Connect(n, c, b)
    /\ undone' = undone \cup {n}
    /\ UNCHANGED <<myss, css, sent, made, blsMp, failed>>

\* CmpBestBlock: a block that takes the place of the last one.
ReplaceBlock(n, c, b) ==
    /\ Front(chain[n]) = c /\ <<c, b>> \notin known[n]
    /\ CheckBlock(n, c, b)
    /\ Connect(n, c, b)
    /\ undone' = IF Last(chain[n]).binds = {} THEN undone ELSE undone \cup {n}
    /\ UNCHANGED <<myss, css, sent, made, blsMp, failed>>

Next ==
    \/ \E n \in Node :
          \/ HandleNewBlock(n)
          \/ \E r \in Round \ {0} : ReSortition(n, r)
          \/ \E s \in sent : HandleVoterSort(n, s)
          \/ \E v \in Node : CheckVote(n, v)
          \/ \E h \in Height, r \in Round : \E s \in myss[n][h][r], V \in Quorums :
                MakeBlock(n, s, V)
    \/ \E n \in Node, m \in made : AddBlock(n, m[1], m[2]) \/ ReplaceBlock(n, m[1], m[2])

Spec == Init /\ [][Next]_vars
-----------------------------------------------------------------------------
(* Properties *)

\* A chain on which all sorts are drawn from its own blocks.
OwnSeeds(c, i) == CheckSort(SubSeq(c, 1, i - 1), c[i].sort)

\* A block of a redrawn round is valid wherever its parent is: a replaced block
\* makes the sorts of round 0 that were drawn from it void, and their owners cannot
\* replace these, but it does not reach the block that a redraw uses.
RedrawnValid ==
    \A m \in made : m[2].sort.round > 0 => CheckSort(m[1], m[2].sort)

\* A block made with a sort of an abandoned block is on no chain but its maker's.
StaleStaysAlone ==
    \A n \in Node, i \in Height :
        i <= Len(chain[n]) /\ ~OwnSeeds(chain[n], i) => chain[n][i].sort.owner = n

\* The miner transaction fails, which panics, only at a node that took back the
\* block with a voter's binding: the cached binding outlives the contract's.
FailsOnlyUndone == failed \subseteq undone
=============================================================================
