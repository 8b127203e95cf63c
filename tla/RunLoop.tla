-------------------------------- MODULE RunLoop --------------------------------
(***************************************************************************)
(* The run loop of one node: blocks that join the chain are queued for it, *)
(* and for the height after the last block it keeps a timer going that     *)
(* leads from a trial to make the block to a timeout, another drawing of   *)
(* the committee and the next trial (plugin/consensus/pos33/node.go).      *)
(*                                                                         *)
(* Blocks are heights.  What a trial consists of is in module BlockVote,   *)
(* how the committee is voted for in Election.                             *)
(***************************************************************************)
EXTENDS Naturals, Sequences, FiniteSets

CONSTANTS
    QueueSize,   \* capacity of bch
    SortBlocks,  \* Pos33SortBlocks: blocks between drawing sorts and using them
    StartHeights,\* heights of the chain the node may start with
    MaxHeight,   \* bound on the heights
    MaxRound,    \* bound on the rounds
    MaxForks     \* bound on the blocks that are replaced

ASSUME RunLoopAssumption ==
    /\ QueueSize \in Nat \ {0}
    /\ SortBlocks \in Nat \ {0}
    /\ MaxHeight \in Nat /\ MaxRound \in Nat /\ MaxForks \in Nat
    /\ StartHeights \subseteq 0..MaxHeight

VARIABLES
    last,      \* height of the chain, as the framework knows it
    forks,     \* how many blocks were replaced
    events,    \* blocks the client has still to hear of, in their order
    cur,       \* height of the client's current block
    push,      \* the goroutines that run pushBlock
    bch,       \* the queue of blocks for the run loop
    round,     \* round of the run loop
    timers,    \* timers, and heights in tch, nch and cch
    handled,   \* how often the block of a height was handled
    drawn,     \* the heights and rounds the node drew sorts for
    asked,     \* how often voteCommittee ran, by height and round
    tried,     \* the heights and rounds the node tried to make a block in
    overtaken  \* TRUE once the loop took a block while a pusher that had found
               \* the queue full was about to make room in it

vars == <<last, forks, events, cur, push, bch, round, timers, handled, drawn,
          asked, tried, overtaken>>

chain == <<last, forks, events, cur>>
queue == <<push, bch, overtaken>>
loop == <<round, timers, handled, drawn, asked, tried>>

Height == 0..MaxHeight
Round == 0..MaxRound

\* Heights are voted on half of SortBlocks before their turn.
Ahead == SortBlocks \div 2

\* The client hears of blocks one after the other, in one goroutine; a block
\* made in the same second as its parent is pushed later, in another.
Pusher == {"client", "delayed"}

\* A push waits for its delay, looks for room, takes a block out, puts its own.
PushState == {"idle", "wait", "try", "take", "put"}

Idle == [pc |-> "idle", h |-> 0]

\* The stations of a timer for a height; a channel's senders wait for room.
Station == {"nch", "blockTimeout", "tch", "resortTimeout", "cch"}

Event == [kind : {"add", "del"}, h : Height]

\* One more, or one less, timer for height h at a station.
More(T, s, h) == [T EXCEPT ![s][h] = @ + 1]
Less(T, s, h) == [T EXCEPT ![s][h] = @ - 1]
Move(T, s, t, h) == More(Less(T, s, h), t, h)
-----------------------------------------------------------------------------
\* A chain that is new has its first block still to be handled.  On a longer
\* one runLoop adds the last block, which bch may hold already.
Init ==
    /\ last \in StartHeights
    /\ forks = 0 /\ events = << >> /\ cur = last
    /\ push = [p \in Pusher |->
                 IF p = "delayed" /\ last > 0 THEN [pc |-> "wait", h |-> last] ELSE Idle]
    /\ bch \in IF last = 0 THEN {<<0>>} ELSE {<< >>, <<last>>}
    /\ round = 0
    /\ timers = [s \in Station |-> [h \in 0..(MaxHeight + 1) |-> 0]]
    /\ handled = [h \in Height |-> 0]
    /\ asked = [h \in 0..(MaxHeight + Ahead + 1) |-> [r \in Round |-> 0]]
    /\ drawn = {} /\ tried = {}
    /\ overtaken = FALSE
-----------------------------------------------------------------------------
(* The chain and its client *)

\* A block is added to the chain, the node's own or another.
Connect ==
    /\ last < MaxHeight
    /\ last' = last + 1
    /\ events' = Append(events, [kind |-> "add", h |-> last + 1])
    /\ UNCHANGED <<forks, cur>> /\ UNCHANGED queue /\ UNCHANGED loop

\* The last block is replaced by another of its height.
Replace ==
    /\ forks < MaxForks /\ last > 0
    /\ forks' = forks + 1
    /\ events' = events \o <<[kind |-> "del", h |-> last], [kind |-> "add", h |-> last]>>
    /\ UNCHANGED <<last, cur>> /\ UNCHANGED queue /\ UNCHANGED loop

\* The client asks for the last block when one was taken off.
DelBlock ==
    /\ events # << >> /\ Head(events).kind = "del" /\ push["client"].pc = "idle"
    /\ events' = Tail(events)
    /\ cur' = last
    /\ UNCHANGED <<last, forks>> /\ UNCHANGED queue /\ UNCHANGED loop

\* addBlock: push the block, or let a timer do it.
AddBlock(p) ==
    /\ events # << >> /\ Head(events).kind = "add" /\ push["client"].pc = "idle"
    /\ LET h == Head(events).h
       IN  /\ p = "delayed" => push[p].pc = "idle" /\ h > 0
           /\ push' = [push EXCEPT ![p] =
                         [pc |-> IF p = "delayed" THEN "wait" ELSE "try", h |-> h]]
           /\ cur' = h
    /\ events' = Tail(events)
    /\ UNCHANGED <<last, forks, bch, overtaken>> /\ UNCHANGED loop

\* The half second of a delayed push is over.
DelayOver ==
    /\ push["delayed"].pc = "wait"
    /\ push' = [push EXCEPT !["delayed"].pc = "try"]
    /\ UNCHANGED <<bch, overtaken>> /\ UNCHANGED chain /\ UNCHANGED loop
-----------------------------------------------------------------------------
(* pushBlock *)

Room == Len(bch) < QueueSize

\* case n.bch <- b
PushRoom(p) ==
    /\ push[p].pc = "try" /\ Room
    /\ bch' = Append(bch, push[p].h)
    /\ push' = [push EXCEPT ![p] = Idle]
    /\ UNCHANGED overtaken /\ UNCHANGED chain /\ UNCHANGED loop

\* Mutated: a block that finds the queue full is dropped.
PushFullDrops(p) ==
    /\ push[p].pc = "try" /\ ~Room
    /\ push' = [push EXCEPT ![p] = Idle]
    /\ UNCHANGED <<bch, overtaken>> /\ UNCHANGED chain /\ UNCHANGED loop

\* default: the queue is full
PushFull(p) ==
    /\ push[p].pc = "try" /\ ~Room
    /\ push' = [push EXCEPT ![p].pc = "take"]
    /\ UNCHANGED <<bch, overtaken>> /\ UNCHANGED chain /\ UNCHANGED loop

\* <-n.bch
PushTake(p) ==
    /\ push[p].pc = "take" /\ bch # << >>
    /\ bch' = Tail(bch)
    /\ push' = [push EXCEPT ![p].pc = "put"]
    /\ UNCHANGED overtaken /\ UNCHANGED chain /\ UNCHANGED loop

\* n.bch <- b
PushPut(p) ==
    /\ push[p].pc = "put" /\ Room
    /\ bch' = Append(bch, push[p].h)
    /\ push' = [push EXCEPT ![p] = Idle]
    /\ UNCHANGED overtaken /\ UNCHANGED chain /\ UNCHANGED loop

Push(p) == PushRoom(p) \/ PushFull(p) \/ PushTake(p) \/ PushPut(p)
-----------------------------------------------------------------------------
(* The cases of the run loop *)

\* sortition, firstSortition: the heights sorts are drawn for with a block.
DrawnWith(b) == IF b = 0 THEN 0..SortBlocks ELSE {b + SortBlocks}

\* The heights voteCommittee runs for when a block is handled.
VotedWith(b) == IF b = 0 THEN 0..Ahead ELSE {b + Ahead}

\* case b := <-n.bch: handle a block and start the timer of the next.
NewBlock ==
    /\ bch # << >>
    /\ LET b == Head(bch)
       IN  /\ handled' = [handled EXCEPT ![b] = @ + 1]
           /\ drawn' = drawn \cup (DrawnWith(b) \X {0})
           /\ asked' = [h \in DOMAIN asked |->
                          IF h \in VotedWith(b) THEN [asked[h] EXCEPT ![0] = @ + 1]
                          ELSE asked[h]]
           /\ timers' = More(timers, "nch", b + 1)
    /\ bch' = Tail(bch)
    /\ round' = 0
    /\ overtaken' = (overtaken \/ \E p \in Pusher : push[p].pc = "take")
    /\ UNCHANGED <<push, tried>> /\ UNCHANGED chain

\* Mutated: a trial is made, but no timer is started with it.
NchOnce(h) ==
    /\ timers["nch"][h] > 0
    /\ IF cur + 1 = h
       THEN /\ tried' = tried \cup {<<h, round>>}
            /\ timers' = Less(timers, "nch", h)
       ELSE /\ timers' = Less(timers, "nch", h)
            /\ UNCHANGED tried
    /\ UNCHANGED <<round, handled, drawn, asked>> /\ UNCHANGED chain /\ UNCHANGED queue

\* case height := <-nch: try to make the block after the current one.
Nch(h) ==
    /\ timers["nch"][h] > 0
    /\ IF cur + 1 = h
       THEN /\ tried' = tried \cup {<<h, round>>}
            /\ timers' = Move(timers, "nch", "blockTimeout", h)
       ELSE /\ timers' = Less(timers, "nch", h)
            /\ UNCHANGED tried
    /\ UNCHANGED <<round, handled, drawn, asked>> /\ UNCHANGED chain /\ UNCHANGED queue

\* A block from before the parent of h is yet to be pushed or handled.
Overdue(h) ==
    \/ push["delayed"].pc # "idle" /\ push["delayed"].h + 1 < h
    \/ \E i \in DOMAIN bch : bch[i] + 1 < h

\* The three seconds of a trial are over; they outlast the half second that a
\* push may be delayed.
BlockTimeout(h) ==
    /\ timers["blockTimeout"][h] > 0
    /\ ~Overdue(h)
    /\ timers' = IF cur >= h THEN Less(timers, "blockTimeout", h)
                 ELSE Move(timers, "blockTimeout", "tch", h)
    /\ UNCHANGED <<round, handled, drawn, asked, tried>> /\ UNCHANGED chain /\ UNCHANGED queue

\* Mutated: sorts are drawn anew for the first round.
RedrawnFirst(h, r) == IF h >= SortBlocks THEN {<<h, r - 1>>} ELSE {}

\* reSortition: sorts are drawn anew, if there is a block to draw with.
Redrawn(h, r) == IF h >= SortBlocks THEN {<<h, r>>} ELSE {}

\* case height := <-tch: the next round, unless the height has its block.
Tch(h) ==
    /\ timers["tch"][h] > 0
    /\ IF last + 1 = h
       THEN /\ round < MaxRound
            /\ round' = round + 1
            /\ drawn' = drawn \cup Redrawn(h, round + 1)
            /\ timers' = Move(timers, "tch", "resortTimeout", h)
       ELSE /\ timers' = Less(timers, "tch", h)
            /\ UNCHANGED <<round, drawn>>
    /\ UNCHANGED <<handled, asked, tried>> /\ UNCHANGED chain /\ UNCHANGED queue

\* The second for the new sorts is over.  No height grows in the meantime.
ResortTimeout(h) ==
    /\ timers["resortTimeout"][h] > 0
    /\ timers' = IF last >= h THEN Less(timers, "resortTimeout", h)
                 ELSE More(Less(timers, "resortTimeout", h), "cch", last + 1)
    /\ UNCHANGED <<round, handled, drawn, asked, tried>> /\ UNCHANGED chain /\ UNCHANGED queue

\* Mutated: the committee is voted for as it was in the first round.
CchFirst(h) ==
    /\ timers["cch"][h] > 0
    /\ asked' = [asked EXCEPT ![h][0] = @ + 1]
    /\ timers' = Move(timers, "cch", "nch", h)
    /\ UNCHANGED <<round, handled, drawn, tried>> /\ UNCHANGED chain /\ UNCHANGED queue

\* case height := <-cch: vote on the committee of the round, then try again.
Cch(h) ==
    /\ timers["cch"][h] > 0
    /\ asked' = [asked EXCEPT ![h][round] = @ + 1]
    /\ timers' = Move(timers, "cch", "nch", h)
    /\ UNCHANGED <<round, handled, drawn, tried>> /\ UNCHANGED chain /\ UNCHANGED queue

Timer(h) == Nch(h) \/ BlockTimeout(h) \/ Tch(h) \/ ResortTimeout(h) \/ Cch(h)
-----------------------------------------------------------------------------
Next ==
    \/ Connect
    \/ Replace
    \/ DelBlock
    \/ \E p \in Pusher : AddBlock(p)
    \/ DelayOver
    \/ \E p \in Pusher : Push(p)
    \/ NewBlock
    \/ \E h \in 1..(MaxHeight + 1) : Timer(h)

Spec == Init /\ [][Next]_vars

\* Goroutines that can run do, timers fire, and select takes every channel that
\* has something in it some time.
FairSpec ==
    /\ Spec
    /\ WF_vars(DelBlock)
    /\ WF_vars(AddBlock("client") \/ AddBlock("delayed"))
    /\ WF_vars(DelayOver)
    /\ \A p \in Pusher : WF_vars(Push(p))
    /\ WF_vars(NewBlock)
    /\ \A h \in 1..(MaxHeight + 1) : WF_vars(Timer(h))
-----------------------------------------------------------------------------
(* Properties *)

\* Types.  A channel of pushBlock never holds more than its capacity.
TypeOK ==
    /\ last \in Height /\ cur \in Height
    /\ forks \in 0..MaxForks
    /\ events \in Seq(Event)
    /\ push \in [Pusher -> [pc : PushState, h : Height]]
    /\ bch \in Seq(Height) /\ Len(bch) <= QueueSize
    /\ round \in Round
    /\ timers \in [Station -> [0..(MaxHeight + 1) -> Nat]]
    /\ handled \in [Height -> Nat]
    /\ drawn \subseteq (0..(MaxHeight + SortBlocks)) \X Round
    /\ asked \in [0..(MaxHeight + Ahead + 1) -> [Round -> Nat]]
    /\ tried \subseteq (0..(MaxHeight + 1)) \X Round
    /\ overtaken \in BOOLEAN

\* Every block of the chain has been announced and pushed.
Settled ==
    /\ events = << >> /\ bch = << >>
    /\ \A p \in Pusher : push[p] = Idle

\* However blocks are delayed, overtake each other, are dropped from the full
\* queue or replaced: when none is left to be handled, a timer is going for the
\* height that comes next, so the node will try to make it.  Only if the loop
\* emptied the queue while pushBlock was about to can the last block be lost.
NextBlockTried ==
    Settled /\ ~overtaken => \E s \in Station : timers[s][last + 1] > 0

\* A block was handled again: after it was replaced, or as the last block of a
\* chain that runLoop found and the client had announced as well.
Repeated == \E h \in Height : handled[h] > 1

\* Otherwise a node votes once for the committee of a height that is still to
\* come and a round, though timers use the round of the loop when they arrive,
\* not the one they were started in (handleCommittee counts each ballot).
AskedOnce ==
    ~Repeated => \A h \in (cur + 1)..(MaxHeight + 1), r \in Round : asked[h][r] <= 1

\* Nor is a round skipped: a block is tried in a later round only after the one
\* before, with the committee of that round voted for and, once there is a block
\* to draw with, with sorts drawn for it.
TriedInOrder ==
    ~Repeated =>
        \A t \in tried : t[2] > 0 =>
            /\ <<t[1], t[2] - 1>> \in tried
            /\ asked[t[1]][t[2]] > 0
            /\ t[1] >= SortBlocks => t \in drawn

\* If no block comes, the rounds go on: no goroutine waits for ever, and no
\* timer is lost, unless the loop emptied the queue under pushBlock.
RoundsGoOn == <>(overtaken \/ round = MaxRound)
=============================================================================
