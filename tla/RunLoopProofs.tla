---------------------------- MODULE RunLoopProofs ----------------------------
(***************************************************************************)
(* The run loop loses no height and takes the rounds of a height in order, *)
(* for any chain, number of replaced blocks and rounds: proofs about       *)
(* RunLoop.  For the first the queue must hold two blocks, for in a queue  *)
(* of one a late push of an old block takes out the last one.              *)
(***************************************************************************)
EXTENDS RunLoop, TLAPS

\* The other goroutine that pushes.
Other(p) == IF p = "client" THEN "delayed" ELSE "client"

Types ==
    /\ last \in Height /\ cur \in Height
    /\ events \in Seq(Event)
    /\ push \in [Pusher -> [pc : PushState, h : Height]]
    /\ bch \in Seq(Height)
    /\ timers \in [Station -> [0..(MaxHeight + 1) -> Nat]]
    /\ overtaken \in BOOLEAN

\* The last announcement is that of the last block, which is the current one
\* when all have been heard.
Announced ==
    /\ events # << >> => events[Len(events)] = [kind |-> "add", h |-> last]
    /\ events = << >> => cur = last

\* A pusher that is about to make room finds the queue full, but for what the
\* other one has taken out and not put in yet.
StillFull ==
    ~overtaken =>
        \A p \in Pusher :
            push[p].pc = "take" =>
                Len(bch) >= QueueSize - (IF push[Other(p)].pc = "put" THEN 1 ELSE 0)

Holds(p) == push[p].pc # "idle" /\ push[p].h = last

\* When all blocks were heard of, only one pusher has an older one.
OneBehind ==
    events = << >> => (\E p \in Pusher : Holds(p)) \/ \E p \in Pusher : push[p].pc = "idle"

Going == \E s \in Station : timers[s][last + 1] > 0

\* Where the last block is: announced, held by a pusher, at the end of the queue
\* or, if nobody pushes, somewhere in it; or the timer of the next is going.
Located ==
    \/ overtaken
    \/ events # << >>
    \/ \E p \in Pusher : Holds(p)
    \/ bch # << >> /\ bch[Len(bch)] = last
    \/ (\A p \in Pusher : push[p].pc = "idle") /\ \E i \in 1..Len(bch) : bch[i] = last
    \/ Going

\* The inductive invariant.
Inv == Types /\ Announced /\ StillFull /\ OneBehind /\ Located

-----------------------------------------------------------------------------
(* Queues *)

LEMMA TailOf ==
    ASSUME NEW S, NEW s \in Seq(S), s # << >>
    PROVE  /\ Head(s) = s[1] /\ Head(s) \in S
           /\ Tail(s) \in Seq(S) /\ Len(s) \in Nat \ {0} /\ Len(Tail(s)) = Len(s) - 1
           /\ \A i \in 1..(Len(s) - 1) : Tail(s)[i] = s[i + 1]
           /\ Len(s) > 1 => Tail(s) # << >> /\ Tail(s)[Len(Tail(s))] = s[Len(s)]
<1>1. Len(s) \in Nat \ {0} /\ Head(s) = s[1] /\ s[1] \in S
  OBVIOUS
<1>2. /\ Tail(s) \in Seq(S) /\ Len(Tail(s)) = Len(s) - 1
      /\ \A i \in 1..(Len(s) - 1) : Tail(s)[i] = s[i + 1]
  OBVIOUS
<1>3. Len(s) > 1 => Tail(s)[Len(Tail(s))] = s[Len(s)]
  <2> SUFFICES ASSUME Len(s) > 1 PROVE Tail(s)[Len(s) - 1] = s[Len(s)]
    BY <1>2
  <2>1. Len(s) - 1 \in 1..(Len(s) - 1) /\ (Len(s) - 1) + 1 = Len(s)
    BY <1>1
  <2> QED
    BY <1>2, <2>1
<1>4. Len(s) > 1 => Tail(s) # << >>
  <2> SUFFICES ASSUME Len(s) > 1, Tail(s) = << >> PROVE FALSE
    OBVIOUS
  <2>1. Len(Tail(s)) = 0
    OBVIOUS
  <2>2. \A n \in Nat \ {0} : n > 1 => n - 1 # 0
    OBVIOUS
  <2>3. Len(s) - 1 # 0
    BY <1>1, <2>2
  <2> QED
    BY <1>2, <2>1, <2>3, Zenon
<1> QED
  BY <1>1, <1>2, <1>3, <1>4

LEMMA AppendOf ==
    ASSUME NEW S, NEW s \in Seq(S), NEW e \in S
    PROVE  /\ Append(s, e) \in Seq(S) /\ Len(s) \in Nat /\ Len(Append(s, e)) = Len(s) + 1
           /\ \A i \in 1..Len(s) : Append(s, e)[i] = s[i]
           /\ Append(s, e)[Len(Append(s, e))] = e /\ Append(s, e) # << >>
OBVIOUS
-----------------------------------------------------------------------------
LEMMA InitInv == Init => Inv
<1> SUFFICES ASSUME Init PROVE Inv
  OBVIOUS
<1>1. last \in Height /\ cur = last /\ events = << >> /\ overtaken = FALSE
  BY RunLoopAssumption DEF Init, Height
<1>2. bch \in Seq(Height) /\ push \in [Pusher -> [pc : PushState, h : Height]]
  <2>1. Idle \in [pc : PushState, h : Height]
    BY RunLoopAssumption DEF Idle, PushState, Height
  <2>2. [pc |-> "wait", h |-> last] \in [pc : PushState, h : Height]
    BY <1>1 DEF PushState
  <2>3. <<0>> \in Seq(Height) /\ << >> \in Seq(Height) /\ <<last>> \in Seq(Height)
    BY <1>1, RunLoopAssumption DEF Height
  <2> QED
    BY <1>1, <2>1, <2>2, <2>3 DEF Init
<1>3. timers \in [Station -> [0..(MaxHeight + 1) -> Nat]]
  BY DEF Init
<1>4. \A p \in Pusher : push[p].pc # "take" /\ (p = "client" => push[p].pc = "idle")
  BY DEF Init, Idle, Pusher
<1>5. Types
  <2>1. << >> \in Seq(Event)
    OBVIOUS
  <2> QED
    BY <1>1, <1>2, <1>3, <2>1 DEF Types
<1>6. Announced /\ StillFull
  BY <1>1, <1>4 DEF Announced, StillFull
<1>7. OneBehind
  BY <1>4 DEF OneBehind, Pusher
<1>8. Located
  <2>1. CASE last = 0
    <3>1. bch = <<last>>
      BY <2>1 DEF Init
    <3> QED
      BY <3>1 DEF Located
  <2>2. CASE last > 0
    <3>1. Holds("delayed")
      BY <2>2 DEF Init, Holds, Pusher
    <3> QED
      BY <3>1 DEF Located, Pusher
  <2> QED
    BY <1>1, <2>1, <2>2, RunLoopAssumption DEF Height
<1> QED
  BY <1>5, <1>6, <1>7, <1>8 DEF Inv
-----------------------------------------------------------------------------
(* The chain and its client *)

LEMMA ConnectInv ==
    ASSUME Inv, Connect \/ Replace
    PROVE  Inv'
<1> DEFINE del == [kind |-> "del", h |-> last]
           add == [kind |-> "add", h |-> last']
<1>1. /\ last \in Nat /\ last' \in Height /\ del \in Event /\ add \in Event
      /\ UNCHANGED <<cur, push, bch, overtaken, timers>>
  BY RunLoopAssumption DEF Connect, Replace, Inv, Types, Height, Event, queue, loop
<1>2. events' = Append(events, add) \/ events' = events \o <<del, add>>
  BY DEF Connect, Replace
<1> HIDE DEF del, add
<1>3. /\ events' \in Seq(Event) /\ events' # << >> /\ events'[Len(events')] = add
  <2>1. CASE events' = Append(events, add)
    BY <1>1, <2>1, AppendOf DEF Inv, Types
  <2>2. CASE events' = events \o <<del, add>>
    <3>1. events \in Seq(Event) /\ Append(events, del) \in Seq(Event)
      BY <1>1, AppendOf DEF Inv, Types
    <3>2. events \o <<del, add>> = Append(Append(events, del), add)
      BY <1>1, <3>1
    <3> QED
      BY <1>1, <2>2, <3>1, <3>2, AppendOf
  <2> QED
    BY <1>2, <2>1, <2>2
<1> QED
  BY <1>1, <1>3 DEF Inv, Types, Announced, StillFull, OneBehind, Located, add

LEMMA DelBlockInv ==
    ASSUME Inv, DelBlock
    PROVE  Inv'
<1>1. /\ events # << >> /\ Head(events).kind = "del" /\ events' = Tail(events) /\ cur' = last
      /\ UNCHANGED <<last, push, bch, overtaken, timers>>
  BY DEF DelBlock, queue, loop
<1>2. events \in Seq(Event) /\ Len(events) \in Nat \ {0} /\ Head(events) = events[1]
  BY <1>1, TailOf DEF Inv, Types
<1>3. Len(events) # 1
  BY <1>1, <1>2 DEF Inv, Announced
<1>4. /\ events' \in Seq(Event)
      /\ events'[Len(events')] = events[Len(events)] /\ events' # << >>
  <2>1. \A k \in Nat \ {0} : k # 1 => k > 1
    OBVIOUS
  <2>2. Len(events) > 1
    BY <1>2, <1>3, <2>1
  <2> QED
    BY <1>1, <1>2, <2>2, TailOf DEF Inv, Types
<1> QED
  BY <1>1, <1>4 DEF Inv, Types, Announced, StillFull, OneBehind, Located

LEMMA AddBlockInv ==
    ASSUME Inv, NEW p \in Pusher, AddBlock(p)
    PROVE  Inv'
<1> DEFINE h == Head(events).h
           pc == IF p = "delayed" THEN "wait" ELSE "try"
<1>1. /\ events # << >> /\ Head(events).kind = "add" /\ events' = Tail(events) /\ cur' = h
      /\ push["client"].pc = "idle" /\ (p = "delayed" => push[p].pc = "idle")
      /\ push' = [push EXCEPT ![p] = [pc |-> pc, h |-> h]]
      /\ UNCHANGED <<last, bch, overtaken, timers>>
  BY DEF AddBlock, loop
<1>2. /\ events \in Seq(Event) /\ Len(events) \in Nat /\ Len(events) >= 1
      /\ Head(events) = events[1] /\ Head(events) \in Event
  BY <1>1 DEF Inv, Types
<1>3. /\ events' \in Seq(Event) /\ Len(events') = Len(events) - 1
      /\ events' # << >> => events'[Len(events')] = events[Len(events)]
      /\ events' = << >> => h = last
  BY <1>1, <1>2 DEF Inv, Announced
<1>4. push[p].pc = "idle" /\ pc \in {"wait", "try"} /\ h \in Height
  BY <1>1, <1>2 DEF Pusher, Event
<1> HIDE DEF h, pc
<1>5. /\ push' \in [Pusher -> [pc : PushState, h : Height]]
      /\ push'[p].pc = pc /\ push'[p].h = h
      /\ \A q \in Pusher : q # p => push'[q] = push[q]
  BY <1>1, <1>4 DEF Inv, Types, PushState
<1>6. Types' /\ Announced'
  BY <1>1, <1>3, <1>4, <1>5 DEF Inv, Types, Announced
<1>7. StillFull'
  BY <1>1, <1>4, <1>5 DEF Inv, StillFull, Other, Pusher
<1>8. events' = << >> => Holds(p)'
  BY <1>1, <1>3, <1>4, <1>5 DEF Holds
<1> QED
  BY <1>6, <1>7, <1>8 DEF Inv, OneBehind, Located
-----------------------------------------------------------------------------
(* pushBlock *)

\* What a step of pusher p leaves alone.
LEMMA PushFrame ==
    ASSUME NEW p \in Pusher,
           DelayOver \/ PushRoom(p) \/ PushFull(p) \/ PushTake(p) \/ PushPut(p)
    PROVE  UNCHANGED <<last, events, cur, timers, overtaken>>
BY DEF DelayOver, PushRoom, PushFull, PushTake, PushPut, chain, loop

\* The delay ends, or the queue is found full.
LEMMA PushWaitInv ==
    ASSUME Inv, NEW p \in Pusher, (DelayOver /\ p = "delayed") \/ PushFull(p)
    PROVE  Inv'
<1> DEFINE pc == IF push[p].pc = "wait" THEN "try" ELSE "take"
<1>1. UNCHANGED <<last, events, cur, timers, overtaken>>
  BY PushFrame
<1>2. /\ bch' = bch /\ push' = [push EXCEPT ![p].pc = pc] /\ push[p].pc \in {"wait", "try"}
      /\ pc = "take" => Len(bch) >= QueueSize
  BY RunLoopAssumption DEF DelayOver, PushFull, Room, Inv, Types
<1>3. pc \in {"try", "take"}
  OBVIOUS
<1> HIDE DEF pc
<1>4. /\ push' \in [Pusher -> [pc : PushState, h : Height]]
      /\ push'[p].pc = pc /\ push'[p].h = push[p].h
      /\ \A q \in Pusher : q # p => push'[q] = push[q]
  BY <1>2, <1>3 DEF Inv, Types, PushState
<1>5. \A q \in Pusher : (push'[q].pc = "idle" <=> push[q].pc = "idle") /\ push'[q].h = push[q].h
                        /\ (push'[q].pc = "put" <=> push[q].pc = "put")
  BY <1>2, <1>3, <1>4
<1>6. Types' /\ Announced'
  BY <1>1, <1>2, <1>4 DEF Inv, Types, Announced
<1>7. StillFull'
  <2> SUFFICES ASSUME ~overtaken, NEW q \in Pusher, push'[q].pc = "take"
               PROVE  Len(bch) >= QueueSize - (IF push'[Other(q)].pc = "put" THEN 1 ELSE 0)
    BY <1>1, <1>2 DEF StillFull
  <2>1. Other(q) \in Pusher
    BY DEF Other, Pusher
  <2>2. Len(bch) \in Nat /\ QueueSize \in Nat
    BY RunLoopAssumption DEF Inv, Types
  <2> QED
    BY <1>2, <1>4, <1>5, <2>1, <2>2 DEF Inv, StillFull
<1>8. OneBehind' /\ Located'
  BY <1>1, <1>2, <1>5 DEF Inv, OneBehind, Located, Holds, Going
<1> QED
  BY <1>6, <1>7, <1>8 DEF Inv

\* A pusher puts its block at the end, there being room.
LEMMA PushInInv ==
    ASSUME Inv, NEW p \in Pusher, PushRoom(p) \/ PushPut(p)
    PROVE  Inv'
<1> DEFINE q == Other(p)
           h == push[p].h
<1>1. UNCHANGED <<last, events, cur, timers, overtaken>>
  BY PushFrame
<1>2. /\ push[p].pc \in {"try", "put"} /\ bch' = Append(bch, h)
      /\ push' = [push EXCEPT ![p] = Idle]
  BY DEF PushRoom, PushPut
<1>3. /\ q \in Pusher /\ q # p /\ Other(q) = p
      /\ \A r \in Pusher : r = p \/ r = q
  BY DEF Other, Pusher
<1> HIDE DEF q
<1>4. Idle \in [pc : PushState, h : Height] /\ Idle.pc = "idle"
  BY RunLoopAssumption DEF Idle, PushState, Height
<1>5. /\ push' \in [Pusher -> [pc : PushState, h : Height]]
      /\ push'[p].pc = "idle" /\ push'[q] = push[q] /\ h \in Height
  BY <1>2, <1>3, <1>4 DEF Inv, Types
<1> HIDE DEF h
<1>6. /\ bch' \in Seq(Height) /\ Len(bch) \in Nat /\ Len(bch') = Len(bch) + 1
      /\ \A i \in 1..Len(bch) : bch'[i] = bch[i]
      /\ bch'[Len(bch')] = h /\ bch' # << >>
  BY <1>2, <1>5, AppendOf DEF Inv, Types
<1>7. Types' /\ Announced'
  BY <1>1, <1>5, <1>6 DEF Inv, Types, Announced
<1>8. StillFull'
  <2> SUFFICES ASSUME ~overtaken, push[q].pc = "take" PROVE Len(bch') >= QueueSize
    BY <1>1, <1>3, <1>5, <1>6, RunLoopAssumption DEF StillFull
  <2>1. Len(bch) >= QueueSize - 1 \/ Len(bch) >= QueueSize
    BY <1>3, RunLoopAssumption DEF Inv, StillFull
  <2> QED
    BY <1>6, <2>1, RunLoopAssumption
<1>9. OneBehind'
  BY <1>5 DEF OneBehind
<1>10. Located'
  <2>1. CASE overtaken \/ events # << >> \/ Going
    BY <1>1, <2>1 DEF Located, Going
  <2>2. CASE Holds(q)
    BY <1>1, <1>3, <1>5, <2>2 DEF Located, Holds
  <2>3. CASE Holds(p)
    BY <1>1, <1>6, <2>3 DEF Located, Holds, h
  <2>4. CASE events = << >> /\ ~Holds(p) /\ ~Holds(q) /\ bch # << >> /\ bch[Len(bch)] = last
    <3>1. push'[q].pc = "idle" /\ \A r \in Pusher : push'[r].pc = "idle"
      BY <1>2, <1>3, <1>5, <2>4 DEF Inv, OneBehind
    <3>2. Len(bch) \in 1..Len(bch) /\ Len(bch) \in 1..Len(bch')
      BY <1>6, <2>4
    <3> QED
      BY <1>1, <1>6, <2>4, <3>1, <3>2 DEF Located
  <2> QED
    BY <1>2, <1>3, <2>1, <2>2, <2>3, <2>4 DEF Inv, Located
<1> QED
  BY <1>7, <1>8, <1>9, <1>10 DEF Inv

\* A pusher takes out the oldest block: not the last one, if that is at the end
\* and nobody else pushes, for the queue is full.
LEMMA PushTakeInv ==
    ASSUME QueueSize > 1, Inv, NEW p \in Pusher, PushTake(p)
    PROVE  Inv'
<1> DEFINE q == Other(p)
<1>1. UNCHANGED <<last, events, cur, timers, overtaken>>
  BY PushFrame
<1>2. /\ push[p].pc = "take" /\ bch # << >> /\ bch' = Tail(bch)
      /\ push' = [push EXCEPT ![p].pc = "put"]
  BY DEF PushTake
<1>3. /\ q \in Pusher /\ q # p /\ Other(q) = p
      /\ \A r \in Pusher : r = p \/ r = q
  BY DEF Other, Pusher
<1> HIDE DEF q
<1>4. /\ push' \in [Pusher -> [pc : PushState, h : Height]]
      /\ push'[p].pc = "put" /\ push'[p].h = push[p].h /\ push'[q] = push[q]
  BY <1>2, <1>3 DEF Inv, Types, PushState
<1>5. /\ bch' \in Seq(Height) /\ Len(bch) \in Nat /\ Len(bch') = Len(bch) - 1
      /\ Len(bch) > 1 => bch'[Len(bch')] = bch[Len(bch)] /\ bch' # << >>
  <2>1. bch \in Seq(Height) /\ Len(bch) \in Nat \ {0} /\ Len(bch') = Len(bch) - 1
    BY <1>2, TailOf DEF Inv, Types
  <2> QED
    BY <1>2, <2>1, TailOf
<1>6. Types' /\ Announced'
  BY <1>1, <1>4, <1>5 DEF Inv, Types, Announced
<1>7. StillFull'
  <2> SUFFICES ASSUME ~overtaken, push[q].pc = "take" PROVE Len(bch') >= QueueSize - 1
    BY <1>1, <1>3, <1>4 DEF StillFull
  <2>1. Len(bch) >= QueueSize
    BY <1>2, <1>3, RunLoopAssumption DEF Inv, StillFull
  <2> QED
    BY <1>5, <2>1, RunLoopAssumption
<1>8. OneBehind'
  BY <1>1, <1>2, <1>3, <1>4 DEF Inv, OneBehind, Holds
<1>9. Located'
  <2>1. CASE overtaken \/ events # << >> \/ Going
    BY <1>1, <2>1 DEF Located, Going
  <2>2. CASE \E r \in Pusher : Holds(r)
    BY <1>1, <1>3, <1>4, <2>2 DEF Located, Holds
  <2>3. CASE /\ ~overtaken /\ events = << >> /\ \A r \in Pusher : ~Holds(r)
             /\ bch # << >> /\ bch[Len(bch)] = last
    <3>1. push[q].pc = "idle"
      BY <1>2, <1>3, <2>3 DEF Inv, OneBehind
    <3>2. push[Other(p)].pc # "put"
      BY <1>3, <3>1 DEF q
    <3>3. Len(bch) >= QueueSize
      <4>1. QueueSize - 0 = QueueSize
        BY RunLoopAssumption
      <4> QED
        BY <1>2, <2>3, <3>2, <4>1 DEF Inv, StillFull
    <3>4. Len(bch) > 1
      BY <1>5, <3>3, RunLoopAssumption
    <3> QED
      BY <1>1, <1>5, <2>3, <3>4 DEF Located
  <2> QED
    BY <1>2, <2>1, <2>2, <2>3 DEF Inv, Located
<1> QED
  BY <1>6, <1>7, <1>8, <1>9 DEF Inv
-----------------------------------------------------------------------------
(* The cases of the run loop *)

\* What one more timer, or one less, leaves.
LEMMA TimerOf ==
    ASSUME NEW T \in [Station -> [0..(MaxHeight + 1) -> Nat]],
           NEW s \in Station, NEW h \in 0..(MaxHeight + 1)
    PROVE  /\ More(T, s, h) \in [Station -> [0..(MaxHeight + 1) -> Nat]]
           /\ More(T, s, h)[s][h] > 0
           /\ \A t \in Station, k \in 0..(MaxHeight + 1) :
                 T[t][k] > 0 => More(T, s, h)[t][k] > 0
           /\ T[s][h] > 0 =>
                 /\ Less(T, s, h) \in [Station -> [0..(MaxHeight + 1) -> Nat]]
                 /\ \A t \in Station, k \in 0..(MaxHeight + 1) :
                       k # h => Less(T, s, h)[t][k] = T[t][k]
<1> DEFINE F == [0..(MaxHeight + 1) -> Nat]
           U == [T EXCEPT ![s] = [T[s] EXCEPT ![h] = T[s][h] + 1]]
           V == [T EXCEPT ![s] = [T[s] EXCEPT ![h] = T[s][h] - 1]]
<1>1. T[s] \in F /\ T[s][h] \in Nat
  OBVIOUS
<1>2. More(T, s, h) = U /\ Less(T, s, h) = V
  BY DEF More, Less
<1>3. [T[s] EXCEPT ![h] = T[s][h] + 1] \in F
  BY <1>1
<1>4. U \in [Station -> F]
  BY <1>3
<1>5. /\ U[s] = [T[s] EXCEPT ![h] = T[s][h] + 1]
      /\ \A t \in Station : t # s => U[t] = T[t]
  OBVIOUS
<1>6. U[s][h] > 0
  BY <1>1, <1>5
<1>7. ASSUME NEW t \in Station, NEW k \in 0..(MaxHeight + 1), T[t][k] > 0
      PROVE  U[t][k] > 0
  <2>1. CASE t = s /\ k = h
    BY <1>6, <2>1
  <2>2. CASE t = s /\ k # h
    <3>1. [T[s] EXCEPT ![h] = T[s][h] + 1][k] = T[s][k]
      BY <2>2
    <3> QED
      BY <1>5, <1>7, <2>2, <3>1
  <2>3. CASE t # s
    BY <1>5, <1>7, <2>3
  <2> QED
    BY <2>1, <2>2, <2>3
<1>8. ASSUME T[s][h] > 0
      PROVE  /\ V \in [Station -> F]
             /\ \A t \in Station, k \in 0..(MaxHeight + 1) : k # h => V[t][k] = T[t][k]
  <2>1. T[s][h] - 1 \in Nat
    BY <1>1, <1>8
  <2>2. [T[s] EXCEPT ![h] = T[s][h] - 1] \in F
    BY <1>1, <2>1
  <2> QED
    BY <1>1, <2>2
<1> HIDE DEF U, V
<1> QED
  BY <1>2, <1>4, <1>6, <1>7, <1>8

LEMMA NewBlockInv ==
    ASSUME Inv, NewBlock
    PROVE  Inv'
<1> DEFINE b == Head(bch)
<1>1. /\ bch # << >> /\ bch' = Tail(bch) /\ timers' = More(timers, "nch", b + 1)
      /\ overtaken' = (overtaken \/ \E p \in Pusher : push[p].pc = "take")
      /\ UNCHANGED <<push, last, events, cur>>
  BY DEF NewBlock, chain
<1>2. /\ b = bch[1] /\ b \in Height /\ bch' \in Seq(Height)
      /\ Len(bch) \in Nat \ {0} /\ Len(bch') = Len(bch) - 1
      /\ \A i \in 1..(Len(bch) - 1) : bch'[i] = bch[i + 1]
  BY <1>1, TailOf DEF Inv, Types
<1> HIDE DEF b
<1>3. /\ b + 1 \in 0..(MaxHeight + 1) /\ last + 1 \in 0..(MaxHeight + 1)
      /\ last \in Nat /\ b \in Nat /\ "nch" \in Station
  <2>1. last \in 0..MaxHeight /\ b \in 0..MaxHeight /\ MaxHeight \in Nat
    BY <1>2, RunLoopAssumption DEF Inv, Types, Height
  <2>2. \A x \in 0..MaxHeight : x + 1 \in 0..(MaxHeight + 1) /\ x \in Nat
    BY <2>1
  <2> QED
    BY <2>1, <2>2 DEF Station
<1>4. /\ timers' \in [Station -> [0..(MaxHeight + 1) -> Nat]]
      /\ timers'["nch"][b + 1] > 0
      /\ Going => Going'
  <2>1. timers \in [Station -> [0..(MaxHeight + 1) -> Nat]]
    BY DEF Inv, Types
  <2> QED
    BY <1>1, <1>3, <2>1, TimerOf DEF Going
<1>5. Types' /\ Announced' /\ OneBehind'
  <2>1. overtaken' \in BOOLEAN
    BY <1>1
  <2> QED
    BY <1>1, <1>2, <1>4, <2>1 DEF Inv, Types, Announced, OneBehind, Holds
<1>6. StillFull'
  BY <1>1 DEF StillFull
<1>7. b = last => Going'
  BY <1>1, <1>3, <1>4 DEF Going
<1>8. Located'
  <2>1. CASE overtaken \/ events # << >> \/ Going \/ \E p \in Pusher : Holds(p)
    BY <1>1, <1>4, <2>1 DEF Located, Holds
  <2>2. CASE bch[Len(bch)] = last
    <3>1. CASE Len(bch) = 1
      BY <1>2, <1>7, <2>2, <3>1 DEF Located
    <3>2. CASE Len(bch) # 1
      <4>1. Len(bch) - 1 \in 1..(Len(bch) - 1)
        BY <1>2, <3>2
      <4>2. bch' # << >> /\ bch'[Len(bch')] = last
        BY <1>2, <2>2, <4>1
      <4> QED
        BY <1>1, <4>2 DEF Located
    <3> QED
      BY <3>1, <3>2
  <2>3. ASSUME \A p \in Pusher : push[p].pc = "idle", NEW i \in 1..Len(bch), bch[i] = last
        PROVE  Located'
    <3>1. CASE i = 1
      BY <1>2, <1>7, <2>3, <3>1 DEF Located
    <3>2. CASE i # 1
      <4>1. i - 1 \in 1..(Len(bch) - 1) /\ (i - 1) + 1 = i
        BY <1>2, <3>2
      <4>2. i - 1 \in 1..Len(bch') /\ bch'[i - 1] = last
        BY <1>2, <2>3, <4>1
      <4> QED
        BY <1>1, <2>3, <4>2 DEF Located
    <3> QED
      BY <3>1, <3>2
  <2> QED
    BY <2>1, <2>2, <2>3 DEF Inv, Located
<1> QED
  BY <1>5, <1>6, <1>8 DEF Inv

\* A timer that is not for the height that comes next may stop; the other goes
\* on to another station, for the client has heard of all blocks.
LEMMA TimerInv ==
    ASSUME Inv, NEW h \in 1..(MaxHeight + 1), Timer(h)
    PROVE  Inv'
<1> DEFINE T == [Station -> [0..(MaxHeight + 1) -> Nat]]
<1>1. UNCHANGED <<last, events, cur, push, bch, overtaken>>
  BY DEF Timer, Nch, BlockTimeout, Tch, ResortTimeout, Cch, chain, queue
<1>2. /\ h \in 0..(MaxHeight + 1) /\ last + 1 \in 0..(MaxHeight + 1)
      /\ last \in Nat /\ h \in Nat /\ cur \in Nat /\ timers \in T
  BY RunLoopAssumption DEF Inv, Types, Height
<1>3. Station = {"nch", "blockTimeout", "tch", "resortTimeout", "cch"}
  BY DEF Station
<1>4. PICK s \in Station, t \in Station, k \in {h, last + 1} :
        /\ timers[s][h] > 0
        /\ \/ timers' = More(Less(timers, s, h), t, k)
           \/ timers' = Less(timers, s, h) /\ (events = << >> => h # last + 1)
  <2>1. CASE Nch(h)
    BY <1>2, <1>3, <2>1 DEF Nch, Move, Inv, Announced
  <2>2. CASE BlockTimeout(h)
    BY <1>2, <1>3, <2>2 DEF BlockTimeout, Move, Inv, Announced
  <2>3. CASE Tch(h)
    BY <1>2, <1>3, <2>3 DEF Tch, Move
  <2>4. CASE ResortTimeout(h)
    BY <1>2, <1>3, <2>4 DEF ResortTimeout
  <2>5. CASE Cch(h)
    BY <1>2, <1>3, <2>5 DEF Cch, Move
  <2> QED
    BY <2>1, <2>2, <2>3, <2>4, <2>5 DEF Timer
<1> DEFINE L == Less(timers, s, h)
<1>5. /\ L \in T
      /\ \A u \in Station : h # last + 1 => L[u][last + 1] = timers[u][last + 1]
  BY <1>2, <1>4, TimerOf
<1>6. k \in 0..(MaxHeight + 1)
  BY <1>2
<1>7. /\ More(L, t, k) \in T /\ More(L, t, k)[t][k] > 0
      /\ \A u \in Station : L[u][last + 1] > 0 => More(L, t, k)[u][last + 1] > 0
  <2> HIDE DEF L
  <2> QED
    BY <1>2, <1>5, <1>6, TimerOf
<1>8. timers' = More(L, t, k) \/ (timers' = L /\ (events = << >> => h # last + 1))
  BY <1>4
<1> HIDE DEF T, L
<1>9. timers' \in T
  BY <1>5, <1>7, <1>8
<1>10. events = << >> /\ Going => Going'
  <2> SUFFICES ASSUME events = << >>, Going PROVE \E u \in Station : timers'[u][last + 1] > 0
    BY <1>1 DEF Going
  <2>1. CASE h = last + 1
    BY <1>7, <1>8, <2>1
  <2>2. CASE h # last + 1
    <3>1. PICK u \in Station : L[u][last + 1] > 0
      BY <1>5, <2>2 DEF Going
    <3> QED
      BY <1>7, <1>8, <3>1
  <2> QED
    BY <2>1, <2>2
<1> QED
  BY <1>1, <1>9, <1>10 DEF T, Inv, Types, Announced, StillFull, OneBehind, Located, Holds
-----------------------------------------------------------------------------
LEMMA StepInv ==
    ASSUME QueueSize > 1, Inv, [Next]_vars
    PROVE  Inv'
<1>1. CASE Connect \/ Replace
  BY <1>1, ConnectInv
<1>2. CASE DelBlock
  BY <1>2, DelBlockInv
<1>3. CASE \E p \in Pusher : AddBlock(p)
  BY <1>3, AddBlockInv
<1>4. CASE DelayOver
  BY <1>4, PushWaitInv DEF Pusher
<1>5. ASSUME NEW p \in Pusher, Push(p)
      PROVE  Inv'
  BY <1>5, PushWaitInv, PushInInv, PushTakeInv DEF Push
<1>6. CASE NewBlock
  BY <1>6, NewBlockInv
<1>7. CASE \E h \in 1..(MaxHeight + 1) : Timer(h)
  BY <1>7, TimerInv
<1>8. CASE UNCHANGED vars
  BY <1>8 DEF vars, Inv, Types, Announced, StillFull, OneBehind, Located, Holds, Going
<1> QED
  BY <1>1, <1>2, <1>3, <1>4, <1>5, <1>6, <1>7, <1>8 DEF Next

\* No height is lost (pushBlock and the timers of runLoop): when no block is
\* left to be announced, pushed or handled, a timer is going for the height
\* after the last block, unless the loop emptied the queue under pushBlock.
\* The queue must hold two blocks: bch has room for sixteen.
THEOREM HeightsAreTried ==
    ASSUME QueueSize > 1
    PROVE  Spec => []NextBlockTried
<1>1. Inv => NextBlockTried
  <2> SUFFICES ASSUME Inv, Settled, ~overtaken PROVE Going
    BY DEF NextBlockTried, Going
  <2>1. \A p \in Pusher : ~Holds(p)
    BY DEF Settled, Holds, Idle
  <2>2. Len(bch) = 0
    BY DEF Settled
  <2> QED
    BY <2>1, <2>2 DEF Inv, Located, Settled
<1>2. Init => Inv
  BY InitInv
<1>3. Inv /\ [Next]_vars => Inv'
  BY StepInv
<1> QED
  BY <1>1, <1>2, <1>3, PTL DEF Spec
-----------------------------------------------------------------------------
(* The order of blocks *)

\* The heights that can have timers; the rounds after the first.
Heights == 1..(MaxHeight + 1)
Later == Round \ {0}

\* A pusher has the block, or the loop has or had it.
Seen(b) ==
    \/ handled[b] > 0
    \/ \E p \in Pusher : push[p].pc # "idle" /\ push[p].h = b
    \/ \E i \in 1..Len(bch) : bch[i] = b

Below(x) == \A b \in Height : Seen(b) => b <= x

\* Announcements in the order of their heights, up to x.
Rising(s, x) ==
    /\ \A i \in 1..Len(s) : s[i].h <= x
    /\ \A i, j \in 1..Len(s) : i <= j => s[i].h <= s[j].h

\* Blocks are announced in the order of their heights, and the client itself
\* pushes only the last one it heard of.
Ordered ==
    /\ Below(last) /\ Below(cur)
    /\ push["client"].pc # "idle" => Below(push["client"].h)
    /\ Rising(events, last)
    /\ \A i \in 1..Len(events) : Below(events[i].h)

LEMMA Constants ==
    /\ MaxHeight \in Nat /\ MaxRound \in Nat /\ MaxForks \in Nat /\ QueueSize \in Nat \ {0}
    /\ SortBlocks \in Nat \ {0} /\ Ahead \in Nat
    /\ \A h \in Heights : h \in Nat /\ h - 1 \in Height /\ h > 0 /\ h \in 0..(MaxHeight + 1)
    /\ \A b \in Height : b \in Nat /\ b + 1 \in Heights /\ (b + 1) - 1 = b
    /\ \A h \in Heights : h \in 0..(MaxHeight + Ahead + 1)
    /\ 0 \in Round /\ \A r \in Round : r \in Nat
<1>1. MaxHeight \in Nat /\ MaxRound \in Nat /\ MaxForks \in Nat /\ QueueSize \in Nat \ {0}
      /\ SortBlocks \in Nat \ {0}
  BY RunLoopAssumption
<1>2. Ahead \in Nat
  BY <1>1 DEF Ahead
<1>3. \A h \in Heights : h \in Nat /\ h - 1 \in Height /\ h > 0 /\ h \in 0..(MaxHeight + 1)
  BY <1>1 DEF Heights, Height
<1>4. \A b \in Height : b \in Nat /\ b + 1 \in Heights /\ (b + 1) - 1 = b
  BY <1>1 DEF Heights, Height
<1>5. \A h \in Heights : h \in 0..(MaxHeight + Ahead + 1)
  BY <1>1, <1>2 DEF Heights
<1>6. 0 \in Round /\ \A r \in Round : r \in Nat
  BY <1>1 DEF Round
<1> QED
  BY <1>1, <1>2, <1>3, <1>4, <1>5, <1>6

\* A bound on the blocks holds for higher ones, and as long as no block is new.
LEMMA BelowKept ==
    ASSUME NEW x \in Nat, NEW y \in Nat, x <= y, Below(x),
           \A b \in Height : Seen(b)' => Seen(b) \/ b <= y
    PROVE  Below(y)'
BY Constants DEF Below

LEMMA RisingAppend ==
    ASSUME NEW s \in Seq(Event), NEW x \in Height, NEW e \in Event,
           Rising(s, x), x <= e.h
    PROVE  Append(s, e) \in Seq(Event) /\ Rising(Append(s, e), e.h)
<1> DEFINE t == Append(s, e)
<1>1. /\ t \in Seq(Event) /\ Len(s) \in Nat /\ Len(t) = Len(s) + 1
      /\ \A i \in 1..Len(s) : t[i] = s[i]
      /\ t[Len(t)] = e
  BY AppendOf
<1>2. \A i \in 1..Len(t) : i \in 1..Len(s) \/ i = Len(t)
  BY <1>1
<1>3. /\ e.h \in Nat /\ x \in Nat
      /\ \A i \in 1..Len(s) : s[i].h \in Nat /\ s[i].h <= x
  <2>1. \A i \in 1..Len(s) : s[i] \in Event
    OBVIOUS
  <2> QED
    BY <2>1, Constants DEF Event, Rising
<1> HIDE DEF t
<1>4. \A i \in 1..Len(t) : t[i].h <= e.h
  BY <1>1, <1>2, <1>3
<1>5. ASSUME NEW i \in 1..Len(t), NEW j \in 1..Len(t), i <= j
      PROVE  t[i].h <= t[j].h
  <2>1. CASE j = Len(t)
    BY <1>1, <1>4, <2>1
  <2>2. CASE j # Len(t)
    <3>1. j \in 1..Len(s) /\ i \in 1..Len(s)
      BY <1>1, <1>2, <1>5, <2>2
    <3> QED
      BY <1>1, <1>5, <3>1 DEF Rising
  <2> QED
    BY <2>1, <2>2
<1> QED
  BY <1>1, <1>4, <1>5 DEF t, Rising

\* What a step that takes in no new block leaves of the order.
LEMMA OrderKept ==
    ASSUME TypeOK, Ordered, UNCHANGED <<last, events, cur>>,
           \A b \in Height : Seen(b)' => Seen(b),
           push'["client"].pc # "idle" =>
              push["client"].pc # "idle" /\ push'["client"].h = push["client"].h
    PROVE  Ordered'
<1>1. \A x \in Height : Below(x) => Below(x)'
  BY DEF Below
<1>2. \A i \in 1..Len(events) : events[i].h \in Height
  <2>1. \A i \in 1..Len(events) : events[i] \in Event
    BY DEF TypeOK
  <2> QED
    BY <2>1 DEF Event
<1>3. last \in Height /\ cur \in Height /\ push["client"].h \in Height
  BY DEF TypeOK, Pusher
<1>4. Below(last)' /\ Below(cur)' /\ \A i \in 1..Len(events) : Below(events[i].h)'
  <2>1. Below(last)' /\ Below(cur)'
    BY <1>3 DEF Ordered, Below
  <2>2. \A i \in 1..Len(events) : Below(events[i].h)'
    BY <1>2 DEF Ordered, Below
  <2> QED
    BY <2>1, <2>2
<1>5. push'["client"].pc # "idle" => Below(push["client"].h)'
  BY <1>3 DEF Ordered, Below
<1>6. Rising(events', last')
  BY DEF Ordered, Rising
<1> QED
  BY <1>4, <1>5, <1>6 DEF Ordered, Below

LEMMA OrderedInit == Init => TypeOK /\ Ordered
<1> SUFFICES ASSUME Init PROVE TypeOK /\ Ordered
  OBVIOUS
<1>1. last \in Height /\ cur = last /\ events = << >> /\ overtaken = FALSE /\ forks = 0
  BY RunLoopAssumption DEF Init, Height
<1>2. Types
  BY InitInv DEF Inv
<1>3. /\ Len(bch) <= QueueSize
      /\ handled \in [Height -> Nat]
      /\ asked \in [0..(MaxHeight + Ahead + 1) -> [Round -> Nat]]
      /\ drawn = {} /\ tried = {} /\ round = 0
  <2>1. Len(<<last>>) = 1 /\ Len(<<0>>) = 1 /\ Len(<< >>) = 0
    OBVIOUS
  <2>2. Len(bch) <= QueueSize
    <3>1. Len(bch) \in {0, 1}
      BY <2>1 DEF Init
    <3>2. \A n \in Nat \ {0} : 0 <= n /\ 1 <= n
      OBVIOUS
    <3>3. QueueSize \in Nat \ {0}
      BY Constants
    <3> QED
      BY <3>1, <3>2, <3>3
  <2>3. handled \in [Height -> Nat] /\ drawn = {} /\ tried = {} /\ round = 0
    BY DEF Init
  <2>4. asked \in [0..(MaxHeight + Ahead + 1) -> [Round -> Nat]]
    BY DEF Init
  <2> QED
    BY <2>2, <2>3, <2>4
<1>4. TypeOK
  <2>1. forks \in 0..MaxForks
    BY <1>1, Constants
  <2> QED
    BY <1>2, <1>3, <2>1, Constants DEF TypeOK, Types
<1>5. \A b \in Height : Seen(b) => b = last
  <2> SUFFICES ASSUME NEW b \in Height, Seen(b) PROVE b = last
    OBVIOUS
  <2>1. handled[b] = 0
    BY DEF Init
  <2>2. \A p \in Pusher : push[p].pc # "idle" => push[p].h = last
    BY DEF Init, Idle, Pusher
  <2>3. \A i \in 1..Len(bch) : bch[i] = last
    BY DEF Init
  <2> QED
    BY <2>1, <2>2, <2>3 DEF Seen
<1>6. push["client"].pc = "idle"
  BY DEF Init, Idle, Pusher
<1>7. Below(last) /\ Below(cur)
  BY <1>1, <1>5, Constants DEF Below
<1>8. Len(events) = 0
  BY <1>1
<1> QED
  BY <1>4, <1>6, <1>7, <1>8 DEF Ordered, Rising

\* One announcement more, or two.
LEMMA OrderedConnect ==
    ASSUME TypeOK, Ordered, Connect \/ Replace
    PROVE  TypeOK' /\ Ordered'
<1> DEFINE del == [kind |-> "del", h |-> last]
           add == [kind |-> "add", h |-> last']
<1>1. UNCHANGED <<cur, push, bch, overtaken>> /\ UNCHANGED loop
  BY DEF Connect, Replace, queue
<1>2. last \in Height /\ last' \in Height /\ last <= last' /\ forks' \in 0..MaxForks
  <2>1. last \in Height /\ last' \in Height /\ last <= last'
    <3>1. last \in 0..MaxHeight /\ MaxHeight \in Nat
      BY Constants DEF TypeOK, Height
    <3>2. last' = last \/ (last' = last + 1 /\ last < MaxHeight)
      BY DEF Connect, Replace
    <3> QED
      BY <3>1, <3>2 DEF Height
  <2>2. forks' \in 0..MaxForks
    <3>1. forks \in 0..MaxForks /\ MaxForks \in Nat
      BY Constants DEF TypeOK
    <3> QED
      BY <3>1 DEF Connect, Replace
  <2> QED
    BY <2>1, <2>2
<1>3. del \in Event /\ add \in Event /\ del.h = last /\ add.h = last'
  BY <1>2 DEF Event
<1>4. events' = Append(events, add) \/ events' = Append(Append(events, del), add)
  <2>1. events \in Seq(Event)
    BY DEF TypeOK
  <2>2. events \o <<del, add>> = Append(Append(events, del), add)
    BY <1>3, <2>1
  <2> QED
    BY <2>2 DEF Connect, Replace
<1> HIDE DEF del, add
<1>5. events' \in Seq(Event) /\ Rising(events', last')
  <2>1. events \in Seq(Event) /\ Rising(events, last)
    BY DEF TypeOK, Ordered
  <2>2. Append(events, del) \in Seq(Event) /\ Rising(Append(events, del), last)
    BY <1>2, <1>3, <2>1, RisingAppend, Constants
  <2>3. /\ Append(events, add) \in Seq(Event) /\ Rising(Append(events, add), last')
        /\ Append(Append(events, del), add) \in Seq(Event)
        /\ Rising(Append(Append(events, del), add), last')
    BY <1>2, <1>3, <2>1, <2>2, RisingAppend
  <2> QED
    BY <1>4, <2>3
<1>6. TypeOK'
  BY <1>1, <1>2, <1>5 DEF TypeOK, loop
<1>7. \A b \in Height : Seen(b)' <=> Seen(b)
  BY <1>1 DEF Seen, loop
<1>8. \A i \in 1..Len(events') : Below(events[i].h)'
  <2> SUFFICES ASSUME NEW i \in 1..Len(events'), NEW b \in Height, Seen(b)
               PROVE  b <= events'[i].h
    BY <1>7 DEF Below
  <2>1. events'[i].h \in {last, last'} \/ \E j \in 1..Len(events) : events'[i] = events[j]
    <3>1. events \in Seq(Event)
      BY DEF TypeOK
    <3>2. CASE events' = Append(events, add)
      BY <1>3, <3>1, <3>2
    <3>3. CASE events' = Append(Append(events, del), add)
      <4>1. /\ Len(events') = Len(events) + 2 /\ Len(events) \in Nat
            /\ \A j \in 1..Len(events) : events'[j] = events[j]
            /\ events'[Len(events) + 1] = del /\ events'[Len(events) + 2] = add
        BY <1>3, <3>1, <3>3
      <4>2. i \in 1..Len(events) \/ i = Len(events) + 1 \/ i = Len(events) + 2
        BY <4>1
      <4> QED
        BY <1>3, <4>1, <4>2
    <3> QED
      BY <1>4, <3>2, <3>3
  <2>2. b <= last /\ \A j \in 1..Len(events) : b <= events[j].h
    BY DEF Ordered, Below
  <2>3. b <= last'
    BY <1>2, <2>2, Constants
  <2> QED
    BY <2>1, <2>2, <2>3
<1>9. /\ Below(last)' /\ Below(cur)'
      /\ push'["client"].pc # "idle" => Below(push["client"].h)'
  <2>1. Below(last)'
    BY <1>2, <1>7, Constants DEF Ordered, Below
  <2>2. Below(cur)' /\ (push'["client"].pc # "idle" => Below(push["client"].h)')
    BY <1>1, <1>7 DEF Ordered, Below
  <2> QED
    BY <2>1, <2>2
<1> QED
  BY <1>5, <1>6, <1>8, <1>9 DEF Ordered

\* The client hears of the next block, or of one taken off.
LEMMA OrderedHear ==
    ASSUME TypeOK, Ordered, DelBlock \/ \E p \in Pusher : AddBlock(p)
    PROVE  TypeOK' /\ Ordered'
<1> DEFINE h == Head(events).h
<1>1. /\ events # << >> /\ events' = Tail(events)
      /\ UNCHANGED <<last, forks, bch, overtaken>> /\ UNCHANGED loop
  BY DEF DelBlock, AddBlock, queue
<1>2. /\ events \in Seq(Event) /\ events' \in Seq(Event)
      /\ Head(events) = events[1] /\ Head(events) \in Event
      /\ Len(events) \in Nat \ {0} /\ Len(events') = Len(events) - 1
      /\ \A i \in 1..(Len(events) - 1) : events'[i] = events[i + 1]
  BY <1>1, TailOf DEF TypeOK
<1>3. 1 \in 1..Len(events) /\ \A i \in 1..Len(events') : i + 1 \in 1..Len(events)
  BY <1>2
<1>4. h \in Height /\ last \in Height /\ h <= last /\ Below(h) /\ h = events[1].h
  BY <1>2, <1>3 DEF TypeOK, Ordered, Rising, Event
<1> HIDE DEF h
<1>5. Rising(events', last)
  <2>1. \A i \in 1..Len(events') : events'[i] = events[i + 1]
    BY <1>2
  <2>2. \A i, j \in 1..Len(events') : i <= j => i + 1 <= j + 1
    BY <1>2
  <2> QED
    BY <1>3, <2>1, <2>2 DEF Ordered, Rising
<1>6. \A i \in 1..Len(events') : Below(events'[i].h) /\ h <= events'[i].h
  <2>1. \A i \in 1..Len(events') : events'[i] = events[i + 1] /\ 1 <= i + 1
    BY <1>2
  <2> QED
    BY <1>3, <1>4, <2>1 DEF Ordered, Rising
<1>7. CASE DelBlock
  <2>1. UNCHANGED <<push, bch, handled>> /\ cur' = last
    BY <1>7 DEF DelBlock, queue, loop
  <2>2. \A b \in Height : Seen(b)' <=> Seen(b)
    BY <2>1 DEF Seen
  <2>3. \A i \in 1..Len(events') : Below(events[i].h)'
    BY <1>6, <2>2 DEF Below
  <2>4. /\ Below(last)' /\ Below(cur)'
        /\ push'["client"].pc # "idle" => Below(push["client"].h)'
    BY <1>1, <2>1, <2>2 DEF Ordered, Below
  <2>5. Rising(events, last)'
    BY <1>1, <1>5
  <2>6. TypeOK'
    BY <1>1, <1>2, <1>4, <2>1 DEF TypeOK, loop
  <2> QED
    BY <2>3, <2>4, <2>5, <2>6 DEF Ordered
<1>8. ASSUME NEW p \in Pusher, AddBlock(p)
      PROVE  TypeOK' /\ Ordered'
  <2> DEFINE pc == IF p = "delayed" THEN "wait" ELSE "try"
  <2>1. /\ cur' = h /\ push["client"].pc = "idle"
        /\ push' = [push EXCEPT ![p] = [pc |-> pc, h |-> h]]
    BY <1>8 DEF AddBlock, h
  <2>2. pc \in PushState /\ pc # "idle"
    BY DEF PushState
  <2> HIDE DEF pc
  <2>3. /\ push' \in [Pusher -> [pc : PushState, h : Height]]
        /\ push'[p].h = h
        /\ \A q \in Pusher : q # p => push'[q] = push[q]
    BY <1>4, <2>1, <2>2 DEF TypeOK
  <2>4. TypeOK'
    BY <1>1, <1>2, <1>4, <2>1, <2>3 DEF TypeOK, loop
  <2>5. \A b \in Height : Seen(b)' => Seen(b) \/ b = h
    BY <1>1, <2>3 DEF Seen, loop
  <2>6. \A b \in Height : Seen(b)' => b <= h /\ b <= last
    BY <1>4, <2>5, Constants DEF Below
  <2>7. Below(last)' /\ Below(cur)'
    BY <1>1, <2>1, <2>6 DEF Below
  <2>8. push'["client"].pc # "idle" => Below(push["client"].h)'
    <3>1. p # "client" => push'["client"] = push["client"]
      BY <2>3 DEF Pusher
    <3> QED
      BY <2>1, <2>3, <2>6, <3>1 DEF Below
  <2>9. \A i \in 1..Len(events') : Below(events[i].h)'
    <3>1. \A i \in 1..Len(events') : events'[i].h \in Nat
      <4>1. \A i \in 1..Len(events') : events'[i] \in Event
        BY <1>2
      <4> QED
        BY <4>1, Constants DEF Event
    <3>2. h \in Nat /\ \A b \in Height : b \in Nat
      BY <1>4, Constants
    <3> QED
      BY <1>6, <2>6, <3>1, <3>2 DEF Below
  <2>10. Rising(events, last)'
    BY <1>1, <1>5
  <2> QED
    BY <2>4, <2>7, <2>8, <2>9, <2>10 DEF Ordered
<1> QED
  BY <1>7, <1>8

\* The delay of a push ends, a push waits for room, makes room or is done.
LEMMA OrderedPush ==
    ASSUME TypeOK, Ordered, DelayOver \/ \E p \in Pusher : Push(p)
    PROVE  TypeOK' /\ Ordered'
<1> DEFINE P == [Pusher -> [pc : PushState, h : Height]]
<1>1. UNCHANGED <<overtaken>> /\ UNCHANGED chain /\ UNCHANGED loop
  BY DEF DelayOver, Push, PushRoom, PushFull, PushTake, PushPut
<1>2. Idle \in [pc : PushState, h : Height] /\ Idle.pc = "idle"
  BY Constants DEF Idle, PushState, Height
<1>3. /\ bch \in Seq(Height) /\ Len(bch) \in Nat /\ Len(bch) <= QueueSize
      /\ push \in P /\ QueueSize \in Nat
  <2>1. bch \in Seq(Height) /\ Len(bch) <= QueueSize /\ push \in P
    BY DEF TypeOK
  <2>2. QueueSize \in Nat
    BY Constants
  <2> QED
    BY <2>1, <2>2
<1>4. PICK p \in Pusher :
         \/ /\ bch' = bch /\ push[p].pc # "idle"
            /\ \E pc \in PushState : push' = [push EXCEPT ![p].pc = pc]
         \/ /\ bch' = Tail(bch) /\ bch # << >> /\ push[p].pc # "idle"
            /\ push' = [push EXCEPT ![p].pc = "put"]
         \/ /\ bch' = Append(bch, push[p].h) /\ Room /\ push[p].pc # "idle"
            /\ push' = [push EXCEPT ![p] = Idle]
  BY DEF DelayOver, Push, PushRoom, PushFull, PushTake, PushPut, PushState, Pusher
<1>5. /\ push' \in P
      /\ \A q \in Pusher :
            push'[q].pc # "idle" => push[q].pc # "idle" /\ push'[q].h = push[q].h
  <2>1. ASSUME NEW r \in [pc : PushState, h : Height], push' = [push EXCEPT ![p] = r],
               r.pc # "idle" => push[p].pc # "idle" /\ r.h = push[p].h
        PROVE  /\ push' \in P
               /\ \A q \in Pusher : push'[q].pc # "idle" =>
                     push[q].pc # "idle" /\ push'[q].h = push[q].h
    BY <1>3, <2>1
  <2>2. ASSUME NEW pc \in PushState, push' = [push EXCEPT ![p].pc = pc], push[p].pc # "idle"
        PROVE  /\ push' \in P
               /\ \A q \in Pusher : push'[q].pc # "idle" =>
                     push[q].pc # "idle" /\ push'[q].h = push[q].h
    <3>1. push[p] \in [pc : PushState, h : Height]
      BY <1>3
    <3>2. [push[p] EXCEPT !.pc = pc] \in [pc : PushState, h : Height]
      BY <3>1
    <3>3. [push[p] EXCEPT !.pc = pc].h = push[p].h
      BY <3>1
    <3>4. push' = [push EXCEPT ![p] = [push[p] EXCEPT !.pc = pc]]
      BY <2>2
    <3> QED
      BY <2>1, <2>2, <3>2, <3>3, <3>4
  <2>3. "put" \in PushState
    BY DEF PushState
  <2> QED
    BY <1>2, <1>4, <2>1, <2>2, <2>3
<1>6. /\ bch' \in Seq(Height) /\ Len(bch') <= QueueSize
      /\ \A i \in 1..Len(bch') :
            \/ \E j \in 1..Len(bch) : bch'[i] = bch[j]
            \/ push[p].pc # "idle" /\ bch'[i] = push[p].h
  <2>1. CASE bch' = bch
    BY <1>3, <2>1
  <2>2. CASE bch' = Tail(bch) /\ bch # << >>
    <3>1. /\ bch' \in Seq(Height) /\ Len(bch) \in Nat \ {0} /\ Len(bch') = Len(bch) - 1
          /\ \A i \in 1..(Len(bch) - 1) : bch'[i] = bch[i + 1]
      BY <1>3, <2>2, TailOf
    <3>2. \A i \in 1..Len(bch') : i + 1 \in 1..Len(bch)
      BY <3>1
    <3> QED
      BY <1>3, <3>1, <3>2
  <2>3. CASE bch' = Append(bch, push[p].h) /\ Room /\ push[p].pc # "idle"
    <3>1. push[p].h \in Height
      BY <1>3
    <3>2. /\ bch' \in Seq(Height) /\ Len(bch') = Len(bch) + 1
          /\ \A i \in 1..Len(bch) : bch'[i] = bch[i]
          /\ bch'[Len(bch')] = push[p].h
      BY <1>3, <2>3, <3>1, AppendOf
    <3>3. \A i \in 1..Len(bch') : i \in 1..Len(bch) \/ i = Len(bch')
      BY <1>3, <3>2
    <3>4. Len(bch') <= QueueSize
      BY <1>3, <2>3, <3>2 DEF Room
    <3> QED
      BY <2>3, <3>2, <3>3, <3>4
  <2> QED
    BY <1>4, <2>1, <2>2, <2>3
<1>7. TypeOK'
  BY <1>1, <1>5, <1>6 DEF TypeOK, chain, loop
<1>8. \A b \in Height : Seen(b)' => Seen(b)
  BY <1>1, <1>5, <1>6 DEF Seen, loop
<1>9. Ordered'
  <2>1. UNCHANGED <<last, events, cur>>
    BY <1>1 DEF chain
  <2> QED
    BY <1>5, <1>8, <2>1, OrderKept DEF Pusher
<1> QED
  BY <1>7, <1>9
-----------------------------------------------------------------------------
(* Rounds *)

Tokens(h) == timers["nch"][h] + timers["blockTimeout"][h] + timers["tch"][h]
             + timers["resortTimeout"][h] + timers["cch"][h]

\* A height has as many timers as its parent was handled, and no later round
\* before.
OneTimer ==
    \A h \in Heights :
        /\ Tokens(h) <= handled[h - 1]
        /\ handled[h - 1] = 0 => \A r \in Later : asked[h][r] = 0

\* No block of height h or a later one was handled.
Newest(h) == \A b \in Height : handled[b] > 0 => b < h

\* The timer of h is between a trial and its timeout; it is between another draw
\* and the vote on the committee.
Waits(h) == timers["blockTimeout"][h] > 0 \/ timers["tch"][h] > 0
Redraws(h) == timers["resortTimeout"][h] > 0 \/ timers["cch"][h] > 0

HasSorts(h) == h >= SortBlocks => <<h, round>> \in drawn

\* What the timer of the newest height says of the round of the loop.
RoundOf(h) ==
    /\ Overdue(h) /\ handled[h - 1] > 0 =>
          /\ round = 0
          /\ timers["tch"][h] = 0 /\ ~Redraws(h)
          /\ \A r \in Later : asked[h][r] = 0
    /\ \A r \in Later :
          /\ asked[h][r] <= 1
          /\ asked[h][r] > 0 => r <= round /\ (Redraws(h) => r < round)
    /\ timers["nch"][h] > 0 /\ round > 0 =>
          asked[h][round] > 0 /\ <<h, round - 1>> \in tried /\ HasSorts(h)
    /\ Waits(h) => <<h, round>> \in tried
    /\ Redraws(h) => round > 0 /\ <<h, round - 1>> \in tried /\ HasSorts(h)

\* The block that is handled when the first committee of height h is voted for.
Voter(h) == IF h <= Ahead THEN 0 ELSE h - Ahead

AskedFirst(h) ==
    asked[h][0] <= IF Voter(h) \in Height THEN handled[Voter(h)] ELSE 0

InRound ==
    ~Repeated => \A h \in Heights : Newest(h) => RoundOf(h) /\ AskedFirst(h)

\* The inductive invariant.
InvRounds == TypeOK /\ Ordered /\ OneTimer /\ InRound /\ TriedInOrder

LEMMA Bumped ==
    ASSUME NEW X, NEW Y, NEW f \in [X -> [Y -> Nat]], NEW x \in X, NEW y \in Y
    PROVE  /\ [f EXCEPT ![x][y] = @ + 1] \in [X -> [Y -> Nat]]
           /\ \A u \in X, v \in Y :
                 [f EXCEPT ![x][y] = @ + 1][u][v] =
                    IF u = x /\ v = y THEN f[u][v] + 1 ELSE f[u][v]
<1> DEFINE e == [f[x] EXCEPT ![y] = f[x][y] + 1]
           g == [f EXCEPT ![x] = e]
<1>1. f[x] \in [Y -> Nat] /\ f[x][y] + 1 \in Nat
  OBVIOUS
<1>2. e \in [Y -> Nat] /\ \A v \in Y : e[v] = IF v = y THEN f[x][v] + 1 ELSE f[x][v]
  BY <1>1
<1>3. [f EXCEPT ![x][y] = @ + 1] = g
  OBVIOUS
<1> HIDE DEF e
<1>4. g \in [X -> [Y -> Nat]] /\ \A u \in X : g[u] = IF u = x THEN e ELSE f[u]
  BY <1>2
<1> HIDE DEF g
<1> QED
  BY <1>2, <1>3, <1>4

LEMMA Dropped ==
    ASSUME NEW X, NEW Y, NEW f \in [X -> [Y -> Nat]], NEW x \in X, NEW y \in Y, f[x][y] > 0
    PROVE  /\ [f EXCEPT ![x][y] = @ - 1] \in [X -> [Y -> Nat]]
           /\ \A u \in X, v \in Y :
                 [f EXCEPT ![x][y] = @ - 1][u][v] =
                    IF u = x /\ v = y THEN f[u][v] - 1 ELSE f[u][v]
<1> DEFINE e == [f[x] EXCEPT ![y] = f[x][y] - 1]
           g == [f EXCEPT ![x] = e]
<1>1. f[x] \in [Y -> Nat] /\ f[x][y] - 1 \in Nat
  OBVIOUS
<1>2. e \in [Y -> Nat] /\ \A v \in Y : e[v] = IF v = y THEN f[x][v] - 1 ELSE f[x][v]
  BY <1>1
<1>3. [f EXCEPT ![x][y] = @ - 1] = g
  OBVIOUS
<1> HIDE DEF e
<1>4. g \in [X -> [Y -> Nat]] /\ \A u \in X : g[u] = IF u = x THEN e ELSE f[u]
  BY <1>2
<1> HIDE DEF g
<1> QED
  BY <1>2, <1>3, <1>4

Table == [Station -> [0..(MaxHeight + 1) -> Nat]]

LEMMA MoreAt ==
    ASSUME NEW T \in Table, NEW s \in Station, NEW h \in 0..(MaxHeight + 1)
    PROVE  /\ More(T, s, h) \in Table
           /\ \A u \in Station, v \in 0..(MaxHeight + 1) :
                 More(T, s, h)[u][v] = IF u = s /\ v = h THEN T[u][v] + 1 ELSE T[u][v]
<1> DEFINE Y == 0..(MaxHeight + 1)
<1>1. T \in [Station -> [Y -> Nat]] /\ h \in Y
  BY DEF Table
<1> HIDE DEF Y
<1>2. /\ [T EXCEPT ![s][h] = @ + 1] \in [Station -> [Y -> Nat]]
      /\ \A u \in Station, v \in Y :
            [T EXCEPT ![s][h] = @ + 1][u][v] =
               IF u = s /\ v = h THEN T[u][v] + 1 ELSE T[u][v]
  BY <1>1, Bumped
<1> QED
  BY <1>2 DEF Y, Table, More

LEMMA LessAt ==
    ASSUME NEW T \in Table, NEW s \in Station, NEW h \in 0..(MaxHeight + 1), T[s][h] > 0
    PROVE  /\ Less(T, s, h) \in Table
           /\ \A u \in Station, v \in 0..(MaxHeight + 1) :
                 Less(T, s, h)[u][v] = IF u = s /\ v = h THEN T[u][v] - 1 ELSE T[u][v]
<1> DEFINE Y == 0..(MaxHeight + 1)
<1>1. T \in [Station -> [Y -> Nat]] /\ h \in Y
  BY DEF Table
<1> HIDE DEF Y
<1>2. /\ [T EXCEPT ![s][h] = @ - 1] \in [Station -> [Y -> Nat]]
      /\ \A u \in Station, v \in Y :
            [T EXCEPT ![s][h] = @ - 1][u][v] =
               IF u = s /\ v = h THEN T[u][v] - 1 ELSE T[u][v]
  BY <1>1, Dropped
<1> QED
  BY <1>2 DEF Y, Table, Less

LEMMA MoveAt ==
    ASSUME NEW T \in Table, NEW s \in Station, NEW t \in Station \ {s},
           NEW h \in 0..(MaxHeight + 1), T[s][h] > 0
    PROVE  /\ Move(T, s, t, h) \in Table
           /\ \A u \in Station, v \in 0..(MaxHeight + 1) :
                 Move(T, s, t, h)[u][v] =
                    IF v # h THEN T[u][v]
                    ELSE IF u = s THEN T[u][v] - 1
                    ELSE IF u = t THEN T[u][v] + 1 ELSE T[u][v]
<1> DEFINE L == Less(T, s, h)
<1>1. /\ L \in Table
      /\ \A u \in Station, v \in 0..(MaxHeight + 1) :
            L[u][v] = IF u = s /\ v = h THEN T[u][v] - 1 ELSE T[u][v]
  BY LessAt
<1> HIDE DEF L
<1>2. /\ More(L, t, h) \in Table
      /\ \A u \in Station, v \in 0..(MaxHeight + 1) :
            More(L, t, h)[u][v] = IF u = t /\ v = h THEN L[u][v] + 1 ELSE L[u][v]
  BY <1>1, MoreAt
<1> QED
  BY <1>1, <1>2 DEF Move, L

\* Without a timer or a later round there is nothing to say.
LEMMA NoRound ==
    ASSUME NEW k \in Heights, \A s \in Station : timers'[s][k] = 0,
           handled'[k - 1] = 0, \A r \in Later : asked'[k][r] = 0
    PROVE  RoundOf(k)'
BY DEF RoundOf, Station, Waits, Redraws

\* What is said of height k stays while its timer and the round do.
LEMMA RoundKept ==
    ASSUME NEW k \in Heights, RoundOf(k), round' = round, round \in Round,
           \A s \in Station : timers'[s][k] = timers[s][k],
           \A r \in Later : asked'[k][r] = asked[k][r],
           tried \subseteq tried', drawn \subseteq drawn',
           Overdue(k)' /\ handled'[k - 1] > 0 => Overdue(k) /\ handled[k - 1] > 0
    PROVE  RoundOf(k)'
<1>1. (Redraws(k)' <=> Redraws(k)) /\ (Waits(k)' <=> Waits(k))
  BY DEF Redraws, Waits, Station
<1>2. HasSorts(k) => HasSorts(k)'
  BY DEF HasSorts
<1>3. round > 0 => round \in Later
  BY Constants DEF Later
<1>4. /\ timers'["nch"][k] = timers["nch"][k] /\ timers'["tch"][k] = timers["tch"][k]
  BY DEF Station
<1> QED
  BY <1>1, <1>2, <1>3, <1>4 DEF RoundOf

\* The chain, its client and the pushers: no older block comes for a height
\* whose parent was handled.
LEMMA RoundsApart ==
    ASSUME InvRounds, TypeOK', Ordered',
           Connect \/ Replace \/ DelBlock \/ (\E p \in Pusher : AddBlock(p))
           \/ DelayOver \/ \E p \in Pusher : Push(p)
    PROVE  InvRounds'
<1>1. UNCHANGED loop
  BY DEF Connect, Replace, DelBlock, AddBlock, DelayOver, Push, PushRoom, PushFull,
         PushTake, PushPut
<1>2. OneTimer' /\ TriedInOrder' /\ (Repeated' <=> Repeated)
  BY <1>1 DEF loop, InvRounds, OneTimer, Tokens, TriedInOrder, Repeated
<1>3. ASSUME NEW k \in Heights, handled[k - 1] > 0, Overdue(k)'
      PROVE  Overdue(k)
  <2>1. k - 1 \in Height /\ k \in Nat /\ Seen(k - 1)
    BY <1>3, Constants DEF Seen
  <2>2. \A x \in Height : Below(x) => ~(x + 1 < k)
    BY <2>1, Constants DEF Below
  <2>3. CASE bch' = bch /\ push'["delayed"] = push["delayed"]
    BY <1>3, <2>3 DEF Overdue
  <2>4. CASE AddBlock("delayed")
    <3>1. Head(events).h \in Height /\ Below(Head(events).h)
      <4>1. events \in Seq(Event) /\ events # << >>
        BY <2>4 DEF AddBlock, InvRounds, TypeOK
      <4>2. Head(events) = events[1] /\ 1 \in 1..Len(events) /\ events[1] \in Event
        BY <4>1, TailOf
      <4> QED
        BY <4>2 DEF InvRounds, Ordered, Event
    <3>2. push'["delayed"].h = Head(events).h /\ bch' = bch
      BY <2>4 DEF AddBlock, InvRounds, TypeOK, Pusher
    <3> QED
      BY <1>3, <2>2, <3>1, <3>2 DEF Overdue
  <2>5. CASE AddBlock("client")
    <3>1. bch' = bch /\ push'["delayed"] = push["delayed"]
      BY <2>5 DEF AddBlock, InvRounds, TypeOK, Pusher
    <3> QED
      BY <2>3, <3>1
  <2>6. CASE DelayOver
    BY <1>3, <2>6 DEF DelayOver, Overdue, InvRounds, TypeOK, Pusher
  <2>7. ASSUME NEW p \in Pusher, Push(p)
        PROVE  Overdue(k)
    <3>1. /\ push[p].pc # "idle" /\ push[p].h \in Height
          /\ bch \in Seq(Height) /\ Len(bch) \in Nat
      <4>1. push[p].pc # "idle"
        BY <2>7 DEF Push, PushRoom, PushFull, PushTake, PushPut
      <4>2. push \in [Pusher -> [pc : PushState, h : Height]] /\ bch \in Seq(Height)
        BY DEF InvRounds, TypeOK
      <4>3. push[p] \in [pc : PushState, h : Height]
        BY <4>2
      <4> QED
        BY <4>1, <4>2, <4>3
    <3>2. \A i \in 1..Len(bch') :
             bch'[i] = push[p].h \/ \E j \in 1..Len(bch) : bch'[i] = bch[j]
      <4>1. CASE bch' = bch
        BY <4>1
      <4>2. CASE bch' = Tail(bch) /\ bch # << >>
        <5>1. /\ bch' \in Seq(Height) /\ Len(bch') = Len(bch) - 1
              /\ \A i \in 1..(Len(bch) - 1) : bch'[i] = bch[i + 1]
          BY <3>1, <4>2, TailOf
        <5>2. \A i \in 1..Len(bch') : i + 1 \in 1..Len(bch)
          BY <3>1, <5>1
        <5> QED
          BY <5>1, <5>2
      <4>3. CASE bch' = Append(bch, push[p].h)
        <5>1. /\ Len(bch') = Len(bch) + 1
              /\ \A i \in 1..Len(bch) : bch'[i] = bch[i]
              /\ bch'[Len(bch')] = push[p].h
          BY <3>1, <4>3, AppendOf
        <5>2. \A i \in 1..Len(bch') : i \in 1..Len(bch) \/ i = Len(bch')
          BY <3>1, <5>1
        <5> QED
          BY <5>1, <5>2
      <4> QED
        BY <2>7, <4>1, <4>2, <4>3 DEF Push, PushRoom, PushFull, PushTake, PushPut
    <3>3. push'["delayed"].pc # "idle" =>
             push["delayed"].pc # "idle" /\ push'["delayed"].h = push["delayed"].h
      <4>1. push \in [Pusher -> [pc : PushState, h : Height]] /\ "delayed" \in Pusher
        BY DEF InvRounds, TypeOK, Pusher
      <4> QED
        BY <2>7, <3>1, <4>1 DEF Push, PushRoom, PushFull, PushTake, PushPut, Idle
    <3>4. p = "client" => ~(push[p].h + 1 < k)
      BY <2>2, <3>1 DEF InvRounds, Ordered
    <3>5. DOMAIN bch' = 1..Len(bch') /\ DOMAIN bch = 1..Len(bch)
      <4>1. bch' \in Seq(Height)
        BY DEF TypeOK
      <4> QED
        BY <3>1, <4>1
    <3>6. CASE push'["delayed"].pc # "idle" /\ push'["delayed"].h + 1 < k
      BY <3>3, <3>6 DEF Overdue
    <3>7. CASE \E i \in 1..Len(bch') : bch'[i] + 1 < k
      <4>1. PICK i \in 1..Len(bch') : bch'[i] + 1 < k
        BY <3>7
      <4>2. CASE bch'[i] = push[p].h
        BY <3>1, <3>4, <4>1, <4>2 DEF Overdue, Pusher
      <4>3. CASE \E j \in 1..Len(bch) : bch'[i] = bch[j]
        BY <3>5, <4>1, <4>3 DEF Overdue
      <4> QED
        BY <3>2, <4>2, <4>3
    <3> QED
      BY <1>3, <3>5, <3>6, <3>7 DEF Overdue
  <2>8. CASE Connect \/ Replace \/ DelBlock
    BY <2>3, <2>8 DEF Connect, Replace, DelBlock, queue
  <2> QED
    BY <2>4, <2>5, <2>6, <2>7, <2>8 DEF Pusher
<1>4. ASSUME NEW k \in Heights, RoundOf(k) PROVE RoundOf(k)'
  <2>1. round \in Round
    BY DEF InvRounds, TypeOK
  <2> QED
    BY <1>1, <1>3, <1>4, <2>1, RoundKept DEF loop
<1>5. \A k \in Heights : (Newest(k)' <=> Newest(k)) /\ (AskedFirst(k)' <=> AskedFirst(k))
  BY <1>1 DEF loop, Newest, AskedFirst
<1>6. InRound'
  BY <1>2, <1>4, <1>5 DEF InRound, InvRounds
<1> QED
  BY <1>2, <1>6 DEF InvRounds

LEMMA RoundsInit == Init => InvRounds
<1> SUFFICES ASSUME Init PROVE InvRounds
  OBVIOUS
<1>1. TypeOK /\ Ordered
  BY OrderedInit
<1>2. /\ \A s \in Station, h \in 0..(MaxHeight + 1) : timers[s][h] = 0
      /\ \A h \in Height : handled[h] = 0
      /\ \A h \in 0..(MaxHeight + Ahead + 1), r \in Round : asked[h][r] = 0
      /\ round = 0 /\ tried = {}
  BY DEF Init
<1>3. OneTimer
  BY <1>2, Constants DEF OneTimer, Tokens, Station, Later
<1>4. ASSUME NEW h \in Heights PROVE RoundOf(h) /\ AskedFirst(h)
  <2>1. h \in 0..(MaxHeight + 1) /\ h \in 0..(MaxHeight + Ahead + 1) /\ 0 \in Round
    BY Constants
  <2>2. ~Waits(h) /\ ~Redraws(h)
    BY <1>2, <2>1 DEF Waits, Redraws, Station
  <2>3. \A r \in Later : asked[h][r] = 0
    BY <1>2, <2>1 DEF Later
  <2>4. RoundOf(h)
    BY <1>2, <2>1, <2>2, <2>3 DEF RoundOf, Waits, Station
  <2>5. AskedFirst(h)
    BY <1>2, <2>1 DEF AskedFirst
  <2> QED
    BY <2>4, <2>5
<1>5. TriedInOrder
  BY <1>2 DEF TriedInOrder
<1> QED
  BY <1>1, <1>3, <1>4, <1>5 DEF InvRounds, InRound

\* A block is handled: the newest one starts the timer of the next height, an
\* older one finds the loop in round 0.
LEMMA RoundsNewBlock ==
    ASSUME InvRounds, NewBlock
    PROVE  InvRounds'
<1> DEFINE b == Head(bch)
<1>1. /\ bch # << >> /\ bch' = Tail(bch) /\ round' = 0
      /\ timers' = More(timers, "nch", b + 1)
      /\ handled' = [handled EXCEPT ![b] = @ + 1]
      /\ drawn' = drawn \cup (DrawnWith(b) \X {0})
      /\ asked' = [h \in DOMAIN asked |->
                     IF h \in VotedWith(b) THEN [asked[h] EXCEPT ![0] = @ + 1] ELSE asked[h]]
      /\ overtaken' = (overtaken \/ \E p \in Pusher : push[p].pc = "take")
      /\ UNCHANGED <<push, tried, last, forks, events, cur>>
  BY DEF NewBlock, chain
<1>2. /\ b = bch[1] /\ b \in Height /\ bch' \in Seq(Height)
      /\ Len(bch) \in Nat \ {0} /\ Len(bch') = Len(bch) - 1
      /\ \A i \in 1..(Len(bch) - 1) : bch'[i] = bch[i + 1]
      /\ DOMAIN bch = 1..Len(bch) /\ DOMAIN bch' = 1..Len(bch')
      /\ Len(bch) <= QueueSize
  <2>1. bch \in Seq(Height) /\ Len(bch) <= QueueSize
    BY DEF InvRounds, TypeOK
  <2> QED
    BY <1>1, <2>1, TailOf
<1> HIDE DEF b
<1>3. /\ b \in Nat /\ b + 1 \in Heights /\ b + 1 \in 0..(MaxHeight + 1)
      /\ 1 \in 1..Len(bch) /\ \A i \in 1..Len(bch') : i + 1 \in 1..Len(bch)
  BY <1>2, Constants
<1>4. /\ timers' \in Table
      /\ \A s \in Station, h \in 0..(MaxHeight + 1) :
            timers'[s][h] = IF s = "nch" /\ h = b + 1 THEN timers[s][h] + 1 ELSE timers[s][h]
  <2>1. timers \in Table
    BY DEF InvRounds, TypeOK, Table
  <2>2. "nch" \in Station
    BY DEF Station
  <2>3. /\ More(timers, "nch", b + 1) \in Table
        /\ \A s \in Station, h \in 0..(MaxHeight + 1) :
              More(timers, "nch", b + 1)[s][h] =
                 IF s = "nch" /\ h = b + 1 THEN timers[s][h] + 1 ELSE timers[s][h]
    BY <1>3, <2>1, <2>2, MoreAt
  <2> QED
    BY <1>1, <2>3
<1>5. /\ handled \in [Height -> Nat] /\ handled' \in [Height -> Nat]
      /\ \A h \in Height : handled'[h] = IF h = b THEN handled[h] + 1 ELSE handled[h]
  <2>1. handled \in [Height -> Nat]
    BY DEF InvRounds, TypeOK
  <2> QED
    BY <1>1, <1>2, <2>1
<1>6. /\ asked' \in [0..(MaxHeight + Ahead + 1) -> [Round -> Nat]]
      /\ \A h \in 0..(MaxHeight + Ahead + 1), r \in Round :
            asked'[h][r] = IF h \in VotedWith(b) /\ r = 0 THEN asked[h][r] + 1 ELSE asked[h][r]
  <2>1. asked \in [0..(MaxHeight + Ahead + 1) -> [Round -> Nat]]
    BY DEF InvRounds, TypeOK
  <2>2. \A h \in 0..(MaxHeight + Ahead + 1) :
           /\ asked[h] \in [Round -> Nat]
           /\ [asked[h] EXCEPT ![0] = @ + 1] \in [Round -> Nat]
           /\ \A r \in Round : [asked[h] EXCEPT ![0] = @ + 1][r] =
                                  IF r = 0 THEN asked[h][r] + 1 ELSE asked[h][r]
    BY <2>1, Constants
  <2>3. DOMAIN asked = 0..(MaxHeight + Ahead + 1)
    BY <2>1
  <2>4. \A h \in 0..(MaxHeight + Ahead + 1) :
           asked'[h] = IF h \in VotedWith(b) THEN [asked[h] EXCEPT ![0] = @ + 1] ELSE asked[h]
    BY <1>1, <2>3
  <2> QED
    BY <1>1, <2>2, <2>3, <2>4
<1>7. TypeOK'
  <2>1. drawn' \subseteq (0..(MaxHeight + SortBlocks)) \X Round
    <3>1. DrawnWith(b) \subseteq 0..(MaxHeight + SortBlocks)
      <4>1. b \in 0..MaxHeight /\ MaxHeight \in Nat /\ SortBlocks \in Nat
        BY <1>2, Constants DEF Height
      <4> QED
        BY <4>1 DEF DrawnWith
    <3>2. drawn \subseteq (0..(MaxHeight + SortBlocks)) \X Round
      BY DEF InvRounds, TypeOK
    <3> QED
      BY <1>1, <3>1, <3>2, Constants
  <2>2. Len(bch') <= QueueSize /\ 0 \in Round
    BY <1>2, Constants
  <2>3. overtaken' \in BOOLEAN
    BY <1>1
  <2>4. /\ last \in Height /\ cur \in Height /\ forks \in 0..MaxForks /\ events \in Seq(Event)
        /\ push \in [Pusher -> [pc : PushState, h : Height]]
        /\ tried \subseteq (0..(MaxHeight + 1)) \X Round
    BY DEF InvRounds, TypeOK
  <2> QED
    BY <1>1, <1>2, <1>4, <1>5, <1>6, <2>1, <2>2, <2>3, <2>4 DEF TypeOK, Table
<1>8. Ordered'
  <2>1. \A k \in Height : Seen(k)' => Seen(k)
    <3>1. Seen(b)
      BY <1>2, <1>3 DEF Seen
    <3>2. \A i \in 1..Len(bch') : bch'[i] = bch[i + 1] /\ i + 1 \in 1..Len(bch)
      BY <1>2, <1>3
    <3>3. ASSUME NEW k \in Height, Seen(k)' PROVE Seen(k)
      BY <1>1, <1>5, <3>1, <3>2, <3>3 DEF Seen
    <3> QED
      BY <3>3
  <2> QED
    BY <1>1, <2>1, OrderKept DEF InvRounds
<1>9. OneTimer'
  <2> SUFFICES ASSUME NEW h \in Heights
               PROVE  /\ Tokens(h)' <= handled'[h - 1]
                      /\ handled'[h - 1] = 0 => \A r \in Later : asked'[h][r] = 0
    BY DEF OneTimer
  <2>1. /\ h \in 0..(MaxHeight + 1) /\ h \in 0..(MaxHeight + Ahead + 1)
        /\ h - 1 \in Height /\ h \in Nat /\ (h - 1 = b <=> h = b + 1)
    BY <1>3, Constants
  <2>2. \A s \in Station : timers[s][h] \in Nat
    BY <2>1 DEF InvRounds, TypeOK
  <2>3. Tokens(h) <= handled[h - 1] /\ handled[h - 1] \in Nat
    BY <1>5, <2>1 DEF InvRounds, OneTimer
  <2>4. Tokens(h)' <= handled'[h - 1]
    BY <1>4, <1>5, <2>1, <2>2, <2>3 DEF Tokens, Station
  <2>5. \A r \in Later : asked'[h][r] = asked[h][r]
    BY <1>6, <2>1 DEF Later
  <2>6. handled'[h - 1] = 0 => handled[h - 1] = 0
    BY <1>5, <2>1, <2>3
  <2> QED
    BY <2>4, <2>5, <2>6 DEF InvRounds, OneTimer
<1>10. Repeated => Repeated'
  <2> SUFFICES ASSUME Repeated PROVE Repeated'
    OBVIOUS
  <2>1. PICK h \in Height : handled[h] > 1
    BY DEF Repeated
  <2>2. handled'[h] > 1
    BY <1>5, <2>1
  <2> QED
    BY <2>2 DEF Repeated
<1>11. ASSUME ~Repeated', NEW k \in Heights, Newest(k)'
       PROVE  RoundOf(k)' /\ AskedFirst(k)'
  <2>1. /\ k \in 0..(MaxHeight + 1) /\ k \in 0..(MaxHeight + Ahead + 1)
        /\ k - 1 \in Height /\ k \in Nat
    BY Constants
  <2>2. handled[b] \in Nat /\ handled'[b] > 0 /\ b < k
    BY <1>2, <1>5, <1>11 DEF Newest
  <2>3. Newest(k)
    BY <1>5, <1>11, <2>2 DEF Newest
  <2>4. RoundOf(k) /\ AskedFirst(k)
    BY <1>10, <1>11, <2>3 DEF InvRounds, InRound
  <2>5. \A r \in Later : asked'[k][r] = asked[k][r]
    BY <1>6, <2>1 DEF Later
  <2>6. \A s \in Station : timers[s][k] \in Nat
    BY <2>1 DEF InvRounds, TypeOK
  <2>7. /\ Tokens(k) <= handled[k - 1]
        /\ handled[k - 1] = 0 => \A r \in Later : asked[k][r] = 0
    BY DEF InvRounds, OneTimer
  <2>8. handled[k - 1] = 0 => \A s \in Station : timers[s][k] = 0
    BY <2>6, <2>7 DEF Tokens, Station
  <2>9. RoundOf(k)'
    <3>1. CASE k = b + 1
      <4>1. k - 1 = b /\ handled[b] = 0
        <5>1. handled'[b] <= 1
          BY <1>2, <1>5, <1>11 DEF Repeated
        <5> QED
          BY <1>2, <1>3, <1>5, <2>2, <3>1, <5>1
      <4>2. \A s \in Station : timers'[s][k] = IF s = "nch" THEN 1 ELSE 0
        BY <1>4, <2>1, <2>8, <3>1, <4>1
      <4>3. \A r \in Later : asked'[k][r] = 0
        BY <2>5, <2>7, <4>1
      <4>4. ~Waits(k)' /\ ~Redraws(k)' /\ timers'["tch"][k] = 0
        BY <4>2 DEF Waits, Redraws, Station
      <4>5. round' = 0 /\ ~(0 > 0)
        BY <1>1
      <4>6. \A r \in Later : asked'[k][r] <= 1 /\ ~(asked'[k][r] > 0)
        BY <4>3
      <4> QED
        BY <4>3, <4>4, <4>5, <4>6 DEF RoundOf
    <3>2. CASE k # b + 1
      <4>1. \A s \in Station : timers'[s][k] = timers[s][k]
        BY <1>4, <2>1, <3>2
      <4>2. handled'[k - 1] = handled[k - 1]
        BY <1>3, <1>5, <2>1, <3>2
      <4>3. CASE handled[k - 1] = 0
        BY <2>5, <2>7, <2>8, <4>1, <4>2, <4>3, NoRound
      <4>4. CASE handled[k - 1] # 0
        <5>1. handled[k - 1] > 0
          BY <1>5, <2>1, <4>4
        <5>2. bch[1] + 1 < k /\ 1 \in DOMAIN bch
          BY <1>2, <1>3, <2>1, <2>2, <3>2
        <5>3. Overdue(k)
          BY <5>2 DEF Overdue
        <5>4. round' = round
          BY <1>1, <2>4, <5>1, <5>3 DEF RoundOf
        <5>5. round \in Round
          BY DEF InvRounds, TypeOK
        <5> QED
          BY <1>1, <2>4, <2>5, <4>1, <5>1, <5>3, <5>4, <5>5, RoundKept
      <4> QED
        BY <4>3, <4>4
    <3> QED
      BY <3>1, <3>2
  <2>10. AskedFirst(k)'
    <3>1. k \in VotedWith(b) => Voter(k) = b
      <4>1. b \in Nat /\ Ahead \in Nat
        BY <1>3, Constants
      <4> QED
        BY <2>1, <4>1 DEF VotedWith, Voter
    <3>2. asked[k][0] \in Nat /\ asked'[k][0] = IF k \in VotedWith(b) THEN asked[k][0] + 1 ELSE asked[k][0]
      BY <1>6, <2>1, Constants DEF InvRounds, TypeOK
    <3>3. \A h \in Height : handled[h] \in Nat /\ handled'[h] >= handled[h]
      BY <1>5
    <3>4. CASE k \in VotedWith(b)
      BY <1>2, <1>5, <2>2, <2>4, <3>1, <3>2, <3>4 DEF AskedFirst
    <3>5. CASE k \notin VotedWith(b)
      <4>1. asked'[k][0] = asked[k][0] /\ asked[k][0] \in Nat
        BY <3>2, <3>5
      <4>2. Voter(k)' = Voter(k)
        BY DEF Voter
      <4>3. CASE Voter(k) \in Height
        <5>1. handled'[Voter(k)] >= handled[Voter(k)] /\ handled[Voter(k)] \in Nat
              /\ handled'[Voter(k)] \in Nat
          BY <1>5, <3>3, <4>3
        <5>2. asked[k][0] <= handled[Voter(k)]
          BY <2>4, <4>3 DEF AskedFirst
        <5>3. asked'[k][0] <= handled'[Voter(k)]
          BY <4>1, <5>1, <5>2
        <5> QED
          BY <4>2, <4>3, <5>3 DEF AskedFirst
      <4>4. CASE Voter(k) \notin Height
        BY <2>4, <4>1, <4>2, <4>4 DEF AskedFirst
      <4> QED
        BY <4>3, <4>4
    <3> QED
      BY <3>4, <3>5
  <2> QED
    BY <2>9, <2>10
<1>12. InRound'
  BY <1>11 DEF InRound
<1>13. TriedInOrder'
  <2> SUFFICES ASSUME ~Repeated', NEW t \in tried, t[2] > 0
               PROVE  /\ <<t[1], t[2] - 1>> \in tried
                      /\ asked'[t[1]][t[2]] > 0
                      /\ t[1] >= SortBlocks => t \in drawn'
    BY <1>1 DEF TriedInOrder
  <2>1. /\ <<t[1], t[2] - 1>> \in tried
        /\ asked[t[1]][t[2]] > 0
        /\ t[1] >= SortBlocks => t \in drawn
    BY <1>10 DEF InvRounds, TriedInOrder
  <2>2. t[1] \in 0..(MaxHeight + 1) /\ t[2] \in Round
    BY DEF InvRounds, TypeOK
  <2>3. t[1] \in 0..(MaxHeight + Ahead + 1)
    <3>1. \A n \in 0..(MaxHeight + 1) : n \in 0..(MaxHeight + Ahead + 1)
      BY Constants
    <3> QED
      BY <2>2, <3>1
  <2>4. asked'[t[1]][t[2]] = asked[t[1]][t[2]]
    BY <1>6, <2>2, <2>3
  <2> QED
    BY <1>1, <2>1, <2>4
<1> QED
  BY <1>7, <1>8, <1>9, <1>12, <1>13 DEF InvRounds

\* A timer's step concerns its height h only, whose parent was handled; the
\* round changes only if h is the next height of the chain.
Concerns(h) ==
    /\ UNCHANGED <<last, forks, events, cur, push, bch, overtaken, handled>>
    /\ round' \in Round /\ (round' = round \/ h = last + 1)
    /\ timers' \in Table
    /\ asked' \in [0..(MaxHeight + Ahead + 1) -> [Round -> Nat]]
    /\ drawn' \subseteq (0..(MaxHeight + SortBlocks)) \X Round /\ drawn \subseteq drawn'
    /\ tried' \subseteq (0..(MaxHeight + 1)) \X Round /\ tried \subseteq tried'
    /\ \A k \in Heights \ {h}, s \in Station : timers'[s][k] = timers[s][k]
    /\ Tokens(h)' <= Tokens(h) /\ Tokens(h) > 0
    /\ \A k \in 0..(MaxHeight + Ahead + 1), r \in Round :
          asked'[k][r] >= asked[k][r] /\ (k # h => asked'[k][r] = asked[k][r])

\* The parent of a height with a timer is on the chain.
LEMMA TimerOnChain ==
    ASSUME InvRounds, NEW h \in Heights, Tokens(h) > 0
    PROVE  /\ handled[h - 1] \in Nat /\ handled[h - 1] > 0 /\ h <= last + 1
           /\ last \in Nat /\ h \in Nat
           /\ ~Repeated => Tokens(h) <= 1
<1>1. h - 1 \in Height /\ h \in Nat /\ last \in Nat /\ cur \in Nat
  BY Constants DEF InvRounds, TypeOK
<1>2. \A s \in Station : timers[s][h] \in Nat
  <2>1. h \in 0..(MaxHeight + 1)
    BY Constants
  <2> QED
    BY <2>1 DEF InvRounds, TypeOK
<1>3. Tokens(h) \in Nat
  BY <1>2 DEF Tokens, Station
<1>4. handled[h - 1] \in Nat /\ Tokens(h) <= handled[h - 1]
  BY <1>1 DEF InvRounds, TypeOK, OneTimer
<1>5. handled[h - 1] > 0
  BY <1>3, <1>4
<1>6. h - 1 <= last
  BY <1>1, <1>5 DEF InvRounds, Ordered, Below, Seen
<1>7. ~Repeated => handled[h - 1] <= 1
  BY <1>1, <1>4 DEF Repeated
<1> QED
  BY <1>1, <1>3, <1>4, <1>5, <1>6, <1>7

LEMMA TimerKeeps ==
    ASSUME InvRounds, NEW h \in Heights, Concerns(h),
           ~Repeated /\ Newest(h) /\ RoundOf(h) => RoundOf(h)' /\ asked'[h][0] = asked[h][0],
           ~Repeated => \A t \in tried' : t \notin tried /\ t[2] > 0 =>
               /\ <<t[1], t[2] - 1>> \in tried'
               /\ asked'[t[1]][t[2]] > 0
               /\ t[1] >= SortBlocks => t \in drawn'
    PROVE  InvRounds'
<1>1. /\ UNCHANGED <<last, forks, events, cur, push, bch, overtaken, handled>>
      /\ drawn \subseteq drawn' /\ tried \subseteq tried'
      /\ Tokens(h)' <= Tokens(h) /\ Tokens(h) > 0
  BY DEF Concerns
<1>2. TypeOK'
  <2>1. /\ last \in Height /\ cur \in Height /\ forks \in 0..MaxForks /\ events \in Seq(Event)
        /\ push \in [Pusher -> [pc : PushState, h : Height]]
        /\ bch \in Seq(Height) /\ Len(bch) <= QueueSize
        /\ handled \in [Height -> Nat] /\ overtaken \in BOOLEAN
    BY DEF InvRounds, TypeOK
  <2> QED
    BY <1>1, <2>1 DEF Concerns, TypeOK, Table
<1>3. Ordered'
  <2>1. \A b \in Height : Seen(b)' => Seen(b)
    BY <1>1 DEF Seen
  <2> QED
    BY <1>1, <2>1, OrderKept DEF InvRounds
<1>4. handled[h - 1] > 0 /\ h <= last + 1 /\ last \in Nat /\ h \in Nat
  BY <1>1, TimerOnChain
<1>5. /\ \A k \in Heights \ {h}, r \in Round : asked'[k][r] = asked[k][r]
      /\ \A k \in Heights \ {h}, s \in Station : timers'[s][k] = timers[s][k]
      /\ \A k \in Heights \ {h} : Tokens(k)' = Tokens(k)
  <2>1. \A k \in Heights \ {h}, r \in Round : asked'[k][r] = asked[k][r]
    BY Constants DEF Concerns
  <2>2. \A k \in Heights \ {h}, s \in Station : timers'[s][k] = timers[s][k]
    BY DEF Concerns
  <2>3. \A k \in Heights \ {h} : Tokens(k)' = Tokens(k)
    BY <2>2 DEF Tokens, Station
  <2> QED
    BY <2>1, <2>2, <2>3
<1>6. \A k \in Heights, s \in Station : timers[s][k] \in Nat /\ timers'[s][k] \in Nat
  <2>1. timers \in Table /\ timers' \in Table
    BY DEF InvRounds, TypeOK, Concerns, Table
  <2>2. \A k \in Heights : k \in 0..(MaxHeight + 1)
    BY Constants
  <2>3. ASSUME NEW k \in Heights, NEW s \in Station
        PROVE  timers[s][k] \in Nat /\ timers'[s][k] \in Nat
    BY <2>1, <2>2 DEF Table
  <2> QED
    BY <2>3
<1>7. OneTimer'
  <2> SUFFICES ASSUME NEW k \in Heights
               PROVE  /\ Tokens(k)' <= handled[k - 1]
                      /\ handled[k - 1] = 0 => \A r \in Later : asked'[k][r] = 0
    BY <1>1 DEF OneTimer
  <2>1. /\ Tokens(k) <= handled[k - 1]
        /\ handled[k - 1] = 0 => \A r \in Later : asked[k][r] = 0
    BY DEF InvRounds, OneTimer
  <2>2. Tokens(k) \in Nat /\ Tokens(k)' \in Nat /\ handled[k - 1] \in Nat
    <3>1. k - 1 \in Height
      BY Constants
    <3>2. handled[k - 1] \in Nat
      BY <3>1 DEF InvRounds, TypeOK
    <3> QED
      BY <1>6, <3>2 DEF Tokens, Station
  <2>3. CASE k = h
    BY <1>1, <1>4, <2>1, <2>2, <2>3
  <2>4. CASE k # h
    BY <1>5, <2>1, <2>4 DEF Later
  <2> QED
    BY <2>3, <2>4
<1>8. ASSUME ~Repeated, NEW k \in Heights, Newest(k)
      PROVE  RoundOf(k)' /\ AskedFirst(k)'
  <2>1. RoundOf(k) /\ AskedFirst(k)
    BY <1>8 DEF InvRounds, InRound
  <2>2. CASE k = h
    BY <1>1, <1>8, <2>1, <2>2 DEF AskedFirst, Voter
  <2>3. CASE k # h
    <3>1. AskedFirst(k)'
      BY <1>1, <1>5, <2>1, <2>3, Constants DEF AskedFirst, Voter
    <3>2. CASE round' = round
      <4>1. round \in Round
        BY DEF InvRounds, TypeOK
      <4>2. Overdue(k)' => Overdue(k)
        BY <1>1 DEF Overdue
      <4>3. \A r \in Later : asked'[k][r] = asked[k][r]
        BY <1>5, <2>3 DEF Later
      <4>4. \A s \in Station : timers'[s][k] = timers[s][k]
        BY <1>5, <2>3
      <4>5. Overdue(k)' /\ handled'[k - 1] > 0 => Overdue(k) /\ handled[k - 1] > 0
        BY <1>1, <4>2
      <4>6. RoundOf(k)'
        BY <1>1, <2>1, <3>2, <4>1, <4>3, <4>4, <4>5, RoundKept
      <4> QED
        BY <3>1, <4>6
    <3>3. CASE h = last + 1
      <4>1. k \in Nat /\ k - 1 \in Height /\ h - 1 \in Height /\ handled[k - 1] \in Nat
        BY Constants DEF InvRounds, TypeOK
      <4>2. k > h
        BY <1>4, <1>8, <2>3, <4>1 DEF Newest
      <4>3. ~(k - 1 <= last)
        BY <1>4, <3>3, <4>1, <4>2
      <4>4. handled[k - 1] = 0
        BY <4>1, <4>3 DEF InvRounds, Ordered, Below, Seen
      <4>5. Tokens(k) <= 0 /\ \A r \in Later : asked[k][r] = 0
        BY <4>4 DEF InvRounds, OneTimer
      <4>6. \A s \in Station : timers[s][k] = 0
        <5> DEFINE a == timers["nch"][k]
                   b == timers["blockTimeout"][k]
                   c == timers["tch"][k]
                   d == timers["resortTimeout"][k]
                   e == timers["cch"][k]
        <5>1. /\ a \in Nat /\ b \in Nat /\ c \in Nat /\ d \in Nat /\ e \in Nat
          BY <1>6 DEF Station
        <5>2. a + b + c + d + e <= 0
          BY <4>5 DEF Tokens
        <5> HIDE DEF a, b, c, d, e
        <5>3. a = 0 /\ b = 0 /\ c = 0 /\ d = 0 /\ e = 0
          BY <5>1, <5>2
        <5> QED
          BY <5>3 DEF a, b, c, d, e, Station
      <4>7. (\A s \in Station : timers'[s][k] = 0) /\ \A r \in Later : asked'[k][r] = 0
        BY <1>5, <2>3, <4>5, <4>6 DEF Later
      <4>8. RoundOf(k)'
        BY <1>1, <4>4, <4>7, NoRound
      <4> QED
        BY <3>1, <4>8
    <3> QED
      BY <3>1, <3>2, <3>3 DEF Concerns
  <2> QED
    BY <2>2, <2>3
<1>9. InRound'
  BY <1>1, <1>8 DEF InRound, Repeated, Newest
<1>10. TriedInOrder'
  <2> SUFFICES ASSUME ~Repeated, NEW t \in tried', t[2] > 0
               PROVE  /\ <<t[1], t[2] - 1>> \in tried'
                      /\ asked'[t[1]][t[2]] > 0
                      /\ t[1] >= SortBlocks => t \in drawn'
    BY <1>1 DEF TriedInOrder, Repeated
  <2>1. CASE t \in tried
    <3>1. /\ <<t[1], t[2] - 1>> \in tried
          /\ asked[t[1]][t[2]] > 0
          /\ t[1] >= SortBlocks => t \in drawn
      BY <2>1 DEF InvRounds, TriedInOrder
    <3>2. t[1] \in 0..(MaxHeight + 1) /\ t[2] \in Round
      BY <2>1 DEF InvRounds, TypeOK
    <3>3. t[1] \in 0..(MaxHeight + Ahead + 1)
      <4>1. \A n \in 0..(MaxHeight + 1) : n \in 0..(MaxHeight + Ahead + 1)
        BY Constants
      <4> QED
        BY <3>2, <4>1
    <3>4. /\ asked'[t[1]][t[2]] >= asked[t[1]][t[2]]
          /\ asked[t[1]][t[2]] \in Nat /\ asked'[t[1]][t[2]] \in Nat
      BY <3>2, <3>3 DEF Concerns, InvRounds, TypeOK
    <3> QED
      BY <1>1, <3>1, <3>4
  <2>2. CASE t \notin tried
    BY <2>2
  <2> QED
    BY <2>1, <2>2
<1> QED
  BY <1>2, <1>3, <1>7, <1>9, <1>10 DEF InvRounds

\* The tables at a height.
LEMMA AtHeight ==
    ASSUME InvRounds, NEW h \in Heights
    PROVE  /\ timers \in Table /\ \A s \in Station : timers[s][h] \in Nat
           /\ h \in 0..(MaxHeight + 1) /\ h \in 0..(MaxHeight + Ahead + 1) /\ h \in Nat
           /\ last \in Nat /\ cur \in Nat /\ round \in Round /\ round \in Nat
           /\ asked \in [0..(MaxHeight + Ahead + 1) -> [Round -> Nat]]
           /\ \A k \in 0..(MaxHeight + Ahead + 1), r \in Round : asked[k][r] \in Nat
           /\ drawn \subseteq (0..(MaxHeight + SortBlocks)) \X Round
           /\ tried \subseteq (0..(MaxHeight + 1)) \X Round
<1>1. timers \in Table
  BY DEF InvRounds, TypeOK, Table
<1>2. h \in 0..(MaxHeight + 1) /\ h \in 0..(MaxHeight + Ahead + 1) /\ h \in Nat
  BY Constants
<1>3. \A s \in Station : timers[s][h] \in Nat
  BY <1>1, <1>2 DEF Table
<1>4. asked \in [0..(MaxHeight + Ahead + 1) -> [Round -> Nat]]
  BY DEF InvRounds, TypeOK
<1>5. \A k \in 0..(MaxHeight + Ahead + 1), r \in Round : asked[k][r] \in Nat
  BY <1>4
<1>6. last \in Nat /\ cur \in Nat /\ round \in Round /\ round \in Nat
  BY Constants DEF InvRounds, TypeOK
<1> QED
  BY <1>1, <1>2, <1>3, <1>4, <1>5, <1>6 DEF InvRounds, TypeOK

\* The timer moves on to another station, or stops.
LEMMA MovesOn ==
    ASSUME InvRounds, NEW h \in Heights, NEW s \in Station, NEW t \in Station \ {s},
           timers[s][h] > 0,
           timers' = Move(timers, s, t, h) \/ timers' = Less(timers, s, h)
    PROVE  /\ timers' \in Table
           /\ \A k \in Heights \ {h}, u \in Station : timers'[u][k] = timers[u][k]
           /\ Tokens(h)' <= Tokens(h) /\ Tokens(h) > 0
           /\ ~Repeated => \A u \in Station : u # s => timers[u][h] = 0
           /\ ~Repeated => \A u \in Station : u # t => timers'[u][h] = 0
           /\ timers' = Less(timers, s, h) /\ ~Repeated => \A u \in Station : timers'[u][h] = 0
<1>1. /\ timers \in Table /\ \A u \in Station : timers[u][h] \in Nat
      /\ h \in 0..(MaxHeight + 1)
  BY AtHeight
<1>2. \A k \in Heights : k \in 0..(MaxHeight + 1)
  BY Constants
<1>3. /\ timers' \in Table
      /\ \A k \in 0..(MaxHeight + 1), u \in Station : k # h => timers'[u][k] = timers[u][k]
      /\ timers'[s][h] = timers[s][h] - 1
      /\ \A u \in Station \ {s, t} : timers'[u][h] = timers[u][h]
      /\ timers' = Less(timers, s, h) => timers'[t][h] = timers[t][h]
      /\ timers'[t][h] \in {timers[t][h], timers[t][h] + 1}
  <2>1. CASE timers' = Move(timers, s, t, h)
    <3>1. /\ timers' \in Table
          /\ \A u \in Station, v \in 0..(MaxHeight + 1) :
                timers'[u][v] =
                    IF v # h THEN timers[u][v]
                    ELSE IF u = s THEN timers[u][v] - 1
                    ELSE IF u = t THEN timers[u][v] + 1 ELSE timers[u][v]
      BY <1>1, <2>1, MoveAt
    <3>2. timers' # Less(timers, s, h)
      <4>1. Less(timers, s, h)[t][h] = timers[t][h]
        BY <1>1, LessAt
      <4> QED
        BY <1>1, <3>1, <4>1
    <3> QED
      BY <1>1, <3>1, <3>2
  <2>2. CASE timers' = Less(timers, s, h)
    BY <1>1, <2>2, LessAt
  <2> QED
    BY <2>1, <2>2
<1>4. \A a, b, c, d, e \in Nat : a + b + c + d + e \in Nat
  OBVIOUS
<1>5. Tokens(h)' <= Tokens(h) /\ Tokens(h) > 0
  BY <1>1, <1>3 DEF Tokens, Station
<1>6. ~Repeated => Tokens(h) <= 1
  BY <1>5, TimerOnChain
<1>7. ~Repeated => timers[s][h] = 1 /\ \A u \in Station : u # s => timers[u][h] = 0
  BY <1>1, <1>6 DEF Tokens, Station
<1> QED
  BY <1>2, <1>3, <1>5, <1>7

LEMMA RoundsNch ==
    ASSUME InvRounds, NEW h \in Heights, Nch(h)
    PROVE  InvRounds'
<1>1. /\ timers["nch"][h] > 0
      /\ \/ /\ cur + 1 = h /\ tried' = tried \cup {<<h, round>>}
            /\ timers' = Move(timers, "nch", "blockTimeout", h)
         \/ /\ tried' = tried
            /\ timers' = Less(timers, "nch", h)
      /\ UNCHANGED <<round, handled, drawn, asked>>
      /\ UNCHANGED <<last, forks, events, cur, push, bch, overtaken>>
  BY DEF Nch, chain, queue
<1>2. /\ timers' \in Table
      /\ \A k \in Heights \ {h}, u \in Station : timers'[u][k] = timers[u][k]
      /\ Tokens(h)' <= Tokens(h) /\ Tokens(h) > 0
      /\ ~Repeated => \A u \in Station : u # "nch" => timers[u][h] = 0
      /\ ~Repeated => \A u \in Station : u # "blockTimeout" => timers'[u][h] = 0
      /\ timers' = Less(timers, "nch", h) /\ ~Repeated =>
            \A u \in Station : timers'[u][h] = 0
  BY <1>1, MovesOn DEF Station
<1>3. /\ h \in 0..(MaxHeight + 1) /\ round \in Round /\ round \in Nat /\ h \in Nat
      /\ asked \in [0..(MaxHeight + Ahead + 1) -> [Round -> Nat]]
      /\ \A k \in 0..(MaxHeight + Ahead + 1), r \in Round : asked[k][r] \in Nat
      /\ drawn \subseteq (0..(MaxHeight + SortBlocks)) \X Round
      /\ tried \subseteq (0..(MaxHeight + 1)) \X Round
      /\ cur \in Nat
  BY AtHeight
<1>4. Concerns(h)
  <2>1. tried' \subseteq (0..(MaxHeight + 1)) \X Round /\ tried \subseteq tried'
    BY <1>1, <1>3
  <2>2. \A k \in 0..(MaxHeight + Ahead + 1), r \in Round :
           asked'[k][r] >= asked[k][r] /\ asked'[k][r] = asked[k][r]
    <3>1. asked' = asked /\ \A n \in Nat : n >= n
      BY <1>1
    <3> QED
      BY <1>3, <3>1
  <2> QED
    BY <1>1, <1>2, <1>3, <2>1, <2>2 DEF Concerns
<1>5. ASSUME ~Repeated, Newest(h), RoundOf(h)
      PROVE  RoundOf(h)' /\ asked'[h][0] = asked[h][0]
  <2>1. /\ ~Redraws(h)' /\ timers'["tch"][h] = 0 /\ timers'["nch"][h] = 0
        /\ Waits(h)' => timers'["blockTimeout"][h] > 0
    BY <1>2, <1>5 DEF Redraws, Waits, Station
  <2>2. Waits(h)' => <<h, round>> \in tried'
    BY <1>1, <1>2, <1>5, <2>1 DEF Station
  <2>3. Overdue(h)' => Overdue(h)
    BY <1>1 DEF Overdue
  <2> QED
    BY <1>1, <1>5, <2>1, <2>2, <2>3 DEF RoundOf
<1>6. ASSUME ~Repeated, NEW t \in tried', t \notin tried, t[2] > 0
      PROVE  /\ <<t[1], t[2] - 1>> \in tried'
             /\ asked'[t[1]][t[2]] > 0
             /\ t[1] >= SortBlocks => t \in drawn'
  <2>1. cur + 1 = h /\ t = <<h, round>> /\ round > 0
    BY <1>1, <1>6
  <2>2. Newest(h)
    <3>1. \A b \in Height : handled[b] > 0 => b <= cur /\ b \in Nat
      BY Constants DEF InvRounds, Ordered, Below, Seen
    <3> QED
      BY <1>3, <2>1, <3>1 DEF Newest
  <2>3. RoundOf(h)
    BY <1>6, <2>2 DEF InvRounds, InRound
  <2>4. asked[h][round] > 0 /\ <<h, round - 1>> \in tried /\ HasSorts(h)
    BY <1>1, <2>1, <2>3 DEF RoundOf
  <2> QED
    BY <1>1, <2>1, <2>4 DEF HasSorts
<1> QED
  BY <1>4, <1>5, <1>6, TimerKeeps

LEMMA RoundsBlockTimeout ==
    ASSUME InvRounds, NEW h \in Heights, BlockTimeout(h)
    PROVE  InvRounds'
<1>1. /\ timers["blockTimeout"][h] > 0 /\ ~Overdue(h)
      /\ \/ timers' = Move(timers, "blockTimeout", "tch", h)
         \/ timers' = Less(timers, "blockTimeout", h)
      /\ UNCHANGED <<round, handled, drawn, asked, tried>>
      /\ UNCHANGED <<last, forks, events, cur, push, bch, overtaken>>
  BY DEF BlockTimeout, chain, queue
<1>2. /\ timers' \in Table
      /\ \A k \in Heights \ {h}, u \in Station : timers'[u][k] = timers[u][k]
      /\ Tokens(h)' <= Tokens(h) /\ Tokens(h) > 0
      /\ ~Repeated => \A u \in Station : u # "tch" => timers'[u][h] = 0
  BY <1>1, MovesOn DEF Station
<1>3. /\ h \in 0..(MaxHeight + 1) /\ round \in Round
      /\ asked \in [0..(MaxHeight + Ahead + 1) -> [Round -> Nat]]
      /\ \A k \in 0..(MaxHeight + Ahead + 1), r \in Round : asked[k][r] \in Nat
      /\ drawn \subseteq (0..(MaxHeight + SortBlocks)) \X Round
      /\ tried \subseteq (0..(MaxHeight + 1)) \X Round
  BY AtHeight
<1>4. Concerns(h)
  <2>1. \A k \in 0..(MaxHeight + Ahead + 1), r \in Round :
           asked'[k][r] >= asked[k][r] /\ asked'[k][r] = asked[k][r]
    <3>1. asked' = asked /\ \A n \in Nat : n >= n
      BY <1>1
    <3> QED
      BY <1>3, <3>1
  <2> QED
    BY <1>1, <1>2, <1>3, <2>1 DEF Concerns
<1>5. ASSUME ~Repeated, Newest(h), RoundOf(h)
      PROVE  RoundOf(h)' /\ asked'[h][0] = asked[h][0]
  <2>1. ~Redraws(h)' /\ timers'["nch"][h] = 0
    BY <1>2, <1>5 DEF Redraws, Station
  <2>2. <<h, round>> \in tried
    BY <1>1, <1>5 DEF RoundOf, Waits
  <2>3. ~Overdue(h)'
    BY <1>1 DEF Overdue
  <2> QED
    BY <1>1, <1>5, <2>1, <2>2, <2>3 DEF RoundOf
<1> QED
  BY <1>1, <1>4, <1>5, TimerKeeps

\* The next round: the loop goes on to it with another draw.
LEMMA RoundsTch ==
    ASSUME InvRounds, NEW h \in Heights, Tch(h)
    PROVE  InvRounds'
<1>1. /\ timers["tch"][h] > 0
      /\ \/ /\ last + 1 = h /\ round < MaxRound /\ round' = round + 1
            /\ drawn' = drawn \cup Redrawn(h, round + 1)
            /\ timers' = Move(timers, "tch", "resortTimeout", h)
         \/ /\ timers' = Less(timers, "tch", h) /\ round' = round /\ drawn' = drawn
      /\ UNCHANGED <<handled, asked, tried>>
      /\ UNCHANGED <<last, forks, events, cur, push, bch, overtaken>>
  BY DEF Tch, chain, queue
<1>2. /\ timers' \in Table
      /\ \A k \in Heights \ {h}, u \in Station : timers'[u][k] = timers[u][k]
      /\ Tokens(h)' <= Tokens(h) /\ Tokens(h) > 0
      /\ ~Repeated => \A u \in Station : u # "tch" => timers[u][h] = 0
      /\ ~Repeated => \A u \in Station : u # "resortTimeout" => timers'[u][h] = 0
      /\ timers' = Less(timers, "tch", h) /\ ~Repeated =>
            \A u \in Station : timers'[u][h] = 0
  BY <1>1, MovesOn DEF Station
<1>3. /\ h \in 0..(MaxHeight + 1) /\ round \in Round /\ round \in Nat /\ h \in Nat
      /\ asked \in [0..(MaxHeight + Ahead + 1) -> [Round -> Nat]]
      /\ \A k \in 0..(MaxHeight + Ahead + 1), r \in Round : asked[k][r] \in Nat
      /\ drawn \subseteq (0..(MaxHeight + SortBlocks)) \X Round
      /\ tried \subseteq (0..(MaxHeight + 1)) \X Round
  BY AtHeight
<1>4. round' \in Round
  <2>1. round \in 0..MaxRound /\ MaxRound \in Nat
    BY <1>3, Constants DEF Round
  <2> QED
    BY <1>1, <2>1 DEF Round
<1>5. Concerns(h)
  <2>1. \A k \in 0..(MaxHeight + Ahead + 1), r \in Round :
           asked'[k][r] >= asked[k][r] /\ asked'[k][r] = asked[k][r]
    <3>1. asked' = asked /\ \A n \in Nat : n >= n
      BY <1>1
    <3> QED
      BY <1>3, <3>1
  <2>2. drawn' \subseteq (0..(MaxHeight + SortBlocks)) \X Round /\ drawn \subseteq drawn'
    <3>1. h \in 0..(MaxHeight + SortBlocks)
      BY <1>3, Constants
    <3> QED
      BY <1>1, <1>3, <1>4, <3>1 DEF Redrawn
  <2> QED
    BY <1>1, <1>2, <1>3, <1>4, <2>1, <2>2 DEF Concerns
<1>6. ASSUME ~Repeated, Newest(h), RoundOf(h)
      PROVE  RoundOf(h)' /\ asked'[h][0] = asked[h][0]
  <2>1. ~Waits(h)' /\ timers'["nch"][h] = 0 /\ timers'["tch"][h] = 0 /\ timers'["cch"][h] = 0
    BY <1>2, <1>6 DEF Waits, Station
  <2>2. /\ \A r \in Later : asked[h][r] <= 1 /\ (asked[h][r] > 0 => r <= round)
        /\ <<h, round>> \in tried
    BY <1>1, <1>6 DEF RoundOf, Waits
  <2>3. ~(Overdue(h) /\ handled[h - 1] > 0)
    BY <1>1, <1>3, <1>6, AtHeight DEF RoundOf, Station
  <2>4. ~(Overdue(h)' /\ handled'[h - 1] > 0)
    BY <1>1, <2>3 DEF Overdue
  <2>5. CASE timers' = Less(timers, "tch", h) /\ round' = round
    <3>1. ~Redraws(h)'
      BY <1>2, <1>6, <2>5 DEF Redraws, Station
    <3> QED
      BY <1>1, <2>1, <2>2, <2>4, <2>5, <3>1 DEF RoundOf
  <2>6. CASE round' = round + 1 /\ drawn' = drawn \cup Redrawn(h, round + 1)
    <3>1. round' > 0 /\ round' - 1 = round /\ \A r \in Later : r <= round => r < round' /\ r <= round'
      BY <1>3, <2>6, Constants DEF Later
    <3>2. HasSorts(h)'
      BY <2>6 DEF HasSorts, Redrawn
    <3> QED
      BY <1>1, <2>1, <2>2, <2>4, <3>1, <3>2 DEF RoundOf
  <2> QED
    BY <1>1, <2>5, <2>6
<1> QED
  BY <1>1, <1>5, <1>6, TimerKeeps

LEMMA RoundsResortTimeout ==
    ASSUME InvRounds, NEW h \in Heights, ResortTimeout(h)
    PROVE  InvRounds'
<1>1. /\ timers["resortTimeout"][h] > 0
      /\ timers' = IF last >= h THEN Less(timers, "resortTimeout", h)
                   ELSE More(Less(timers, "resortTimeout", h), "cch", last + 1)
      /\ UNCHANGED <<round, handled, drawn, asked, tried>>
      /\ UNCHANGED <<last, forks, events, cur, push, bch, overtaken>>
  BY DEF ResortTimeout, chain, queue
<1>2. /\ timers \in Table /\ \A s \in Station : timers[s][h] \in Nat
      /\ h \in 0..(MaxHeight + 1) /\ round \in Round /\ round \in Nat /\ h \in Nat
      /\ asked \in [0..(MaxHeight + Ahead + 1) -> [Round -> Nat]]
      /\ \A k \in 0..(MaxHeight + Ahead + 1), r \in Round : asked[k][r] \in Nat
      /\ drawn \subseteq (0..(MaxHeight + SortBlocks)) \X Round
      /\ tried \subseteq (0..(MaxHeight + 1)) \X Round
  BY AtHeight
<1>3. Tokens(h) > 0
  <2> DEFINE a == timers["nch"][h]
             b == timers["blockTimeout"][h]
             c == timers["tch"][h]
             d == timers["resortTimeout"][h]
             e == timers["cch"][h]
  <2>1. a \in Nat /\ b \in Nat /\ c \in Nat /\ d \in Nat /\ e \in Nat /\ d > 0
    BY <1>1, <1>2 DEF Station
  <2> HIDE DEF a, b, c, d, e
  <2>2. a + b + c + d + e > 0
    BY <2>1
  <2> QED
    BY <2>2 DEF Tokens, a, b, c, d, e
<1>4. ~(last >= h) => last + 1 = h
  BY <1>3, TimerOnChain
<1>5. \/ timers' = Move(timers, "resortTimeout", "cch", h)
      \/ timers' = Less(timers, "resortTimeout", h)
  BY <1>1, <1>4 DEF Move
<1>6. /\ timers' \in Table
      /\ \A k \in Heights \ {h}, u \in Station : timers'[u][k] = timers[u][k]
      /\ Tokens(h)' <= Tokens(h)
      /\ ~Repeated => \A u \in Station : u # "cch" => timers'[u][h] = 0
  BY <1>1, <1>5, MovesOn DEF Station
<1>7. Concerns(h)
  <2>1. \A k \in 0..(MaxHeight + Ahead + 1), r \in Round :
           asked'[k][r] >= asked[k][r] /\ asked'[k][r] = asked[k][r]
    <3>1. asked' = asked /\ \A n \in Nat : n >= n
      BY <1>1
    <3> QED
      BY <1>2, <3>1
  <2> QED
    BY <1>1, <1>2, <1>3, <1>6, <2>1 DEF Concerns
<1>8. ASSUME ~Repeated, Newest(h), RoundOf(h)
      PROVE  RoundOf(h)' /\ asked'[h][0] = asked[h][0]
  <2>1. ~Waits(h)' /\ timers'["nch"][h] = 0 /\ timers'["tch"][h] = 0
    BY <1>6, <1>8 DEF Waits, Station
  <2>2. Redraws(h)
    BY <1>1 DEF Redraws
  <2>3. /\ \A r \in Later : asked[h][r] <= 1 /\ (asked[h][r] > 0 => r <= round /\ r < round)
        /\ round > 0 /\ <<h, round - 1>> \in tried /\ HasSorts(h)
    BY <1>8, <2>2 DEF RoundOf
  <2>4. ~(Overdue(h) /\ handled[h - 1] > 0)
    BY <1>8, <2>2 DEF RoundOf
  <2>5. ~(Overdue(h)' /\ handled'[h - 1] > 0) /\ HasSorts(h)'
    BY <1>1, <2>3, <2>4 DEF Overdue, HasSorts
  <2> QED
    BY <1>1, <2>1, <2>3, <2>5 DEF RoundOf
<1> QED
  BY <1>1, <1>7, <1>8, TimerKeeps

\* The committee of the round is voted for, once.
LEMMA RoundsCch ==
    ASSUME InvRounds, NEW h \in Heights, Cch(h)
    PROVE  InvRounds'
<1>1. /\ timers["cch"][h] > 0
      /\ asked' = [asked EXCEPT ![h][round] = @ + 1]
      /\ timers' = Move(timers, "cch", "nch", h)
      /\ UNCHANGED <<round, handled, drawn, tried>>
      /\ UNCHANGED <<last, forks, events, cur, push, bch, overtaken>>
  BY DEF Cch, chain, queue
<1>2. /\ timers' \in Table
      /\ \A k \in Heights \ {h}, u \in Station : timers'[u][k] = timers[u][k]
      /\ Tokens(h)' <= Tokens(h) /\ Tokens(h) > 0
      /\ ~Repeated => \A u \in Station : u # "nch" => timers'[u][h] = 0
  BY <1>1, MovesOn DEF Station
<1>3. /\ h \in 0..(MaxHeight + 1) /\ round \in Round /\ round \in Nat /\ h \in Nat
      /\ h \in 0..(MaxHeight + Ahead + 1)
      /\ asked \in [0..(MaxHeight + Ahead + 1) -> [Round -> Nat]]
      /\ \A k \in 0..(MaxHeight + Ahead + 1), r \in Round : asked[k][r] \in Nat
      /\ drawn \subseteq (0..(MaxHeight + SortBlocks)) \X Round
      /\ tried \subseteq (0..(MaxHeight + 1)) \X Round
  BY AtHeight
<1>4. /\ asked' \in [0..(MaxHeight + Ahead + 1) -> [Round -> Nat]]
      /\ \A k \in 0..(MaxHeight + Ahead + 1), r \in Round :
            asked'[k][r] = IF k = h /\ r = round THEN asked[k][r] + 1 ELSE asked[k][r]
  BY <1>1, <1>3, Bumped
<1>5. Concerns(h)
  <2>1. \A k \in 0..(MaxHeight + Ahead + 1), r \in Round :
           asked'[k][r] >= asked[k][r] /\ (k # h => asked'[k][r] = asked[k][r])
    BY <1>3, <1>4
  <2> QED
    BY <1>1, <1>2, <1>3, <1>4, <2>1 DEF Concerns
<1>6. ASSUME ~Repeated, Newest(h), RoundOf(h)
      PROVE  RoundOf(h)' /\ asked'[h][0] = asked[h][0]
  <2>1. ~Waits(h)' /\ ~Redraws(h)' /\ timers'["tch"][h] = 0
    BY <1>2, <1>6 DEF Waits, Redraws, Station
  <2>2. Redraws(h)
    BY <1>1 DEF Redraws
  <2>3. /\ \A r \in Later : asked[h][r] <= 1 /\ (asked[h][r] > 0 => r <= round /\ r < round)
        /\ round > 0 /\ <<h, round - 1>> \in tried /\ HasSorts(h)
    BY <1>6, <2>2 DEF RoundOf
  <2>4. ~(Overdue(h) /\ handled[h - 1] > 0)
    BY <1>6, <2>2 DEF RoundOf
  <2>5. ~(Overdue(h)' /\ handled'[h - 1] > 0) /\ HasSorts(h)'
    BY <1>1, <2>3, <2>4 DEF Overdue, HasSorts
  <2>6. round \in Later /\ 0 \in Round /\ 0 # round
    BY <1>3, <2>3, Constants DEF Later
  <2>7. asked[h][round] = 0 /\ asked'[h][round] = 1
    <3>1. ~(asked[h][round] > 0) /\ asked[h][round] \in Nat
      BY <1>3, <2>3, <2>6
    <3> QED
      BY <1>3, <1>4, <3>1
  <2>8. \A r \in Later : asked'[h][r] <= 1 /\ (asked'[h][r] > 0 => r <= round)
    BY <1>3, <1>4, <2>3, <2>7 DEF Later
  <2>9. asked'[h][0] = asked[h][0]
    BY <1>3, <1>4, <2>6
  <2> QED
    BY <1>1, <2>1, <2>3, <2>5, <2>7, <2>8, <2>9 DEF RoundOf
<1> QED
  BY <1>1, <1>5, <1>6, TimerKeeps
-----------------------------------------------------------------------------
LEMMA RoundsStep == InvRounds /\ [Next]_vars => InvRounds'
<1> SUFFICES ASSUME InvRounds, [Next]_vars PROVE InvRounds'
  OBVIOUS
<1>0. TypeOK /\ Ordered
  BY DEF InvRounds
<1>1. CASE Connect \/ Replace
  BY <1>0, <1>1, OrderedConnect, RoundsApart
<1>2. CASE DelBlock \/ \E p \in Pusher : AddBlock(p)
  BY <1>0, <1>2, OrderedHear, RoundsApart
<1>3. CASE DelayOver \/ \E p \in Pusher : Push(p)
  BY <1>0, <1>3, OrderedPush, RoundsApart
<1>4. CASE NewBlock
  BY <1>4, RoundsNewBlock
<1>5. ASSUME NEW h \in Heights, Timer(h) PROVE InvRounds'
  BY <1>5, RoundsNch, RoundsBlockTimeout, RoundsTch, RoundsResortTimeout, RoundsCch
  DEF Timer
<1>6. CASE UNCHANGED vars
  <2>1. TypeOK' /\ TriedInOrder'
    BY <1>6 DEF vars, InvRounds, TypeOK, TriedInOrder, Repeated
  <2>2. Ordered'
    BY <1>6 DEF vars, InvRounds, Ordered, Below, Seen
  <2>3. OneTimer'
    BY <1>6 DEF vars, InvRounds, OneTimer, Tokens
  <2>4. ASSUME NEW h \in Heights, RoundOf(h) PROVE RoundOf(h)'
    BY <1>6, <2>4 DEF vars, RoundOf, Overdue, Waits, Redraws, HasSorts
  <2>5. \A h \in Heights : (Newest(h)' <=> Newest(h)) /\ (AskedFirst(h)' <=> AskedFirst(h))
    BY <1>6 DEF vars, Newest, AskedFirst
  <2>6. InRound'
    BY <1>6, <2>4, <2>5 DEF vars, InvRounds, InRound, Repeated
  <2> QED
    BY <2>1, <2>2, <2>3, <2>6 DEF InvRounds
<1> QED
  BY <1>1, <1>2, <1>3, <1>4, <1>5, <1>6 DEF Next, Heights

\* The types hold, pushBlock never overfills bch and no timer is stopped twice.
THEOREM TypesKept == Spec => []TypeOK
BY RoundsInit, RoundsStep, PTL DEF Spec, InvRounds

\* A node votes once for the committee of a height that is still to come and a
\* round, unless a block was handled again (voteCommittee, AskedOnce).
THEOREM CommitteesAskedOnce == Spec => []AskedOnce
<1>1. InvRounds => AskedOnce
  <2> SUFFICES ASSUME InvRounds, ~Repeated,
                      NEW h \in (cur + 1)..(MaxHeight + 1), NEW r \in Round
               PROVE  asked[h][r] <= 1
    BY DEF AskedOnce
  <2>1. cur \in Nat /\ h \in Nat /\ cur < h /\ h \in Heights
    <3>1. cur \in Nat /\ MaxHeight \in Nat
      BY Constants DEF InvRounds, TypeOK
    <3> QED
      BY <3>1 DEF Heights
  <2>2. Newest(h)
    <3>1. \A b \in Height : handled[b] > 0 => b <= cur /\ b \in Nat
      BY Constants DEF InvRounds, Ordered, Below, Seen
    <3> QED
      BY <2>1, <3>1 DEF Newest
  <2>3. RoundOf(h) /\ AskedFirst(h)
    BY <2>1, <2>2 DEF InvRounds, InRound
  <2>4. CASE r = 0
    <3>1. /\ asked[h][0] \in Nat
          /\ \A b \in Height : handled[b] \in Nat /\ handled[b] <= 1
      <4>1. handled \in [Height -> Nat]
        BY DEF InvRounds, TypeOK
      <4>2. \A b \in Height : handled[b] \in Nat /\ ~(handled[b] > 1)
        BY <4>1 DEF Repeated
      <4>3. h \in 0..(MaxHeight + Ahead + 1) /\ 0 \in Round
        BY <2>1, Constants
      <4>4. asked[h][0] \in Nat
        BY <4>3 DEF InvRounds, TypeOK
      <4> QED
        BY <4>2, <4>4
    <3> QED
      BY <2>3, <2>4, <3>1 DEF AskedFirst
  <2>5. CASE r # 0
    BY <2>3, <2>5 DEF RoundOf, Later
  <2> QED
    BY <2>4, <2>5
<1> QED
  BY <1>1, RoundsInit, RoundsStep, PTL DEF Spec

\* A block is tried in a later round only after the round before, its committee
\* voted for and sorts drawn, unless a block was handled again (TriedInOrder).
THEOREM RoundsInOrder == Spec => []TriedInOrder
BY RoundsInit, RoundsStep, PTL DEF Spec, InvRounds
=============================================================================
