-------------------------------- MODULE DoSort --------------------------------
(***************************************************************************)
(* doSort hashes each of a node's stake units in worker goroutines: a      *)
(* goroutine of its own feeds the requests to the workers while doSort     *)
(* takes as many results as there are units from an unbuffered channel,    *)
(* closes it and returns the units that won                                *)
(* (plugin/consensus/pos33/sortition.go).                                  *)
(*                                                                         *)
(* A unit is its index, from 1.  The queue is the set of requests in it.   *)
(***************************************************************************)
EXTENDS Pools

VARIABLES
    wins,      \* for each unit of the draw, whether its hash wins; << >> between calls
    drawn,     \* the units the last draw returned
    sent,      \* requests the feeding goroutine has sent
    queue,     \* n.sortCh
    busy,      \* the unit a worker hashes, 0 when it has none
    got        \* the units doSort has the result of

vars == <<wins, drawn, sent, queue, busy, got>>

Draw == UNION {[1..n -> BOOLEAN] : n \in 1..MaxCount}

Size == Cardinality(DOMAIN wins)

Init ==
    /\ wins = << >> /\ drawn = {}
    /\ sent = 0 /\ queue = {} /\ got = {}
    /\ busy = [w \in Worker |-> 0]

\* committeeSort calls doSort with the node's ticket count.
Call ==
    /\ wins = << >>
    /\ wins' \in Draw
    /\ UNCHANGED <<drawn, sent, queue, busy, got>>

\* Without a count the loops end at once; without the key doSort is not called.
CallNone ==
    /\ wins = << >>
    /\ drawn' = {}
    /\ UNCHANGED <<wins, sent, queue, busy, got>>

\* n.sortCh <- &sortArg{...}
Feed ==
    /\ sent < Size
    /\ Cardinality(queue) < QueueSize
    /\ sent' = sent + 1
    /\ queue' = queue \cup {sent + 1}
    /\ UNCHANGED <<wins, drawn, busy, got>>

\* A worker receives a request.
Take(w) ==
    /\ busy[w] = 0
    /\ \E i \in queue : /\ busy' = [busy EXCEPT ![w] = i]
                        /\ queue' = queue \ {i}
    /\ UNCHANGED <<wins, drawn, sent, got>>

\* Mutated: the loop ends one result early.
IsLastButOne(i) == Cardinality(got \cup {i}) + 1 >= Size

\* j == count
IsLast(i) == Cardinality(got \cup {i}) = Size

\* The channel has no buffer: s.ch <- sortF(...) waits for m := <-ch.
Collect(w) ==
    /\ wins # << >> /\ busy[w] # 0
    /\ ~IsLast(busy[w])
    /\ got' = got \cup {busy[w]}
    /\ busy' = [busy EXCEPT ![w] = 0]
    /\ UNCHANGED <<wins, drawn, sent, queue>>

\* The last result: close(ch) and return the results that are not nil.
Return(w) ==
    /\ wins # << >> /\ busy[w] # 0
    /\ IsLast(busy[w])
    /\ drawn' = {i \in got \cup {busy[w]} : wins[i]}
    /\ wins' = << >> /\ sent' = 0 /\ got' = {}
    /\ busy' = [busy EXCEPT ![w] = 0]
    /\ UNCHANGED queue

WorkerStep(w) == Take(w) \/ Collect(w) \/ Return(w)

Next == Call \/ CallNone \/ Feed \/ \E w \in Worker : WorkerStep(w)

Spec == Init /\ [][Next]_vars
-----------------------------------------------------------------------------
(* Properties *)

Busy == {busy[w] : w \in Worker} \ {0}

\* Types.
TypeOK ==
    /\ wins \in Draw \cup {<< >>}
    /\ drawn \subseteq 1..MaxCount
    /\ sent \in Nat
    /\ busy \in [Worker -> Nat]
    /\ {queue, got} \subseteq SUBSET (DOMAIN wins)

\* Every request fed to the workers is in exactly one place: waiting, with one
\* worker, or answered; and none is left when no draw goes on, so that no worker
\* sends on the closed channel of a draw that has returned.
Conserved ==
    /\ queue \cup Busy \cup got = 1..sent
    /\ queue \cap (Busy \cup got) = {} /\ Busy \cap got = {}
    /\ \A w, x \in Worker : busy[w] = busy[x] /\ busy[w] # 0 => w = x
    /\ sent <= Size
    /\ wins = << >> => sent = 0 /\ got = {}

\* A draw returns the units that won, all of them and no other, once, whatever
\* order the workers answer in.
Sorts == INSTANCE SortDraw WITH MaxCount <- MaxCount, wins <- wins, drawn <- drawn
SortImplements == Sorts!Spec
=============================================================================
