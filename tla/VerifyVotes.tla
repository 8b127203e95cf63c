----------------------------- MODULE VerifyVotes -----------------------------
(***************************************************************************)
(* verifyVotes spreads the signatures of a message over worker goroutines: *)
(* it sends one request for each vote, looks whether a result is already   *)
(* there and stops sending once one is bad, then collects a result for     *)
(* each request it sent and closes the results' channel                    *)
(* (plugin/consensus/pos33/node.go).                                       *)
(*                                                                         *)
(* A vote is its position in the message.  A channel is the set of votes   *)
(* in it: the order of requests and of results does not matter here.       *)
(***************************************************************************)
EXTENDS Pools

VARIABLES
    valid,     \* for each vote of the message, whether it verifies; << >> between calls
    verdict,   \* the last result of verifyVotes
    pc,        \* where verifyVotes is
    k,         \* requests sent
    queue,     \* n.vCh
    busy,      \* the vote a worker verifies, 0 when it has none
    ch,        \* the results' channel, of capacity len(vs)
    held,      \* the result verifyVotes took out to look at, 0 for none
    got        \* results collected

vars == <<valid, verdict, pc, k, queue, busy, ch, held, got>>

Batch == UNION {[1..n -> BOOLEAN] : n \in 1..MaxVotes}

Size == Cardinality(DOMAIN valid)

Init ==
    /\ valid = << >> /\ verdict = FALSE
    /\ pc = "idle"
    /\ k = 0
    /\ queue = {}
    /\ busy = [w \in Worker |-> 0]
    /\ ch = {} /\ held = 0 /\ got = {}

\* verifyVotes is called: the run loop does so for one message at a time.
Call ==
    /\ pc = "idle"
    /\ pc' = "send"
    /\ valid' \in Batch
    /\ UNCHANGED <<verdict, k, queue, busy, ch, held, got>>

\* n.vCh <- vArg{v, ch}
Send ==
    /\ pc = "send"
    /\ Cardinality(queue) < QueueSize
    /\ queue' = queue \cup {k + 1}
    /\ k' = k + 1
    /\ pc' = "peek"
    /\ UNCHANGED <<valid, verdict, busy, ch, held, got>>

\* select without a result: go on with the next vote.
PeekNothing ==
    /\ pc = "peek"
    /\ ch = {}
    /\ pc' = IF k = Size THEN "collect" ELSE "send"
    /\ UNCHANGED <<valid, verdict, k, queue, busy, ch, held, got>>

\* case ok := <-ch
PeekResult ==
    /\ pc = "peek"
    /\ \E v \in ch : held' = v /\ ch' = ch \ {v}
    /\ pc' = "putback"
    /\ UNCHANGED <<valid, verdict, k, queue, busy, got>>

\* Mutated: a good result that was looked at is not sent back.
PutBackBad ==
    /\ pc = "putback"
    /\ Cardinality(ch) < Size
    /\ ch' = IF valid[held] THEN ch ELSE ch \cup {held}
    /\ held' = 0
    /\ pc' = IF k = Size \/ ~valid[held] THEN "collect" ELSE "send"
    /\ UNCHANGED <<valid, verdict, k, queue, busy, got>>

\* Mutated: a good result that was sent back is looked at again.
PutBackPeeks ==
    /\ pc = "putback"
    /\ Cardinality(ch) < Size
    /\ ch' = ch \cup {held}
    /\ held' = 0
    /\ pc' = IF ~valid[held] THEN "collect" ELSE "peek"
    /\ UNCHANGED <<valid, verdict, k, queue, busy, got>>

\* ch <- ok, and no further request after a bad result.
PutBack ==
    /\ pc = "putback"
    /\ Cardinality(ch) < Size
    /\ ch' = ch \cup {held}
    /\ held' = 0
    /\ pc' = IF k = Size \/ ~valid[held] THEN "collect" ELSE "send"
    /\ UNCHANGED <<valid, verdict, k, queue, busy, got>>

\* Mutated: the loop ends at the first bad result.
IsLastOrBad(v) == Cardinality(got \cup {v}) = k \/ ~valid[v]

\* Mutated: the loop ends one result early.
IsLastButOne(v) == Cardinality(got \cup {v}) + 1 >= k

\* if k == j
IsLast(v) == Cardinality(got \cup {v}) = k

\* for ok := range ch
Collect(v) ==
    /\ pc = "collect"
    /\ ~IsLast(v)
    /\ ch' = ch \ {v}
    /\ got' = got \cup {v}
    /\ UNCHANGED <<valid, verdict, pc, k, queue, busy, held>>

\* The last result: close(ch) and return.
Return(v) ==
    /\ pc = "collect"
    /\ IsLast(v)
    /\ verdict' = \A u \in got \cup {v} : valid[u]
    /\ ch' = ch \ {v}
    /\ pc' = "idle"
    /\ valid' = << >>
    /\ k' = 0
    /\ got' = {}
    /\ UNCHANGED <<queue, busy, held>>

\* A worker receives a request.
Take(w) ==
    /\ busy[w] = 0
    /\ \E v \in queue : /\ busy' = [busy EXCEPT ![w] = v]
                        /\ queue' = queue \ {v}
    /\ UNCHANGED <<valid, verdict, pc, k, ch, held, got>>

\* v.ch <- v.v.Verify()
Reply(w) ==
    /\ busy[w] # 0
    /\ Cardinality(ch) < Size
    /\ ch' = ch \cup {busy[w]}
    /\ busy' = [busy EXCEPT ![w] = 0]
    /\ UNCHANGED <<valid, verdict, pc, k, queue, held, got>>

CallerStep ==
    \/ Send
    \/ PeekNothing
    \/ PeekResult
    \/ PutBack
    \/ \E v \in ch : Collect(v)
    \/ \E v \in ch : Return(v)

WorkerStep(w) == Take(w) \/ Reply(w)

Next == Call \/ CallerStep \/ \E w \in Worker : WorkerStep(w)

Spec == Init /\ [][Next]_vars
-----------------------------------------------------------------------------
(* Properties *)

Busy == {busy[w] : w \in Worker} \ {0}

Held == {held} \ {0}

\* Types.
TypeOK ==
    /\ valid \in Batch \cup {<< >>}
    /\ verdict \in BOOLEAN
    /\ pc \in {"idle", "send", "peek", "putback", "collect"}
    /\ k \in Nat
    /\ busy \in [Worker -> Nat]
    /\ held \in Nat
    /\ {queue, ch, got} \subseteq SUBSET (DOMAIN valid)

\* Every request sent is in exactly one place: waiting, with one worker, or
\* answered and waiting, looked at or collected.  So no result is lost or
\* counted twice, and the channel has room for each.
Conserved ==
    /\ queue \cup Busy \cup ch \cup Held \cup got = 1..k
    /\ queue \cap (Busy \cup ch \cup Held \cup got) = {}
    /\ Busy \cap (ch \cup Held \cup got) = {}
    /\ ch \cap (Held \cup got) = {} /\ Held \cap got = {}
    /\ \A w, x \in Worker : busy[w] = busy[x] /\ busy[w] # 0 => w = x

\* When verifyVotes has returned, and so has closed the channel, no request is
\* left: no worker can send on a closed channel, and no result of this message
\* is taken for one of the next.
Quiet == pc = "idle" => queue = {} /\ Busy = {} /\ ch = {}

\* The answer is what VoteCheck promises: whether all votes of the message are
\* valid, including those that were not verified.
Check == INSTANCE VoteCheck WITH MaxVotes <- MaxVotes, valid <- valid, verdict <- verdict
Implements == Check!Spec
=============================================================================
