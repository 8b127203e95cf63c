------------------------------ MODULE VoteCheck ------------------------------
(* What verifyVotes promises: asked about a batch of votes, it answers, once,
   whether all of them are valid (plugin/consensus/pos33/node.go). *)
EXTENDS Naturals

CONSTANT MaxVotes   \* bound on the votes of one message

VARIABLES
    valid,     \* for each vote of the batch, whether it verifies; << >> between calls
    verdict    \* the last answer

\* A message without votes is not checked.
Batch == UNION {[1..n -> BOOLEAN] : n \in 1..MaxVotes}

Init == valid = << >> /\ verdict = FALSE

Ask ==
    /\ valid = << >>
    /\ valid' \in Batch
    /\ UNCHANGED verdict

Answer ==
    /\ valid # << >>
    /\ valid' = << >>
    /\ verdict' = \A v \in DOMAIN valid : valid[v]

Next == Ask \/ Answer

Spec == Init /\ [][Next]_<<valid, verdict>>
=============================================================================
