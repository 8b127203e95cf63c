------------------------------- MODULE MCNetwork -------------------------------
(* Nodes a and b boot from f, which forwards the peers it knows; b's list has a
   peer that is gone first and a malformed entry last.  a sends a message; the
   topic of peers is the second. *)
EXTENDS Network

CONSTANTS a, b, f, gone

MCAuthor == [m \in Msg |-> a]

MCTopicOf == [m \in Msg |-> 1]

MCBootPeers ==
    [n \in Node |-> IF n = a THEN <<f>> ELSE IF n = b THEN <<gone, f, Malformed>> ELSE << >>]
=============================================================================
