----------------------------- MODULE MCElection -----------------------------
(* Small instances of the election for TLC. *)
EXTENDS Election

CONSTANTS nA, nB, nC   \* the nodes

\* Five sorts: nA and nB drew two each, nC one.
MCFiveSorts == 1..5
MCFiveOwners == <<nA, nB, nC, nA, nB>>
=============================================================================
