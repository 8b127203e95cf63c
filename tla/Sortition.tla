------------------------------ MODULE Sortition ------------------------------
(***************************************************************************)
(* Which block a sort is drawn from and how it is verified                 *)
(* (plugin/consensus/pos33/sortition.go, node.go).  The sorts one address  *)
(* draws for a height and round are one record; the record stands for its  *)
(* VRF proof and hash, so two draws differ when any of their inputs does.  *)
(* A chain is the sequence of its blocks from height 1 on.                 *)
(***************************************************************************)
EXTENDS Naturals, Sequences, SequencesExt

CONSTANTS
    Node,
    SortBlocks,          \* Pos33SortBlocks
    ZeroHash,            \* zeroHash
    Wins(_, _, _, _)     \* a node draws a sort for a height and round from a seed

Sort(n, h, r, seed) == [owner |-> n, height |-> h, round |-> r, seed |-> seed]

\* getMinerSeed: the hash of the sort of the block's maker.
MinerSeed(b) == IF b.height > SortBlocks THEN b.sort ELSE ZeroHash

\* getSortSeed.  The chain has the block, or it fails.
SortSeed(chain, h) == IF h < SortBlocks THEN ZeroHash ELSE MinerSeed(chain[h])

\* committeeSort: what node n draws, if anything.
Drawn(n, h, r, seed) == IF Wins(n, h, r, seed) THEN {Sort(n, h, r, seed)} ELSE {}

\* sortition, when block b is handled.
DrawAfter(n, b) == Drawn(n, b.height + SortBlocks, 0, MinerSeed(b))

\* reSortition, when the next height timed out.
Redraw(n, chain, r) ==
    LET h == Len(chain) + 1 IN Drawn(n, h, r, MinerSeed(chain[h - SortBlocks]))

\* vrfVerify: the proof of a sort fits the input it was drawn from and no other.
VrfVerify(s, input) == s = Sort(s.owner, input.height, input.round, input.seed)

\* verifySort: the sort was drawn from the seed; those of the first heights are
\* not verified.
VerifySort(s, seed) ==
    s.height > SortBlocks => VrfVerify(s, [height |-> s.height, round |-> s.round, seed |-> seed])

\* checkSort: the chain has the block a sort should be drawn from, and it was.
CheckSort(chain, s) ==
    /\ s.height - SortBlocks <= Len(chain)
    /\ VerifySort(s, SortSeed(chain, s.height - SortBlocks))
=============================================================================
