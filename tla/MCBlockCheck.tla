---------------------------- MODULE MCBlockCheck ----------------------------
(* Two nodes, of which either may have a majority of the sorts.  Both can make
   the block of height 3, so it may be replaced; that of height 5 is made with
   sorts drawn from it.  nA draws nothing from nB's block, and nB binds its key late. *)
EXTENDS BlockCheck

CONSTANTS nA, nB

MCRoot == [h \in 1..2 |-> [height |-> h, sort |-> Sort(nA, h, 0, ZeroHash), binds |-> {}]]

MCQuorums == {{n} : n \in Node}

MCWins(n, h, r, seed) ==
    /\ r > 0 => h = 5
    /\ seed # ZeroHash => ~(n = nA /\ seed.owner = nB)
=============================================================================
