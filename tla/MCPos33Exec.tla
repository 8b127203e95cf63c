---------------------------- MODULE MCPos33Exec ----------------------------
(* Small instances of the pos33 contract for TLC. *)
EXTENDS Pos33Exec

CONSTANTS u, m, k1, k2   \* a consignor, a miner, two BLS keys

\* Both addresses can entrust, and both can be entrusted to.
MCTwoAddrs == <<m, u>>

\* A ticket costs 2.  u entrusts to m and to itself, in whole tickets, and takes
\* back from m more than it entrusted to it.
MCOverdrawRequests == {<<u, m, 2>>, <<u, m, -4>>, <<u, u, 4>>, <<m, m, 6>>}

\* Stake that stays or is taken back as it was given: m has two consignors.
MCRewardRequests ==
    {<<u, m, 2>>, <<u, m, -2>>, <<m, m, 6>>, <<u, u, 4>>}

MCOneKey == {k1}
MCTwoKeys == {k1, k2}
MCOneKeyLists == {<<k1>>, <<k1, k1>>}
MCTwoKeyLists == {<<k1>>, <<k1, k2>>}

\* All of three tickets' reward loses a unit to the rounding of the quotient.
MCFloatLow == {<<5, 3, 3>>, <<10, 3, 3>>}
=============================================================================
