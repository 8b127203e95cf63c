--------------------------- MODULE Pos33ExecProofs ---------------------------
(***************************************************************************)
(* Proofs about the pos33 contract for every number of addresses, every    *)
(* price, reward and request.  The handlers loop over lists, so the        *)
(* lemmas first establish induction over the naturals (as a fact about     *)
(* sets) and the existence of a recursive function on 0..n.                *)
(***************************************************************************)
EXTENDS Pos33Exec, TLAPS, WellFoundedInduction, FiniteSetTheorems

USE DEF PairTable

(* A set of naturals that holds 0 and every successor holds all naturals. *)
LEMMA NatSetInduction ==
  ASSUME NEW A \in SUBSET Nat, 0 \in A, \A n \in A : n + 1 \in A
  PROVE  A = Nat
<1> DEFINE T == Nat \ A
           R == OpToRel(<, Nat)
<1>1. SUFFICES ASSUME T # {} PROVE FALSE
  OBVIOUS
<1>2. T \subseteq Nat
  OBVIOUS
<1>3. IsWellFoundedOn(R, Nat)
  BY NatLessThanWellFounded
<1>4. \A y, x \in Nat : y < x => <<y, x>> \in R
  BY DEF OpToRel
<1> HIDE DEF T, R
<1>5. PICK x \in T : \A y \in T : ~ (<<y, x>> \in R)
  BY <1>1, <1>2, <1>3, WFMin
<1>6. \A y \in T : ~ (y < x)
  BY <1>2, <1>4, <1>5
<1>7. x \in Nat /\ x # 0
  BY <1>2 DEF T
<1>8. x - 1 \in A
  BY <1>6, <1>7 DEF T
<1>9. x \in A
  BY <1>7, <1>8
<1> QED
  BY <1>9 DEF T

(* f is the iteration of the step function F from s. *)
Iterates(f, F, s, n) ==
    f = [i \in 0..n |-> IF i = 0 THEN s ELSE F[i][f[i - 1]]]

(* A step function on a set S can be iterated n times, and stays in S. *)
LEMMA IterationExists ==
  ASSUME NEW S, NEW s \in S, NEW n \in Nat, NEW F \in [1..n -> [S -> S]]
  PROVE  \E f \in [0..n -> S] : Iterates(f, F, s, n)
<1> DEFINE A == {k \in Nat : k <= n => \E f \in [0..k -> S] : Iterates(f, F, s, k)}
<1>1. 0 \in A
  <2> DEFINE g == [i \in 0..0 |-> s]
  <2>1. g \in [0..0 -> S] /\ Iterates(g, F, s, 0)
    BY DEF Iterates
  <2> QED
    BY <2>1
<1>2. ASSUME NEW k \in A PROVE k + 1 \in A
  <2>1. SUFFICES ASSUME k + 1 <= n
                 PROVE  \E f \in [0..(k + 1) -> S] : Iterates(f, F, s, k + 1)
    OBVIOUS
  <2>2. PICK f \in [0..k -> S] : Iterates(f, F, s, k)
    BY <2>1
  <2> DEFINE g == [i \in 0..(k + 1) |-> IF i = k + 1 THEN F[i][f[k]] ELSE f[i]]
  <2>3. F[k + 1][f[k]] \in S
    BY <2>1
  <2>4. g \in [0..(k + 1) -> S]
    BY <2>3
  <2>5. \A i \in 0..k : g[i] = f[i]
    OBVIOUS
  <2>6. \A i \in 0..k : f[i] = IF i = 0 THEN s ELSE F[i][f[i - 1]]
    BY <2>2 DEF Iterates
  <2>7. \A i \in 0..(k + 1) : g[i] = IF i = 0 THEN s ELSE F[i][g[i - 1]]
    BY <2>5, <2>6
  <2>8. g = [i \in 0..(k + 1) |-> g[i]]
    OBVIOUS
  <2> HIDE DEF g
  <2>9. Iterates(g, F, s, k + 1)
    BY <2>7, <2>8 DEF Iterates
  <2> QED
    BY <2>4, <2>9
<1>3. A = Nat
  <2>1. A \in SUBSET Nat
    OBVIOUS
  <2> HIDE DEF A
  <2> QED
    BY <1>1, <1>2, <2>1, NatSetInduction
<1> QED
  BY <1>3
-----------------------------------------------------------------------------
(* Sums over the addresses *)

IsPartialSum(s, f) ==
    /\ s \in [0..Len(AddrSeq) -> Int]
    /\ s[0] = 0
    /\ \A i \in 1..Len(AddrSeq) : s[i] = s[i - 1] + f[AddrSeq[i]]

(* The list of addresses enumerates exactly the addresses. *)
LEMMA AddrSeqType ==
  /\ Len(AddrSeq) \in Nat
  /\ \A i \in 1..Len(AddrSeq) : AddrSeq[i] \in Addr
  /\ \A a \in Addr : \E i \in 1..Len(AddrSeq) : AddrSeq[i] = a
BY AddrAssumption DEF Addr

(* Total(f) is the last of the partial sums of f. *)
LEMMA TotalPartialSums ==
  ASSUME NEW f \in [Addr -> Int]
  PROVE  \E s : IsPartialSum(s, f) /\ Total(f) = s[Len(AddrSeq)]
<1> DEFINE N == Len(AddrSeq)
           F == [i \in 1..N |-> [v \in Int |-> v + f[AddrSeq[i]]]]
           Rec(s) == s = [i \in 0..N |-> IF i = 0 THEN 0 ELSE s[i - 1] + f[AddrSeq[i]]]
<1>1. N \in Nat /\ \A i \in 1..N : f[AddrSeq[i]] \in Int
  BY AddrSeqType
<1> HIDE DEF N
<1>2. F \in [1..N -> [Int -> Int]]
  BY <1>1
<1>3. PICK s \in [0..N -> Int] : Iterates(s, F, 0, N)
  <2> DEFINE Z == Int
  <2>1. 0 \in Z /\ N \in Nat /\ F \in [1..N -> [Z -> Z]]
    BY <1>1, <1>2
  <2> HIDE DEF F, Z
  <2>2. \E s \in [0..N -> Z] : Iterates(s, F, 0, N)
    BY <2>1, IterationExists
  <2> QED
    BY <2>2 DEF Z
<1>4. Rec(s)
  <2>1. \A i \in 0..N : i # 0 => F[i][s[i - 1]] = s[i - 1] + f[AddrSeq[i]]
    BY <1>1
  <2> HIDE DEF F
  <2> QED
    BY <1>3, <2>1 DEF Iterates
<1> DEFINE c == CHOOSE t : Rec(t)
<1>5. Rec(c)
  BY <1>4
<1>6. Total(f) = c[N]
  BY DEF Total, N
<1> HIDE DEF c, F
<1>7. \A i \in 0..N : c[i] = IF i = 0 THEN 0 ELSE c[i - 1] + f[AddrSeq[i]]
  BY <1>5
<1>8. c = [i \in 0..N |-> c[i]]
  BY <1>5
<1> DEFINE A == {i \in Nat : i <= N => c[i] \in Int}
<1>9. A = Nat
  <2>1. 0 \in A
    BY <1>1, <1>7
  <2>2. ASSUME NEW i \in A PROVE i + 1 \in A
    <3>1. SUFFICES ASSUME i + 1 <= N PROVE c[i + 1] \in Int
      OBVIOUS
    <3>2. i \in 0..N /\ i + 1 \in 1..N /\ (i + 1) - 1 = i /\ c[i] \in Int
      BY <1>1, <3>1
    <3>3. f[AddrSeq[i + 1]] \in Int
      BY <1>1, <3>2
    <3>4. c[i + 1] = c[i] + f[AddrSeq[i + 1]]
      BY <1>1, <1>7, <3>2
    <3> QED
      BY <3>2, <3>3, <3>4
  <2>3. A \in SUBSET Nat
    OBVIOUS
  <2> HIDE DEF A
  <2> QED
    BY <2>1, <2>2, <2>3, NatSetInduction
<1>10. c \in [0..N -> Int]
  BY <1>8, <1>9
<1>11. IsPartialSum(c, f)
  BY <1>1, <1>7, <1>10 DEF IsPartialSum, N
<1> QED
  BY <1>6, <1>11 DEF N

(* A sum of integers is an integer. *)
LEMMA TotalType ==
  ASSUME NEW f \in [Addr -> Int]
  PROVE  Total(f) \in Int
BY TotalPartialSums, AddrSeqType DEF IsPartialSum

(* Changing f at one address changes the sum by as much. *)
LEMMA TotalUpdate ==
  ASSUME NEW f \in [Addr -> Int], NEW g \in [Addr -> Int], NEW a \in Addr,
         \A b \in Addr \ {a} : g[b] = f[b]
  PROVE  Total(g) = Total(f) + (g[a] - f[a])
<1> DEFINE N == Len(AddrSeq)
           d == g[a] - f[a]
<1>1. PICK s : IsPartialSum(s, f) /\ Total(f) = s[N]
  BY TotalPartialSums
<1>2. PICK t : IsPartialSum(t, g) /\ Total(g) = t[N]
  BY TotalPartialSums
<1>3. PICK k \in 1..N : AddrSeq[k] = a
  BY AddrSeqType
<1>4. \A i \in 1..N : i # k => AddrSeq[i] \in Addr \ {a}
  BY <1>3, AddrSeqType, AddrAssumption
<1>5. N \in Nat /\ d \in Int
  BY AddrSeqType
<1> DEFINE A == {i \in Nat : i <= N => t[i] = s[i] + (IF i < k THEN 0 ELSE d)}
<1>6. 0 \in A
  BY <1>1, <1>2, <1>5 DEF IsPartialSum
<1>7. ASSUME NEW i \in A PROVE i + 1 \in A
  <2>1. SUFFICES ASSUME i + 1 <= N
                 PROVE  t[i + 1] = s[i + 1] + (IF i + 1 < k THEN 0 ELSE d)
    OBVIOUS
  <2>2. i \in 0..N /\ i + 1 \in 1..N /\ (i + 1) - 1 = i
    BY <1>5, <2>1
  <2>3. t[i] = s[i] + (IF i < k THEN 0 ELSE d)
    BY <1>5, <2>1
  <2>4. /\ s[i + 1] = s[i] + f[AddrSeq[i + 1]] /\ s[i] \in Int
        /\ t[i + 1] = t[i] + g[AddrSeq[i + 1]]
    BY <1>1, <1>2, <2>2 DEF IsPartialSum
  <2>5. CASE i + 1 = k
    <3>1. f[a] \in Int /\ g[a] \in Int
      OBVIOUS
    <3> QED
      BY <1>3, <2>3, <2>4, <2>5, <3>1
  <2>6. CASE i + 1 # k
    <3>1. f[AddrSeq[i + 1]] = g[AddrSeq[i + 1]] /\ f[AddrSeq[i + 1]] \in Int
      BY <1>4, <2>2, <2>6
    <3> QED
      BY <1>5, <2>3, <2>4, <2>6, <3>1
  <2> QED
    BY <2>5, <2>6
<1>8. A = Nat
  <2>1. A \in SUBSET Nat
    OBVIOUS
  <2> HIDE DEF A
  <2> QED
    BY <1>6, <1>7, <2>1, NatSetInduction
<1>9. t[N] = s[N] + d
  BY <1>3, <1>5, <1>8
<1> QED
  BY <1>1, <1>2, <1>9
-----------------------------------------------------------------------------
(* Arithmetic and the reward ledger *)

(* A wrapped sum or product is an integer. *)
LEMMA WrapType ==
  ASSUME NEW x \in Int
  PROVE  Wrap(x) \in Int
<1> DEFINE w == -2 * MinInt64
<1>1. MinInt64 \in Int /\ w \in Int /\ w > 0
  BY ParamAssumption DEF MinInt64
<1>2. x - MinInt64 \in Int
  BY <1>1
<1> HIDE DEF w
<1>3. (x - MinInt64) % w \in Int
  BY <1>1, <1>2
<1> QED
  BY <1>1, <1>3 DEF Wrap, w

(* Go's division of integers returns an integer. *)
LEMMA TruncType ==
  ASSUME NEW a \in Int, NEW b \in Int, b # 0
  PROVE  Trunc(a, b) \in Int
<1>1. Abs(a) \in Int /\ Abs(b) \in Nat \ {0}
  BY DEF Abs
<1> HIDE DEF Abs
<1>2. Abs(a) \div Abs(b) \in Int
  BY <1>1
<1> QED
  BY <1>2 DEF Trunc

(* A share of a reward is an integer, whatever the ticket counts. *)
LEMMA ShareType ==
  ASSUME NEW R \in Int, NEW k \in Int, NEW n \in Int
  PROVE  Share(R, k, n) \in Int
<1>1. R * k \in Int /\ k * R \in Int
  OBVIOUS
<1>2. CASE n # 0
  <2>1. Trunc(R * k, n) \in Int
    BY <1>1, <1>2, TruncType
  <2> QED
    BY <1>2, <2>1 DEF Share
<1>3. CASE n = 0
  <2>1. {MinInt64, 0, MaxInt64} \subseteq Int
    BY ParamAssumption DEF MinInt64
  <2> QED
    BY <1>3, <2>1 DEF Share
<1> QED
  BY <1>2, <1>3

(* A successful pass takes coins from no wallet. *)
Gains(C, D) ==
    D.ok => C.ok /\ \A a \in Addr : D.wallet[a] >= C.wallet[a]

(* Nothing that is due is unpaid, over the pairs and the consignees. *)
Settled(L) ==
    \A e, r \in Addr : /\ L.remain[e][r] < RewardTransfer
                       /\ L.remainFee[e] < 10 * RewardTransfer

(* What every reward pass from L to M guarantees. *)
PassOK(L, M) ==
    /\ M \in Ledger
    /\ Gains(L.coins, M.coins)
    /\ Settled(L) => Settled(M)

(* Wallets that only gain, twice in a row, only gain. *)
LEMMA GainsTransitive ==
  ASSUME NEW C \in Coins, NEW D \in Coins, NEW E \in Coins,
         Gains(C, D), Gains(D, E)
  PROVE  Gains(C, E)
<1>1. \A a \in Addr : C.wallet[a] \in Int /\ D.wallet[a] \in Int /\ E.wallet[a] \in Int
  BY DEF Coins
<1> QED
  BY <1>1 DEF Gains

(* Two reward passes in a row are a reward pass. *)
LEMMA PassTransitive ==
  ASSUME NEW L \in Ledger, NEW M \in Ledger, NEW N, PassOK(L, M), PassOK(M, N)
  PROVE  PassOK(L, N)
<1>1. L.coins \in Coins /\ M.coins \in Coins /\ N \in Ledger /\ N.coins \in Coins
  BY DEF PassOK, Ledger
<1>2. Gains(L.coins, N.coins)
  BY <1>1, GainsTransitive DEF PassOK
<1> QED
  BY <1>1, <1>2 DEF PassOK

(* A transfer out of the contract takes nothing from any wallet. *)
LEMMA TransferOK ==
  ASSUME NEW C \in Coins, NEW a \in Addr, NEW x \in Int
  PROVE  Transfer(C, a, x) \in Coins /\ Gains(C, Transfer(C, a, x))
<1> DEFINE D == Transfer(C, a, x)
<1>1. C.wallet \in [Addr -> Int] /\ C.exec \in Int /\ C.ok \in BOOLEAN
  BY DEF Coins
<1>2. D \in Coins
  BY <1>1 DEF Transfer, Coins
<1>3. D.wallet = [C.wallet EXCEPT ![a] = @ + x]
  BY DEF Transfer
<1>4. D.ok => C.ok /\ x > 0
  BY DEF Transfer
<1> HIDE DEF D
<1>5. x > 0 => \A b \in Addr : D.wallet[b] >= C.wallet[b]
  BY <1>1, <1>3
<1>6. Gains(C, D)
  BY <1>4, <1>5 DEF Gains
<1> QED
  BY <1>2, <1>6 DEF D

(* The fee on a payment is an integer. *)
LEMMA FeeType ==
  ASSUME NEW x \in Int
  PROVE  Fee(x) \in Int
<1>1. x * FeePercent \in Int
  BY ParamAssumption
<1>2. Wrap(x * FeePercent) \in Int
  BY <1>1, WrapType
<1> QED
  BY <1>2, TruncType DEF Fee

(* Paying a reward that is due keeps the books typed and clears that reward. *)
LEMMA PayOutOK ==
  ASSUME NEW L \in Ledger, NEW e \in Addr, NEW r \in Addr, NEW x \in Int
  PROVE  /\ PayOut(L, e, r, x) \in Ledger
         /\ Gains(L.coins, PayOut(L, e, r, x).coins)
         /\ \A c, a \in Addr : PayOut(L, e, r, x).remain[c][a]
              = IF c = e /\ a = r THEN 0 ELSE L.remain[c][a]
         /\ \A c \in Addr \ {e} : PayOut(L, e, r, x).remainFee[c] = L.remainFee[c]
<1>1. Fee(x) \in Int
  BY FeeType
<1>2. Wrap(L.feeReward[e] + Fee(x)) \in Int /\ Wrap(L.remainFee[e] + Fee(x)) \in Int
  BY <1>1, WrapType DEF Ledger
<1>3. /\ Transfer(L.coins, r, x - Fee(x)) \in Coins
      /\ Gains(L.coins, Transfer(L.coins, r, x - Fee(x)))
  BY <1>1, TransferOK DEF Ledger
<1> QED
  BY <1>2, <1>3 DEF PayOut, Ledger

(* After the payment of fees, no fee at or above its threshold remains. *)
LEMMA PayFeeOK ==
  ASSUME NEW L \in Ledger, NEW e \in Addr
  PROVE  /\ PayFee(L, e) \in Ledger
         /\ Gains(L.coins, PayFee(L, e).coins)
         /\ PayFee(L, e).remain = L.remain
         /\ PayFee(L, e).remainFee[e] < 10 * RewardTransfer
         /\ \A c \in Addr \ {e} : PayFee(L, e).remainFee[c] = L.remainFee[c]
<1>1. L.remainFee[e] \in Int /\ L.coins \in Coins
  BY DEF Ledger
<1>2. RewardTransfer \in Int /\ RewardTransfer > 0
  BY ParamAssumption
<1>3. CASE L.remainFee[e] < 10 * RewardTransfer
  <2>1. Gains(L.coins, L.coins)
    BY <1>1 DEF Gains, Coins
  <2> QED
    BY <1>3, <2>1 DEF PayFee
<1>4. CASE ~ (L.remainFee[e] < 10 * RewardTransfer)
  <2>1. /\ Transfer(L.coins, e, L.remainFee[e]) \in Coins
        /\ Gains(L.coins, Transfer(L.coins, e, L.remainFee[e]))
    BY <1>1, TransferOK
  <2> QED
    BY <1>2, <1>4, <2>1 DEF PayFee, Ledger
<1> QED
  BY <1>3, <1>4

(* Crediting one consignor is a reward pass. *)
LEMMA CreditOK ==
  ASSUME NEW L \in Ledger, NEW e \in Addr, NEW r \in Addr, NEW share \in Int
  PROVE  PassOK(L, Credit(L, e, r, share))
<1> DEFINE C == [reward    |-> [L.reward EXCEPT ![e][r] = Wrap(@ + share)],
                 remain    |-> [L.remain EXCEPT ![e][r] = Wrap(@ + share)],
                 feeReward |-> L.feeReward,
                 remainFee |-> L.remainFee,
                 coins     |-> L.coins]
<1>1. /\ Wrap(L.reward[e][r] + share) \in Int
      /\ Wrap(L.remain[e][r] + share) \in Int
  BY WrapType DEF Ledger
<1>2. C \in Ledger
  BY <1>1 DEF Ledger
<1>3. /\ C.coins = L.coins /\ C.remainFee = L.remainFee
      /\ \A c, a \in Addr : <<c, a>> # <<e, r>> => C.remain[c][a] = L.remain[c][a]
  BY DEF Ledger
<1>4. Credit(L, e, r, share) =
        IF C.remain[e][r] < RewardTransfer THEN C
        ELSE PayFee(PayOut(C, e, r, C.remain[e][r]), e)
  BY DEF Credit
<1> HIDE DEF C
<1>5. L.coins \in Coins /\ Gains(L.coins, L.coins)
  BY DEF Ledger, Coins, Gains
<1>6. CASE C.remain[e][r] < RewardTransfer
  <2>1. Settled(L) => Settled(C)
    BY <1>3, <1>6 DEF Settled
  <2> QED
    BY <1>2, <1>3, <1>4, <1>5, <1>6, <2>1 DEF PassOK
<1>7. CASE ~ (C.remain[e][r] < RewardTransfer)
  <2> DEFINE x == C.remain[e][r]
             P == PayOut(C, e, r, x)
             M == PayFee(P, e)
  <2>1. x \in Int
    BY <1>2 DEF Ledger
  <2> HIDE DEF x
  <2>2. /\ P \in Ledger
        /\ Gains(C.coins, P.coins)
        /\ \A c, a \in Addr :
              P.remain[c][a] = IF c = e /\ a = r THEN 0 ELSE C.remain[c][a]
        /\ \A c \in Addr \ {e} : P.remainFee[c] = C.remainFee[c]
    BY <1>2, <2>1, PayOutOK
  <2> HIDE DEF P
  <2>3. /\ M \in Ledger
        /\ Gains(P.coins, M.coins)
        /\ M.remain = P.remain
        /\ M.remainFee[e] < 10 * RewardTransfer
        /\ \A c \in Addr \ {e} : M.remainFee[c] = P.remainFee[c]
    BY <2>2, PayFeeOK
  <2>4. Credit(L, e, r, share) = M
    BY <1>4, <1>7 DEF P, x
  <2> HIDE DEF M
  <2>5. Gains(L.coins, M.coins)
    <3>1. P.coins \in Coins /\ M.coins \in Coins
      BY <2>2, <2>3 DEF Ledger
    <3> QED
      BY <1>3, <1>5, <2>2, <2>3, <3>1, GainsTransitive
  <2>6. ASSUME Settled(L) PROVE Settled(M)
    <3>1. \A c, a \in Addr : M.remain[c][a] =
            IF c = e /\ a = r THEN 0 ELSE L.remain[c][a]
      BY <1>3, <2>2, <2>3
    <3>2. \A c \in Addr : c # e => M.remainFee[c] = L.remainFee[c]
      BY <1>3, <2>2, <2>3
    <3>3. 0 < RewardTransfer
      BY ParamAssumption
    <3> QED
      BY <2>3, <2>6, <3>1, <3>2, <3>3 DEF Settled
  <2> QED
    BY <2>3, <2>4, <2>5, <2>6 DEF PassOK
<1> QED
  BY <1>6, <1>7
(* The number of tickets of an amount is an integer. *)
LEMMA TicketsType ==
  ASSUME NEW a \in Int
  PROVE  Tickets(a) \in Int
BY ParamAssumption, TruncType DEF Tickets

(* One turn of the loop over the consignors of e. *)
ShareTurn(P, e, R, i) ==
    LET r == consignors[e][i]
    IN  IF crAmount[e][r] = 0 THEN P
        ELSE Credit(P, e, r, Share(R, Tickets(crAmount[e][r]), Tickets(amount[e])))

(* A turn is a reward pass. *)
LEMMA ShareTurnOK ==
  ASSUME TypeOK, NEW e \in Addr, NEW R \in Int,
         NEW P \in Ledger, NEW i \in 1..Len(consignors[e])
  PROVE  PassOK(P, ShareTurn(P, e, R, i))
<1> DEFINE r == consignors[e][i]
           sh == Share(R, Tickets(crAmount[e][r]), Tickets(amount[e]))
<1>1. r \in Addr
  BY DEF TypeOK
<1> HIDE DEF r
<1>2. crAmount[e][r] \in Int /\ amount[e] \in Int
  BY <1>1 DEF TypeOK
<1>3. sh \in Int
  BY <1>2, TicketsType, ShareType
<1>4. PassOK(P, P)
  BY DEF PassOK, Gains, Ledger, Coins
<1>5. ShareTurn(P, e, R, i) = IF crAmount[e][r] = 0 THEN P ELSE Credit(P, e, r, sh)
  BY DEF ShareTurn, r
<1> HIDE DEF sh
<1> QED
  BY <1>1, <1>3, <1>4, <1>5, CreditOK

(* The loop is its turns, one after the other. *)
LEMMA ShareOutTurns ==
  ASSUME TypeOK, NEW L \in Ledger, NEW e \in Addr, NEW R \in Int
  PROVE  \E c : /\ c[0] = L
                /\ \A i \in 1..Len(consignors[e]) : c[i] = ShareTurn(c[i - 1], e, R, i)
                /\ ShareOut(L, e, R) =
                     IF amount[e] = 0 THEN L ELSE c[Len(consignors[e])]
<1> DEFINE N == Len(consignors[e])
           F == [i \in 1..N |-> [P \in Ledger |-> ShareTurn(P, e, R, i)]]
           Rec(s) == s = [i \in 0..N |-> IF i = 0 THEN L ELSE ShareTurn(s[i - 1], e, R, i)]
<1>1. N \in Nat
  BY DEF TypeOK
<1>2. F \in [1..N -> [Ledger -> Ledger]]
  BY ShareTurnOK DEF PassOK
<1> HIDE DEF N
<1>3. PICK s \in [0..N -> Ledger] : Iterates(s, F, L, N)
  <2> DEFINE Z == Ledger
  <2>1. L \in Z /\ N \in Nat /\ F \in [1..N -> [Z -> Z]]
    BY <1>1, <1>2
  <2> HIDE DEF F, Z
  <2>2. \E s \in [0..N -> Z] : Iterates(s, F, L, N)
    BY <2>1, IterationExists
  <2> QED
    BY <2>2 DEF Z
<1>4. Rec(s)
  <2>1. \A i \in 0..N : i # 0 => F[i][s[i - 1]] = ShareTurn(s[i - 1], e, R, i)
    BY <1>1
  <2> HIDE DEF F
  <2> QED
    BY <1>3, <2>1 DEF Iterates
<1> DEFINE c == CHOOSE t : Rec(t)
<1>5. Rec(c)
  BY <1>4
<1>6. ShareOut(L, e, R) = IF amount[e] = 0 THEN L ELSE c[N]
  BY DEF ShareOut, N, ShareTurn
<1> HIDE DEF c, F
<1>7. \A i \in 0..N : c[i] = IF i = 0 THEN L ELSE ShareTurn(c[i - 1], e, R, i)
  BY <1>5
<1> QED
  BY <1>1, <1>6, <1>7 DEF N

(* Sharing a reward among the consignors of e is a reward pass. *)
LEMMA ShareOutOK ==
  ASSUME TypeOK, NEW L \in Ledger, NEW e \in Addr, NEW R \in Int
  PROVE  PassOK(L, ShareOut(L, e, R))
<1> DEFINE N == Len(consignors[e])
<1>1. N \in Nat /\ PassOK(L, L)
  BY DEF TypeOK, PassOK, Gains, Ledger, Coins
<1>2. PICK c : /\ c[0] = L
               /\ \A i \in 1..N : c[i] = ShareTurn(c[i - 1], e, R, i)
               /\ ShareOut(L, e, R) = IF amount[e] = 0 THEN L ELSE c[N]
  BY ShareOutTurns
<1>3. \A P \in Ledger, i \in 1..N : PassOK(P, ShareTurn(P, e, R, i))
  BY ShareTurnOK
<1> HIDE DEF N
<1> DEFINE A == {i \in Nat : i <= N => PassOK(L, c[i])}
<1>4. 0 \in A
  BY <1>1, <1>2
<1>5. ASSUME NEW i \in A PROVE i + 1 \in A
  <2>1. SUFFICES ASSUME i + 1 <= N PROVE PassOK(L, c[i + 1])
    OBVIOUS
  <2>2. i + 1 \in 1..N /\ (i + 1) - 1 = i /\ PassOK(L, c[i])
    BY <1>1, <2>1
  <2>3. c[i] \in Ledger
    BY <2>2 DEF PassOK
  <2>4. PassOK(c[i], c[i + 1])
    BY <1>2, <1>3, <2>2, <2>3
  <2>5. c[i + 1] \in Ledger
    BY <2>4 DEF PassOK
  <2> QED
    BY <2>2, <2>3, <2>4, <2>5, PassTransitive
<1>6. A = Nat
  <2>1. A \in SUBSET Nat
    OBVIOUS
  <2> HIDE DEF A
  <2> QED
    BY <1>4, <1>5, <2>1, NatSetInduction
<1>7. PassOK(L, c[N])
  BY <1>1, <1>6
<1> QED
  BY <1>1, <1>2, <1>7

(* The votes of an address are counted by an integer. *)
LEMMA VotesOfType ==
  ASSUME NEW a, NEW pks \in Seq(BlsKeys)
  PROVE  VotesOf(a, pks) \in Nat
<1> DEFINE I == {i \in 1..Len(pks) : bls[pks[i]] = a}
<1>1. IsFiniteSet(1..Len(pks))
  BY FS_Interval
<1>2. IsFiniteSet(I)
  BY <1>1, FS_Subset
<1> QED
  BY <1>2, FS_CardinalityType DEF VotesOf

(* One turn of the loop over the voters, in the order of their addresses. *)
VoteTurn(P, pks, i) ==
    LET v == VotesOf(AddrSeq[i], pks)
    IN  IF v = 0 THEN P ELSE ShareOut(P, AddrSeq[i], VoteReward * v)

(* A turn is a reward pass. *)
LEMMA VoteTurnOK ==
  ASSUME TypeOK, NEW pks \in Seq(BlsKeys), NEW P \in Ledger,
         NEW i \in 1..Len(AddrSeq)
  PROVE  PassOK(P, VoteTurn(P, pks, i))
<1> DEFINE v == VotesOf(AddrSeq[i], pks)
<1>1. AddrSeq[i] \in Addr
  BY AddrSeqType
<1>2. v \in Nat
  BY VotesOfType
<1>3. VoteTurn(P, pks, i) = IF v = 0 THEN P ELSE ShareOut(P, AddrSeq[i], VoteReward * v)
  BY DEF VoteTurn
<1> HIDE DEF v
<1>4. VoteReward * v \in Int
  BY <1>2, ParamAssumption
<1>5. PassOK(P, P)
  BY DEF PassOK, Gains, Ledger, Coins
<1> QED
  BY <1>1, <1>3, <1>4, <1>5, ShareOutOK

(* The loop is its turns, one after the other. *)
LEMMA VoteRewardsTurns ==
  ASSUME TypeOK, NEW L \in Ledger, NEW pks \in Seq(BlsKeys)
  PROVE  \E c : /\ c[0] = L
                /\ \A i \in 1..Len(AddrSeq) : c[i] = VoteTurn(c[i - 1], pks, i)
                /\ VoteRewards(L, pks) = c[Len(AddrSeq)]
<1> DEFINE N == Len(AddrSeq)
           F == [i \in 1..N |-> [P \in Ledger |-> VoteTurn(P, pks, i)]]
           Rec(s) == s = [i \in 0..N |-> IF i = 0 THEN L ELSE VoteTurn(s[i - 1], pks, i)]
<1>1. N \in Nat
  BY AddrSeqType
<1>2. F \in [1..N -> [Ledger -> Ledger]]
  BY VoteTurnOK DEF PassOK
<1> HIDE DEF N
<1>3. PICK s \in [0..N -> Ledger] : Iterates(s, F, L, N)
  <2> DEFINE Z == Ledger
  <2>1. L \in Z /\ N \in Nat /\ F \in [1..N -> [Z -> Z]]
    BY <1>1, <1>2
  <2> HIDE DEF F, Z
  <2>2. \E s \in [0..N -> Z] : Iterates(s, F, L, N)
    BY <2>1, IterationExists
  <2> QED
    BY <2>2 DEF Z
<1>4. Rec(s)
  <2>1. \A i \in 0..N : i # 0 => F[i][s[i - 1]] = VoteTurn(s[i - 1], pks, i)
    BY <1>1
  <2> HIDE DEF F
  <2> QED
    BY <1>3, <2>1 DEF Iterates
<1> DEFINE c == CHOOSE t : Rec(t)
<1>5. Rec(c)
  BY <1>4
<1>6. VoteRewards(L, pks) = c[N]
  BY DEF VoteRewards, N, VoteTurn
<1> HIDE DEF c, F
<1>7. \A i \in 0..N : c[i] = IF i = 0 THEN L ELSE VoteTurn(c[i - 1], pks, i)
  BY <1>5
<1> QED
  BY <1>1, <1>6, <1>7 DEF N

(* Rewarding the voters is a reward pass. *)
LEMMA VoteRewardsOK ==
  ASSUME TypeOK, NEW L \in Ledger, NEW pks \in Seq(BlsKeys)
  PROVE  PassOK(L, VoteRewards(L, pks))
<1> DEFINE N == Len(AddrSeq)
<1>1. N \in Nat /\ PassOK(L, L)
  BY AddrSeqType DEF PassOK, Gains, Ledger, Coins
<1>2. PICK c : /\ c[0] = L
               /\ \A i \in 1..N : c[i] = VoteTurn(c[i - 1], pks, i)
               /\ VoteRewards(L, pks) = c[N]
  BY VoteRewardsTurns
<1>3. \A P \in Ledger, i \in 1..N : PassOK(P, VoteTurn(P, pks, i))
  BY VoteTurnOK
<1> HIDE DEF N
<1> DEFINE A == {i \in Nat : i <= N => PassOK(L, c[i])}
<1>4. 0 \in A
  BY <1>1, <1>2
<1>5. ASSUME NEW i \in A PROVE i + 1 \in A
  <2>1. SUFFICES ASSUME i + 1 <= N PROVE PassOK(L, c[i + 1])
    OBVIOUS
  <2>2. i + 1 \in 1..N /\ (i + 1) - 1 = i /\ PassOK(L, c[i])
    BY <1>1, <2>1
  <2>3. c[i] \in Ledger
    BY <2>2 DEF PassOK
  <2>4. PassOK(c[i], c[i + 1])
    BY <1>2, <1>3, <2>2, <2>3
  <2>5. c[i + 1] \in Ledger
    BY <2>4 DEF PassOK
  <2> QED
    BY <2>2, <2>3, <2>4, <2>5, PassTransitive
<1>6. A = Nat
  <2>1. A \in SUBSET Nat
    OBVIOUS
  <2> HIDE DEF A
  <2> QED
    BY <1>4, <1>5, <2>1, NatSetInduction
<1> QED
  BY <1>1, <1>2, <1>6

(* The whole distribution of a block's reward is a reward pass. *)
LEMMA DistributeOK ==
  ASSUME TypeOK, NEW maker \in Addr, NEW pks \in BlsLists
  PROVE  \E I \in Ledger :
           /\ I.coins.wallet = wallet
           /\ I.remain = remain /\ I.remainFee = remainFee
           /\ PassOK(I, Distribute(maker, pks))
<1> DEFINE I == Issued
           V == VoteRewards(I, pks)
           R == MineReward * Len(pks)
<1>1. I \in Ledger
  <2>1. execCoins + BlockReward \in Int
    BY ParamAssumption DEF TypeOK
  <2>2. I.coins \in Coins
    BY <2>1 DEF TypeOK, Coins, Issued
  <2> QED
    BY <2>2 DEF TypeOK, Ledger, Issued
<1>2. pks \in Seq(BlsKeys)
  BY InputAssumption
<1>3. R \in Int
  BY <1>2, ParamAssumption
<1>4. Distribute(maker, pks) = ShareOut(V, maker, R)
  BY DEF Distribute
<1>5. I.coins.wallet = wallet /\ I.remain = remain /\ I.remainFee = remainFee
  BY DEF Issued
<1> HIDE DEF I
<1>6. PassOK(I, V)
  BY <1>1, <1>2, VoteRewardsOK
<1>7. V \in Ledger
  BY <1>6 DEF PassOK
<1> HIDE DEF V, R
<1>8. PassOK(V, ShareOut(V, maker, R))
  BY <1>3, <1>7, ShareOutOK
<1>9. PassOK(I, ShareOut(V, maker, R))
  BY <1>1, <1>6, <1>7, <1>8, PassTransitive
<1> QED
  BY <1>1, <1>4, <1>5, <1>9
-----------------------------------------------------------------------------
(* The type invariant *)

(* What a miner transaction leaves, as far as the invariants need it. *)
LEMMA MinerStep ==
  ASSUME TypeOK, NEW maker \in Addr, NEW pks \in BlsLists, Miner(maker, pks)
  PROVE  /\ height' \in 0..MaxHeight
         /\ reward' \in PairTable /\ remain' \in PairTable
         /\ feeReward' \in [Addr -> Int] /\ remainFee' \in [Addr -> Int]
         /\ wallet' \in [Addr -> Int]
         /\ execCoins' \in Int /\ fund' \in Int
         /\ \A a \in Addr : wallet'[a] >= wallet[a]
         /\ UnpaidBelowThreshold => UnpaidBelowThreshold'
         /\ UNCHANGED <<stake, bls, free>>
<1> DEFINE L == Distribute(maker, pks)
           fr == FundReward(pks)
<1>1. PICK I \in Ledger : /\ I.coins.wallet = wallet
                          /\ I.remain = remain /\ I.remainFee = remainFee
                          /\ PassOK(I, L)
  BY DistributeOK
<1>2. /\ L.coins.ok
      /\ reward' = L.reward /\ remain' = L.remain
      /\ feeReward' = L.feeReward /\ remainFee' = L.remainFee
      /\ wallet' = L.coins.wallet
      /\ execCoins' = L.coins.exec - fr
      /\ fund' = fund + fr
      /\ height < MaxHeight /\ height' = height + 1
      /\ UNCHANGED <<stake, bls, free>>
  BY DEF Miner
<1>3. fr \in Int
  <2>1. Len(pks) \in Int
    BY InputAssumption
  <2> QED
    BY <2>1, ParamAssumption DEF FundReward
<1>4. height' \in 0..MaxHeight
  BY <1>2, InputAssumption DEF TypeOK
<1> HIDE DEF L, fr
<1>5. L \in Ledger /\ Gains(I.coins, L.coins) /\ (Settled(I) => Settled(L))
  BY <1>1 DEF PassOK
<1>6. L.coins \in Coins
  BY <1>5 DEF Ledger
<1>7. \A a \in Addr : wallet'[a] >= wallet[a]
  BY <1>1, <1>2, <1>5 DEF Gains
<1>8. UnpaidBelowThreshold => UnpaidBelowThreshold'
  BY <1>1, <1>2, <1>5 DEF UnpaidBelowThreshold, Settled
<1>9. /\ reward' \in PairTable /\ remain' \in PairTable
      /\ feeReward' \in [Addr -> Int] /\ remainFee' \in [Addr -> Int]
  BY <1>2, <1>5 DEF Ledger
<1>10. wallet' \in [Addr -> Int] /\ L.coins.exec \in Int
  BY <1>2, <1>6 DEF Coins
<1>11. execCoins' \in Int /\ fund' \in Int
  BY <1>2, <1>3, <1>10 DEF TypeOK
<1> QED
  BY <1>2, <1>4, <1>7, <1>8, <1>9, <1>10, <1>11

(* A listed consignor is not listed again. *)
LEMMA ListOnce ==
  ASSUME NEW s \in Seq(Addr), NEW r \in Addr,
         \A i, j \in 1..Len(s) : s[i] = s[j] => i = j,
         NEW t, t = IF r \in AddrsIn(s) THEN s ELSE Append(s, r)
  PROVE  /\ t \in Seq(Addr)
         /\ \A i, j \in 1..Len(t) : t[i] = t[j] => i = j
         /\ AddrsIn(t) = AddrsIn(s) \cup {r}
<1>1. CASE r \in AddrsIn(s)
  BY <1>1
<1>2. CASE r \notin AddrsIn(s)
  <2>1. /\ t \in Seq(Addr) /\ Len(t) = Len(s) + 1 /\ Len(s) \in Nat
        /\ \A i \in 1..Len(s) : t[i] = s[i]
        /\ t[Len(s) + 1] = r
    BY <1>2
  <2>2. \A i \in 1..Len(s) : s[i] # r
    BY <1>2 DEF AddrsIn
  <2>3. 1..Len(t) = 1..Len(s) \cup {Len(s) + 1}
    BY <2>1
  <2>4. \A i, j \in 1..Len(t) : t[i] = t[j] => i = j
    BY <2>1, <2>2, <2>3
  <2>5. AddrsIn(t) = AddrsIn(s) \cup {r}
    BY <2>1, <2>3 DEF AddrsIn
  <2> QED
    BY <2>1, <2>4, <2>5
<1> QED
  BY <1>1, <1>2

(* What an entrust transaction does to the books. *)
LEMMA EntrustStep ==
  ASSUME TypeOK, NEW sender \in Addr, NEW r \in Addr, NEW e \in Addr,
         NEW x \in Int, Entrust(sender, r, e, x)
  PROVE  TypeOK'
<1>1. /\ UNCHANGED <<height, rewards, bls, wallet, execCoins>>
      /\ amount' = [amount EXCEPT ![e] = @ + x]
      /\ crAmount' = [crAmount EXCEPT ![e][r] = @ + x]
      /\ entrusted' = [entrusted EXCEPT ![r][e] = crAmount[e][r] + x]
      /\ allAmount' = allAmount + x
      /\ free' = [free EXCEPT ![r] = @ - x]
      /\ frozen' = [frozen EXCEPT ![r] = @ + x]
  BY DEF Entrust, SetEntrust, UpdateConsignor, UpdateConsignee, UpdateAllAmount,
         Freeze
<1>2. consignors' = [consignors EXCEPT
                       ![e] = IF r \in AddrsIn(@) THEN @ ELSE Append(@, r)]
  BY DEF Entrust, SetEntrust, UpdateConsignor, UpdateConsignee, UpdateAllAmount
<1>3. /\ consignors' \in [Addr -> Seq(Addr)]
      /\ \A c \in Addr : \A i, j \in 1..Len(consignors'[c]) :
            consignors'[c][i] = consignors'[c][j] => i = j
  <2>1. consignors[e] \in Seq(Addr)
    BY DEF TypeOK
  <2> DEFINE t == IF r \in AddrsIn(consignors[e]) THEN consignors[e]
                  ELSE Append(consignors[e], r)
  <2>2. t \in Seq(Addr) /\ \A i, j \in 1..Len(t) : t[i] = t[j] => i = j
    BY <2>1, ListOnce DEF TypeOK
  <2>3. consignors' = [consignors EXCEPT ![e] = t]
    BY <1>2
  <2> HIDE DEF t
  <2> QED
    BY <2>2, <2>3 DEF TypeOK
<1>4. /\ amount \in [Addr -> Int] /\ allAmount \in Int
      /\ free \in [Addr -> Int] /\ frozen \in [Addr -> Int]
      /\ crAmount \in PairTable /\ entrusted \in PairTable
  BY DEF TypeOK
<1>5. /\ amount' \in [Addr -> Int] /\ allAmount' \in Int
      /\ free' \in [Addr -> Int] /\ frozen' \in [Addr -> Int]
  BY <1>1, <1>4
<1>6. crAmount[e][r] + x \in Int
  BY <1>4
<1>7. crAmount' \in PairTable
  BY <1>1, <1>4, <1>6
<1>8. entrusted' \in PairTable
  BY <1>1, <1>4, <1>6
<1> QED
  BY <1>1, <1>3, <1>5, <1>7, <1>8 DEF TypeOK, rewards

(* The contract's state keeps its types.                                   *)
THEOREM TypeCorrect == Spec => []TypeOK
<1>1. Init => TypeOK
  BY InputAssumption DEF Init, TypeOK
<1>2. TypeOK /\ [Next]_vars => TypeOK'
  <2> SUFFICES ASSUME TypeOK, [Next]_vars PROVE TypeOK'
    OBVIOUS
  <2>1. ASSUME NEW a \in Addr, NEW x \in Deposits, Deposit(a, x)
        PROVE  TypeOK'
    <3>1. x \in Int
      BY InputAssumption
    <3>2. /\ wallet' \in [Addr -> Int] /\ free' \in [Addr -> Int]
          /\ execCoins' \in Int
      BY <2>1, <3>1 DEF Deposit, TypeOK
    <3>3. UNCHANGED <<height, stake, rewards, bls>>
      BY <2>1 DEF Deposit
    <3> QED
      BY <3>2, <3>3 DEF TypeOK, stake, rewards
  <2>2. ASSUME NEW a \in Addr, NEW x \in Deposits, Withdraw(a, x)
        PROVE  TypeOK'
    <3>1. x \in Int
      BY InputAssumption
    <3>2. /\ wallet' \in [Addr -> Int] /\ free' \in [Addr -> Int]
          /\ execCoins' \in Int
      BY <2>2, <3>1 DEF Withdraw, TypeOK
    <3>3. UNCHANGED <<height, stake, rewards, bls>>
      BY <2>2 DEF Withdraw
    <3> QED
      BY <3>2, <3>3 DEF TypeOK, stake, rewards
  <2>3. ASSUME NEW sender \in Addr, NEW req \in Requests,
               Entrust(sender, req[1], req[2], req[3])
        PROVE  TypeOK'
    <3>1. req[1] \in Addr /\ req[2] \in Addr /\ req[3] \in Int
      BY InputAssumption
    <3> QED
      BY <2>3, <3>1, EntrustStep
  <2>4. ASSUME NEW k \in BlsKeys, NEW sender \in Addr, BlsBind(k, sender)
        PROVE  TypeOK'
    BY <2>4 DEF BlsBind, TypeOK, stake, rewards
  <2>5. ASSUME NEW maker \in Addr, NEW pks \in BlsLists, Miner(maker, pks)
        PROVE  TypeOK'
    BY <2>5, MinerStep DEF TypeOK, stake
  <2>6. CASE UNCHANGED vars
    BY <2>6 DEF TypeOK, vars, stake, rewards
  <2> QED
    BY <2>1, <2>2, <2>3, <2>4, <2>5, <2>6 DEF Next
<1> QED
  BY <1>1, <1>2, PTL DEF Spec
-----------------------------------------------------------------------------
(* The entrust books *)

(* The two tables, the totals and the frozen coins agree: the conjunction is *)
(* inductive with the types, no strengthening is needed.                     *)
BooksAgree == TablesAgree /\ TotalsAgree /\ FrozenBacksStake

(* An entrust transaction, pair by pair. *)
LEMMA EntrustPairs ==
  ASSUME TypeOK, TypeOK', TablesAgree,
         NEW sender \in Addr, NEW r \in Addr, NEW e \in Addr,
         NEW x \in Int, Entrust(sender, r, e, x)
  PROVE  /\ \A c, a \in Addr :
              /\ crAmount'[c][a] = crAmount[c][a] + (IF c = e /\ a = r THEN x ELSE 0)
              /\ entrusted'[a][c] = entrusted[a][c] + (IF c = e /\ a = r THEN x ELSE 0)
              /\ AddrsIn(consignors[c]) \subseteq AddrsIn(consignors'[c])
         /\ r \in AddrsIn(consignors'[e])
         /\ \A c \in Addr \ {e} : crAmount'[c] = crAmount[c]
         /\ \A a \in Addr \ {r} : entrusted'[a] = entrusted[a]
<1>1. /\ crAmount' = [crAmount EXCEPT ![e][r] = @ + x]
      /\ entrusted' = [entrusted EXCEPT ![r][e] = crAmount[e][r] + x]
      /\ consignors' = [consignors EXCEPT
                          ![e] = IF r \in AddrsIn(@) THEN @ ELSE Append(@, r)]
  BY DEF Entrust, SetEntrust, UpdateConsignor, UpdateConsignee, UpdateAllAmount
<1>2. crAmount \in PairTable /\ entrusted \in PairTable
  BY DEF TypeOK
<1>3. entrusted[r][e] = crAmount[e][r]
  BY DEF TablesAgree
<1>4. \A c, a \in Addr :
         /\ crAmount'[c][a] = crAmount[c][a] + (IF c = e /\ a = r THEN x ELSE 0)
         /\ entrusted'[a][c] = entrusted[a][c] + (IF c = e /\ a = r THEN x ELSE 0)
  <2> TAKE c, a \in Addr
  <2>1. crAmount[c][a] \in Int /\ entrusted[a][c] \in Int
    BY <1>2
  <2>2. crAmount'[c][a] = IF c = e /\ a = r THEN crAmount[e][r] + x ELSE crAmount[c][a]
    BY <1>1, <1>2
  <2>3. entrusted'[a][c] = IF c = e /\ a = r THEN crAmount[e][r] + x ELSE entrusted[a][c]
    BY <1>1, <1>2
  <2> QED
    BY <1>3, <2>1, <2>2, <2>3
<1>5. /\ \A c \in Addr \ {e} : crAmount'[c] = crAmount[c]
      /\ \A a \in Addr \ {r} : entrusted'[a] = entrusted[a]
  BY <1>1, <1>2
<1>6. consignors \in [Addr -> Seq(Addr)]
  BY DEF TypeOK
<1> DEFINE t == IF r \in AddrsIn(consignors[e]) THEN consignors[e]
                ELSE Append(consignors[e], r)
<1>7. AddrsIn(t) = AddrsIn(consignors[e]) \cup {r}
  BY <1>6, ListOnce DEF TypeOK
<1>8. consignors' = [consignors EXCEPT ![e] = t]
  BY <1>1
<1> HIDE DEF t
<1>9. /\ r \in AddrsIn(consignors'[e])
      /\ \A c \in Addr : AddrsIn(consignors[c]) \subseteq AddrsIn(consignors'[c])
  BY <1>6, <1>7, <1>8
<1> QED
  BY <1>4, <1>5, <1>9

(* An entrust transaction keeps the books in agreement. *)
LEMMA EntrustKeepsBooks ==
  ASSUME TypeOK, TypeOK', BooksAgree,
         NEW sender \in Addr, NEW r \in Addr, NEW e \in Addr,
         NEW x \in Int, Entrust(sender, r, e, x)
  PROVE  BooksAgree'
<1>1. /\ \A c, a \in Addr :
           /\ crAmount'[c][a] = crAmount[c][a] + (IF c = e /\ a = r THEN x ELSE 0)
           /\ entrusted'[a][c] = entrusted[a][c] + (IF c = e /\ a = r THEN x ELSE 0)
           /\ AddrsIn(consignors[c]) \subseteq AddrsIn(consignors'[c])
      /\ r \in AddrsIn(consignors'[e])
      /\ \A c \in Addr \ {e} : crAmount'[c] = crAmount[c]
      /\ \A a \in Addr \ {r} : entrusted'[a] = entrusted[a]
  BY EntrustPairs DEF BooksAgree
<1>2. /\ crAmount \in PairTable /\ crAmount' \in PairTable
      /\ entrusted \in PairTable /\ entrusted' \in PairTable
      /\ amount \in [Addr -> Int] /\ amount' \in [Addr -> Int]
      /\ frozen \in [Addr -> Int] /\ allAmount \in Int
  BY DEF TypeOK
<1>3. /\ amount' = [amount EXCEPT ![e] = @ + x]
      /\ allAmount' = allAmount + x
      /\ frozen' = [frozen EXCEPT ![r] = @ + x]
      /\ x > 0 \/ frozen[r] >= -x
  BY DEF Entrust, SetEntrust, UpdateConsignor, UpdateConsignee, UpdateAllAmount,
         Freeze
<1>4. TablesAgree'
  <2> SUFFICES ASSUME NEW c \in Addr, NEW a \in Addr
               PROVE  /\ entrusted'[a][c] = crAmount'[c][a]
                      /\ crAmount'[c][a] # 0 => a \in AddrsIn(consignors'[c])
    BY DEF TablesAgree
  <2>1. /\ entrusted[a][c] = crAmount[c][a]
        /\ crAmount[c][a] # 0 => a \in AddrsIn(consignors[c])
    BY DEF BooksAgree, TablesAgree
  <2>2. crAmount[c][a] \in Int
    BY <1>2
  <2>3. CASE c = e /\ a = r
    BY <1>1, <2>1, <2>3
  <2>4. CASE ~ (c = e /\ a = r)
    <3>1. crAmount'[c][a] = crAmount[c][a] + 0 /\ entrusted'[a][c] = entrusted[a][c] + 0
      BY <1>1, <2>4
    <3> QED
      BY <1>1, <2>1, <2>2, <3>1
  <2> QED
    BY <2>3, <2>4
<1>5. TotalsAgree'
  <2>1. /\ \A c \in Addr : amount[c] = Total(crAmount[c])
        /\ allAmount = Total(amount)
    BY DEF BooksAgree, TotalsAgree
  <2>2. Total(crAmount'[e]) = Total(crAmount[e]) + x
    <3> DEFINE f == crAmount[e]
               g == crAmount'[e]
    <3>1. f \in [Addr -> Int] /\ g \in [Addr -> Int]
      BY <1>2
    <3>2. \A a \in Addr : g[a] = f[a] + (IF a = r THEN x ELSE 0)
      BY <1>1
    <3> HIDE DEF f, g
    <3>3. g[r] - f[r] = x /\ \A a \in Addr \ {r} : g[a] = f[a]
      BY <3>1, <3>2
    <3>4. Total(g) = Total(f) + (g[r] - f[r])
      BY <3>1, <3>3, TotalUpdate
    <3> QED
      BY <3>3, <3>4 DEF f, g
  <2>3. Total(amount') = Total(amount) + x
    <3>1. amount'[e] - amount[e] = x /\ \A a \in Addr \ {e} : amount'[a] = amount[a]
      BY <1>2, <1>3
    <3>2. Total(amount') = Total(amount) + (amount'[e] - amount[e])
      BY <1>2, <3>1, TotalUpdate
    <3> QED
      BY <3>1, <3>2
  <2>4. \A c \in Addr : amount'[c] = Total(crAmount'[c])
    <3> TAKE c \in Addr
    <3>1. CASE c = e
      BY <1>2, <1>3, <2>1, <2>2, <3>1
    <3>2. CASE c # e
      BY <1>1, <1>2, <1>3, <2>1, <3>2
    <3> QED
      BY <3>1, <3>2
  <2>5. allAmount' = Total(amount')
    BY <1>3, <2>1, <2>3
  <2> QED
    BY <2>4, <2>5 DEF TotalsAgree
<1>6. FrozenBacksStake'
  <2>1. \A a \in Addr : frozen[a] = Total(entrusted[a]) /\ frozen[a] >= 0
    BY DEF BooksAgree, FrozenBacksStake
  <2>2. Total(entrusted'[r]) = Total(entrusted[r]) + x
    <3> DEFINE f == entrusted[r]
               g == entrusted'[r]
    <3>1. f \in [Addr -> Int] /\ g \in [Addr -> Int]
      BY <1>2
    <3>2. \A c \in Addr : g[c] = f[c] + (IF c = e THEN x ELSE 0)
      BY <1>1
    <3> HIDE DEF f, g
    <3>3. g[e] - f[e] = x /\ \A c \in Addr \ {e} : g[c] = f[c]
      BY <3>1, <3>2
    <3>4. Total(g) = Total(f) + (g[e] - f[e])
      BY <3>1, <3>3, TotalUpdate
    <3> QED
      BY <3>3, <3>4 DEF f, g
  <2>3. \A a \in Addr : frozen'[a] = Total(entrusted'[a]) /\ frozen'[a] >= 0
    <3> TAKE a \in Addr
    <3>1. CASE a = r
      <4>1. frozen'[r] = frozen[r] + x /\ frozen[r] \in Int
        BY <1>2, <1>3
      <4> QED
        BY <1>3, <2>1, <2>2, <3>1, <4>1
    <3>2. CASE a # r
      BY <1>1, <1>2, <1>3, <2>1, <3>2
    <3> QED
      BY <3>1, <3>2
  <2> QED
    BY <2>3 DEF FrozenBacksStake
<1> QED
  BY <1>4, <1>5, <1>6 DEF BooksAgree
(* The sum of zeros is zero. *)
LEMMA TotalZero ==
  ASSUME NEW f \in [Addr -> Int], \A a \in Addr : f[a] = 0
  PROVE  Total(f) = 0
<1> DEFINE N == Len(AddrSeq)
<1>1. PICK s : IsPartialSum(s, f) /\ Total(f) = s[N]
  BY TotalPartialSums
<1>2. N \in Nat /\ \A i \in 1..N : f[AddrSeq[i]] = 0
  BY AddrSeqType
<1> DEFINE A == {i \in Nat : i <= N => s[i] = 0}
<1>3. 0 \in A
  BY <1>1 DEF IsPartialSum
<1>4. ASSUME NEW i \in A PROVE i + 1 \in A
  <2>1. SUFFICES ASSUME i + 1 <= N PROVE s[i + 1] = 0
    OBVIOUS
  <2>2. i + 1 \in 1..N /\ (i + 1) - 1 = i /\ s[i] = 0
    BY <1>2, <2>1
  <2>3. s[i + 1] = s[i] + f[AddrSeq[i + 1]]
    BY <1>1, <2>2 DEF IsPartialSum
  <2> QED
    BY <1>2, <2>2, <2>3
<1>5. A = Nat
  <2>1. A \in SUBSET Nat
    OBVIOUS
  <2> HIDE DEF A
  <2> QED
    BY <1>3, <1>4, <2>1, NatSetInduction
<1> QED
  BY <1>1, <1>2, <1>5

(* The empty books agree. *)
LEMMA InitBooks == Init => BooksAgree
<1> SUFFICES ASSUME Init PROVE BooksAgree
  OBVIOUS
<1>1. /\ amount \in [Addr -> Int] /\ \A a \in Addr : amount[a] = 0
      /\ frozen = amount /\ allAmount = 0
      /\ entrusted = crAmount
      /\ crAmount \in PairTable /\ \A c, a \in Addr : crAmount[c][a] = 0
  BY DEF Init
<1>2. Total(amount) = 0 /\ \A c \in Addr : Total(crAmount[c]) = 0
  BY <1>1, TotalZero
<1> QED
  BY <1>1, <1>2 DEF BooksAgree, TablesAgree, TotalsAgree, FrozenBacksStake

(* Only an entrust transaction touches what the books speak of. *)
LEMMA StakeUnchanged ==
  ASSUME UNCHANGED stake, BooksAgree
  PROVE  BooksAgree'
BY DEF stake, BooksAgree, TablesAgree, TotalsAgree, FrozenBacksStake, Total

(* Every transaction keeps the two tables, the totals and the frozen coins *)
(* in agreement.                                                           *)
THEOREM BooksCorrect == Spec => []BooksAgree
<1>1. Init => BooksAgree
  BY InitBooks
<1>2. TypeOK /\ TypeOK' /\ BooksAgree /\ [Next]_vars => BooksAgree'
  <2> SUFFICES ASSUME TypeOK, TypeOK', BooksAgree, [Next]_vars PROVE BooksAgree'
    OBVIOUS
  <2>1. ASSUME NEW a \in Addr, NEW x \in Deposits, Deposit(a, x)
        PROVE  BooksAgree'
    BY <2>1, StakeUnchanged DEF Deposit
  <2>2. ASSUME NEW a \in Addr, NEW x \in Deposits, Withdraw(a, x)
        PROVE  BooksAgree'
    BY <2>2, StakeUnchanged DEF Withdraw
  <2>3. ASSUME NEW sender \in Addr, NEW req \in Requests,
               Entrust(sender, req[1], req[2], req[3])
        PROVE  BooksAgree'
    <3>1. req[1] \in Addr /\ req[2] \in Addr /\ req[3] \in Int
      BY InputAssumption
    <3> QED
      BY <2>3, <3>1, EntrustKeepsBooks
  <2>4. ASSUME NEW k \in BlsKeys, NEW sender \in Addr, BlsBind(k, sender)
        PROVE  BooksAgree'
    BY <2>4, StakeUnchanged DEF BlsBind
  <2>5. ASSUME NEW maker \in Addr, NEW pks \in BlsLists, Miner(maker, pks)
        PROVE  BooksAgree'
    BY <2>5, StakeUnchanged DEF Miner
  <2>6. CASE UNCHANGED vars
    BY <2>6, StakeUnchanged DEF vars
  <2> QED
    BY <2>1, <2>2, <2>3, <2>4, <2>5, <2>6 DEF Next
<1> QED
  BY <1>1, <1>2, TypeCorrect, PTL DEF Spec

(* The consignor's and the consignee's table record the same stake. *)
THEOREM TablesCorrect == Spec => []TablesAgree
BY BooksCorrect, PTL DEF BooksAgree

(* A consignee's amount and the global amount are the sums of the stakes. *)
THEOREM TotalsCorrect == Spec => []TotalsAgree
BY BooksCorrect, PTL DEF BooksAgree

(* What an address has frozen is what it entrusted, never below zero. *)
THEOREM StakeStandsOnCoins == Spec => []FrozenBacksStake
BY BooksCorrect, PTL DEF BooksAgree
-----------------------------------------------------------------------------
(* Rewards *)

(* After every transaction no reward or fee that is due is left unpaid. *)
THEOREM RewardsArePaid == Spec => []UnpaidBelowThreshold
<1>1. Init => UnpaidBelowThreshold
  BY ParamAssumption DEF Init, UnpaidBelowThreshold
<1>2. TypeOK /\ UnpaidBelowThreshold /\ [Next]_vars => UnpaidBelowThreshold'
  <2> SUFFICES ASSUME TypeOK, UnpaidBelowThreshold, [Next]_vars
               PROVE  UnpaidBelowThreshold'
    OBVIOUS
  <2>1. CASE UNCHANGED rewards
    BY <2>1 DEF rewards, UnpaidBelowThreshold
  <2>2. ASSUME NEW maker \in Addr, NEW pks \in BlsLists, Miner(maker, pks)
        PROVE  UnpaidBelowThreshold'
    BY <2>2, MinerStep
  <2> QED
    BY <2>1, <2>2 DEF Next, Deposit, Withdraw, Entrust, BlsBind, vars
<1> QED
  BY <1>1, <1>2, TypeCorrect, PTL DEF Spec

(* No transaction takes coins away from an address. *)
THEOREM NobodyLosesCoins == Spec => NoCoinsLost
<1> DEFINE Keeps == \A a \in Addr : Owned(a)' >= Owned(a)
<1>1. TypeOK /\ [Next]_vars => [Keeps]_vars
  <2> SUFFICES ASSUME TypeOK, [Next]_vars PROVE Keeps
    OBVIOUS
  <2>1. /\ wallet \in [Addr -> Int] /\ free \in [Addr -> Int]
        /\ frozen \in [Addr -> Int]
    BY DEF TypeOK
  <2>2. ASSUME NEW a \in Addr, NEW x \in Deposits, Deposit(a, x) \/ Withdraw(a, x)
        PROVE  Keeps
    <3>1. x \in Int
      BY InputAssumption
    <3> QED
      BY <2>1, <2>2, <3>1 DEF Deposit, Withdraw, stake, Owned
  <2>3. ASSUME NEW sender \in Addr, NEW req \in Requests,
               Entrust(sender, req[1], req[2], req[3])
        PROVE  Keeps
    <3>1. req[1] \in Addr /\ req[2] \in Addr /\ req[3] \in Int
      BY InputAssumption
    <3>2. /\ wallet' = wallet
          /\ free' = [free EXCEPT ![req[1]] = @ - req[3]]
          /\ frozen' = [frozen EXCEPT ![req[1]] = @ + req[3]]
      BY <2>3 DEF Entrust, Freeze
    <3> QED
      BY <2>1, <3>1, <3>2 DEF Owned
  <2>4. ASSUME NEW k \in BlsKeys, NEW sender \in Addr, BlsBind(k, sender)
        PROVE  Keeps
    BY <2>1, <2>4 DEF BlsBind, stake, Owned
  <2>5. ASSUME NEW maker \in Addr, NEW pks \in BlsLists, Miner(maker, pks)
        PROVE  Keeps
    <3>1. /\ wallet' \in [Addr -> Int]
          /\ \A a \in Addr : wallet'[a] >= wallet[a]
          /\ free' = free /\ frozen' = frozen
      BY <2>5, MinerStep DEF stake
    <3> QED
      BY <2>1, <3>1 DEF Owned
  <2>6. CASE UNCHANGED vars
    BY <2>1, <2>6 DEF vars, stake, Owned
  <2> QED
    BY <2>2, <2>3, <2>4, <2>5, <2>6 DEF Next
<1> QED
  BY <1>1, TypeCorrect, PTL DEF Spec, NoCoinsLost
-----------------------------------------------------------------------------
(* Sums that are compared *)

(* A sum is at most the sum of values at least as great. *)
LEMMA TotalMonotone ==
  ASSUME NEW f \in [Addr -> Int], NEW g \in [Addr -> Int],
         \A a \in Addr : f[a] <= g[a]
  PROVE  Total(f) <= Total(g)
<1> DEFINE N == Len(AddrSeq)
<1>1. PICK s : IsPartialSum(s, f) /\ Total(f) = s[N]
  BY TotalPartialSums
<1>2. PICK t : IsPartialSum(t, g) /\ Total(g) = t[N]
  BY TotalPartialSums
<1>3. N \in Nat /\ \A i \in 1..N : AddrSeq[i] \in Addr
  BY AddrSeqType
<1> DEFINE A == {i \in Nat : i <= N => s[i] <= t[i]}
<1>4. 0 \in A
  BY <1>1, <1>2 DEF IsPartialSum
<1>5. ASSUME NEW i \in A PROVE i + 1 \in A
  <2>1. SUFFICES ASSUME i + 1 <= N PROVE s[i + 1] <= t[i + 1]
    OBVIOUS
  <2>2. i \in 0..N /\ i + 1 \in 1..N /\ (i + 1) - 1 = i /\ s[i] <= t[i]
    BY <1>3, <2>1
  <2>3. /\ s[i + 1] = s[i] + f[AddrSeq[i + 1]] /\ s[i] \in Int
        /\ t[i + 1] = t[i] + g[AddrSeq[i + 1]] /\ t[i] \in Int
    BY <1>1, <1>2, <2>2 DEF IsPartialSum
  <2>4. /\ f[AddrSeq[i + 1]] \in Int /\ g[AddrSeq[i + 1]] \in Int
        /\ f[AddrSeq[i + 1]] <= g[AddrSeq[i + 1]]
    BY <1>3, <2>2
  <2> QED
    BY <2>2, <2>3, <2>4
<1>6. A = Nat
  <2>1. A \in SUBSET Nat
    OBVIOUS
  <2> HIDE DEF A
  <2> QED
    BY <1>4, <1>5, <2>1, NatSetInduction
<1> QED
  BY <1>1, <1>2, <1>3, <1>6

(* The sum of a function and a multiple of another. *)
LEMMA TotalLinear ==
  ASSUME NEW f \in [Addr -> Int], NEW g \in [Addr -> Int], NEW k \in Int,
         NEW h \in [Addr -> Int], \A a \in Addr : h[a] = f[a] + k * g[a]
  PROVE  Total(h) = Total(f) + k * Total(g)
<1> DEFINE N == Len(AddrSeq)
<1>1. PICK s : IsPartialSum(s, f) /\ Total(f) = s[N]
  BY TotalPartialSums
<1>2. PICK t : IsPartialSum(t, g) /\ Total(g) = t[N]
  BY TotalPartialSums
<1>3. PICK u : IsPartialSum(u, h) /\ Total(h) = u[N]
  BY TotalPartialSums
<1>4. N \in Nat /\ \A i \in 1..N : AddrSeq[i] \in Addr
  BY AddrSeqType
<1> DEFINE A == {i \in Nat : i <= N => u[i] = s[i] + k * t[i]}
<1>5. 0 \in A
  BY <1>1, <1>2, <1>3 DEF IsPartialSum
<1>6. ASSUME NEW i \in A PROVE i + 1 \in A
  <2>1. SUFFICES ASSUME i + 1 <= N PROVE u[i + 1] = s[i + 1] + k * t[i + 1]
    OBVIOUS
  <2>2. i \in 0..N /\ i + 1 \in 1..N /\ (i + 1) - 1 = i /\ u[i] = s[i] + k * t[i]
    BY <1>4, <2>1
  <2> DEFINE x == f[AddrSeq[i + 1]]
             y == g[AddrSeq[i + 1]]
  <2>3. /\ s[i + 1] = s[i] + x /\ s[i] \in Int
        /\ t[i + 1] = t[i] + y /\ t[i] \in Int
        /\ u[i + 1] = u[i] + h[AddrSeq[i + 1]] /\ u[i] \in Int
    BY <1>1, <1>2, <1>3, <2>2 DEF IsPartialSum
  <2>4. x \in Int /\ y \in Int /\ h[AddrSeq[i + 1]] = x + k * y
    BY <1>4, <2>2
  <2> HIDE DEF x, y
  <2> DEFINE v == k * t[i]
             w == k * y
  <2>5. v \in Int /\ w \in Int /\ k * t[i + 1] = v + w
    <3>1. \A m, n \in Int : k * m \in Int /\ k * (m + n) = k * m + k * n
      OBVIOUS
    <3>2. k * t[i + 1] = k * (t[i] + y)
      BY <2>3
    <3> QED
      BY <2>3, <2>4, <3>1, <3>2
  <2>6. /\ u[i] = s[i] + v
        /\ u[i + 1] = u[i] + (x + w)
    BY <2>2, <2>3, <2>4
  <2> HIDE DEF v, w
  <2> QED
    BY <2>3, <2>4, <2>5, <2>6
<1>7. A = Nat
  <2>1. A \in SUBSET Nat
    OBVIOUS
  <2> HIDE DEF A
  <2> QED
    BY <1>5, <1>6, <2>1, NatSetInduction
<1> QED
  BY <1>1, <1>2, <1>3, <1>4, <1>7

(* Of values that are not negative, none exceeds the sum. *)
LEMMA TotalBounds ==
  ASSUME NEW f \in [Addr -> Int], \A a \in Addr : f[a] >= 0
  PROVE  Total(f) >= 0 /\ \A a \in Addr : f[a] <= Total(f)
<1> DEFINE z == [a \in Addr |-> 0]
<1>1. z \in [Addr -> Int] /\ \A a \in Addr : z[a] = 0
  OBVIOUS
<1> HIDE DEF z
<1>2. Total(z) = 0 /\ Total(z) <= Total(f)
  BY <1>1, TotalZero, TotalMonotone
<1>3. ASSUME NEW a \in Addr PROVE f[a] <= Total(f)
  <2> DEFINE g == [z EXCEPT ![a] = f[a]]
  <2>1. g \in [Addr -> Int] /\ g[a] = f[a] /\ \A b \in Addr \ {a} : g[b] = z[b]
    BY <1>1
  <2> HIDE DEF g
  <2>2. \A b \in Addr : g[b] <= f[b]
    BY <1>1, <2>1
  <2>3. Total(g) = Total(z) + (g[a] - z[a])
    BY <1>1, <2>1, TotalUpdate
  <2>4. Total(g) <= Total(f)
    BY <2>1, <2>2, TotalMonotone
  <2> QED
    BY <1>1, <1>2, <2>1, <2>3, <2>4, TotalType
<1> QED
  BY <1>2, <1>3, TotalType

(* The sums of a table's rows. *)
Rows(p) == [e \in Addr |-> Total(p[e])]

(* A table's rows have sums, and these the table's sum. *)
LEMMA RowsType ==
  ASSUME NEW p \in PairTable
  PROVE  /\ Rows(p) \in [Addr -> Int] /\ PairTotal(p) = Total(Rows(p))
         /\ PairTotal(p) \in Int
         /\ \A e \in Addr : Rows(p)[e] = Total(p[e]) /\ p[e] \in [Addr -> Int]
<1>1. \A e \in Addr : p[e] \in [Addr -> Int] /\ Total(p[e]) \in Int
  <2> TAKE e \in Addr
  <2>1. p[e] \in [Addr -> Int]
    OBVIOUS
  <2> QED
    BY <2>1, TotalType
<1>2. Rows(p) \in [Addr -> Int] /\ \A e \in Addr : Rows(p)[e] = Total(p[e])
  BY <1>1 DEF Rows
<1>3. PairTotal(p) = Total(Rows(p))
  BY DEF PairTotal, Rows
<1> QED
  BY <1>1, <1>2, <1>3, TotalType

(* Changing a table at one pair changes its sum by as much. *)
LEMMA PairTotalUpdate ==
  ASSUME NEW p \in PairTable, NEW q \in PairTable, NEW e \in Addr, NEW r \in Addr,
         \A c, a \in Addr : <<c, a>> # <<e, r>> => q[c][a] = p[c][a]
  PROVE  PairTotal(q) = PairTotal(p) + (q[e][r] - p[e][r])
<1>1. /\ Rows(p) \in [Addr -> Int] /\ PairTotal(p) = Total(Rows(p))
      /\ \A c \in Addr : Rows(p)[c] = Total(p[c]) /\ p[c] \in [Addr -> Int]
      /\ Rows(q) \in [Addr -> Int] /\ PairTotal(q) = Total(Rows(q))
      /\ \A c \in Addr : Rows(q)[c] = Total(q[c]) /\ q[c] \in [Addr -> Int]
  BY RowsType
<1>2. \A a \in Addr \ {r} : q[e][a] = p[e][a]
  OBVIOUS
<1>3. Total(q[e]) = Total(p[e]) + (q[e][r] - p[e][r])
  BY <1>1, <1>2, TotalUpdate
<1>4. \A c \in Addr \ {e} : Rows(q)[c] = Rows(p)[c]
  <2> TAKE c \in Addr \ {e}
  <2>1. \A a \in Addr : q[c][a] = p[c][a]
    OBVIOUS
  <2>2. q[c] = p[c]
    BY <1>1, <2>1
  <2> QED
    BY <1>1, <2>2
<1>5. Total(Rows(q)) = Total(Rows(p)) + (Rows(q)[e] - Rows(p)[e])
  BY <1>1, <1>4, TotalUpdate
<1>6. /\ Rows(q)[e] = Total(q[e]) /\ Rows(p)[e] = Total(p[e])
      /\ Total(p[e]) \in Int /\ Total(q[e]) \in Int
      /\ Total(Rows(p)) \in Int /\ p[e][r] \in Int /\ q[e][r] \in Int
  BY <1>1, TotalType
<1> QED
  BY <1>1, <1>3, <1>5, <1>6

(* Of a table that is not negative, no pair exceeds the sum. *)
LEMMA PairTotalBounds ==
  ASSUME NEW p \in PairTable, \A e, r \in Addr : p[e][r] >= 0
  PROVE  PairTotal(p) >= 0 /\ \A e, r \in Addr : p[e][r] <= PairTotal(p)
<1>1. /\ Rows(p) \in [Addr -> Int] /\ PairTotal(p) = Total(Rows(p))
      /\ PairTotal(p) \in Int
      /\ \A c \in Addr : Rows(p)[c] = Total(p[c]) /\ p[c] \in [Addr -> Int]
  BY RowsType
<1>2. \A c \in Addr : Rows(p)[c] >= 0 /\ \A r \in Addr : p[c][r] <= Rows(p)[c]
  BY <1>1, TotalBounds
<1>3. Total(Rows(p)) >= 0 /\ \A c \in Addr : Rows(p)[c] <= Total(Rows(p))
  BY <1>1, <1>2, TotalBounds
<1>4. ASSUME NEW e \in Addr, NEW r \in Addr PROVE p[e][r] <= PairTotal(p)
  <2>1. p[e][r] \in Int /\ Rows(p)[e] \in Int
    BY <1>1
  <2> QED
    BY <1>1, <1>2, <1>3, <2>1
<1> QED
  BY <1>1, <1>3, <1>4
-----------------------------------------------------------------------------
(* Arithmetic without overflow *)

(* A number in range is not changed by wrapping. *)
LEMMA WrapSmall ==
  ASSUME NEW x \in Int, -MaxInt64 <= x, x <= MaxInt64
  PROVE  Wrap(x) = x
<1> DEFINE w == -2 * MinInt64
           y == x - MinInt64
<1>1. MinInt64 \in Int /\ w \in Int /\ y \in Int /\ 0 <= y /\ y < w
  BY ParamAssumption DEF MinInt64
<1>2. Wrap(x) = (y % w) + MinInt64
  BY DEF Wrap
<1>3. y + MinInt64 = x
  BY <1>1
<1> HIDE DEF w, y
<1>4. y % w = y
  BY <1>1
<1> QED
  BY <1>2, <1>3, <1>4

(* The integer division of non-negative numbers. *)
LEMMA TruncDown ==
  ASSUME NEW a \in Nat, NEW b \in Nat \ {0}
  PROVE  /\ Trunc(a, b) \in Nat
         /\ b * Trunc(a, b) <= a
         /\ a < b * Trunc(a, b) + b
<1>1. Trunc(a, b) = a \div b
  BY DEF Trunc, Abs
<1>2. a \div b \in Nat /\ b * (a \div b) <= a /\ a < b * (a \div b) + b
  OBVIOUS
<1> QED
  BY <1>1, <1>2

(* A fee is a part of the payment. *)
LEMMA FeeSmall ==
  ASSUME NEW x \in Nat, 100 * x <= MaxInt64
  PROVE  Fee(x) \in Nat /\ Fee(x) <= x
<1> DEFINE y == x * FeePercent
           q == Trunc(y, 100)
<1>1. y \in Nat /\ y <= 100 * x
  <2>1. \A p \in 0..100 : x * p \in Nat /\ x * p <= 100 * x
    OBVIOUS
  <2> QED
    BY <2>1, ParamAssumption
<1> HIDE DEF y
<1>2. MaxInt64 \in Nat /\ -MaxInt64 <= y /\ y <= MaxInt64
  BY <1>1, ParamAssumption
<1>3. Wrap(y) = y
  BY <1>1, <1>2, WrapSmall
<1>4. q \in Nat /\ 100 * q <= y
  BY <1>1, TruncDown
<1>5. Fee(x) = q
  BY <1>3 DEF Fee, y
<1> HIDE DEF q
<1> QED
  BY <1>1, <1>4, <1>5

(* A share among tickets is at most the part that is due. *)
LEMMA ShareDown ==
  ASSUME NEW R \in Nat, NEW k \in Nat, NEW n \in Nat \ {0}
  PROVE  Share(R, k, n) \in Nat /\ n * Share(R, k, n) <= R * k
<1> DEFINE a == R * k
           q == Trunc(a, n)
           low == <<R, k, n>> \in FloatLow
<1>1. a \in Nat
  OBVIOUS
<1>2. low => a >= n
  BY FloatAssumption
<1>3. Share(R, k, n) = q - (IF low THEN 1 ELSE 0)
  BY DEF Share
<1> HIDE DEF a
<1>4. q \in Nat /\ n * q <= a /\ a < n * q + n
  BY <1>1, TruncDown
<1> HIDE DEF q, low
<1>5. CASE low
  <2>1. q # 0
    BY <1>1, <1>2, <1>4, <1>5
  <2>2. n * (q - 1) <= n * q
    BY <1>4
  <2>3. n * (q - 1) \in Int /\ n * q \in Int
    BY <1>4
  <2>4. n * (q - 1) <= a
    BY <1>1, <1>4, <2>2, <2>3
  <2> QED
    BY <1>3, <1>4, <1>5, <2>1, <2>4 DEF a
<1>6. CASE ~low
  BY <1>3, <1>4, <1>6 DEF a
<1> QED
  BY <1>5, <1>6
-----------------------------------------------------------------------------
(* The coins of a reward pass *)

(* What a ledger says is still to be paid. *)
Owed(L) == PairTotal(L.remain) + Total(L.remainFee)

(* A pass from L to M that credits s: what it credits is owed or paid. *)
Pays(L, M, s) ==
    /\ PairTotal(M.reward) = PairTotal(L.reward) + s
    /\ M.coins.exec - Owed(M) = L.coins.exec - Owed(L) - s
    /\ Total(M.coins.wallet) + Owed(M) = Total(L.coins.wallet) + Owed(L) + s
    /\ \A e, r \in Addr : M.reward[e][r] >= L.reward[e][r]

(* Nothing is negative, nothing is owed or paid as a fee that was not credited,
   and the sums are far from overflow. *)
LedgerSound(L) ==
    /\ L \in Ledger
    /\ \A e, r \in Addr : L.remain[e][r] >= 0 /\ L.reward[e][r] >= 0
    /\ \A e \in Addr : L.remainFee[e] >= 0 /\ L.feeReward[e] >= L.remainFee[e]
    /\ \A e, r \in Addr : L.remain[e][r] <= L.reward[e][r]
    /\ PairTotal(L.remain) + Total(L.feeReward) <= PairTotal(L.reward)
    /\ 100 * PairTotal(L.reward) <= MaxInt64

(* The sums of a ledger are integers. *)
LEMMA LedgerSums ==
  ASSUME NEW L \in Ledger
  PROVE  /\ PairTotal(L.remain) \in Int /\ PairTotal(L.reward) \in Int
         /\ Total(L.remainFee) \in Int /\ Total(L.feeReward) \in Int
         /\ Total(L.coins.wallet) \in Int /\ L.coins.exec \in Int
         /\ Owed(L) \in Int
<1>1. /\ L.remain \in PairTable /\ L.reward \in PairTable
      /\ L.remainFee \in [Addr -> Int] /\ L.feeReward \in [Addr -> Int]
      /\ L.coins.wallet \in [Addr -> Int] /\ L.coins.exec \in Int
  BY DEF Ledger, Coins
<1>2. /\ PairTotal(L.remain) \in Int /\ PairTotal(L.reward) \in Int
  BY <1>1, RowsType
<1>3. /\ Total(L.remainFee) \in Int /\ Total(L.feeReward) \in Int
      /\ Total(L.coins.wallet) \in Int
  BY <1>1, TotalType
<1> QED
  BY <1>1, <1>2, <1>3 DEF Owed

(* Two passes in a row credit what each of them does. *)
LEMMA PaysTransitive ==
  ASSUME NEW L \in Ledger, NEW M \in Ledger, NEW N \in Ledger,
         NEW s \in Int, NEW t \in Int, Pays(L, M, s), Pays(M, N, t)
  PROVE  Pays(L, N, s + t)
<1>1. /\ PairTotal(L.reward) \in Int /\ PairTotal(M.reward) \in Int
      /\ Total(L.coins.wallet) \in Int /\ Total(M.coins.wallet) \in Int
      /\ Total(N.coins.wallet) \in Int
      /\ L.coins.exec \in Int /\ M.coins.exec \in Int /\ N.coins.exec \in Int
      /\ Owed(L) \in Int /\ Owed(M) \in Int /\ Owed(N) \in Int
  BY LedgerSums
<1>2. \A e, r \in Addr : /\ L.reward[e][r] \in Int /\ M.reward[e][r] \in Int
                         /\ N.reward[e][r] \in Int
  BY DEF Ledger
<1>3. \A e, r \in Addr : N.reward[e][r] >= L.reward[e][r]
  BY <1>2 DEF Pays
<1> QED
  BY <1>1, <1>3 DEF Pays

(* A ledger left alone credits nothing. *)
LEMMA PaysNothing ==
  ASSUME NEW L \in Ledger
  PROVE  Pays(L, L, 0)
<1>1. \A e, r \in Addr : L.reward[e][r] \in Int
  BY DEF Ledger
<1> QED
  BY <1>1, LedgerSums DEF Pays

(* A transfer moves coins from the contract to a wallet. *)
LEMMA TransferMoves ==
  ASSUME NEW C \in Coins, NEW a \in Addr, NEW x \in Int
  PROVE  /\ Transfer(C, a, x) \in Coins
         /\ Transfer(C, a, x).exec = C.exec - x
         /\ Total(Transfer(C, a, x).wallet) = Total(C.wallet) + x
<1> DEFINE D == Transfer(C, a, x)
<1>1. D \in Coins /\ C.wallet \in [Addr -> Int]
  BY TransferOK DEF Coins
<1>2. D.exec = C.exec - x /\ D.wallet = [C.wallet EXCEPT ![a] = @ + x]
  BY DEF Transfer
<1> HIDE DEF D
<1>3. /\ D.wallet \in [Addr -> Int] /\ D.wallet[a] = C.wallet[a] + x
      /\ \A b \in Addr \ {a} : D.wallet[b] = C.wallet[b]
      /\ C.wallet[a] \in Int
  BY <1>1, <1>2 DEF Coins
<1>4. Total(D.wallet) = Total(C.wallet) + (D.wallet[a] - C.wallet[a])
  BY <1>1, <1>3, TotalUpdate
<1>5. Total(C.wallet) \in Int
  BY <1>1, TotalType
<1>6. Total(D.wallet) = Total(C.wallet) + x
  BY <1>3, <1>4, <1>5
<1> QED
  BY <1>1, <1>2, <1>6 DEF D

(* The payment of a consignor's reward makes part of it a fee that is owed. *)
LEMMA PayOutPays ==
  ASSUME NEW L, LedgerSound(L), NEW e \in Addr, NEW r \in Addr
  PROVE  /\ LedgerSound(PayOut(L, e, r, L.remain[e][r]))
         /\ Pays(L, PayOut(L, e, r, L.remain[e][r]), 0)
<1> DEFINE x == L.remain[e][r]
           fee == Fee(x)
           M == PayOut(L, e, r, x)
<1>1. /\ L \in Ledger /\ L.coins \in Coins /\ x \in Nat
      /\ L.remain \in PairTable /\ L.reward \in PairTable
      /\ L.remainFee \in [Addr -> Int] /\ L.feeReward \in [Addr -> Int]
  BY DEF LedgerSound, Ledger
<1>2. x <= PairTotal(L.remain) /\ PairTotal(L.remain) >= 0
  BY <1>1, PairTotalBounds DEF LedgerSound
<1>3. Total(L.feeReward) >= 0 /\ L.feeReward[e] <= Total(L.feeReward)
  <2>1. \A c \in Addr : L.feeReward[c] >= 0
    <3> TAKE c \in Addr
    <3>1. L.feeReward[c] \in Int /\ L.remainFee[c] \in Int
      BY <1>1
    <3> QED
      BY <3>1 DEF LedgerSound
  <2> QED
    BY <1>1, <2>1, TotalBounds
<1>4. /\ PairTotal(L.remain) \in Int /\ PairTotal(L.reward) \in Int
      /\ Total(L.remainFee) \in Int /\ Total(L.feeReward) \in Int
      /\ Total(L.coins.wallet) \in Int /\ L.coins.exec \in Int
  BY <1>1, LedgerSums
<1>5. /\ PairTotal(L.remain) + Total(L.feeReward) <= PairTotal(L.reward)
      /\ 100 * PairTotal(L.reward) <= MaxInt64 /\ MaxInt64 \in Nat
  BY ParamAssumption DEF LedgerSound
<1>6. fee \in Nat /\ fee <= x
  <2>1. 100 * x <= MaxInt64
    BY <1>1, <1>2, <1>3, <1>4, <1>5
  <2> HIDE DEF x
  <2> QED
    BY <1>1, <2>1, FeeSmall
<1>7. /\ L.feeReward[e] \in Nat /\ L.remainFee[e] \in Nat
      /\ L.remainFee[e] <= L.feeReward[e]
  BY <1>1 DEF LedgerSound
<1>8. /\ Wrap(L.feeReward[e] + fee) = L.feeReward[e] + fee
      /\ Wrap(L.remainFee[e] + fee) = L.remainFee[e] + fee
  <2> HIDE DEF x, fee
  <2> DEFINE a == L.feeReward[e] + fee
             b == L.remainFee[e] + fee
  <2>1. a \in Nat /\ b \in Nat /\ b <= a /\ a <= MaxInt64
    BY <1>1, <1>2, <1>3, <1>4, <1>5, <1>6, <1>7
  <2>2. -MaxInt64 <= a /\ -MaxInt64 <= b /\ b <= MaxInt64 /\ a \in Int /\ b \in Int
    BY <1>5, <2>1
  <2> HIDE DEF a, b
  <2>3. Wrap(a) = a /\ Wrap(b) = b
    BY <2>1, <2>2, WrapSmall
  <2> QED
    BY <2>3 DEF a, b
<1>9. /\ M.reward = L.reward
      /\ M.remain = [L.remain EXCEPT ![e][r] = 0]
      /\ M.feeReward = [L.feeReward EXCEPT ![e] = L.feeReward[e] + fee]
      /\ M.remainFee = [L.remainFee EXCEPT ![e] = L.remainFee[e] + fee]
      /\ M.coins = Transfer(L.coins, r, x - fee)
  BY <1>8 DEF PayOut
<1>10. M \in Ledger
  <2>1. x \in Int
    BY <1>1
  <2> HIDE DEF x
  <2>2. PayOut(L, e, r, x) \in Ledger
    BY <1>1, <2>1, PayOutOK
  <2> QED
    BY <2>2
<1> HIDE DEF M
<1>11. /\ M.remain \in PairTable /\ M.remain[e][r] = 0
       /\ \A c, a \in Addr : <<c, a>> # <<e, r>> => M.remain[c][a] = L.remain[c][a]
  BY <1>1, <1>9, <1>10 DEF Ledger
<1>12. PairTotal(M.remain) = PairTotal(L.remain) - x
  <2>1. PairTotal(M.remain) = PairTotal(L.remain) + (M.remain[e][r] - L.remain[e][r])
    BY <1>1, <1>11, PairTotalUpdate
  <2> QED
    BY <1>1, <1>4, <1>11, <2>1
<1> HIDE DEF fee, x
<1>13. /\ M.feeReward \in [Addr -> Int] /\ M.feeReward[e] = L.feeReward[e] + fee
       /\ \A c \in Addr \ {e} : M.feeReward[c] = L.feeReward[c]
       /\ M.remainFee \in [Addr -> Int] /\ M.remainFee[e] = L.remainFee[e] + fee
       /\ \A c \in Addr \ {e} : M.remainFee[c] = L.remainFee[c]
  BY <1>1, <1>6, <1>7, <1>9
<1>14. /\ Total(M.feeReward) = Total(L.feeReward) + fee
       /\ Total(M.remainFee) = Total(L.remainFee) + fee
  <2>1. Total(M.feeReward) = Total(L.feeReward) + (M.feeReward[e] - L.feeReward[e])
    BY <1>1, <1>13, TotalUpdate
  <2>2. Total(M.remainFee) = Total(L.remainFee) + (M.remainFee[e] - L.remainFee[e])
    BY <1>1, <1>13, TotalUpdate
  <2> QED
    BY <1>4, <1>6, <1>7, <1>13, <2>1, <2>2
<1>15. /\ M.coins.exec = L.coins.exec - (x - fee)
       /\ Total(M.coins.wallet) = Total(L.coins.wallet) + (x - fee)
  <2> DEFINE y == x - fee
  <2>1. y \in Int /\ M.coins = Transfer(L.coins, r, y)
    BY <1>1, <1>6, <1>9
  <2> HIDE DEF y
  <2>2. /\ Transfer(L.coins, r, y).exec = L.coins.exec - y
        /\ Total(Transfer(L.coins, r, y).wallet) = Total(L.coins.wallet) + y
    BY <1>1, <2>1, TransferMoves
  <2> QED
    BY <2>1, <2>2 DEF y
<1>16. LedgerSound(M)
  <2>1. \A c, a \in Addr : /\ M.remain[c][a] >= 0 /\ M.reward[c][a] >= 0
                           /\ M.remain[c][a] <= M.reward[c][a]
    <3> TAKE c, a \in Addr
    <3>1. /\ L.remain[c][a] >= 0 /\ L.reward[c][a] >= 0
          /\ L.remain[c][a] <= L.reward[c][a]
      BY DEF LedgerSound
    <3> QED
      BY <1>9, <1>11, <3>1
  <2>2. \A c \in Addr : M.remainFee[c] >= 0 /\ M.feeReward[c] >= M.remainFee[c]
    <3> TAKE c \in Addr
    <3>1. L.remainFee[c] >= 0 /\ L.feeReward[c] >= L.remainFee[c]
      BY DEF LedgerSound
    <3>2. CASE c = e
      BY <1>6, <1>7, <1>13, <3>2
    <3>3. CASE c # e
      BY <1>13, <3>1, <3>3
    <3> QED
      BY <3>2, <3>3
  <2>3. PairTotal(M.remain) + Total(M.feeReward) <= PairTotal(M.reward)
    BY <1>1, <1>4, <1>5, <1>6, <1>9, <1>12, <1>14
  <2> QED
    BY <1>5, <1>9, <1>10, <2>1, <2>2, <2>3 DEF LedgerSound
<1>17. Pays(L, M, 0)
  <2>1. Owed(M) = Owed(L) - x + fee /\ Owed(L) \in Int
    BY <1>1, <1>4, <1>6, <1>12, <1>14 DEF Owed
  <2>2. \A c, a \in Addr : M.reward[c][a] >= L.reward[c][a]
    BY <1>1, <1>9
  <2>3. PairTotal(M.reward) = PairTotal(L.reward) + 0
    BY <1>4, <1>9
  <2> QED
    BY <1>1, <1>4, <1>6, <1>15, <2>1, <2>2, <2>3 DEF Pays
<1> QED
  BY <1>16, <1>17 DEF M, x

(* The payment of the fees pays what is owed. *)
LEMMA PayFeePays ==
  ASSUME NEW L, LedgerSound(L), NEW e \in Addr
  PROVE  LedgerSound(PayFee(L, e)) /\ Pays(L, PayFee(L, e), 0)
<1>1. /\ L \in Ledger /\ L.coins \in Coins
      /\ L.reward \in PairTable
      /\ L.remainFee \in [Addr -> Int] /\ L.feeReward \in [Addr -> Int]
  BY DEF LedgerSound, Ledger
<1>2. CASE L.remainFee[e] < 10 * RewardTransfer
  BY <1>1, <1>2, PaysNothing DEF PayFee
<1>3. CASE ~ (L.remainFee[e] < 10 * RewardTransfer)
  <2> DEFINE y == L.remainFee[e]
             M == PayFee(L, e)
  <2>1. /\ M.reward = L.reward /\ M.remain = L.remain
        /\ M.feeReward = L.feeReward
        /\ M.remainFee = [L.remainFee EXCEPT ![e] = 0]
        /\ M.coins = Transfer(L.coins, e, y)
    BY <1>3 DEF PayFee
  <2>2. M \in Ledger
    BY <1>1, PayFeeOK
  <2>3. y \in Int /\ y >= 0
    BY <1>1 DEF LedgerSound
  <2> HIDE DEF M, y
  <2>4. /\ M.coins.exec = L.coins.exec - y
        /\ Total(M.coins.wallet) = Total(L.coins.wallet) + y
    <3>1. /\ Transfer(L.coins, e, y).exec = L.coins.exec - y
          /\ Total(Transfer(L.coins, e, y).wallet) = Total(L.coins.wallet) + y
      BY <1>1, <2>3, TransferMoves
    <3> QED
      BY <2>1, <3>1
  <2>5. /\ M.remainFee \in [Addr -> Int] /\ M.remainFee[e] = 0
        /\ \A c \in Addr \ {e} : M.remainFee[c] = L.remainFee[c]
    BY <1>1, <2>1
  <2>6. /\ PairTotal(L.remain) \in Int /\ PairTotal(L.reward) \in Int
        /\ Total(L.remainFee) \in Int /\ Owed(L) \in Int
        /\ Total(L.coins.wallet) \in Int /\ L.coins.exec \in Int
    BY <1>1, LedgerSums
  <2>7. Total(M.remainFee) = Total(L.remainFee) - y
    <3>1. Total(M.remainFee) = Total(L.remainFee) + (M.remainFee[e] - L.remainFee[e])
      BY <1>1, <2>5, TotalUpdate
    <3> QED
      BY <2>3, <2>5, <2>6, <3>1 DEF y
  <2>8. LedgerSound(M)
    <3>1. \A c \in Addr : M.remainFee[c] >= 0 /\ M.feeReward[c] >= M.remainFee[c]
      <4> TAKE c \in Addr
      <4>1. /\ L.remainFee[c] >= 0 /\ L.feeReward[c] >= L.remainFee[c]
            /\ L.remainFee[c] \in Int /\ L.feeReward[c] \in Int
        BY <1>1 DEF LedgerSound
      <4> QED
        BY <2>1, <2>5, <4>1
    <3> QED
      BY <2>1, <2>2, <3>1 DEF LedgerSound
  <2>9. Pays(L, M, 0)
    <3>1. Owed(M) = Owed(L) - y
      BY <2>1, <2>3, <2>6, <2>7 DEF Owed
    <3>2. \A c, a \in Addr : M.reward[c][a] >= L.reward[c][a]
      BY <1>1, <2>1
    <3>3. PairTotal(M.reward) = PairTotal(L.reward) + 0
      BY <2>1, <2>6
    <3> QED
      BY <2>3, <2>4, <2>6, <3>1, <3>2, <3>3 DEF Pays
  <2> QED
    BY <2>8, <2>9 DEF M
<1> QED
  BY <1>2, <1>3

(* Crediting a share credits it, whether or not it is paid at once. *)
LEMMA CreditPays ==
  ASSUME NEW L, LedgerSound(L), NEW e \in Addr, NEW r \in Addr, NEW s \in Nat,
         100 * (PairTotal(L.reward) + s) <= MaxInt64
  PROVE  LedgerSound(Credit(L, e, r, s)) /\ Pays(L, Credit(L, e, r, s), s)
<1> DEFINE a == L.reward[e][r] + s
           b == L.remain[e][r] + s
           C == [reward    |-> [L.reward EXCEPT ![e][r] = Wrap(@ + s)],
                 remain    |-> [L.remain EXCEPT ![e][r] = Wrap(@ + s)],
                 feeReward |-> L.feeReward,
                 remainFee |-> L.remainFee,
                 coins     |-> L.coins]
<1>1. Credit(L, e, r, s) =
        IF C.remain[e][r] < RewardTransfer THEN C
        ELSE PayFee(PayOut(C, e, r, C.remain[e][r]), e)
  BY DEF Credit
<1>2. /\ L \in Ledger /\ L.coins \in Coins
      /\ L.remain \in PairTable /\ L.reward \in PairTable
      /\ L.remainFee \in [Addr -> Int] /\ L.feeReward \in [Addr -> Int]
  BY DEF LedgerSound, Ledger
<1>3. /\ L.reward[e][r] \in Nat /\ L.remain[e][r] \in Nat
      /\ L.remain[e][r] <= L.reward[e][r]
  BY <1>2 DEF LedgerSound
<1>4. L.reward[e][r] <= PairTotal(L.reward)
  BY <1>2, PairTotalBounds DEF LedgerSound
<1>5. /\ PairTotal(L.remain) \in Int /\ PairTotal(L.reward) \in Int
      /\ Total(L.remainFee) \in Int /\ Total(L.feeReward) \in Int
      /\ Total(L.coins.wallet) \in Int /\ L.coins.exec \in Int
  BY <1>2, LedgerSums
<1>6. /\ a \in Nat /\ b \in Nat /\ b <= a /\ a <= MaxInt64 /\ MaxInt64 \in Nat
  <2>1. MaxInt64 \in Nat
    BY ParamAssumption
  <2> QED
    BY <1>3, <1>4, <1>5, <2>1
<1>7. Wrap(a) = a /\ Wrap(b) = b
  <2>1. /\ a \in Int /\ -MaxInt64 <= a /\ a <= MaxInt64
        /\ b \in Int /\ -MaxInt64 <= b /\ b <= MaxInt64
    BY <1>6
  <2> HIDE DEF a, b
  <2> QED
    BY <2>1, WrapSmall
<1>8. /\ C.reward = [L.reward EXCEPT ![e][r] = a]
      /\ C.remain = [L.remain EXCEPT ![e][r] = b]
      /\ C.feeReward = L.feeReward /\ C.remainFee = L.remainFee
      /\ C.coins = L.coins
  BY <1>7
<1>9. C \in Ledger
  BY <1>2, <1>6, <1>7 DEF Ledger
<1> HIDE DEF C
<1>10. /\ C.reward \in PairTable /\ C.reward[e][r] = a
       /\ \A c, d \in Addr : <<c, d>> # <<e, r>> => C.reward[c][d] = L.reward[c][d]
       /\ C.remain \in PairTable /\ C.remain[e][r] = b
       /\ \A c, d \in Addr : <<c, d>> # <<e, r>> => C.remain[c][d] = L.remain[c][d]
  <2> HIDE DEF a, b
  <2> QED
    BY <1>2, <1>6, <1>8, <1>9 DEF Ledger
<1>11. /\ PairTotal(C.reward) = PairTotal(L.reward) + s
       /\ PairTotal(C.remain) = PairTotal(L.remain) + s
  <2>1. PairTotal(C.reward) = PairTotal(L.reward) + (C.reward[e][r] - L.reward[e][r])
    BY <1>2, <1>10, PairTotalUpdate
  <2>2. PairTotal(C.remain) = PairTotal(L.remain) + (C.remain[e][r] - L.remain[e][r])
    BY <1>2, <1>10, PairTotalUpdate
  <2> QED
    BY <1>3, <1>5, <1>10, <2>1, <2>2
<1>12. LedgerSound(C)
  <2>1. \A c, d \in Addr : /\ C.remain[c][d] >= 0 /\ C.reward[c][d] >= 0
                           /\ C.remain[c][d] <= C.reward[c][d]
    <3> TAKE c, d \in Addr
    <3>1. /\ L.remain[c][d] >= 0 /\ L.reward[c][d] >= 0
          /\ L.remain[c][d] <= L.reward[c][d]
      BY DEF LedgerSound
    <3> QED
      BY <1>6, <1>10, <3>1
  <2>2. /\ PairTotal(C.remain) + Total(C.feeReward) <= PairTotal(C.reward)
        /\ 100 * PairTotal(C.reward) <= MaxInt64
    <3>1. PairTotal(L.remain) + Total(L.feeReward) <= PairTotal(L.reward)
      BY DEF LedgerSound
    <3> QED
      BY <1>5, <1>8, <1>11, <3>1
  <2>3. \A c \in Addr : C.remainFee[c] >= 0 /\ C.feeReward[c] >= C.remainFee[c]
    BY <1>8 DEF LedgerSound
  <2> QED
    BY <1>9, <2>1, <2>2, <2>3 DEF LedgerSound
<1>13. Pays(L, C, s)
  <2>1. Owed(C) = Owed(L) + s /\ Owed(L) \in Int
    BY <1>5, <1>8, <1>11 DEF Owed
  <2>2. \A c, d \in Addr : C.reward[c][d] >= L.reward[c][d]
    <3> TAKE c, d \in Addr
    <3>1. L.reward[c][d] \in Int
      BY <1>2
    <3> QED
      BY <1>3, <1>10, <3>1
  <2> QED
    BY <1>5, <1>8, <1>11, <2>1, <2>2 DEF Pays
<1>14. CASE C.remain[e][r] < RewardTransfer
  BY <1>1, <1>12, <1>13, <1>14
<1>15. CASE ~ (C.remain[e][r] < RewardTransfer)
  <2> DEFINE P == PayOut(C, e, r, C.remain[e][r])
             M == PayFee(P, e)
  <2>1. LedgerSound(P) /\ Pays(C, P, 0)
    BY <1>12, PayOutPays
  <2> HIDE DEF P
  <2>2. LedgerSound(M) /\ Pays(P, M, 0)
    BY <2>1, PayFeePays
  <2>3. Credit(L, e, r, s) = M
    BY <1>1, <1>15 DEF P
  <2> HIDE DEF M
  <2>4. P \in Ledger /\ M \in Ledger
    BY <2>1, <2>2 DEF LedgerSound
  <2>5. Pays(C, M, 0 + 0)
    BY <1>9, <2>1, <2>2, <2>4, PaysTransitive
  <2>6. Pays(L, M, s + (0 + 0))
    BY <1>2, <1>9, <1>13, <2>4, <2>5, PaysTransitive
  <2> QED
    BY <2>2, <2>3, <2>6
<1> QED
  BY <1>14, <1>15

(* Nobody took back more than it entrusted, and, where half a ticket would make *)
(* a share of an infinity, all stake is whole tickets.                          *)
StakeSound ==
    \A e, r \in Addr :
        crAmount[e][r] >= 0 /\ (Arm64 \/ crAmount[e][r] % TicketPrice = 0)

(* The tickets of the consignors are tickets of the consignee, which has one if *)
(* its stake is whole tickets.                                                  *)
LEMMA TicketsCovered ==
  ASSUME TypeOK, TotalsAgree, StakeSound, NEW e \in Addr,
         NEW K, K = [r \in Addr |-> Tickets(crAmount[e][r])]
  PROVE  /\ K \in [Addr -> Nat]
         /\ Tickets(amount[e]) \in Nat
         /\ Total(K) <= Tickets(amount[e])
         /\ amount[e] # 0 /\ ~Arm64 => Tickets(amount[e]) # 0
<1> DEFINE f == crAmount[e]
           n == Tickets(amount[e])
           T == TicketPrice
           z == [r \in Addr |-> 0]
           h == [r \in Addr |-> T * K[r]]
<1>1. T \in Nat \ {0}
  BY ParamAssumption
<1>2. f \in [Addr -> Int] /\ amount[e] = Total(f) /\ \A r \in Addr : f[r] >= 0
  BY DEF TypeOK, TotalsAgree, StakeSound
<1> HIDE DEF f
<1>3. amount[e] \in Nat
  BY <1>2, TotalBounds, TotalType
<1>4. \A r \in Addr : /\ Trunc(f[r], T) \in Nat
                      /\ T * Trunc(f[r], T) <= f[r]
                      /\ f[r] % T = 0 => T * Trunc(f[r], T) = f[r]
  <2> TAKE r \in Addr
  <2>1. f[r] \in Nat
    BY <1>2
  <2>2. /\ Trunc(f[r], T) \in Nat
        /\ T * Trunc(f[r], T) <= f[r]
    BY <1>1, <2>1, TruncDown
  <2>3. Trunc(f[r], T) = f[r] \div T
    BY <1>1, <2>1 DEF Trunc, Abs
  <2>4. f[r] % T = 0 => T * (f[r] \div T) = f[r]
    <3> DEFINE y == f[r]
    <3> HIDE DEF y, T
    <3>1. y \in Nat
      BY <2>1 DEF y
    <3>2. y % T = 0 => T * (y \div T) = y
      BY <1>1, <3>1
    <3> QED
      BY <3>2 DEF y
  <2> QED
    BY <2>2, <2>3, <2>4
<1>5. \A r \in Addr : K[r] = Trunc(f[r], T)
  BY DEF Tickets, f
<1>6. K \in [Addr -> Nat] /\ K \in [Addr -> Int]
  BY <1>4, <1>5
<1>7. n = Trunc(amount[e], T)
  BY DEF Tickets
<1> HIDE DEF n, T
<1>8. n \in Nat /\ T * n <= amount[e] /\ amount[e] < T * n + T
  BY <1>1, <1>3, <1>7, TruncDown
<1>9. /\ z \in [Addr -> Int] /\ Total(z) = 0
      /\ h \in [Addr -> Int] /\ \A r \in Addr : h[r] = T * K[r]
  <2>1. z \in [Addr -> Int] /\ \A r \in Addr : z[r] = 0
    OBVIOUS
  <2>2. h \in [Addr -> Int] /\ \A r \in Addr : h[r] = T * K[r]
    BY <1>1, <1>6
  <2> HIDE DEF z, h
  <2> QED
    BY <2>1, <2>2, TotalZero
<1>10. \A r \in Addr : h[r] = z[r] + T * K[r]
  BY <1>1, <1>6
<1> HIDE DEF z, h
<1>11. Total(h) = Total(z) + T * Total(K)
  <2>1. T \in Int
    BY <1>1
  <2> QED
    BY <2>1, <1>6, <1>9, <1>10, TotalLinear
<1>12. Total(h) = T * Total(K) /\ Total(K) \in Nat
  <2>1. Total(K) \in Int /\ T * Total(K) \in Int
    BY <1>1, <1>6, TotalType
  <2>2. Total(K) >= 0
    BY <1>6, TotalBounds
  <2> QED
    BY <1>9, <1>11, <2>1, <2>2
<1>13. Total(h) <= amount[e]
  BY <1>2, <1>4, <1>5, <1>9, TotalMonotone
<1>14. Total(K) <= n
  <2> DEFINE k == Total(K)
  <2>1. k \in Nat /\ T * k < T * n + T
    BY <1>1, <1>3, <1>8, <1>12, <1>13
  <2> HIDE DEF k
  <2>2. ASSUME k >= n + 1 PROVE FALSE
    <3>1. T * k >= T * (n + 1)
      BY <1>1, <1>8, <2>1, <2>2
    <3>2. T * (n + 1) = T * n + T
      BY <1>1, <1>8
    <3>3. T * k \in Int /\ T * n \in Int
      BY <1>1, <1>8, <2>1
    <3> QED
      BY <1>1, <2>1, <3>1, <3>2, <3>3
  <2> QED
    BY <1>8, <2>1, <2>2 DEF k
<1>15. ASSUME amount[e] # 0, ~Arm64 PROVE n # 0
  <2>1. \A r \in Addr : f[r] % T = 0
    BY <1>15 DEF StakeSound, f, T
  <2>2. \A r \in Addr : h[r] = f[r]
    BY <1>4, <1>5, <1>9, <2>1
  <2>3. h = f
    BY <1>2, <1>9, <2>2
  <2>4. T * Total(K) = amount[e]
    BY <1>2, <1>12, <2>3
  <2>5. Total(K) # 0
    BY <1>1, <1>15, <2>4
  <2> QED
    BY <1>8, <1>12, <1>14, <2>5
<1> QED
  BY <1>6, <1>8, <1>14, <1>15 DEF n

(* Shares in proportion to tickets, of no more tickets than there are, are *)
(* together no more than the reward.                                       *)
LEMMA SharesWithin ==
  ASSUME NEW R \in Nat, NEW n \in Nat, NEW s \in Nat, NEW d \in Nat,
         NEW t \in Nat, NEW k \in Nat, n * s <= R * t, n * d <= R * k,
         t + k <= n, n = 0 => s + d = 0
  PROVE  n * (s + d) <= R * (t + k) /\ s + d <= R
<1>1. n * (s + d) = n * s + n * d /\ R * (t + k) = R * t + R * k
  OBVIOUS
<1>2. n * s \in Int /\ n * d \in Int /\ R * t \in Int /\ R * k \in Int
  OBVIOUS
<1>3. n * (s + d) <= R * (t + k)
  BY <1>1, <1>2
<1>4. ASSUME n # 0 PROVE s + d <= R
  <2> DEFINE m == s + d
             u == t + k
  <2>1. m \in Nat /\ u \in Nat /\ u <= n /\ n * m <= R * u
    BY <1>3
  <2> HIDE DEF m, u
  <2>2. R * u <= R * n
    BY <2>1
  <2>3. ASSUME m >= R + 1 PROVE FALSE
    <3>1. n * m >= n * (R + 1)
      BY <2>1, <2>3
    <3>2. n * (R + 1) = R * n + n
      OBVIOUS
    <3>3. n * m \in Int /\ R * n \in Int /\ R * u \in Int
      BY <2>1
    <3> QED
      BY <1>4, <2>1, <2>2, <3>1, <3>2, <3>3
  <2>4. m <= R
    BY <2>1, <2>3
  <2> QED
    BY <2>4 DEF m
<1> QED
  BY <1>3, <1>4

(* What a consignee's turn hands out is at most the reward it shares. *)
LEMMA ShareOutPays ==
  ASSUME TypeOK, TotalsAgree, StakeSound,
         NEW L, LedgerSound(L), NEW e \in Addr, NEW R \in Nat,
         100 * (PairTotal(L.reward) + R) <= MaxInt64
  PROVE  /\ LedgerSound(ShareOut(L, e, R))
         /\ \E s \in 0..R : Pays(L, ShareOut(L, e, R), s)
<1> DEFINE N == Len(consignors[e])
           cr(i) == consignors[e][i]
           K == [r \in Addr |-> Tickets(crAmount[e][r])]
           n == Tickets(amount[e])
           G(i) == [r \in Addr |-> IF \E j \in 1..i : cr(j) = r THEN K[r] ELSE 0]
<1>1. L \in Ledger /\ Pays(L, L, 0) /\ PairTotal(L.reward) \in Int
  BY PaysNothing, LedgerSums DEF LedgerSound
<1>2. CASE amount[e] = 0
  <2>1. ShareOut(L, e, R) = L
    BY <1>2 DEF ShareOut
  <2> QED
    BY <1>1, <2>1
<1>3. CASE amount[e] # 0
  <2>1. /\ N \in Nat /\ \A i \in 1..N : cr(i) \in Addr
        /\ \A i, j \in 1..N : cr(i) = cr(j) => i = j
    BY DEF TypeOK
  <2>2. /\ K \in [Addr -> Nat] /\ n \in Nat /\ Total(K) <= n
        /\ ~Arm64 => n # 0
    <3> HIDE DEF K
    <3>1. K = [r \in Addr |-> Tickets(crAmount[e][r])]
      BY DEF K
    <3> QED
      BY <1>3, <3>1, TicketsCovered
  <2>3. PICK c : /\ c[0] = L
                 /\ \A i \in 1..N : c[i] = ShareTurn(c[i - 1], e, R, i)
                 /\ ShareOut(L, e, R) = IF amount[e] = 0 THEN L ELSE c[N]
    BY <1>1, ShareOutTurns
  <2>4. \A i \in 1..N : \A P : ShareTurn(P, e, R, i) =
           IF crAmount[e][cr(i)] = 0 THEN P ELSE Credit(P, e, cr(i), Share(R, K[cr(i)], n))
    BY <2>1 DEF ShareTurn
  <2>5. \A r \in Addr : n = 0 => K[r] = 0
    <3>1. \A r \in Addr : K[r] <= Total(K)
      BY <2>2, TotalBounds
    <3>2. Total(K) \in Int
      BY <2>2, TotalType
    <3> QED
      BY <2>2, <3>1, <3>2
  <2>6. \A r \in Addr : LET d == Share(R, K[r], n)
                        IN  /\ d \in Nat /\ n * d <= R * K[r]
                            /\ n = 0 => d = 0
    <3> TAKE r \in Addr
    <3>1. CASE n # 0
      <4>1. K[r] \in Nat /\ n \in Nat \ {0}
        BY <2>2, <3>1
      <4> QED
        BY <3>1, <4>1, ShareDown
    <3>2. CASE n = 0
      <4>1. Arm64
        BY <2>2, <3>2
      <4>2. K[r] = 0 /\ 0 * R = 0 /\ R * 0 = 0
        BY <2>5, <3>2
      <4>3. Share(R, 0, 0) = 0
        BY <4>1, <4>2 DEF Share
      <4> QED
        BY <3>2, <4>2, <4>3
    <3> QED
      BY <3>1, <3>2
  <2> HIDE DEF K, n
  <2>7. \A i \in 0..N : /\ G(i) \in [Addr -> Nat]
                        /\ Total(G(i)) \in Nat /\ Total(G(i)) <= n
    <3> TAKE i \in 0..N
    <3>1. G(i) \in [Addr -> Nat] /\ \A r \in Addr : G(i)[r] <= K[r]
      BY <2>2
    <3> DEFINE g == G(i)
    <3> HIDE DEF G
    <3>2. g \in [Addr -> Int] /\ K \in [Addr -> Int] /\ \A r \in Addr : g[r] >= 0
      BY <2>2, <3>1
    <3>3. Total(g) \in Int /\ Total(K) \in Int /\ Total(g) >= 0
      BY <3>2, TotalType, TotalBounds
    <3>4. Total(g) <= Total(K)
      BY <3>1, <3>2, TotalMonotone
    <3> QED
      BY <2>2, <3>1, <3>3, <3>4
  <2>8. Total(G(0)) = 0
    <3>1. G(0) \in [Addr -> Int] /\ \A r \in Addr : G(0)[r] = 0
      OBVIOUS
    <3> QED
      BY <3>1, TotalZero
  <2>9. \A i \in 0..(N - 1) : Total(G(i + 1)) = Total(G(i)) + K[cr(i + 1)]
    <3> TAKE i \in 0..(N - 1)
    <3> DEFINE r == cr(i + 1)
    <3>1. r \in Addr /\ \A j \in 1..i : cr(j) # r
      BY <2>1
    <3>2. \A q \in Addr : (\E j \in 1..(i + 1) : cr(j) = q)
                            <=> (q = r \/ \E j \in 1..i : cr(j) = q)
      <4>1. 1..(i + 1) = 1..i \cup {i + 1}
        OBVIOUS
      <4> QED
        BY <4>1
    <3>3. /\ G(i + 1)[r] = K[r] /\ G(i)[r] = 0
          /\ \A q \in Addr \ {r} : G(i + 1)[q] = G(i)[q]
      BY <3>1, <3>2
    <3>4. i \in 0..N /\ i + 1 \in 0..N
      BY <2>1
    <3>5. G(i) \in [Addr -> Int] /\ G(i + 1) \in [Addr -> Int]
      <4>1. G(i) \in [Addr -> Nat]
        BY <2>7, <3>4
      <4>2. G(i + 1) \in [Addr -> Nat]
        BY <2>7, <3>4
      <4> HIDE DEF G
      <4> QED
        BY <4>1, <4>2
    <3> HIDE DEF G, r
    <3>6. Total(G(i + 1)) = Total(G(i)) + (G(i + 1)[r] - G(i)[r])
      BY <3>1, <3>3, <3>5, TotalUpdate
    <3>7. K[r] \in Int /\ Total(G(i)) \in Int
      BY <2>2, <3>1, <3>5, TotalType
    <3> QED
      BY <3>3, <3>6, <3>7 DEF r
  <2> HIDE DEF G
  <2> DEFINE Paid(i, s) == /\ s <= R /\ LedgerSound(c[i]) /\ Pays(L, c[i], s)
                           /\ n * s <= R * Total(G(i)) /\ (n = 0 => s = 0)
             A == {i \in Nat : i <= N => \E s \in Nat : Paid(i, s)}
  <2>10. 0 \in A
    <3>1. n * 0 <= R * Total(G(0))
      BY <2>2, <2>8
    <3>2. Paid(0, 0)
      BY <1>1, <2>3, <3>1
    <3> QED
      BY <3>2
  <2>11. ASSUME NEW i \in A PROVE i + 1 \in A
    <3>1. SUFFICES ASSUME i + 1 <= N PROVE \E s \in Nat : Paid(i + 1, s)
      OBVIOUS
    <3>2. PICK s \in Nat : Paid(i, s)
      BY <2>1, <3>1
    <3> DEFINE r == cr(i + 1)
               d == Share(R, K[r], n)
               t == Total(G(i))
    <3>3. i \in 0..(N - 1) /\ i + 1 \in 1..N /\ (i + 1) - 1 = i /\ i + 1 \in 0..N
          /\ i \in 0..N
      BY <2>1, <3>1
    <3>4. r \in Addr
      BY <2>1, <3>3
    <3>5. d \in Nat /\ n * d <= R * K[r] /\ (n = 0 => d = 0) /\ K[r] \in Nat
      BY <2>2, <2>6, <3>4
    <3>6. /\ Total(G(i + 1)) = t + K[r] /\ t \in Nat
          /\ t + K[r] <= n
      BY <2>7, <2>9, <3>3
    <3>7. c[i + 1] = IF crAmount[e][r] = 0 THEN c[i] ELSE Credit(c[i], e, r, d)
      BY <2>3, <2>4, <3>3
    <3> HIDE DEF r, d, t
    <3>8. s <= R /\ n * s <= R * t /\ (n = 0 => s = 0)
      BY <3>2 DEF t
    <3>9. n * (s + d) <= R * (t + K[r]) /\ s + d <= R
      <4>1. n = 0 => s + d = 0
        BY <3>5, <3>8
      <4> QED
        BY <2>2, <3>5, <3>6, <3>8, <4>1, SharesWithin
    <3>10. CASE crAmount[e][r] = 0
      <4>1. n * s <= R * (t + K[r])
        <5>1. R * t <= R * (t + K[r])
          BY <3>5, <3>6
        <5>2. n * s \in Int /\ R * t \in Int /\ R * (t + K[r]) \in Int
          BY <2>2, <3>5, <3>6
        <5> QED
          BY <3>8, <5>1, <5>2
      <4>2. Paid(i + 1, s)
        BY <3>2, <3>6, <3>7, <3>8, <3>10, <4>1
      <4> QED
        BY <4>2
    <3>11. CASE crAmount[e][r] # 0
      <4>1. LedgerSound(c[i]) /\ Pays(L, c[i], s) /\ c[i] \in Ledger
        BY <3>2 DEF LedgerSound
      <4>2. 100 * (PairTotal(c[i].reward) + d) <= MaxInt64
        <5>1. PairTotal(c[i].reward) = PairTotal(L.reward) + s
          BY <4>1 DEF Pays
        <5>2. MaxInt64 \in Int
          BY ParamAssumption
        <5> QED
          BY <1>1, <3>5, <3>9, <5>1, <5>2
      <4>3. LedgerSound(c[i + 1]) /\ Pays(c[i], c[i + 1], d)
        BY <3>4, <3>5, <3>7, <3>11, <4>1, <4>2, CreditPays
      <4>4. Pays(L, c[i + 1], s + d)
        <5>1. c[i + 1] \in Ledger
          BY <4>3 DEF LedgerSound
        <5> QED
          BY <1>1, <3>5, <4>1, <4>3, <5>1, PaysTransitive
      <4>5. s + d \in Nat /\ (n = 0 => s + d = 0)
        BY <3>5, <3>8
      <4>6. Paid(i + 1, s + d)
        BY <3>6, <3>9, <4>3, <4>4, <4>5
      <4> QED
        BY <4>5, <4>6
    <3> QED
      BY <3>10, <3>11
  <2>12. A = Nat
    <3>1. A \in SUBSET Nat
      OBVIOUS
    <3> HIDE DEF A
    <3> QED
      BY <2>10, <2>11, <3>1, NatSetInduction
  <2>13. PICK s \in Nat : Paid(N, s)
    BY <2>1, <2>12
  <2>14. s \in 0..R /\ ShareOut(L, e, R) = c[N]
    BY <1>3, <2>3, <2>13
  <2> QED
    BY <2>13, <2>14
<1> QED
  BY <1>2, <1>3

(* The voters' rewards are at most one reward for each vote. *)
LEMMA VoteRewardsPays ==
  ASSUME TypeOK, TotalsAgree, StakeSound,
         NEW L, LedgerSound(L), NEW pks \in Seq(BlsKeys),
         100 * (PairTotal(L.reward) + VoteReward * Len(pks)) <= MaxInt64
  PROVE  /\ LedgerSound(VoteRewards(L, pks))
         /\ \E s \in 0..(VoteReward * Len(pks)) : Pays(L, VoteRewards(L, pks), s)
<1> DEFINE N == Len(AddrSeq)
           I == 1..Len(pks)
           By(i) == {j \in I : bls[pks[j]] = AddrSeq[i]}
           To(i) == {j \in I : \E a \in 1..i : bls[pks[j]] = AddrSeq[a]}
           v(i) == Cardinality(By(i))
           w(i) == Cardinality(To(i))
<1>1. /\ L \in Ledger /\ Pays(L, L, 0) /\ PairTotal(L.reward) \in Int
      /\ MaxInt64 \in Int /\ VoteReward \in Nat /\ Len(pks) \in Nat
  BY PaysNothing, LedgerSums, ParamAssumption DEF LedgerSound
<1>2. /\ N \in Nat /\ \A i \in 1..N : AddrSeq[i] \in Addr
      /\ \A i, j \in 1..N : AddrSeq[i] = AddrSeq[j] => i = j
  BY AddrSeqType, AddrAssumption
<1>3. PICK c : /\ c[0] = L
               /\ \A i \in 1..N : c[i] = VoteTurn(c[i - 1], pks, i)
               /\ VoteRewards(L, pks) = c[N]
  BY <1>1, VoteRewardsTurns
<1>4. \A i \in 1..N : \A P : VoteTurn(P, pks, i) =
         IF v(i) = 0 THEN P ELSE ShareOut(P, AddrSeq[i], VoteReward * v(i))
  BY DEF VoteTurn, VotesOf
<1>5. \A i \in 0..N : w(i) \in Nat /\ w(i) <= Len(pks)
  <2> TAKE i \in 0..N
  <2>1. IsFiniteSet(I) /\ Cardinality(I) = Len(pks)
    <3> DEFINE n == Len(pks)
    <3>1. n \in Nat /\ n \in Int /\ 1 \in Int
      BY <1>1
    <3> HIDE DEF n
    <3>2. /\ IsFiniteSet(1..n)
          /\ Cardinality(1..n) = IF 1 > n THEN 0 ELSE n - 1 + 1
      BY <3>1, FS_Interval
    <3>3. Cardinality(1..n) = n
      BY <3>1, <3>2
    <3> QED
      BY <3>2, <3>3 DEF n
  <2>2. To(i) \subseteq I
    OBVIOUS
  <2> HIDE DEF I, To
  <2>3. IsFiniteSet(To(i)) /\ w(i) <= Len(pks)
    BY <2>1, <2>2, FS_Subset
  <2> QED
    BY <2>3, FS_CardinalityType
<1>6. \A i \in 0..(N - 1) : w(i + 1) = w(i) + v(i + 1) /\ v(i + 1) \in Nat
  <2> TAKE i \in 0..(N - 1)
  <2>1. IsFiniteSet(I)
    BY <1>1, FS_Interval
  <2>2. To(i) \subseteq I /\ By(i + 1) \subseteq I
    OBVIOUS
  <2>3. To(i) \cap By(i + 1) = {}
    BY <1>2
  <2>4. To(i + 1) = To(i) \cup By(i + 1)
    <3>1. 1..(i + 1) = 1..i \cup {i + 1}
      OBVIOUS
    <3> QED
      BY <3>1
  <2> DEFINE S == To(i)
             T == By(i + 1)
             U == To(i + 1)
  <2>5. S \subseteq I /\ T \subseteq I /\ S \cap T = {} /\ U = S \cup T
    BY <2>2, <2>3, <2>4
  <2> HIDE DEF I, S, T, U
  <2>6. IsFiniteSet(S) /\ IsFiniteSet(T)
    BY <2>1, <2>5, FS_Subset
  <2>7. Cardinality(U) = Cardinality(S) + Cardinality(T) - Cardinality(S \cap T)
    BY <2>5, <2>6, FS_Union
  <2>8. /\ Cardinality(S) \in Nat /\ Cardinality(T) \in Nat
        /\ Cardinality(S \cap T) = 0
    BY <2>5, <2>6, FS_CardinalityType, FS_EmptySet
  <2>9. Cardinality(U) = Cardinality(S) + Cardinality(T)
    BY <2>7, <2>8
  <2> QED
    BY <2>8, <2>9 DEF S, T, U
<1> HIDE DEF v, w
<1> DEFINE Paid(i, s) == /\ s <= VoteReward * w(i)
                         /\ LedgerSound(c[i]) /\ Pays(L, c[i], s)
           A == {i \in Nat : i <= N => \E s \in Nat : Paid(i, s)}
<1>7. 0 \in A
  <2>1. 0 <= VoteReward * w(0)
    BY <1>1, <1>2, <1>5
  <2>2. Paid(0, 0)
    BY <1>1, <1>3, <2>1
  <2> QED
    BY <2>2
<1>8. ASSUME NEW i \in A PROVE i + 1 \in A
  <2>1. SUFFICES ASSUME i + 1 <= N PROVE \E s \in Nat : Paid(i + 1, s)
    OBVIOUS
  <2>2. PICK s \in Nat : Paid(i, s)
    BY <1>2, <2>1
  <2>3. /\ i \in 0..(N - 1) /\ i + 1 \in 1..N /\ (i + 1) - 1 = i
        /\ i \in 0..N /\ i + 1 \in 0..N
    BY <1>2, <2>1
  <2> DEFINE k == v(i + 1)
             R == VoteReward * k
             e == AddrSeq[i + 1]
  <2>4. /\ w(i + 1) = w(i) + k /\ k \in Nat /\ w(i) \in Nat /\ w(i) + k <= Len(pks)
    BY <1>5, <1>6, <2>3
  <2>5. c[i + 1] = IF k = 0 THEN c[i] ELSE ShareOut(c[i], e, R)
    BY <1>3, <1>4, <2>3
  <2>6. e \in Addr
    BY <1>2, <2>3
  <2> HIDE DEF k, e
  <2>7. /\ VoteReward * w(i + 1) = VoteReward * w(i) + R
        /\ R \in Nat /\ VoteReward * w(i) \in Nat
        /\ VoteReward * w(i + 1) <= VoteReward * Len(pks)
    <3>1. \A m, n \in Nat : /\ VoteReward * (m + n) = VoteReward * m + VoteReward * n
                            /\ VoteReward * m \in Nat
                            /\ m <= n => VoteReward * m <= VoteReward * n
      BY <1>1
    <3>2. VoteReward * w(i + 1) = VoteReward * (w(i) + k)
      BY <2>4
    <3>3. VoteReward * (w(i) + k) = VoteReward * w(i) + VoteReward * k
      BY <2>4, <3>1
    <3>4. w(i) + k \in Nat
      BY <2>4
    <3>5. VoteReward * (w(i) + k) <= VoteReward * Len(pks)
      BY <1>1, <2>4, <3>1, <3>4
    <3>6. VoteReward * k \in Nat /\ VoteReward * w(i) \in Nat
      BY <2>4, <3>1
    <3> QED
      BY <3>2, <3>3, <3>5, <3>6
  <2>8. VoteReward * Len(pks) \in Nat
    BY <1>1
  <2> HIDE DEF R
  <2>9. s <= VoteReward * w(i) /\ LedgerSound(c[i]) /\ Pays(L, c[i], s)
    BY <2>2
  <2>10. CASE k = 0
    <3>1. s <= VoteReward * w(i + 1)
      BY <2>7, <2>9
    <3>2. Paid(i + 1, s)
      BY <2>5, <2>9, <2>10, <3>1
    <3> QED
      BY <3>2
  <2>11. CASE k # 0
    <3>1. 100 * (PairTotal(c[i].reward) + R) <= MaxInt64
      <4>1. PairTotal(c[i].reward) = PairTotal(L.reward) + s
        BY <2>9 DEF Pays
      <4>2. s + R <= VoteReward * Len(pks)
        BY <2>7, <2>8, <2>9
      <4> QED
        BY <1>1, <2>7, <2>8, <4>1, <4>2
    <3>2. /\ LedgerSound(c[i + 1])
          /\ \E d \in 0..R : Pays(c[i], c[i + 1], d)
      BY <2>5, <2>6, <2>7, <2>9, <2>11, <3>1, ShareOutPays
    <3>3. PICK d \in 0..R : Pays(c[i], c[i + 1], d)
      BY <3>2
    <3>4. Pays(L, c[i + 1], s + d)
      <4>1. c[i] \in Ledger /\ c[i + 1] \in Ledger
        BY <2>9, <3>2 DEF LedgerSound
      <4> QED
        BY <1>1, <2>9, <3>3, <4>1, PaysTransitive
    <3>5. s + d \in Nat /\ s + d <= VoteReward * w(i + 1)
      BY <2>7, <2>9, <3>3
    <3>6. Paid(i + 1, s + d)
      BY <3>2, <3>4, <3>5
    <3> QED
      BY <3>5, <3>6
  <2> QED
    BY <2>10, <2>11
<1>9. A = Nat
  <2>1. A \in SUBSET Nat
    OBVIOUS
  <2> HIDE DEF A
  <2> QED
    BY <1>7, <1>8, <2>1, NatSetInduction
<1>10. PICK s \in Nat : Paid(N, s)
  BY <1>2, <1>9
<1>11. s \in 0..(VoteReward * Len(pks))
  <2> DEFINE m == w(N)
             n == Len(pks)
  <2>1. m \in Nat /\ n \in Nat /\ m <= n /\ s <= VoteReward * m
    BY <1>1, <1>2, <1>5, <1>10
  <2> HIDE DEF m, n
  <2>2. VoteReward * m <= VoteReward * n /\ VoteReward * m \in Nat /\ VoteReward * n \in Nat
    BY <1>1, <2>1
  <2>3. s \in 0..(VoteReward * n)
    BY <2>1, <2>2
  <2> QED
    BY <2>3 DEF n
<1> QED
  BY <1>3, <1>10, <1>11
-----------------------------------------------------------------------------
(* The coins of the contract *)

(* The distribution of a block's reward credits no more than that reward less *)
(* the fund's part.                                                           *)
LEMMA DistributePays ==
  ASSUME TypeOK, TotalsAgree, StakeSound, LedgerSound(Issued),
         NEW maker \in Addr, NEW pks \in Seq(BlsKeys),
         100 * (PairTotal(reward) + BlockReward) <= MaxInt64, FundReward(pks) > 0
  PROVE  /\ LedgerSound(Distribute(maker, pks))
         /\ \E s \in 0..(BlockReward - FundReward(pks)) :
               Pays(Issued, Distribute(maker, pks), s)
<1> DEFINE n == Len(pks)
           a == VoteReward * n
           b == MineReward * n
           V == VoteRewards(Issued, pks)
           M == ShareOut(V, maker, b)
<1>1. /\ n \in Nat /\ VoteReward \in Nat /\ MineReward \in Nat /\ BlockReward \in Nat
      /\ MaxInt64 \in Nat
  BY ParamAssumption
<1>2. a \in Nat /\ b \in Nat /\ BlockReward - FundReward(pks) = a + b
  <2>1. FundReward(pks) = BlockReward - (VoteReward + MineReward) * n
    BY DEF FundReward
  <2> HIDE DEF n
  <2>2. (VoteReward + MineReward) * n = VoteReward * n + MineReward * n
    BY <1>1
  <2>3. VoteReward * n \in Nat /\ MineReward * n \in Nat
    BY <1>1
  <2> QED
    BY <1>1, <2>1, <2>2, <2>3
<1>3. FundReward(pks) \in Int
  BY <1>1 DEF FundReward
<1>4. Issued \in Ledger /\ Issued.reward = reward /\ PairTotal(reward) \in Int
  <2>1. Issued \in Ledger /\ Issued.reward = reward
    BY DEF LedgerSound, Issued
  <2> QED
    BY <2>1, LedgerSums
<1>5. Distribute(maker, pks) = M
  BY DEF Distribute
<1> HIDE DEF n, a, b
<1>6. a + b < BlockReward
  BY <1>1, <1>2, <1>3
<1>7. 100 * (PairTotal(Issued.reward) + a) <= MaxInt64
  BY <1>1, <1>2, <1>4, <1>6
<1>8. LedgerSound(V) /\ \E s \in 0..a : Pays(Issued, V, s)
  BY <1>7, VoteRewardsPays DEF a, n
<1>9. PICK s \in 0..a : Pays(Issued, V, s)
  BY <1>8
<1>10. 100 * (PairTotal(V.reward) + b) <= MaxInt64
  <2>1. PairTotal(V.reward) = PairTotal(reward) + s
    BY <1>4, <1>9 DEF Pays
  <2> QED
    BY <1>1, <1>2, <1>4, <1>6, <2>1
<1> HIDE DEF V
<1>11. LedgerSound(M) /\ \E d \in 0..b : Pays(V, M, d)
  BY <1>2, <1>8, <1>10, ShareOutPays
<1>12. PICK d \in 0..b : Pays(V, M, d)
  BY <1>11
<1>13. Pays(Issued, M, s + d)
  <2>1. V \in Ledger /\ M \in Ledger
    BY <1>8, <1>11 DEF LedgerSound
  <2> QED
    BY <1>2, <1>4, <1>9, <1>12, <2>1, PaysTransitive
<1>14. s + d \in 0..(BlockReward - FundReward(pks))
  BY <1>2
<1> QED
  BY <1>5, <1>11, <1>13, <1>14

(* The reward books: nothing is negative, nothing is owed or paid as a fee that *)
(* was not credited, and no more is credited than was issued.                   *)
RewardsSound ==
    /\ \A e, r \in Addr : remain[e][r] >= 0 /\ remain[e][r] <= reward[e][r]
    /\ \A e \in Addr : remainFee[e] >= 0 /\ remainFee[e] <= feeReward[e]
    /\ PairTotal(remain) + Total(feeReward) <= PairTotal(reward)
    /\ PairTotal(reward) <= BlockReward * height

(* What holds of the coins while clients take back no more than they entrusted, *)
(* in whole tickets unless the processor makes 0 of the conversion, and while   *)
(* a percentage of all blocks' rewards fits in an int64.                        *)
CoinsSound == StakeSound /\ RewardsSound /\ ExecSolvent /\ RewardsAccounted

SoundClients ==
    /\ ~Overdraw
    /\ Arm64 \/ \A req \in Requests : req[3] % TicketPrice = 0

NoOverflow == 100 * (BlockReward * MaxHeight) <= MaxInt64

(* The ledger a distribution begins with. *)
LEMMA IssuedSound ==
  ASSUME TypeOK, RewardsSound, NoOverflow
  PROVE  /\ LedgerSound(Issued)
         /\ height < MaxHeight => 100 * (PairTotal(reward) + BlockReward) <= MaxInt64
<1>1. /\ BlockReward \in Nat /\ MaxInt64 \in Nat /\ MaxHeight \in Nat
      /\ height \in 0..MaxHeight
  BY ParamAssumption, InputAssumption DEF TypeOK
<1>2. Issued \in Ledger
  <2>1. execCoins + BlockReward \in Int
    BY <1>1 DEF TypeOK
  <2>2. Issued.coins \in Coins
    BY <2>1 DEF TypeOK, Coins, Issued
  <2> QED
    BY <2>2 DEF TypeOK, Ledger, Issued
<1>3. /\ reward \in PairTable /\ remain \in PairTable
      /\ feeReward \in [Addr -> Int] /\ remainFee \in [Addr -> Int]
      /\ PairTotal(reward) \in Int
  BY RowsType DEF TypeOK
<1> DEFINE w == BlockReward * height
           all == BlockReward * MaxHeight
<1>4. /\ w \in Nat /\ all \in Nat /\ w <= all
      /\ height < MaxHeight => w + BlockReward <= all
  <2>1. \A m, n \in Nat : /\ BlockReward * m \in Nat
                          /\ m <= n => BlockReward * m <= BlockReward * n
                          /\ BlockReward * (m + 1) = BlockReward * m + BlockReward
    BY <1>1
  <2>2. height \in Nat /\ height <= MaxHeight
    BY <1>1
  <2>3. height < MaxHeight => height + 1 \in Nat /\ height + 1 <= MaxHeight
    BY <1>1
  <2> QED
    BY <1>1, <2>1, <2>2, <2>3
<1>5. PairTotal(reward) <= w /\ 100 * all <= MaxInt64
  BY DEF RewardsSound, NoOverflow
<1> HIDE DEF w, all
<1>6. /\ 100 * PairTotal(reward) <= MaxInt64
      /\ height < MaxHeight => 100 * (PairTotal(reward) + BlockReward) <= MaxInt64
  BY <1>1, <1>3, <1>4, <1>5
<1>7. \A e, r \in Addr : reward[e][r] >= 0
  <2> TAKE e, r \in Addr
  <2>1. reward[e][r] \in Int /\ remain[e][r] \in Int
    BY <1>3
  <2> QED
    BY <2>1 DEF RewardsSound
<1>8. /\ Issued.reward = reward /\ Issued.remain = remain
      /\ Issued.feeReward = feeReward /\ Issued.remainFee = remainFee
  BY DEF Issued
<1>9. \A e \in Addr : feeReward[e] >= remainFee[e]
  BY <1>3 DEF RewardsSound
<1> QED
  BY <1>2, <1>6, <1>7, <1>8, <1>9 DEF LedgerSound, RewardsSound

(* The sum of a constant. *)
LEMMA TotalConstant ==
  ASSUME NEW k \in Int
  PROVE  Total([a \in Addr |-> k]) = Len(AddrSeq) * k
<1> DEFINE N == Len(AddrSeq)
           f == [a \in Addr |-> k]
<1>1. N \in Nat /\ \A i \in 1..N : AddrSeq[i] \in Addr
  BY AddrSeqType
<1>2. f \in [Addr -> Int] /\ \A a \in Addr : f[a] = k
  OBVIOUS
<1> HIDE DEF f
<1>3. PICK s : IsPartialSum(s, f) /\ Total(f) = s[N]
  BY <1>2, TotalPartialSums
<1> DEFINE A == {i \in Nat : i <= N => s[i] = i * k}
<1>4. 0 \in A
  BY <1>3 DEF IsPartialSum
<1>5. ASSUME NEW i \in A PROVE i + 1 \in A
  <2>1. SUFFICES ASSUME i + 1 <= N PROVE s[i + 1] = (i + 1) * k
    OBVIOUS
  <2>2. i + 1 \in 1..N /\ (i + 1) - 1 = i /\ s[i] = i * k
    BY <1>1, <2>1
  <2>3. s[i + 1] = s[i] + f[AddrSeq[i + 1]] /\ f[AddrSeq[i + 1]] = k
    BY <1>1, <1>2, <1>3, <2>2 DEF IsPartialSum
  <2>4. (i + 1) * k = i * k + k
    OBVIOUS
  <2> QED
    BY <2>2, <2>3, <2>4
<1>6. A = Nat
  <2>1. A \in SUBSET Nat
    OBVIOUS
  <2> HIDE DEF A
  <2> QED
    BY <1>4, <1>5, <2>1, NatSetInduction
<1>7. Total(f) = N * k
  BY <1>1, <1>3, <1>6
<1> QED
  BY <1>7 DEF f

(* The sum of two multiples is a multiple. *)
LEMMA ModSum ==
  ASSUME NEW a \in Int, NEW b \in Int, NEW t \in Nat \ {0}, a % t = 0, b % t = 0
  PROVE  (a + b) % t = 0
<1> DEFINE p == a \div t
           q == b \div t
           c == a + b
           m == c \div t
           z == c % t
<1>1. p \in Int /\ q \in Int /\ m \in Int /\ z \in 0..(t - 1) /\ c \in Int
  OBVIOUS
<1>2. a = t * p /\ b = t * q /\ c = t * m + z
  OBVIOUS
<1>3. c = a + b
  OBVIOUS
<1> HIDE DEF p, q, m, z, c
<1>4. t * (p + q) = t * p + t * q
  BY <1>1
<1>5. z = t * (p + q - m)
  BY <1>1, <1>2, <1>3, <1>4
<1> DEFINE d == p + q - m
<1>6. d \in Int /\ z = t * d
  BY <1>1, <1>5
<1> HIDE DEF d
<1>7. d = 0
  <2>1. ASSUME d >= 1 PROVE FALSE
    <3>1. t * d >= t
      BY <1>6, <2>1
    <3> QED
      BY <1>1, <1>6, <3>1
  <2>2. ASSUME d <= -1 PROVE FALSE
    <3>1. t * d < 0
      BY <1>6, <2>2
    <3> QED
      BY <1>1, <1>6, <3>1
  <2> QED
    BY <1>6, <2>1, <2>2
<1>8. z = 0
  BY <1>6, <1>7
<1> QED
  BY <1>8 DEF z, c

(* The invariant at first. *)
LEMMA InitCoins ==
  ASSUME Init PROVE CoinsSound
<1>1. /\ amount \in [Addr -> Int] /\ \A a \in Addr : amount[a] = 0
      /\ crAmount \in PairTable /\ \A e, r \in Addr : crAmount[e][r] = 0
      /\ reward = crAmount /\ remain = crAmount /\ feeReward = amount
      /\ remainFee = amount /\ free = amount /\ frozen = amount
      /\ execCoins = 0 /\ height = 0
      /\ wallet = [a \in Addr |-> StartCoins]
  BY DEF Init
<1>2. Total(amount) = 0 /\ PairTotal(crAmount) = 0
  <2>1. Rows(crAmount) \in [Addr -> Int] /\ PairTotal(crAmount) = Total(Rows(crAmount))
    BY <1>1, RowsType
  <2>2. \A e \in Addr : Rows(crAmount)[e] = 0
    <3> TAKE e \in Addr
    <3>1. crAmount[e] \in [Addr -> Int] /\ \A r \in Addr : crAmount[e][r] = 0
      BY <1>1
    <3>2. Total(crAmount[e]) = 0
      BY <3>1, TotalZero
    <3> QED
      BY <1>1, <3>2, RowsType
  <2> QED
    BY <1>1, <2>1, <2>2, TotalZero
<1>3. Total(wallet) = Len(AddrSeq) * StartCoins
  <2>1. StartCoins \in Int
    BY InputAssumption
  <2>2. Total([a \in Addr |-> StartCoins]) = Len(AddrSeq) * StartCoins
    BY <2>1, TotalConstant
  <2> QED
    BY <1>1, <2>2
<1>4. StakeSound
  <2>1. 0 % TicketPrice = 0
    BY ParamAssumption
  <2> QED
    BY <1>1, <2>1 DEF StakeSound
<1>5. RewardsSound
  <2>1. BlockReward \in Nat
    BY ParamAssumption
  <2> QED
    BY <1>1, <1>2, <2>1 DEF RewardsSound
<1>7. ExecSolvent /\ RewardsAccounted
  <2>1. Len(AddrSeq) * StartCoins \in Int
    BY AddrSeqType, InputAssumption
  <2> QED
    BY <1>1, <1>2, <1>3, <2>1 DEF ExecSolvent, RewardsAccounted
<1> QED
  BY <1>4, <1>5, <1>7 DEF CoinsSound

(* The sums over a typed state are integers. *)
LEMMA StateSums ==
  ASSUME TypeOK
  PROVE  /\ Total(wallet) \in Int /\ Total(free) \in Int /\ Total(frozen) \in Int
         /\ PairTotal(reward) \in Int /\ PairTotal(remain) \in Int
         /\ Total(feeReward) \in Int /\ Total(remainFee) \in Int
         /\ execCoins \in Int /\ fund \in Int
BY TotalType, RowsType DEF TypeOK

(* g is f with d more at a. *)
Shifted(f, g, a, d) ==
    /\ f \in [Addr -> Int] /\ g \in [Addr -> Int] /\ a \in Addr /\ d \in Int
    /\ g[a] = f[a] + d
    /\ \A b \in Addr \ {a} : g[b] = f[b]

(* An addition at one address is an addition to the sum. *)
LEMMA TotalShift ==
  ASSUME NEW f, NEW g, NEW a, NEW d, Shifted(f, g, a, d)
  PROVE  Total(g) = Total(f) + d
<1>1. Total(g) = Total(f) + (g[a] - f[a])
  BY TotalUpdate DEF Shifted
<1> QED
  BY <1>1, TotalType DEF Shifted

(* A miner transaction: what it credits is owed or paid, and is no more than the *)
(* block's coins less the fund's part.                                           *)
LEMMA MinerPays ==
  ASSUME TypeOK, TotalsAgree, CoinsSound, NoOverflow,
         NEW maker \in Addr, NEW pks \in BlsLists, Miner(maker, pks)
  PROVE  /\ RewardsSound'
         /\ \A e, r \in Addr : reward'[e][r] >= reward[e][r]
         /\ \E s \in Nat :
              /\ PairTotal(reward') = PairTotal(reward) + s
              /\ s + (fund' - fund) <= BlockReward
              /\ execCoins' - (PairTotal(remain') + Total(remainFee'))
                   >= execCoins - (PairTotal(remain) + Total(remainFee))
              /\ Total(wallet') + PairTotal(remain') + Total(remainFee')
                   = Total(wallet) + PairTotal(remain) + Total(remainFee) + s
<1> DEFINE I == Issued
           M == Distribute(maker, pks)
           fr == FundReward(pks)
<1>1. /\ height < MaxHeight /\ height' = height + 1 /\ fr > 0
      /\ reward' = M.reward /\ remain' = M.remain
      /\ feeReward' = M.feeReward /\ remainFee' = M.remainFee
      /\ wallet' = M.coins.wallet
      /\ execCoins' = M.coins.exec - fr
      /\ fund' = fund + fr
  BY DEF Miner
<1>2. /\ LedgerSound(I)
      /\ 100 * (PairTotal(reward) + BlockReward) <= MaxInt64
  BY <1>1, IssuedSound DEF CoinsSound
<1>3. pks \in Seq(BlsKeys)
  BY InputAssumption
<1>4. fr \in Int /\ BlockReward \in Nat /\ height \in Nat
  <2> DEFINE n == Len(pks)
             k == VoteReward + MineReward
  <2>1. n \in Int /\ k \in Int /\ BlockReward \in Nat /\ height \in Nat
    BY <1>3, ParamAssumption DEF TypeOK
  <2>2. fr = BlockReward - k * n
    BY DEF FundReward
  <2> HIDE DEF n, k
  <2>3. k * n \in Int
    BY <2>1
  <2> QED
    BY <2>1, <2>2, <2>3
<1>5. LedgerSound(M) /\ \E s \in 0..(BlockReward - fr) : Pays(I, M, s)
  BY <1>1, <1>2, <1>3, DistributePays DEF CoinsSound
<1>6. PICK s \in 0..(BlockReward - fr) : Pays(I, M, s)
  BY <1>5
<1>7. /\ I.reward = reward /\ I.coins.exec = execCoins + BlockReward
      /\ I.coins.wallet = wallet
      /\ Owed(I) = PairTotal(remain) + Total(remainFee)
  BY DEF Issued, Owed
<1> HIDE DEF I, M, fr
<1>8. /\ PairTotal(reward') = PairTotal(reward) + s
      /\ M.coins.exec - Owed(M)
           = execCoins + BlockReward - (PairTotal(remain) + Total(remainFee)) - s
      /\ Total(wallet') + Owed(M)
           = Total(wallet) + (PairTotal(remain) + Total(remainFee)) + s
      /\ \A e, r \in Addr : reward'[e][r] >= reward[e][r]
  <2>1. PairTotal(reward') = PairTotal(reward) + s
    BY <1>1, <1>6, <1>7 DEF Pays
  <2>2. M.coins.exec - Owed(M)
          = execCoins + BlockReward - (PairTotal(remain) + Total(remainFee)) - s
    <3>1. M.coins.exec - Owed(M) = I.coins.exec - Owed(I) - s
      BY <1>6 DEF Pays
    <3>2. I.coins.exec = execCoins + BlockReward
      BY <1>7
    <3>3. Owed(I) = PairTotal(remain) + Total(remainFee)
      BY <1>7
    <3>4. M.coins.exec \in Int /\ Owed(M) \in Int
      BY <1>5, LedgerSums DEF LedgerSound
    <3> QED
      BY <1>4, <3>1, <3>2, <3>3, <3>4, StateSums
  <2>3. Total(wallet') + Owed(M)
          = Total(wallet) + (PairTotal(remain) + Total(remainFee)) + s
    BY <1>1, <1>6, <1>7 DEF Pays
  <2>4. \A e, r \in Addr : reward'[e][r] >= reward[e][r]
    BY <1>1, <1>6, <1>7 DEF Pays
  <2> QED
    BY <2>1, <2>2, <2>3, <2>4
<1>9. Owed(M) = PairTotal(remain') + Total(remainFee')
  BY <1>1 DEF Owed
<1>10. M \in Ledger
  BY <1>5 DEF LedgerSound
<1>11. /\ PairTotal(remain') \in Int /\ Total(remainFee') \in Int
       /\ Total(wallet') \in Int /\ M.coins.exec \in Int
  BY <1>1, <1>10, LedgerSums
<1>12. s \in Nat /\ s + (fund' - fund) <= BlockReward
  BY <1>1, <1>4, StateSums
<1>13. /\ execCoins' - (PairTotal(remain') + Total(remainFee'))
            >= execCoins - (PairTotal(remain) + Total(remainFee))
       /\ Total(wallet') + PairTotal(remain') + Total(remainFee')
            = Total(wallet) + PairTotal(remain) + Total(remainFee) + s
  BY <1>1, <1>4, <1>8, <1>9, <1>11, StateSums
<1>14. RewardsSound'
  <2>1. PairTotal(reward') <= BlockReward * height'
    <3>1. BlockReward * (height + 1) = BlockReward * height + BlockReward
      BY <1>4
    <3>2. BlockReward * height \in Nat /\ s <= BlockReward
      BY <1>1, <1>4
    <3>3. PairTotal(reward) <= BlockReward * height
      BY DEF CoinsSound, RewardsSound
    <3> QED
      BY <1>1, <1>4, <1>8, <3>1, <3>2, <3>3, StateSums
  <2>2. /\ \A e, r \in Addr : remain'[e][r] >= 0 /\ remain'[e][r] <= reward'[e][r]
        /\ PairTotal(remain') + Total(feeReward') <= PairTotal(reward')
    BY <1>1, <1>5 DEF LedgerSound
  <2>3. \A e \in Addr : remainFee'[e] >= 0 /\ remainFee'[e] <= feeReward'[e]
    <3> TAKE e \in Addr
    <3>1. remainFee'[e] \in Int /\ feeReward'[e] \in Int
      BY <1>1, <1>10 DEF Ledger
    <3>2. remainFee'[e] >= 0 /\ feeReward'[e] >= remainFee'[e]
      BY <1>1, <1>5 DEF LedgerSound
    <3> QED
      BY <3>1, <3>2
  <2> QED
    BY <2>1, <2>2, <2>3 DEF RewardsSound
<1> QED
  BY <1>8, <1>12, <1>13, <1>14

(* Clients that take back no more than they entrusted keep stake sound. *)
LEMMA EntrustKeepsStake ==
  ASSUME TypeOK, TypeOK', TablesAgree, StakeSound, SoundClients,
         NEW sender \in Addr, NEW req \in Requests,
         Entrust(sender, req[1], req[2], req[3])
  PROVE  StakeSound'
<1> DEFINE r == req[1]
           e == req[2]
           x == req[3]
<1>1. r \in Addr /\ e \in Addr /\ x \in Int
  BY InputAssumption
<1>2. \A c, a \in Addr :
         crAmount'[c][a] = crAmount[c][a] + (IF c = e /\ a = r THEN x ELSE 0)
  BY <1>1, EntrustPairs
<1>3. crAmount[e][r] + x >= 0
  BY DEF Entrust, ClientSends, SoundClients
<1>4. \A c, a \in Addr : crAmount[c][a] \in Int
  BY DEF TypeOK
<1>5. Arm64 \/ x % TicketPrice = 0
  BY DEF SoundClients
<1> HIDE DEF r, e, x
<1> SUFFICES ASSUME NEW c \in Addr, NEW a \in Addr
             PROVE  crAmount'[c][a] >= 0 /\ (Arm64 \/ crAmount'[c][a] % TicketPrice = 0)
  BY DEF StakeSound
<1>6. CASE c = e /\ a = r
  <2>1. crAmount'[c][a] = crAmount[e][r] + x
    BY <1>1, <1>2, <1>6
  <2>2. Arm64 \/ crAmount[e][r] % TicketPrice = 0
    BY <1>1 DEF StakeSound
  <2>3. Arm64 \/ (crAmount[e][r] + x) % TicketPrice = 0
    BY <1>1, <1>4, <1>5, <2>2, ModSum, ParamAssumption
  <2> QED
    BY <1>3, <2>1, <2>3
<1>7. CASE ~(c = e /\ a = r)
  <2>1. crAmount'[c][a] = crAmount[c][a]
    BY <1>2, <1>4, <1>7
  <2> QED
    BY <2>1 DEF StakeSound
<1> QED
  BY <1>6, <1>7

(* Coins that move between the balances of an address and the contract. *)
LEMMA CoinsMoved ==
  ASSUME TypeOK, ExecSolvent, RewardsAccounted, UNCHANGED rewards,
         execCoins' + Total(wallet') = execCoins + Total(wallet),
         Total(wallet') + Total(free') + Total(frozen')
           = Total(wallet) + Total(free) + Total(frozen),
         execCoins' \in Int, Total(wallet') \in Int, Total(free') \in Int,
         Total(frozen') \in Int
  PROVE  ExecSolvent' /\ RewardsAccounted'
<1> DEFINE start == Len(AddrSeq) * StartCoins
<1>1. start \in Int
  BY AddrSeqType, InputAssumption
<1>2. /\ Total(wallet) + Total(free) + Total(frozen)
           = start + PairTotal(reward) - PairTotal(remain) - Total(remainFee)
      /\ execCoins >= Total(free) + Total(frozen) + PairTotal(remain) + Total(remainFee)
  BY DEF RewardsAccounted, ExecSolvent
<1>3. reward' = reward /\ remain' = remain /\ remainFee' = remainFee
  BY DEF rewards
<1>4. /\ Total(wallet') + Total(free') + Total(frozen')
           = start + PairTotal(reward') - PairTotal(remain') - Total(remainFee')
      /\ execCoins' >= Total(free') + Total(frozen') + PairTotal(remain')
                         + Total(remainFee')
  <2> HIDE DEF start
  <2> QED
    BY <1>1, <1>2, <1>3, StateSums
<1> QED
  BY <1>4 DEF RewardsAccounted, ExecSolvent

(* Every transaction keeps the coins sound. *)
LEMMA CoinsStep ==
  ASSUME TypeOK, TypeOK', TablesAgree, TotalsAgree, CoinsSound, SoundClients,
         NoOverflow, [Next]_vars
  PROVE  CoinsSound'
<1> USE DEF CoinsSound
<1>1. ASSUME NEW a \in Addr, NEW x \in Deposits, Deposit(a, x)
      PROVE  CoinsSound'
  <2>1. /\ UNCHANGED <<height, stake, rewards>>
        /\ wallet' = [wallet EXCEPT ![a] = @ - x]
        /\ free' = [free EXCEPT ![a] = @ + x]
        /\ execCoins' = execCoins + x
    BY <1>1 DEF Deposit
  <2>2. x \in Int /\ -x \in Int
    BY InputAssumption
  <2>3. StakeSound' /\ RewardsSound'
    BY <2>1 DEF stake, rewards, StakeSound, RewardsSound
  <2>4. wallet \in [Addr -> Int] /\ free \in [Addr -> Int]
    BY DEF TypeOK
  <2>5. Shifted(free, free', a, x) /\ Shifted(wallet, wallet', a, -x)
    BY <2>1, <2>2, <2>4 DEF Shifted
  <2>6. Total(free') = Total(free) + x
    BY <2>5, TotalShift
  <2>7. Total(wallet') = Total(wallet) + (-x)
    BY <2>5, TotalShift
  <2>8. frozen' = frozen
    BY <2>1 DEF stake
  <2>9. ExecSolvent' /\ RewardsAccounted'
    BY <2>1, <2>2, <2>6, <2>7, <2>8, StateSums, CoinsMoved
  <2> QED
    BY <2>3, <2>9
<1>2. ASSUME NEW a \in Addr, NEW x \in Deposits, Withdraw(a, x)
      PROVE  CoinsSound'
  <2>1. /\ UNCHANGED <<height, stake, rewards>>
        /\ wallet' = [wallet EXCEPT ![a] = @ + x]
        /\ free' = [free EXCEPT ![a] = @ - x]
        /\ execCoins' = execCoins - x
    BY <1>2 DEF Withdraw
  <2>2. x \in Int /\ -x \in Int
    BY InputAssumption
  <2>3. StakeSound' /\ RewardsSound'
    BY <2>1 DEF stake, rewards, StakeSound, RewardsSound
  <2>4. wallet \in [Addr -> Int] /\ free \in [Addr -> Int]
    BY DEF TypeOK
  <2>5. Shifted(free, free', a, -x) /\ Shifted(wallet, wallet', a, x)
    BY <2>1, <2>2, <2>4 DEF Shifted
  <2>6. Total(free') = Total(free) + (-x)
    BY <2>5, TotalShift
  <2>7. Total(wallet') = Total(wallet) + x
    BY <2>5, TotalShift
  <2>8. frozen' = frozen
    BY <2>1 DEF stake
  <2>9. ExecSolvent' /\ RewardsAccounted'
    BY <2>1, <2>2, <2>6, <2>7, <2>8, StateSums, CoinsMoved
  <2> QED
    BY <2>3, <2>9
<1>3. ASSUME NEW sender \in Addr, NEW req \in Requests,
             Entrust(sender, req[1], req[2], req[3])
      PROVE  CoinsSound'
  <2> DEFINE r == req[1]
             x == req[3]
  <2>1. /\ UNCHANGED <<height, rewards, wallet, execCoins>>
        /\ free' = [free EXCEPT ![r] = @ - x]
        /\ frozen' = [frozen EXCEPT ![r] = @ + x]
    BY <1>3 DEF Entrust, Freeze
  <2>2. r \in Addr /\ x \in Int /\ -x \in Int
    BY InputAssumption
  <2>3. StakeSound'
    BY <1>3, EntrustKeepsStake
  <2> HIDE DEF r, x
  <2>4. RewardsSound'
    BY <2>1 DEF rewards, RewardsSound
  <2>5. free \in [Addr -> Int] /\ frozen \in [Addr -> Int]
    BY DEF TypeOK
  <2>6. Shifted(free, free', r, -x) /\ Shifted(frozen, frozen', r, x)
    BY <2>1, <2>2, <2>5 DEF Shifted
  <2>7. Total(free') = Total(free) + (-x)
    BY <2>6, TotalShift
  <2>8. Total(frozen') = Total(frozen) + x
    BY <2>6, TotalShift
  <2>9. ExecSolvent' /\ RewardsAccounted'
    BY <2>1, <2>2, <2>7, <2>8, StateSums, CoinsMoved
  <2> QED
    BY <2>3, <2>4, <2>9
<1>4. ASSUME NEW k \in BlsKeys, NEW sender \in Addr, BlsBind(k, sender)
      PROVE  CoinsSound'
  BY <1>4 DEF BlsBind, stake, rewards, StakeSound, RewardsSound, ExecSolvent,
              RewardsAccounted
<1>5. ASSUME NEW maker \in Addr, NEW pks \in BlsLists, Miner(maker, pks)
      PROVE  CoinsSound'
  <2>1. UNCHANGED <<stake, free>>
    BY <1>5 DEF Miner
  <2>2. StakeSound' /\ RewardsSound'
    BY <1>5, <2>1, MinerPays DEF stake, StakeSound
  <2>3. PICK s \in Nat :
          /\ PairTotal(reward') = PairTotal(reward) + s
          /\ execCoins' - (PairTotal(remain') + Total(remainFee'))
               >= execCoins - (PairTotal(remain) + Total(remainFee))
          /\ Total(wallet') + PairTotal(remain') + Total(remainFee')
               = Total(wallet) + PairTotal(remain) + Total(remainFee) + s
    BY <1>5, MinerPays
  <2>4. /\ Total(wallet') \in Int /\ PairTotal(remain') \in Int
        /\ Total(remainFee') \in Int /\ execCoins' \in Int
    BY TotalType, RowsType DEF TypeOK
  <2>5. frozen' = frozen /\ free' = free
    BY <2>1 DEF stake
  <2>6. ExecSolvent'
    BY <2>3, <2>4, <2>5, StateSums DEF ExecSolvent
  <2>7. RewardsAccounted'
    <3> DEFINE start == Len(AddrSeq) * StartCoins
    <3>1. start \in Int
      BY AddrSeqType, InputAssumption
    <3>2. Total(wallet) + Total(free) + Total(frozen)
            = start + PairTotal(reward) - PairTotal(remain) - Total(remainFee)
      BY DEF RewardsAccounted
    <3> HIDE DEF start
    <3>3. Total(wallet') + Total(free') + Total(frozen')
            = start + PairTotal(reward') - PairTotal(remain') - Total(remainFee')
      <4> DEFINE owed == PairTotal(remain) + Total(remainFee)
                 owes == PairTotal(remain') + Total(remainFee')
                 kept == Total(free) + Total(frozen)
      <4>1. Total(free') + Total(frozen') = kept
        BY <2>5
      <4>2. /\ owed \in Int /\ owes \in Int /\ kept \in Int
            /\ PairTotal(reward) \in Int /\ Total(wallet) \in Int
            /\ Total(free') \in Int /\ Total(frozen') \in Int
        BY <2>4, <2>5, StateSums
      <4>3. Total(wallet) + kept = start + PairTotal(reward) - owed
        BY <3>1, <3>2, <4>2, StateSums
      <4>4. Total(wallet') + owes = Total(wallet) + owed + s
        BY <2>3, <2>4, <4>2, StateSums
      <4>5. start + PairTotal(reward') - owes
              = start + PairTotal(reward') - PairTotal(remain') - Total(remainFee')
        BY <2>3, <2>4, <3>1, <4>2
      <4> HIDE DEF owed, owes, kept
      <4>6. Total(wallet') + kept = start + PairTotal(reward') - owes
        BY <2>3, <2>4, <3>1, <4>2, <4>3, <4>4
      <4> QED
        BY <2>4, <4>1, <4>2, <4>5, <4>6
    <3> QED
      BY <3>3 DEF RewardsAccounted, start
  <2> QED
    BY <2>2, <2>6, <2>7
<1>6. CASE UNCHANGED vars
  BY <1>6 DEF vars, stake, rewards, StakeSound, RewardsSound, ExecSolvent,
              RewardsAccounted
<1> QED
  BY <1>1, <1>2, <1>3, <1>4, <1>5, <1>6 DEF Next

(* What a block credits to those who gain and gives to the fund is at most its *)
(* reward.                                                                     *)
LEMMA MinerBound ==
  ASSUME TypeOK, TypeOK', TotalsAgree, CoinsSound, NoOverflow,
         [Next]_vars, height' # height
  PROVE  PairTotal([e \in Addr |-> [r \in Addr |-> Gain(reward[e][r], reward'[e][r])]])
           + fund' - fund <= BlockReward
<1> DEFINE gain == [e \in Addr |-> [r \in Addr |-> Gain(reward[e][r], reward'[e][r])]]
<1>1. PICK maker \in Addr, pks \in BlsLists : Miner(maker, pks)
  BY DEF Next, vars, Deposit, Withdraw, Entrust, BlsBind
<1>2. /\ \A e, r \in Addr : reward'[e][r] >= reward[e][r]
      /\ \E s \in Nat : /\ PairTotal(reward') = PairTotal(reward) + s
                        /\ s + (fund' - fund) <= BlockReward
  BY <1>1, MinerPays
<1>3. reward \in PairTable /\ reward' \in PairTable
  BY DEF TypeOK
<1>4. \A e, r \in Addr : /\ reward[e][r] \in Int /\ reward'[e][r] \in Int
                         /\ Gain(reward[e][r], reward'[e][r]) = reward'[e][r] - reward[e][r]
  <2> TAKE e, r \in Addr
  <2>1. reward[e][r] \in Int /\ reward'[e][r] \in Int /\ reward'[e][r] >= reward[e][r]
    BY <1>2, <1>3
  <2> QED
    BY <2>1 DEF Gain
<1>5. gain \in PairTable /\ \A e, r \in Addr : gain[e][r] = reward'[e][r] - reward[e][r]
  BY <1>4
<1> HIDE DEF gain
<1>6. PairTotal(gain) = PairTotal(reward') - PairTotal(reward)
  <2>1. \A e \in Addr : Rows(reward')[e] = Rows(reward)[e] + 1 * Rows(gain)[e]
    <3> TAKE e \in Addr
    <3>1. /\ reward[e] \in [Addr -> Int] /\ reward'[e] \in [Addr -> Int]
          /\ gain[e] \in [Addr -> Int]
      BY <1>3, <1>5
    <3>2. \A r \in Addr : reward'[e][r] = reward[e][r] + 1 * gain[e][r]
      BY <1>4, <1>5
    <3> DEFINE f == reward[e]
               g == gain[e]
               h == reward'[e]
    <3>3. /\ f \in [Addr -> Int] /\ g \in [Addr -> Int] /\ h \in [Addr -> Int]
          /\ \A r \in Addr : h[r] = f[r] + 1 * g[r]
      BY <3>1, <3>2
    <3> HIDE DEF f, g, h
    <3>4. Total(h) = Total(f) + 1 * Total(g)
      BY <3>3, TotalLinear
    <3> QED
      BY <1>3, <1>5, <3>4, RowsType DEF f, g, h
  <2> DEFINE f == Rows(reward)
             g == Rows(gain)
             h == Rows(reward')
  <2>2. /\ f \in [Addr -> Int] /\ g \in [Addr -> Int] /\ h \in [Addr -> Int]
        /\ PairTotal(reward) = Total(f) /\ PairTotal(gain) = Total(g)
        /\ PairTotal(reward') = Total(h)
    BY <1>3, <1>5, RowsType
  <2>3. \A e \in Addr : h[e] = f[e] + 1 * g[e]
    BY <2>1
  <2> HIDE DEF f, g, h
  <2>4. Total(h) = Total(f) + 1 * Total(g)
    BY <2>2, <2>3, TotalLinear
  <2> QED
    BY <2>2, <2>4, TotalType
<1>7. PairTotal(gain) + fund' - fund <= BlockReward
  <2>1. PICK s \in Nat : /\ PairTotal(reward') = PairTotal(reward) + s
                         /\ s + (fund' - fund) <= BlockReward
    BY <1>2
  <2>2. fund \in Int /\ fund' \in Int /\ PairTotal(reward) \in Int /\ BlockReward \in Int
    <3>1. fund' \in Int
      BY DEF TypeOK
    <3>2. BlockReward \in Int
      BY ParamAssumption
    <3> QED
      BY <3>1, <3>2, StateSums
  <2>3. PairTotal(gain) = s
    BY <1>6, <2>1, <2>2
  <2> QED
    BY <2>1, <2>2, <2>3
<1> QED
  BY <1>7 DEF gain

(* The inductive invariant of the coins, with the types and the books.         *)
THEOREM CoinsCorrect ==
    ASSUME SoundClients, NoOverflow
    PROVE  Spec => []CoinsSound
<1>1. Init => CoinsSound
  BY InitCoins
<1>2. TypeOK /\ TypeOK' /\ BooksAgree /\ CoinsSound /\ [Next]_vars => CoinsSound'
  BY CoinsStep DEF BooksAgree
<1> QED
  BY <1>1, <1>2, TypeCorrect, BooksCorrect, PTL DEF Spec

(* The contract's address holds every deposit and every reward or fee it owes  *)
(* (ExecSolvent): rewards are not paid from deposits.                          *)
THEOREM DepositsAreCovered ==
    ASSUME SoundClients, NoOverflow
    PROVE  Spec => []ExecSolvent
<1>1. CoinsSound => ExecSolvent
  BY DEF CoinsSound
<1> QED
  BY <1>1, CoinsCorrect, PTL

(* Every credited reward has reached a wallet or is still owed, none twice     *)
(* (RewardsAccounted).                                                         *)
THEOREM RewardsArePaidOnce ==
    ASSUME SoundClients, NoOverflow
    PROVE  Spec => []RewardsAccounted
<1>1. CoinsSound => RewardsAccounted
  BY DEF CoinsSound
<1> QED
  BY <1>1, CoinsCorrect, PTL

(* A block hands out no more than its reward (BlockRewardBound).               *)
THEOREM BlocksGiveTheirReward ==
    ASSUME SoundClients, NoOverflow
    PROVE  Spec => BlockRewardBound
<1> DEFINE Bound ==
      height' # height =>
        LET gain == [e \in Addr |-> [r \in Addr |-> Gain(reward[e][r], reward'[e][r])]]
        IN  PairTotal(gain) + fund' - fund <= BlockReward
<1>1. TypeOK /\ TypeOK' /\ BooksAgree /\ CoinsSound /\ [Next]_vars => [Bound]_vars
  BY MinerBound DEF BooksAgree
<1> QED
  BY <1>1, TypeCorrect, BooksCorrect, CoinsCorrect, PTL DEF Spec, BlockRewardBound
=============================================================================
