------------------------------ MODULE Pos33Exec ------------------------------
(***************************************************************************)
(* The state machine of the pos33 contract: the entrust books, the BLS     *)
(* bindings and the distribution of block rewards, over the coins accounts *)
(* the contract uses (plugin/dapp/pos33/executor).                         *)
(*                                                                         *)
(* One action is one transaction.  A transaction that returns an error is  *)
(* rolled back by the framework, so an action is enabled exactly when the  *)
(* handler returns no error.  The miner transaction is the first of its    *)
(* block, so it also starts a height.                                      *)
(***************************************************************************)
EXTENDS Integers, Sequences, FiniteSets

CONSTANTS
    AddrSeq,        \* the addresses, sorted as sort.Slice sorts them
    BlsKeys,        \* the BLS public keys
    NoAddr,         \* the value of a BLS key nobody bound
    TicketPrice,    \* mver.consensus.pos33 ticketPrice2
    BlockReward,    \* coins issued for each block
    VoteReward,     \* reward of the voter, for each vote
    MineReward,     \* reward of the maker, for each vote
    RewardTransfer, \* a reward is paid out once it reaches this amount
    FeePercent,     \* minerFeePersent
    MaxInt64,       \* the greatest value of the reward arithmetic
    Arm64,          \* TRUE for the float conversion of an arm64 build
    FloatLow        \* <<R, k, n>> for which (R/n)*k falls below an integer

CONSTANTS
    StartCoins,     \* what every address owns at first
    Deposits,       \* the amounts an address moves to or from the contract
    Requests,       \* the <<consignor, consignee, amount>> clients send
    BlsLists,       \* the lists of BLS keys a miner transaction carries
    Overdraw,       \* TRUE if a client may take back more than a pair holds
    MaxStake,       \* bound on a pair's amount and an address's deposits
    MaxHeight       \* bound on the height

Addr == {AddrSeq[i] : i \in 1..Len(AddrSeq)}

ASSUME AddrAssumption ==
    /\ AddrSeq \in Seq(Addr)
    /\ \A i, j \in 1..Len(AddrSeq) : AddrSeq[i] = AddrSeq[j] => i = j
    /\ NoAddr \notin Addr

ASSUME ParamAssumption ==
    /\ TicketPrice \in Nat \ {0}
    /\ {BlockReward, VoteReward, MineReward} \subseteq Nat
    /\ RewardTransfer \in Nat \ {0}
    /\ FeePercent \in 0..100
    /\ MaxInt64 \in Nat
    /\ {Arm64, Overdraw} \subseteq BOOLEAN

\* A product of floats that are not negative is not negative: only one that
\* should be an integer above zero falls below it.
ASSUME FloatAssumption == \A t \in FloatLow : t[1] * t[2] >= t[3]

ASSUME InputAssumption ==
    /\ StartCoins \in Nat
    /\ Deposits \subseteq Nat \ {0}
    /\ Requests \subseteq Addr \X Addr \X Int
    /\ BlsLists \subseteq Seq(BlsKeys)
    /\ {MaxStake, MaxHeight} \subseteq Nat

VARIABLES
    height,      \* height of the block being executed
    amount,      \* Pos33Consignee.Amount
    consignors,  \* addresses of Pos33Consignee.Consignors, in list order
    crAmount,    \* Consignor.Amount, by consignee and consignor
    reward,      \* Consignor.Reward
    remain,      \* Consignor.RemainReward
    feeReward,   \* Pos33Consignee.FeeReward
    remainFee,   \* Pos33Consignee.RemainFeeReward
    entrusted,   \* Pos33Consignor, the table by consignor and consignee
    allAmount,   \* the value of mavl-pos33-all-frozen
    bls,         \* the miner each BLS key is bound to
    wallet,      \* coins of an address outside the contract
    free,        \* balance of an address inside the contract
    frozen,      \* frozen balance of an address inside the contract
    execCoins,   \* coins of the contract's own address
    fund         \* coins of the development fund

stake == <<amount, consignors, crAmount, entrusted, allAmount, frozen>>
rewards == <<reward, remain, feeReward, remainFee, fund>>
vars == <<height, stake, rewards, bls, wallet, free, execCoins>>
-----------------------------------------------------------------------------
(* Arithmetic of the handlers *)

\* The sum of f over all addresses.
Total(f) ==
    LET sum[i \in 0..Len(AddrSeq)] ==
          IF i = 0 THEN 0 ELSE sum[i - 1] + f[AddrSeq[i]]
    IN  sum[Len(AddrSeq)]

Abs(a) == IF a < 0 THEN -a ELSE a

\* Go's integer division and the conversion int64(float64) truncate to zero.
Trunc(a, b) ==
    LET q == Abs(a) \div Abs(b)
    IN  IF (a < 0) = (b < 0) THEN q ELSE -q

MinInt64 == -MaxInt64 - 1

\* int64 addition and multiplication wrap around.
Wrap(x) == ((x - MinInt64) % (-2 * MinInt64)) + MinInt64

Tickets(a) == Trunc(a, TicketPrice)

\* int64(float64(R) / float64(n) * float64(k)).  The quotient is rounded, so
\* a product that should be an integer can fall just below it.  Without a
\* whole ticket the quotient is an infinity, and the conversion of an infinity
\* or a NaN is left to the processor.
Share(R, k, n) ==
    IF n # 0 THEN Trunc(R * k, n) - (IF <<R, k, n>> \in FloatLow THEN 1 ELSE 0)
    ELSE IF ~Arm64 \/ k * R < 0 THEN MinInt64
    ELSE IF k * R = 0 THEN 0
    ELSE MaxInt64

AddrsIn(s) == {s[i] : i \in 1..Len(s)}
-----------------------------------------------------------------------------
(* The coins accounts a reward pass moves coins between: ok is FALSE once   *)
(* a transfer failed.  A ledger is the reward books and these accounts.    *)

Coins == [wallet : [Addr -> Int], exec : Int, ok : BOOLEAN]

PairTable == [Addr -> [Addr -> Int]]

Ledger == [reward : PairTable, remain : PairTable,
           feeReward : [Addr -> Int], remainFee : [Addr -> Int], coins : Coins]

\* account.DB.Transfer from the contract's address to address a.
Transfer(C, a, x) ==
    [wallet |-> [C.wallet EXCEPT ![a] = @ + x],
     exec   |-> C.exec - x,
     ok     |-> C.ok /\ x > 0 /\ C.exec >= x]

Fee(x) == Trunc(Wrap(x * FeePercent), 100)

\* Mutated: the paid reward stays in the books.
PayOutKeepsRemain(L, e, r, x) ==
    [reward    |-> L.reward,
     remain    |-> L.remain,
     feeReward |-> [L.feeReward EXCEPT ![e] = Wrap(@ + Fee(x))],
     remainFee |-> [L.remainFee EXCEPT ![e] = Wrap(@ + Fee(x))],
     coins     |-> Transfer(L.coins, r, x - Fee(x))]

\* Payment of the unpaid reward x to consignor r, less the consignee's fee.
PayOut(L, e, r, x) ==
    [reward    |-> L.reward,
     remain    |-> [L.remain EXCEPT ![e][r] = 0],
     feeReward |-> [L.feeReward EXCEPT ![e] = Wrap(@ + Fee(x))],
     remainFee |-> [L.remainFee EXCEPT ![e] = Wrap(@ + Fee(x))],
     coins     |-> Transfer(L.coins, r, x - Fee(x))]

\* Payment of the fees once they reach ten times the threshold.
PayFee(L, e) ==
    IF L.remainFee[e] < 10 * RewardTransfer THEN L
    ELSE [reward    |-> L.reward,
          remain    |-> L.remain,
          feeReward |-> L.feeReward,
          remainFee |-> [L.remainFee EXCEPT ![e] = 0],
          coins     |-> Transfer(L.coins, e, L.remainFee[e])]

\* The body of the loop over consignors: credit a share, pay out when due.
Credit(L, e, r, share) ==
    LET C == [reward    |-> [L.reward EXCEPT ![e][r] = Wrap(@ + share)],
              remain    |-> [L.remain EXCEPT ![e][r] = Wrap(@ + share)],
              feeReward |-> L.feeReward,
              remainFee |-> L.remainFee,
              coins     |-> L.coins]
    IN  IF C.remain[e][r] < RewardTransfer THEN C
        ELSE PayFee(PayOut(C, e, r, C.remain[e][r]), e)

\* Mutated: every consignor is credited the reward of the whole consignee.
ShareOutWhole(L, e, R) ==
    LET pay[i \in 0..Len(consignors[e])] ==
          IF i = 0 THEN L ELSE Credit(pay[i - 1], e, consignors[e][i], R)
    IN  IF amount[e] = 0 THEN L ELSE pay[Len(consignors[e])]

\* minerReward, and one consignee's turn of voteReward: share R among the
\* consignors of e in list order.
ShareOut(L, e, R) ==
    LET pay[i \in 0..Len(consignors[e])] ==
          IF i = 0 THEN L
          ELSE LET r == consignors[e][i]
               IN  IF crAmount[e][r] = 0 THEN pay[i - 1]
                   ELSE Credit(pay[i - 1], e, r,
                               Share(R, Tickets(crAmount[e][r]), Tickets(amount[e])))
    IN  IF amount[e] = 0 THEN L ELSE pay[Len(consignors[e])]

\* The votes of a list of BLS keys that belong to address a.
VotesOf(a, pks) == Cardinality({i \in 1..Len(pks) : bls[pks[i]] = a})

\* voteReward: every consignee with votes, sorted by address.
VoteRewards(L, pks) ==
    LET pay[i \in 0..Len(AddrSeq)] ==
          IF i = 0 THEN L
          ELSE LET e == AddrSeq[i]
               IN  IF VotesOf(e, pks) = 0 THEN pay[i - 1]
                   ELSE ShareOut(pay[i - 1], e, VoteReward * VotesOf(e, pks))
    IN  pay[Len(AddrSeq)]
-----------------------------------------------------------------------------
Init ==
    /\ height = 0
    /\ amount = [e \in Addr |-> 0]
    /\ consignors = [e \in Addr |-> << >>]
    /\ crAmount = [e \in Addr |-> [r \in Addr |-> 0]]
    /\ reward = crAmount /\ remain = crAmount
    /\ feeReward = amount /\ remainFee = amount
    /\ entrusted = crAmount
    /\ allAmount = 0
    /\ bls = [k \in BlsKeys |-> NoAddr]
    /\ wallet = [a \in Addr |-> StartCoins]
    /\ free = amount /\ frozen = amount
    /\ execCoins = 0 /\ fund = 0

\* The coins contract moves x from an address into the pos33 contract.
Deposit(a, x) ==
    /\ free[a] + frozen[a] + x <= MaxStake
    /\ wallet[a] >= x
    /\ wallet' = [wallet EXCEPT ![a] = @ - x]
    /\ free' = [free EXCEPT ![a] = @ + x]
    /\ execCoins' = execCoins + x
    /\ UNCHANGED <<height, stake, rewards, bls>>

\* The coins contract takes x back: it needs the address's balance inside the
\* contract and the contract's own coins.
Withdraw(a, x) ==
    /\ free[a] >= x
    /\ execCoins >= x
    /\ wallet' = [wallet EXCEPT ![a] = @ + x]
    /\ free' = [free EXCEPT ![a] = @ - x]
    /\ execCoins' = execCoins - x
    /\ UNCHANGED <<height, stake, rewards, bls>>

\* Mutated: stake taken back leaves the frozen coins and reaches no balance.
FreezeLoses(r, x) ==
    /\ IF x > 0 THEN free[r] >= x ELSE -x > 0 /\ frozen[r] >= -x
    /\ free' = [free EXCEPT ![r] = IF x > 0 THEN @ - x ELSE @]
    /\ frozen' = [frozen EXCEPT ![r] = @ + x]

\* Mutated: only a positive amount moves coins.
FreezePositive(r, x) ==
    /\ IF x > 0 THEN free[r] >= x ELSE -x > 0 /\ frozen[r] >= -x
    /\ free' = [free EXCEPT ![r] = IF x > 0 THEN @ - x ELSE @]
    /\ frozen' = [frozen EXCEPT ![r] = IF x > 0 THEN @ + x ELSE @]

\* freeze: ExecFrozen for a positive amount, ExecActive for a negative one.
Freeze(r, x) ==
    /\ IF x > 0 THEN free[r] >= x ELSE -x > 0 /\ frozen[r] >= -x
    /\ free' = [free EXCEPT ![r] = @ - x]
    /\ frozen' = [frozen EXCEPT ![r] = @ + x]

\* Mutated: the consignor's table records the request, not the new amount.
UpdateConsignorDelta(r, e, x) == entrusted' = [entrusted EXCEPT ![r][e] = x]

\* updateConsignor: the consignor's table records the pair's new amount.
UpdateConsignor(r, e, x) == entrusted' = [entrusted EXCEPT ![r][e] = crAmount[e][r] + x]

\* updateConsignee: the consignee's record with its list of consignors, which a
\* new one joins at the end.
UpdateConsignee(r, e, x) ==
    /\ consignors' = [consignors EXCEPT
                        ![e] = IF r \in AddrsIn(@) THEN @ ELSE Append(@, r)]
    /\ amount' = [amount EXCEPT ![e] = @ + x]
    /\ crAmount' = [crAmount EXCEPT ![e][r] = @ + x]

\* Mutated: the total counts what is added and forgets what is taken back.
UpdateAllAmountNoDecrease(x) == allAmount' = IF x > 0 THEN allAmount + x ELSE allAmount

\* updateAllAmount
UpdateAllAmount(x) == allAmount' = allAmount + x

\* setEntrust: book x from consignor r to consignee e.  At height 0 the
\* sender is replaced by the consignor, later it has to be one of the two.
SetEntrust(sender, r, e, x) ==
    /\ height = 0 \/ sender \in {r, e}
    /\ x # 0
    /\ x > 0 \/ r \in AddrsIn(consignors[e])
    /\ UpdateConsignor(r, e, x)
    /\ UpdateConsignee(r, e, x)
    /\ UpdateAllAmount(x)

\* What the clients are taken to send: the bound on a pair, and, unless
\* Overdraw, no more taken back than the pair holds.
ClientSends(r, e, x) ==
    /\ Abs(crAmount[e][r] + x) <= MaxStake
    /\ Overdraw \/ crAmount[e][r] + x >= 0

Entrust(sender, r, e, x) ==
    /\ ClientSends(r, e, x)
    /\ SetEntrust(sender, r, e, x)
    /\ Freeze(r, x)
    /\ UNCHANGED <<height, rewards, bls, wallet, execCoins>>

\* Pos33BlsBind: the sender binds the key to itself, replacing any binding.
BlsBind(k, sender) ==
    /\ bls' = [bls EXCEPT ![k] = sender]
    /\ UNCHANGED <<height, stake, rewards, wallet, free, execCoins>>

\* Every address that takes part in the block: the voters and the maker.
\* Each of them needs a consignee record, each key a binding.
MinersKnown(maker, pks) ==
    /\ \A i \in 1..Len(pks) : bls[pks[i]] # NoAddr
    /\ \A e \in {bls[pks[i]] : i \in 1..Len(pks)} \cup {maker} :
          consignors[e] # << >>

\* The ledger once the block's coins are issued to the contract.
Issued ==
    [reward |-> reward, remain |-> remain,
     feeReward |-> feeReward, remainFee |-> remainFee,
     coins |-> [wallet |-> wallet, exec |-> execCoins + BlockReward, ok |-> TRUE]]

\* Mutated: the maker's record is a copy, written back without its reward.
DistributeMakerCopy(maker, pks) ==
    LET V == VoteRewards(Issued, pks)
    IN  [V EXCEPT !.coins = ShareOut(V, maker, MineReward * Len(pks)).coins]

\* The ledger after issue, vote rewards and maker reward.
Distribute(maker, pks) ==
    ShareOut(VoteRewards(Issued, pks), maker, MineReward * Len(pks))

\* Mutated: the fund also gets the makers' part.
FundRewardVotesOnly(pks) == BlockReward - VoteReward * Len(pks)

\* What is left of the block's coins goes to the fund.
FundReward(pks) == BlockReward - (VoteReward + MineReward) * Len(pks)

\* Pos33MinerNew, the first transaction of a block.
Miner(maker, pks) ==
    /\ height < MaxHeight
    /\ MinersKnown(maker, pks)
    /\ LET L == Distribute(maker, pks)
           C == L.coins
       IN  /\ C.ok
           /\ FundReward(pks) > 0 /\ C.exec >= FundReward(pks)
           /\ reward' = L.reward
           /\ remain' = L.remain
           /\ feeReward' = L.feeReward
           /\ remainFee' = L.remainFee
           /\ wallet' = C.wallet
           /\ execCoins' = C.exec - FundReward(pks)
           /\ fund' = fund + FundReward(pks)
    /\ height' = height + 1
    /\ UNCHANGED <<stake, bls, free>>

Next ==
    \/ \E a \in Addr, x \in Deposits : Deposit(a, x)
    \/ \E a \in Addr, x \in Deposits : Withdraw(a, x)
    \/ \E sender \in Addr, req \in Requests :
          Entrust(sender, req[1], req[2], req[3])
    \/ \E k \in BlsKeys, sender \in Addr : BlsBind(k, sender)
    \/ \E maker \in Addr, pks \in BlsLists : Miner(maker, pks)

Spec == Init /\ [][Next]_vars
-----------------------------------------------------------------------------
(* Properties *)

\* Types of the contract's state.  A consignee lists no consignor twice.
TypeOK ==
    /\ height \in 0..MaxHeight
    /\ amount \in [Addr -> Int]
    /\ consignors \in [Addr -> Seq(Addr)]
    /\ \A e \in Addr : \A i, j \in 1..Len(consignors[e]) :
          consignors[e][i] = consignors[e][j] => i = j
    /\ crAmount \in PairTable /\ entrusted \in PairTable
    /\ reward \in PairTable /\ remain \in PairTable
    /\ feeReward \in [Addr -> Int] /\ remainFee \in [Addr -> Int]
    /\ allAmount \in Int
    /\ bls \in [BlsKeys -> Addr \cup {NoAddr}]
    /\ wallet \in [Addr -> Int]
    /\ free \in [Addr -> Int] /\ frozen \in [Addr -> Int]
    /\ execCoins \in Int /\ fund \in Int

\* The consignee's list of consignors and the consignor's list of consignees
\* are written under two keys by one transaction (updateConsignor,
\* updateConsignee): they record the same amount for every pair, and an
\* amount only for a listed consignor.
TablesAgree ==
    \A e, r \in Addr :
        /\ entrusted[r][e] = crAmount[e][r]
        /\ crAmount[e][r] # 0 => r \in AddrsIn(consignors[e])

\* The amount of a consignee, which its tickets are counted from, is the sum
\* over its consignors, and mavl-pos33-all-frozen, which the difficulty of the
\* lottery is computed from, is the sum over all consignees.
TotalsAgree ==
    /\ \A e \in Addr : amount[e] = Total(crAmount[e])
    /\ allAmount = Total(amount)

\* What an address has frozen in the contract is exactly what it entrusted, so
\* stake always stands on coins, and is never negative.
FrozenBacksStake ==
    \A r \in Addr : frozen[r] = Total(entrusted[r]) /\ frozen[r] >= 0

PairTotal(f) == Total([e \in Addr |-> Total(f[e])])

\* The contract's address holds the coins of every depositor, frozen or not,
\* and every reward and fee it has credited but not yet transferred: rewards
\* are never paid from deposits, so a deposit can always be withdrawn.
ExecSolvent ==
    execCoins >= Total(free) + Total(frozen) + PairTotal(remain) + Total(remainFee)

\* Every coin credited as a reward has reached a wallet or is still recorded as
\* unpaid, and none was paid twice: the users' coins are their first coins
\* plus the rewards, minus what is still owed.
RewardsAccounted ==
    Total(wallet) + Total(free) + Total(frozen)
      = Len(AddrSeq) * StartCoins + PairTotal(reward)
          - PairTotal(remain) - Total(remainFee)

\* After every transaction nothing due is left unpaid: a reward below the
\* threshold waits, and so does a fee below ten times the threshold.
UnpaidBelowThreshold ==
    \A e, r \in Addr : /\ remain[e][r] < RewardTransfer
                       /\ remainFee[e] < 10 * RewardTransfer

\* The coins of an address, wherever they are.
Owned(a) == wallet[a] + free[a] + frozen[a]

\* No transaction takes coins away from anyone: deposits, entrusts and rewards
\* only move an address's own coins or add to them.
NoCoinsLost == [][\A a \in Addr : Owned(a)' >= Owned(a)]_vars

\* A block hands out no more than its reward: what it credits to those it gives
\* something and sends to the fund together.  What it would take from others, by a
\* negative share, is nothing it could hand out.
Gain(r0, r1) == IF r1 > r0 THEN r1 - r0 ELSE 0

BlockRewardBound ==
    [][height' # height =>
         LET gain == [e \in Addr |-> [r \in Addr |-> Gain(reward[e][r], reward'[e][r])]]
         IN  PairTotal(gain) + fund' - fund <= BlockReward]_vars
=============================================================================
