--------------------------- MODULE SpSpendProofs ---------------------------
(***************************************************************************)
(* Proofs about payments from the command line, for any coins, amounts,    *)
(* fee rates, keys, codes and devices: what select chooses is enough for   *)
(* BDK and it refuses only what cannot be paid for, what create writes is  *)
(* what was asked for and can be paid, and what is broadcast pays just     *)
(* that and is signed by the keys that own its coins.                      *)
(***************************************************************************)
EXTENDS SpSpend, FiniteSetTheorems, SequenceTheorems, WellFoundedInduction, TLAPS

(* A set of natural numbers that has one has a least one.                  *)
LEMMA Least ==
  ASSUME NEW S \in SUBSET Nat, S # {}
  PROVE  \E n \in S : \A m \in S : n <= m
<1> DEFINE Less == {ss \in Nat \X Nat : ss[1] < ss[2]}
<1>1. IsWellFoundedOn(Less, Nat)
  BY NatLessThanWellFounded DEF OpToRel
<1>2. \A n, m \in Nat : m < n => <<m, n>> \in Less
  OBVIOUS
<1> HIDE DEF Less
<1>3. PICK n \in S : \A m \in S : ~(<<m, n>> \in Less)
  BY <1>1, WFMin
<1>4. \A m \in S : ~(m < n)
  BY <1>2, <1>3
<1> QED BY <1>4

(* Induction for a set, as far as N.                                       *)
LEMMA UpTo ==
  ASSUME NEW N \in Nat, NEW Good, 0 \in Good,
         \A n \in 1..N : n-1 \in Good => n \in Good
  PROVE  \A n \in 0..N : n \in Good
<1> DEFINE Bad == {n \in 0..N : n \notin Good}
<1>1. SUFFICES ASSUME Bad # {} PROVE FALSE
  OBVIOUS
<1>0. Bad \in SUBSET Nat
  OBVIOUS
<1> HIDE DEF Bad
<1>2. PICK n \in Bad : \A m \in Bad : n <= m
  BY <1>1, <1>0, Least
<1> USE DEF Bad
<1>3. n \in 1..N /\ n-1 \notin Bad
  BY <1>2
<1> QED BY <1>2, <1>3

(* Dividing by 1000 and rounding up.                                       *)
RoundedUp(fee, x) == fee \in Nat /\ 1000 * fee >= x /\ 1000 * fee <= x + 999

(* ... is never less than the exact quotient, and less than one more.      *)
LEMMA FeeBounds ==
  \A rate, weight \in Nat : RoundedUp(FeeFor(rate, weight), rate * weight)
<1> TAKE rate, weight \in Nat
<1> DEFINE x == rate * weight
<1>1. x \in Nat OBVIOUS
<1>2. \A y \in Nat : /\ (y + 999) \div 1000 \in Nat
                     /\ 1000 * ((y + 999) \div 1000) >= y
                     /\ 1000 * ((y + 999) \div 1000) <= y + 999
  OBVIOUS
<1> QED BY <1>1, <1>2 DEF FeeFor, RoundedUp

(* There is a running total of any numbers ...                             *)
LEMMA RunningTotalExists ==
  ASSUME NEW N \in Nat, NEW add \in [1..N -> Nat]
  PROVE  \E f : f = [n \in 0..N |-> IF n = 0 THEN 0 ELSE f[n-1] + add[n]]
<1> DEFINE Sums(f, k) ==
      \A n \in 0..k : f[n] = IF n = 0 THEN 0 ELSE f[n-1] + add[n]
    Good == {k \in 0..N : \E f \in [0..k -> Nat] : Sums(f, k)}
<1>1. 0 \in Good
  <2>1. \E f \in [0..0 -> Nat] : Sums(f, 0)
    <3> DEFINE f == [n \in 0..0 |-> 0]
    <3>1. f \in [0..0 -> Nat]
      OBVIOUS
    <3>2. Sums(f, 0)
      OBVIOUS
    <3> HIDE DEF f, Sums
    <3> QED BY <3>1, <3>2
  <2> HIDE DEF Sums
  <2> QED BY <2>1
<1>2. ASSUME NEW k \in 1..N, k-1 \in Good PROVE k \in Good
  <2>1. PICK f \in [0..k-1 -> Nat] : Sums(f, k-1)
    BY <1>2
  <2> DEFINE g == [n \in 0..k |-> IF n = k THEN f[k-1] + add[k] ELSE f[n]]
  <2>2. g \in [0..k -> Nat]
    BY <2>1
  <2>3. ASSUME NEW n \in 0..k
        PROVE  g[n] = IF n = 0 THEN 0 ELSE g[n-1] + add[n]
    <3>1. CASE n = k
      <4>1. g[n] = f[k-1] + add[k] /\ g[k-1] = f[k-1]
        BY <3>1
      <4> QED BY <3>1, <4>1
    <3>2. CASE n # k
      <4>1. n \in 0..k-1 /\ g[n] = f[n] /\ (n > 0 => g[n-1] = f[n-1])
        BY <3>2
      <4>2. n = 0 \/ n > 0
        OBVIOUS
      <4> HIDE DEF g
      <4> QED BY <2>1, <4>1, <4>2
    <3> QED BY <3>1, <3>2
  <2>4. Sums(g, k)
    BY <2>3
  <2> HIDE DEF g, Sums
  <2>5. \E h \in [0..k -> Nat] : Sums(h, k)
    BY <2>2, <2>4
  <2>6. k \in 0..N
    OBVIOUS
  <2> QED BY <2>5, <2>6
<1> HIDE DEF Good
<1>3. N \in Good
  <2>1. \A n \in 1..N : n-1 \in Good => n \in Good
    BY <1>2
  <2>2. \A n \in 0..N : n \in Good
    BY <1>1, <2>1, UpTo
  <2> QED BY <2>2
<1>4. PICK f \in [0..N -> Nat] : Sums(f, N)
  BY <1>3 DEF Good
<1>5. f = [n \in 0..N |-> IF n = 0 THEN 0 ELSE f[n-1] + add[n]]
  BY <1>4
<1> QED BY <1>5

(* A total is summed up down the list.                                     *)
Sums(sum, S) ==
  /\ sum[0] = 0
  /\ \A n \in 1..Len(Order) :
       sum[n] = sum[n-1] + IF Order[n] \in S THEN Value[Order[n]] ELSE 0

(* There is such a sum for every choice of coins, and it ends at its       *)
(* total.                                                                  *)
LEMMA TotalSum == ASSUME NEW S PROVE \E sum : Sums(sum, S) /\ Total(S) = sum[Len(Order)]
<1> DEFINE N == Len(Order)
           add == [n \in 1..N |-> IF Order[n] \in S THEN Value[Order[n]] ELSE 0]
           Totals(f) == f = [n \in 0..N |-> IF n = 0 THEN 0 ELSE f[n-1] + add[n]]
           Literal(f) == f = [n \in 0..Len(Order) |->
             IF n = 0 THEN 0
             ELSE f[n-1] + IF Order[n] \in S THEN Value[Order[n]] ELSE 0]
           sum == CHOOSE f : Literal(f)
<1>1. N \in Nat /\ add \in [1..N -> Nat]
  BY SelectAssumption DEF Coins
<1>2. Total(S) = sum[N]
  BY DEF Total
<1>3. \A f : Totals(f) <=> Literal(f)
  <2>1. \A n \in 1..N : add[n] = IF Order[n] \in S THEN Value[Order[n]] ELSE 0
    OBVIOUS
  <2> HIDE DEF add
  <2>2. ASSUME NEW f
        PROVE [n \in 0..N |-> IF n = 0 THEN 0 ELSE f[n-1] + add[n]]
              = [n \in 0..Len(Order) |->
                   IF n = 0 THEN 0
                   ELSE f[n-1] + IF Order[n] \in S THEN Value[Order[n]] ELSE 0]
    BY <1>1, <2>1
  <2> QED BY <2>2
<1>4. \E f : Totals(f)
  <2> HIDE DEF add, N
  <2> QED BY <1>1, RunningTotalExists
<1>5. Literal(sum)
  <2> HIDE DEF Totals, Literal
  <2> QED BY <1>3, <1>4
<1> HIDE DEF sum, add
<1>6. sum[0] = 0
  BY <1>1, <1>5
<1>7. ASSUME NEW n \in 1..N
      PROVE  sum[n] = sum[n-1] + IF Order[n] \in S THEN Value[Order[n]] ELSE 0
  <2>1. n \in 0..N /\ n # 0
    BY <1>1
  <2> QED BY <1>5, <2>1
<1> QED BY <1>2, <1>6, <1>7 DEF Sums

(* Every partial sum is a number, and so is every coin.                    *)
LEMMA SumsType ==
  ASSUME NEW S, NEW sum, Sums(sum, S)
  PROVE  /\ \A n \in 0..Len(Order) : sum[n] \in Nat
         /\ Len(Order) \in Nat /\ \A n \in 1..Len(Order) : Value[Order[n]] \in Nat
<1> DEFINE N == Len(Order)
           Typed == {n \in 0..N : sum[n] \in Nat}
<1>1. N \in Nat /\ \A n \in 1..N : Value[Order[n]] \in Nat
  BY SelectAssumption DEF Coins
<1>2. 0 \in Typed
  BY <1>1 DEF Sums
<1>3. ASSUME NEW n \in 1..N, n-1 \in Typed PROVE n \in Typed
  <2>1. sum[n] = sum[n-1] + IF Order[n] \in S THEN Value[Order[n]] ELSE 0
    BY DEF Sums
  <2>2. sum[n-1] \in Nat /\ Value[Order[n]] \in Nat /\ n \in 0..N
    BY <1>1, <1>3
  <2> QED BY <2>1, <2>2
<1> HIDE DEF Typed
<1>4. \A n \in 0..N : n \in Typed
  BY <1>1, <1>2, <1>3, UpTo
<1> QED BY <1>1, <1>4 DEF Typed

(* So is what a choice of coins is worth.                                  *)
LEMMA TotalType ==
  ASSUME NEW S
  PROVE  Total(S) \in Nat
<1>1. PICK sum : Sums(sum, S) /\ Total(S) = sum[Len(Order)]
  BY TotalSum
<1>2. Len(Order) \in Nat /\ \A n \in 0..Len(Order) : sum[n] \in Nat
  BY <1>1, SumsType
<1> QED BY <1>1, <1>2

(* Coins apart from each other add up.                                     *)
LEMMA TotalSplit ==
  ASSUME NEW S, NEW T, S \cap T = {}
  PROVE  Total(S \cup T) = Total(S) + Total(T)
<1> DEFINE N == Len(Order)
<1>1. PICK s : Sums(s, S) /\ Total(S) = s[N]
  BY TotalSum
<1>2. PICK t : Sums(t, T) /\ Total(T) = t[N]
  BY TotalSum
<1>3. PICK u : Sums(u, S \cup T) /\ Total(S \cup T) = u[N]
  BY TotalSum
<1>4. /\ \A n \in 0..N : s[n] \in Nat /\ t[n] \in Nat /\ u[n] \in Nat
      /\ N \in Nat /\ \A n \in 1..N : Value[Order[n]] \in Nat
  BY <1>1, <1>2, <1>3, SumsType
<1> DEFINE Agree == {n \in 0..N : u[n] = s[n] + t[n]}
<1>5. 0 \in Agree
  BY <1>1, <1>2, <1>3, <1>4 DEF Sums
<1>6. ASSUME NEW n \in 1..N, n-1 \in Agree PROVE n \in Agree
  <2>1. n-1 \in 0..N /\ n \in 0..N /\ u[n-1] = s[n-1] + t[n-1]
    BY <1>4, <1>6
  <2>2. /\ s[n] = s[n-1] + IF Order[n] \in S THEN Value[Order[n]] ELSE 0
        /\ t[n] = t[n-1] + IF Order[n] \in T THEN Value[Order[n]] ELSE 0
        /\ u[n] = u[n-1] + IF Order[n] \in S \cup T THEN Value[Order[n]] ELSE 0
    BY <1>1, <1>2, <1>3 DEF Sums
  <2>3. s[n-1] \in Nat /\ t[n-1] \in Nat /\ Value[Order[n]] \in Nat
    BY <1>4, <2>1
  <2>4. ~(Order[n] \in S /\ Order[n] \in T)
    OBVIOUS
  <2> QED BY <2>1, <2>2, <2>3, <2>4
<1> HIDE DEF Agree
<1>7. \A n \in 0..N : n \in Agree
  BY <1>4, <1>5, <1>6, UpTo
<1> QED BY <1>1, <1>2, <1>3, <1>4, <1>7 DEF Agree

(* No coins are worth nothing.                                             *)
LEMMA NothingIsWorth == Total({}) = 0
<1>1. Total({} \cup {}) = Total({}) + Total({})
  BY TotalSplit
<1>2. Total({}) = Total({}) + Total({})
  <2>1. {} \cup {} = {}
    OBVIOUS
  <2> QED BY <1>1, <2>1
<1>3. \A t \in Nat : t = t + t => t = 0
  OBVIOUS
<1>4. Total({}) \in Nat
  BY TotalType
<1> QED BY <1>2, <1>3, <1>4, Zenon

(* At any rate, up to 16 silent payments and any output: what select takes *)
(* the transaction to cost is no less than what BDK charges, which rounds  *)
(* up once for every input.  The reserve of the overhead pays for that: at *)
(* 1 sat per virtual byte it is used up soon after the 16th input.         *)
THEOREM NeededIsEnough ==
  ASSUME NEW target \in Nat, NEW rate \in Nat, rate >= MinRate,
         NEW n \in 0..16, NEW bytes \in 0..51
  PROVE  /\ Needed(target, rate, n) \in Nat
         /\ BdkFee(rate, BdkSpInput, n, bytes) \in Nat
         /\ Needed(target, rate, n) >= target + BdkFee(rate, BdkSpInput, n, bytes)
<1> DEFINE reserve == FeeFor(rate, OVERHEAD_WEIGHT + INPUT_WEIGHT * n)
           rest == FeeFor(rate, BdkOverhead(bytes))
           each == FeeFor(rate, BdkSpInput)
           rn == rate * n
<1>1. /\ OVERHEAD_WEIGHT + INPUT_WEIGHT * n = 338 + 230 * n
      /\ BdkSpInput = 231
      /\ BdkOverhead(bytes) \in Nat /\ BdkOverhead(bytes) <= 248
  BY DEF OVERHEAD_WEIGHT, INPUT_WEIGHT, SATISFACTION_WEIGHT, BdkSpInput, BdkOverhead
<1>2. /\ rn \in Nat /\ rn <= 16 * rate
      /\ rate * (338 + 230 * n) = 338 * rate + 230 * rn
      /\ rate * BdkOverhead(bytes) <= 248 * rate
  BY <1>1
<1>3. reserve \in Nat /\ 1000 * reserve >= 338 * rate + 230 * rn
  <2> DEFINE weight == 338 + 230 * n
  <2>1. weight \in Nat /\ reserve = FeeFor(rate, weight)
    BY <1>1
  <2>2. rate * weight = 338 * rate + 230 * rn
    BY <1>2
  <2> HIDE DEF weight, rn, reserve
  <2>3. RoundedUp(FeeFor(rate, weight), rate * weight)
    BY <2>1, FeeBounds
  <2> QED BY <2>1, <2>2, <2>3 DEF RoundedUp
<1>4. rest \in Nat /\ 1000 * rest <= 248 * rate + 999
  <2> DEFINE weight == BdkOverhead(bytes)
  <2>1. weight \in Nat /\ rate * weight \in Nat /\ rate * weight <= 248 * rate
    BY <1>1, <1>2
  <2> HIDE DEF weight
  <2>2. RoundedUp(FeeFor(rate, weight), rate * weight)
    BY <2>1, FeeBounds
  <2>3. rest = FeeFor(rate, weight)
    BY DEF weight
  <2> HIDE DEF rest
  <2> QED BY <2>1, <2>2, <2>3 DEF RoundedUp
<1>5. each \in Nat /\ 1000 * each <= 231 * rate + 999
  <2>1. each = FeeFor(rate, 231)
    BY <1>1
  <2>2. RoundedUp(FeeFor(rate, 231), rate * 231)
    BY FeeBounds
  <2> HIDE DEF each
  <2> QED BY <2>1, <2>2 DEF RoundedUp
<1> HIDE DEF reserve, rest, each
<1>6. n * each \in Nat /\ 1000 * (n * each) <= 231 * rn + 999 * n
  <2>1. n * (1000 * each) <= n * (231 * rate + 999)
    BY <1>5
  <2>2. n * (1000 * each) = 1000 * (n * each)
    BY <1>5
  <2>3. n * (231 * rate + 999) = 231 * rn + 999 * n
    BY DEF rn
  <2> QED BY <2>1, <2>2, <2>3, <1>5
<1> HIDE DEF rn
<1>7. reserve >= rest + n * each
  <2> DEFINE all == n * each
  <2> HIDE DEF all
  <2>1. all \in Nat /\ 1000 * all <= 231 * rn + 999 * n
    BY <1>6 DEF all
  <2>2. 1000 * (rest + all) <= 1000 * reserve
    BY <1>2, <1>3, <1>4, <2>1 DEF MinRate
  <2>3. rest + all <= reserve
    BY <2>1, <2>2, <1>3, <1>4
  <2> QED BY <2>3 DEF all
<1>8. /\ Needed(target, rate, n) = target + reserve
      /\ BdkFee(rate, BdkSpInput, n, bytes) = rest + n * each
  BY DEF Needed, BdkFee, reserve, rest, each
<1> QED BY <1>3, <1>4, <1>6, <1>7, <1>8

(* The coins there are, and the ones in any choice of them, are finitely   *)
(* many.                                                                   *)
LEMMA CoinsFinite == \A S \in SUBSET Coins : IsFiniteSet(S) /\ Cardinality(S) \in Nat
<1> DEFINE f == [i \in 1..Len(Order) |-> Order[i]]
<1>1. Len(Order) \in Nat
  BY SelectAssumption
<1>2. f \in Surjection(1..Len(Order), Coins)
  BY DEF Surjection, Coins
<1>3. IsFiniteSet(1..Len(Order))
  BY <1>1, FS_Interval
<1> HIDE DEF f
<1>4. IsFiniteSet(Coins)
  BY <1>2, <1>3, FS_Surjection
<1> QED BY <1>4, FS_Subset, FS_CardinalityType

(* select's choice is a run of coins from the list.                        *)
LEMMA SelectedIsOldest ==
  ASSUME NEW candidates, NEW target, NEW rate, Selected(candidates, target, rate) # {}
  PROVE  \E n \in Enough(candidates, target, rate) :
           Selected(candidates, target, rate) = Oldest(Worthwhile(candidates, rate), n)
<1> DEFINE able == Worthwhile(candidates, rate)
           enough == Enough(candidates, target, rate)
           coins == Selected(candidates, target, rate)
<1>1. enough \in SUBSET (1..Len(Order)) /\ Len(Order) \in Nat
  BY SelectAssumption DEF Enough
<1>2. coins = UNION {Oldest(able, n) : n \in {m \in enough : \A k \in enough : m <= k}}
  BY DEF Selected
<1> HIDE DEF enough, coins
<1>3. PICK n \in enough : \A k \in enough : n <= k
  BY <1>2 DEF coins
<1>4. \A m \in enough : (\A k \in enough : m <= k) => m = n
  BY <1>1, <1>3
<1>5. coins = Oldest(able, n)
  BY <1>2, <1>3, <1>4
<1> QED BY <1>3, <1>5 DEF enough, coins

(* What select chooses is enough for BDK.                                  *)
LEMMA SelectedIsEnough ==
  ASSUME NEW candidates, NEW a \in Asks, a.fromSp,
         Selected(candidates, a.sats, a.rate) # {}
  PROVE  Covers(a, Selected(candidates, a.sats, a.rate))
<1> DEFINE able == Worthwhile(candidates, a.rate)
           coins == Selected(candidates, a.sats, a.rate)
           size == Cardinality(coins)
<1>1. PICK n \in Enough(candidates, a.sats, a.rate) : coins = Oldest(able, n)
  BY SelectedIsOldest
<1>6. /\ size \in Nat
      /\ size <= MaxInputs
      /\ Total(coins) >= Needed(a.sats, a.rate, size)
  <2> HIDE DEF able, coins
  <2>1. n \in 1..Len(Order) /\ Len(Order) \in Nat
    BY SelectAssumption DEF Enough
  <2>2. Oldest(able, n) \subseteq Coins
    BY <2>1 DEF Oldest, Coins
  <2>3. Cardinality(Oldest(able, n)) \in Nat
    BY <2>2, CoinsFinite
  <2>4. /\ Cardinality(Oldest(able, n)) <= MaxInputs
        /\ Total(Oldest(able, n)) >= Needed(a.sats, a.rate, Cardinality(Oldest(able, n)))
    BY DEF able, Enough
  <2> QED BY <2>3, <2>4, <1>1
<1>7. a.sats \in Nat /\ a.rate \in Nat /\ a.rate >= MinRate
  BY SpendAssumption DEF Ask
<1> HIDE DEF coins, size
<1>8. size \in 0..16
  BY <1>6, SelectAssumption
<1>9. 43 \in 0..51
  OBVIOUS
<1> DEFINE need == Needed(a.sats, a.rate, size)
           fee == BdkFee(a.rate, BdkSpInput, size, 43)
<1>10. need \in Nat /\ fee \in Nat /\ need >= a.sats + fee
  <2> DEFINE target == a.sats
             rate == a.rate
  <2>1. target \in Nat /\ rate \in Nat /\ rate >= MinRate
    BY <1>7
  <2> HIDE DEF target, rate
  <2>2. /\ Needed(target, rate, size) \in Nat
        /\ BdkFee(rate, BdkSpInput, size, 43) \in Nat
        /\ Needed(target, rate, size) >= target + BdkFee(rate, BdkSpInput, size, 43)
    BY <2>1, <1>8, <1>9, NeededIsEnough
  <2> QED BY <2>2 DEF target, rate
<1>11. Total(coins) \in Nat
  BY TotalType
<1>12. Charged(a, coins) = fee
  BY DEF Charged, size
<1>13. Total(coins) >= need
  BY <1>6
<1> HIDE DEF need, fee
<1>14. Total(coins) >= a.sats + fee
  BY <1>7, <1>10, <1>11, <1>13
<1>15. Covers(a, coins)
  BY <1>12, <1>14 DEF Covers
<1> QED BY <1>15 DEF coins

(* Coins that a create has chosen are never too few for BDK: however many  *)
(* silent payments there are, whatever they are worth, and at every rate   *)
(* from 1 sat per virtual byte up, as long as the device takes no more     *)
(* than 16 of them.                                                        *)
THEOREM CoinsAreNeverShort == Spec => []NeverShort
<1>1. Init => NeverShort
  BY DEF Init, NeverShort
<1>2. ASSUME NeverShort, [Next]_vars PROVE NeverShort'
  <2>1. ASSUME NEW a \in Asks, Prepare(a) PROVE NeverShort'
    <3> DEFINE coins == Selected(Unspent, a.sats, a.rate)
    <3>1. a.fromSp /\ coins # {} /\ making' = {[ask |-> a, coins |-> coins]}
      BY <2>1 DEF Prepare
    <3>2. Covers(a, coins)
      BY <3>1, SelectedIsEnough
    <3> HIDE DEF coins
    <3> QED BY <3>1, <3>2 DEF NeverShort
  <2>2. CASE CreateFromSp \/ CreateFails
    BY <2>2 DEF CreateFromSp, CreateFails, NeverShort
  <2>3. ASSUME NEW a \in Asks, Create(a) PROVE NeverShort'
    BY <1>2, <2>3 DEF Create, NeverShort
  <2>4. CASE World
    BY <1>2, <2>4 DEF World, Pair, Arrive, Find, See, Drop, Unmine, SpendElsewhere,
                      Sync, files, NeverShort
  <2>5. CASE \E device \in Devices, d \in drafts : Answer(device, d) \/ WrongAnswer(device, d)
    BY <1>2, <2>5 DEF Answer, WrongAnswer, NeverShort
  <2>6. CASE \E d \in drafts, p \in answers : Broadcast(d, p)
    BY <1>2, <2>6 DEF Broadcast, NeverShort
  <2>7. CASE UNCHANGED vars
    BY <1>2, <2>7 DEF vars, files, NeverShort
  <2> QED BY <1>2, <2>1, <2>2, <2>3, <2>4, <2>5, <2>6, <2>7 DEF Next
<1> QED BY <1>1, <1>2, PTL DEF Spec

(* Every coin of a transaction handed to the network is signed for, over   *)
(* that very transaction, by the key that owns it: a stored coin is checked *)
(* again with the key paired with at that moment, and nothing is finalized *)
(* without the signature of the key that this gives.                       *)
THEOREM HandedIsSignedByOwner == Spec => []SignedByOwner
<1>1. Init => SignedByOwner
  BY DEF Init, SignedByOwner
<1>2. ASSUME SignedByOwner, [Next]_vars PROVE SignedByOwner'
  <2>1. ASSUME NEW d \in drafts, NEW p \in answers, Broadcast(d, p)
        PROVE  SignedByOwner'
    <3> DEFINE q == ToV0(p)
    <3>1. handed' = handed \cup {q} /\ SignedSpCoins(q.tx) /\ FullySigned(q)
      BY <2>1 DEF Broadcast, Accepted
    <3> HIDE DEF q
    <3>2. ASSUME NEW c \in q.tx.ins PROVE ExpectedKey(c) = {KeyOf[c]}
      BY <3>1 DEF ExpectedKey, SignedSpCoins, Checked
    <3>3. ASSUME NEW c \in q.tx.ins
          PROVE  [coin |-> c, key |-> KeyOf[c], over |-> q.tx] \in q.sigs
      BY <3>1, <3>2 DEF FullySigned
    <3> QED BY <1>2, <3>1, <3>3 DEF SignedByOwner
  <2>2. CASE UNCHANGED handed
    BY <1>2, <2>2 DEF SignedByOwner
  <2>3. CASE World
    BY <2>2, <2>3 DEF World, Pair, Arrive, Find, See, Drop, Unmine, SpendElsewhere,
                      Sync, files
  <2> QED BY <1>2, <2>1, <2>2, <2>3
    DEF Next, vars, files, Prepare, Create, CreateFromSp, CreateFails, Answer, WrongAnswer
<1> QED BY <1>1, <1>2, PTL DEF Spec

-----------------------------------------------------------------------------
(* Sets as sequences, and sums of outputs.                                *)

(* A set with nothing or one thing in it as a sequence.                    *)
LEMMA SequenceOfNone == SetToSeq({}) = << >>
<1> DEFINE P(f) == f \in [1..Cardinality({}) -> {}] /\ IsInjective(f)
           seq == CHOOSE f : P(f)
<1>1. SetToSeq({}) = CHOOSE f \in [1..Cardinality({}) -> {}] : IsInjective(f)
  BY DEF SetToSeq
<1>2. Cardinality({}) = 0
  BY FS_EmptySet
<1>3. << >> \in [1..Cardinality({}) -> {}] /\ IsInjective(<< >>)
  BY <1>2 DEF IsInjective
<1>4. SetToSeq({}) \in [1..Cardinality({}) -> {}]
  BY <1>1, <1>3
<1> QED BY <1>2, <1>4

LEMMA SequenceOfOne == ASSUME NEW x PROVE SetToSeq({x}) = <<x>>
<1>1. SetToSeq({x}) = CHOOSE f \in [1..Cardinality({x}) -> {x}] : IsInjective(f)
  BY DEF SetToSeq
<1>2. Cardinality({x}) = 1
  BY FS_Singleton
<1>3. <<x>> \in [1..1 -> {x}] /\ IsInjective(<<x>>)
  BY DEF IsInjective
<1>4. SetToSeq({x}) \in [1..1 -> {x}]
  BY <1>1, <1>2, <1>3
<1> QED BY <1>4

(* What the outputs of a transaction add up to depends on their amounts    *)
(* only ...                                                                *)
LEMMA SatsSame ==
  ASSUME NEW t, NEW u, Len(t.outs) \in Nat, Len(u.outs) = Len(t.outs),
         \A i \in 1..Len(t.outs) : u.outs[i].sats = t.outs[i].sats
  PROVE  Sats(u) = Sats(t)
<1> DEFINE N == Len(t.outs)
           ForT(f) == f = [n \in 0..Len(t.outs) |->
             IF n = 0 THEN 0 ELSE f[n-1] + t.outs[n].sats]
           ForU(f) == f = [n \in 0..Len(u.outs) |->
             IF n = 0 THEN 0 ELSE f[n-1] + u.outs[n].sats]
<1>1. ASSUME NEW f PROVE ForT(f) <=> ForU(f)
  <2>1. ASSUME NEW n \in 0..N
        PROVE  (IF n = 0 THEN 0 ELSE f[n-1] + t.outs[n].sats)
               = (IF n = 0 THEN 0 ELSE f[n-1] + u.outs[n].sats)
    <3>1. CASE n = 0 BY <3>1
    <3>2. CASE n # 0
      <4>1. n \in 1..N BY <3>2
      <4> QED BY <4>1
    <3> QED BY <3>1, <3>2
  <2> QED BY <2>1
<1> HIDE DEF ForT, ForU
<1>2. (CHOOSE f : ForT(f)) = (CHOOSE f : ForU(f))
  BY <1>1
<1> QED BY <1>2 DEF Sats, ForT, ForU

(* ... and is their sum.                                                   *)
LEMMA SatsSum ==
  ASSUME NEW t, NEW N \in Nat, N = Len(t.outs),
         \A i \in 1..N : t.outs[i].sats \in Nat
  PROVE  \E sum : /\ Sats(t) = sum[N] /\ sum[0] = 0
                  /\ \A n \in 1..N : sum[n] = sum[n-1] + t.outs[n].sats
<1> DEFINE add == [n \in 1..N |-> t.outs[n].sats]
           Literal(f) == f = [n \in 0..Len(t.outs) |->
             IF n = 0 THEN 0 ELSE f[n-1] + t.outs[n].sats]
           sum == CHOOSE f : Literal(f)
<1>1. add \in [1..N -> Nat]
  OBVIOUS
<1>2. ASSUME NEW f PROVE [n \in 0..N |-> IF n = 0 THEN 0 ELSE f[n-1] + add[n]]
                         = [n \in 0..N |-> IF n = 0 THEN 0 ELSE f[n-1] + t.outs[n].sats]
  <2>1. \A n \in 1..N : add[n] = t.outs[n].sats
    OBVIOUS
  <2> HIDE DEF add
  <2> QED BY <2>1
<1>3. \E f : f = [n \in 0..N |-> IF n = 0 THEN 0 ELSE f[n-1] + add[n]]
  <2> HIDE DEF add
  <2> QED BY <1>1, RunningTotalExists
<1>4. \E f : Literal(f)
  <2> HIDE DEF add
  <2>1. PICK f : f = [n \in 0..N |-> IF n = 0 THEN 0 ELSE f[n-1] + add[n]]
    BY <1>3
  <2>2. f = [n \in 0..N |-> IF n = 0 THEN 0 ELSE f[n-1] + t.outs[n].sats]
    BY <1>2, <2>1
  <2>3. Literal(f)
    BY <2>2
  <2> HIDE DEF Literal
  <2> QED BY <2>3
<1>5. Literal(sum)
  <2> HIDE DEF Literal
  <2> QED BY <1>4
<1>6. Sats(t) = sum[N]
  BY DEF Sats
<1> HIDE DEF sum
<1>7. sum[0] = 0
  BY <1>5
<1>8. ASSUME NEW n \in 1..N PROVE sum[n] = sum[n-1] + t.outs[n].sats
  <2>1. n \in 0..Len(t.outs) /\ n # 0
    OBVIOUS
  <2> QED BY <1>5, <2>1
<1> QED BY <1>6, <1>7, <1>8

LEMMA SatsOfOne ==
  ASSUME NEW t, Len(t.outs) = 1, t.outs[1].sats \in Nat
  PROVE  Sats(t) = t.outs[1].sats
<1>1. \A i \in 1..1 : t.outs[i].sats \in Nat
  OBVIOUS
<1>2. \E sum : /\ Sats(t) = sum[1] /\ sum[0] = 0
               /\ \A n \in 1..1 : sum[n] = sum[n-1] + t.outs[n].sats
  <2> DEFINE N == 1
  <2>1. N \in Nat /\ N = Len(t.outs) /\ \A i \in 1..N : t.outs[i].sats \in Nat
    BY <1>1
  <2> HIDE DEF N
  <2>2. \E sum : /\ Sats(t) = sum[N] /\ sum[0] = 0
                 /\ \A n \in 1..N : sum[n] = sum[n-1] + t.outs[n].sats
    BY <2>1, SatsSum, Zenon
  <2> QED BY <2>2 DEF N
<1>3. PICK sum : /\ Sats(t) = sum[1] /\ sum[0] = 0
                 /\ \A n \in 1..1 : sum[n] = sum[n-1] + t.outs[n].sats
  BY <1>2
<1>4. sum[1] = sum[1-1] + t.outs[1].sats
  BY <1>3
<1> QED BY <1>3, <1>4

LEMMA SatsOfTwo ==
  ASSUME NEW t, Len(t.outs) = 2, t.outs[1].sats \in Nat, t.outs[2].sats \in Nat
  PROVE  Sats(t) = t.outs[1].sats + t.outs[2].sats
<1>1. \A i \in 1..2 : t.outs[i].sats \in Nat
  OBVIOUS
<1>2. \E sum : /\ Sats(t) = sum[2] /\ sum[0] = 0
               /\ \A n \in 1..2 : sum[n] = sum[n-1] + t.outs[n].sats
  <2> DEFINE N == 2
  <2>1. N \in Nat /\ N = Len(t.outs) /\ \A i \in 1..N : t.outs[i].sats \in Nat
    BY <1>1
  <2> HIDE DEF N
  <2>2. \E sum : /\ Sats(t) = sum[N] /\ sum[0] = 0
                 /\ \A n \in 1..N : sum[n] = sum[n-1] + t.outs[n].sats
    BY <2>1, SatsSum, Zenon
  <2> QED BY <2>2 DEF N
<1>3. PICK sum : /\ Sats(t) = sum[2] /\ sum[0] = 0
                 /\ \A n \in 1..2 : sum[n] = sum[n-1] + t.outs[n].sats
  BY <1>2
<1>4. sum[1] = sum[1-1] + t.outs[1].sats /\ sum[2] = sum[2-1] + t.outs[2].sats
  BY <1>3
<1> QED BY <1>3, <1>4

LEMMA LeastOfOne == ASSUME NEW i \in Nat PROVE Min({i}) = i
BY DEF Min

LEMMA LeastOfTwo == Min({1, 2}) = 1
<1>1. 1 \in {1, 2} /\ \A n \in {1, 2} : 1 <= n
  OBVIOUS
<1>2. \A m \in {1, 2} : (\A n \in {1, 2} : m <= n) => m = 1
  OBVIOUS
<1> QED BY <1>1, <1>2 DEF Min

(* The claims of up to two codes, one after the other, S[n] being what the *)
(* n-th of them may claim.                                                 *)
Claiming(f, N, S) ==
  f = [n \in 0..N |-> IF n = 0 THEN {} ELSE f[n-1] \cup {Min(S[n] \ f[n-1])}]

(* Claims are defined, code after code ...                                 *)
LEMMA ClaimsExist ==
  ASSUME NEW N \in 0..2, NEW S
  PROVE  \E f : Claiming(f, N, S)
<1> DEFINE first == {} \cup {Min(S[1] \ {})}
           second == first \cup {Min(S[2] \ first)}
           f == [n \in 0..N |-> IF n = 0 THEN {} ELSE IF n = 1 THEN first ELSE second]
<1>1. ASSUME NEW n \in 0..N
      PROVE  f[n] = IF n = 0 THEN {} ELSE f[n-1] \cup {Min(S[n] \ f[n-1])}
  <2> HIDE DEF second, first
  <2>1. CASE n = 0
    BY <2>1
  <2>2. CASE n = 1
    <3>1. f[n] = first /\ f[n-1] = {} /\ S[n] = S[1]
      BY <2>2
    <3> HIDE DEF f
    <3>2. first = f[n-1] \cup {Min(S[n] \ f[n-1])}
      BY <3>1 DEF first
    <3> QED BY <2>2, <3>1, <3>2
  <2>3. CASE n = 2
    <3>1. f[n] = second /\ f[n-1] = first /\ S[n] = S[2]
      BY <2>3
    <3> HIDE DEF f
    <3>2. second = f[n-1] \cup {Min(S[n] \ f[n-1])}
      BY <3>1 DEF second
    <3> QED BY <2>3, <3>1, <3>2
  <2> QED BY <2>1, <2>2, <2>3
<1>2. f = [n \in 0..N |-> f[n]]
  OBVIOUS
<1> HIDE DEF f
<1>3. f = [n \in 0..N |-> IF n = 0 THEN {} ELSE f[n-1] \cup {Min(S[n] \ f[n-1])}]
  BY <1>1, <1>2
<1>4. Claiming(f, N, S)
  BY <1>3 DEF Claiming
<1> QED BY <1>4

ClaimedInTurn(f, tx, codes, N) ==
  /\ Resolved(tx, codes) = f[N] /\ f[0] = {}
  /\ \A n \in 1..N : f[n] = f[n-1] \cup {Min(StandIns(tx, codes[n]) \ f[n-1])}

(* ... and every code adds the first stand-in left for it.                 *)
LEMMA ClaimsInTurn ==
  ASSUME NEW tx, NEW codes, NEW N \in 0..2, N = Len(codes)
  PROVE  \E f : ClaimedInTurn(f, tx, codes, N)
<1> DEFINE S == [n \in 1..N |-> StandIns(tx, codes[n])]
           Literal(f) == f = [n \in 0..Len(codes) |->
             IF n = 0 THEN {} ELSE f[n-1] \cup {Min(StandIns(tx, codes[n]) \ f[n-1])}]
           claimed == CHOOSE f : Literal(f)
<1>1. ASSUME NEW f
      PROVE  [n \in 0..N |-> IF n = 0 THEN {} ELSE f[n-1] \cup {Min(S[n] \ f[n-1])}]
             = [n \in 0..N |-> IF n = 0 THEN {}
                               ELSE f[n-1] \cup {Min(StandIns(tx, codes[n]) \ f[n-1])}]
  <2>1. \A n \in 0..N : n = 0 \/ S[n] = StandIns(tx, codes[n])
    OBVIOUS
  <2> HIDE DEF S
  <2>2. ASSUME NEW n \in 0..N
        PROVE  (IF n = 0 THEN {} ELSE f[n-1] \cup {Min(S[n] \ f[n-1])})
               = (IF n = 0 THEN {}
                  ELSE f[n-1] \cup {Min(StandIns(tx, codes[n]) \ f[n-1])})
    BY <2>1, Zenon
  <2> QED BY <2>2, Zenon
<1>2. \E f : Literal(f)
  <2> HIDE DEF S
  <2>0. PICK f : Claiming(f, N, S)
    BY ClaimsExist, Zenon
  <2>1. f = [n \in 0..N |-> IF n = 0 THEN {} ELSE f[n-1] \cup {Min(S[n] \ f[n-1])}]
    BY <2>0 DEF Claiming
  <2>2. f = [n \in 0..N |-> IF n = 0 THEN {}
                            ELSE f[n-1] \cup {Min(StandIns(tx, codes[n]) \ f[n-1])}]
    BY <1>1, <2>1
  <2>3. Literal(f)
    BY <2>2
  <2> HIDE DEF Literal
  <2> QED BY <2>3
<1>3. Literal(claimed)
  <2> HIDE DEF Literal
  <2> QED BY <1>2
<1>4. Resolved(tx, codes) = claimed[N]
  BY DEF Resolved
<1> HIDE DEF claimed
<1>5. claimed[0] = {}
  BY <1>3
<1>6. ASSUME NEW n \in 1..N
      PROVE  claimed[n] = claimed[n-1] \cup {Min(StandIns(tx, codes[n]) \ claimed[n-1])}
  <2>1. n \in 0..Len(codes) /\ n # 0
    OBVIOUS
  <2> QED BY <1>3, <2>1
<1>7. ClaimedInTurn(claimed, tx, codes, N)
  BY <1>4, <1>5, <1>6 DEF ClaimedInTurn
<1> QED BY <1>7

LEMMA ResolvedNone == ASSUME NEW tx PROVE Resolved(tx, << >>) = {}
<1> DEFINE codes == << >>
           N == 0
<1>1. N \in 0..2 /\ N = Len(codes)
  OBVIOUS
<1> HIDE DEF codes, N
<1>2. PICK f : ClaimedInTurn(f, tx, codes, N)
  BY <1>1, ClaimsInTurn, Zenon
<1> QED BY <1>2 DEF codes, N, ClaimedInTurn

(* The only stand-in of a code is claimed.                                 *)
LEMMA ResolvedOne ==
  ASSUME NEW tx, NEW x, NEW i \in Nat, StandIns(tx, x) = {i}
  PROVE  Resolved(tx, <<x>>) = {i}
<1> DEFINE codes == <<x>>
           N == 1
<1>1. N \in 0..2 /\ N = Len(codes) /\ codes[1] = x
  OBVIOUS
<1> HIDE DEF codes, N
<1>0. PICK f : ClaimedInTurn(f, tx, codes, N)
  BY <1>1, ClaimsInTurn, Zenon
<1>2. /\ Resolved(tx, codes) = f[N] /\ f[0] = {}
      /\ \A n \in 1..N : f[n] = f[n-1] \cup {Min(StandIns(tx, codes[n]) \ f[n-1])}
  BY <1>0 DEF ClaimedInTurn
<1>3. f[1] = f[0] \cup {Min(StandIns(tx, x) \ f[0])}
  <2>1. 1 \in 1..N /\ 1-1 = 0
    BY DEF N
  <2> QED BY <1>1, <1>2, <2>1
<1>4. {i} \ {} = {i}
  OBVIOUS
<1>5. f[1] = {i}
  BY <1>2, <1>3, <1>4, LeastOfOne
<1> QED BY <1>2, <1>5 DEF codes, N

(* Two codes claim one after the other.                                    *)
LEMMA ResolvedTwo ==
  ASSUME NEW tx, NEW x, NEW y
  PROVE  Resolved(tx, <<x, y>>)
         = {Min(StandIns(tx, x)), Min(StandIns(tx, y) \ {Min(StandIns(tx, x))})}
<1> DEFINE codes == <<x, y>>
           N == 2
<1>1. N \in 0..2 /\ N = Len(codes) /\ codes[1] = x /\ codes[2] = y
  OBVIOUS
<1> HIDE DEF codes, N
<1>0. PICK f : ClaimedInTurn(f, tx, codes, N)
  BY <1>1, ClaimsInTurn, Zenon
<1>2. /\ Resolved(tx, codes) = f[N] /\ f[0] = {}
      /\ \A n \in 1..N : f[n] = f[n-1] \cup {Min(StandIns(tx, codes[n]) \ f[n-1])}
  BY <1>0 DEF ClaimedInTurn
<1>3. /\ f[1] = f[0] \cup {Min(StandIns(tx, x) \ f[0])}
      /\ f[2] = f[1] \cup {Min(StandIns(tx, y) \ f[1])}
  <2>1. 1 \in 1..N /\ 1-1 = 0 /\ 2 \in 1..N /\ 2-1 = 1
    BY DEF N
  <2> QED BY <1>1, <1>2, <2>1
<1>4. StandIns(tx, x) \ {} = StandIns(tx, x)
  OBVIOUS
<1>5. f[1] = {Min(StandIns(tx, x))}
  BY <1>2, <1>3, <1>4
<1>6. f[2] = {Min(StandIns(tx, x))} \cup {Min(StandIns(tx, y) \ {Min(StandIns(tx, x))})}
  BY <1>3, <1>5
<1>7. f[2] = {Min(StandIns(tx, x)), Min(StandIns(tx, y) \ {Min(StandIns(tx, x))})}
  BY <1>6
<1> QED BY <1>2, <1>7 DEF codes, N

(* Two codes with a stand-in each, or one code with two of them.           *)
LEMMA ResolvedEach ==
  ASSUME NEW tx, NEW x, NEW y, NEW i \in Nat, NEW j \in Nat, i # j,
         StandIns(tx, x) = {i}, StandIns(tx, y) = {j}
  PROVE  Resolved(tx, <<x, y>>) = {i, j}
<1>1. Min(StandIns(tx, x)) = i
  BY LeastOfOne
<1>2. StandIns(tx, y) \ {i} = {j}
  OBVIOUS
<1>3. Min(StandIns(tx, y) \ {i}) = j
  BY <1>2, LeastOfOne
<1> QED BY <1>1, <1>3, ResolvedTwo

LEMMA ResolvedSame ==
  ASSUME NEW tx, NEW x, StandIns(tx, x) = {1, 2}
  PROVE  Resolved(tx, <<x, x>>) = {1, 2}
<1>1. Min(StandIns(tx, x)) = 1
  BY LeastOfTwo
<1>2. StandIns(tx, x) \ {1} = {2}
  OBVIOUS
<1>3. Min(StandIns(tx, x) \ {1}) = 2
  BY <1>2, LeastOfOne
<1> QED BY <1>1, <1>3, ResolvedTwo

-----------------------------------------------------------------------------
(* What create writes.                                                     *)

(* The output of the recipient in a PSBT, before the device has filled in  *)
(* the scripts of codes, and the one for change.                           *)
ToRecipient(out, a) ==
  /\ out.sats = a.sats
  /\ IF a.to = Address THEN out.info = {} /\ out.script = Plain("address")
                       ELSE out.info = {a.to} /\ out.script = Plain("none")

ToChange(out, a) ==
  IF a.fromSp THEN \E device \in Devices : out.info = {device} /\ out.script = Plain("none")
              ELSE out.info = {} /\ out.script = Plain("change")

(* The fee is what BDK charges and not much more.                          *)
Priced(tx, a) ==
  /\ Total(tx.ins) >= Sats(tx) + Charged(a, tx.ins)
  /\ Total(tx.ins) < Sats(tx) + Charged(a, tx.ins) + 2 * ChangeFee(a.rate) + Dust

(* Coins of one kind and one device, and no more than it takes.            *)
OfOneKind(coins, a) ==
  /\ coins \subseteq (IF a.fromSp THEN SpCoins ELSE OwnCoins)
  /\ coins # {} /\ Cardinality(coins) <= MaxInputs
  /\ \A c, e \in coins : KeyOf[c] = KeyOf[e]

(* A PSBT is what was asked for.                                           *)
AskedFor(d) ==
  LET a == d.ask
      tx == d.psbt.tx
  IN  /\ OfOneKind(tx.ins, a) /\ tx.lock = a.lock
      /\ Len(tx.outs) \in 1..2
      /\ \E i \in DOMAIN tx.outs :
           /\ ToRecipient(tx.outs[i], a)
           /\ \A j \in DOMAIN tx.outs \ {i} : ToChange(tx.outs[j], a)
      /\ Priced(tx, a)
      /\ d.psbt.v2 = (a.fromSp \/ a.to # Address)

LEMMA AskTypes ==
  \A a \in Asks : /\ a \in Ask /\ a.fromSp \in BOOLEAN /\ a.to \in Codes \cup {Address}
                  /\ a.sats \in Nat /\ a.sats > 0 /\ a.rate \in Nat /\ a.rate >= MinRate
                  /\ a.lock \in Nat
BY SpendAssumption DEF Ask

LEMMA FeeType == \A rate, weight \in Nat : FeeFor(rate, weight) \in Nat
BY FeeBounds DEF RoundedUp

(* What BDK charges is a number of sats.                                   *)
LEMMA ChargedType ==
  ASSUME NEW a \in Asks, NEW coins \in SUBSET Coins
  PROVE  Charged(a, coins) \in Nat
<1> DEFINE input == IF a.fromSp THEN BdkSpInput ELSE BdkOwnInput
           rate == a.rate
           n == Cardinality(coins)
<1>1. input \in Nat /\ BdkOverhead(43) \in Nat
  BY DEF BdkSpInput, BdkOwnInput, BdkOverhead, INPUT_WEIGHT, SATISFACTION_WEIGHT
<1>2. rate \in Nat /\ n \in Nat
  BY AskTypes, CoinsFinite
<1>3. Charged(a, coins) = FeeFor(rate, BdkOverhead(43)) + n * FeeFor(rate, input)
  BY DEF Charged, BdkFee
<1> HIDE DEF input, rate, n
<1>4. FeeFor(rate, BdkOverhead(43)) \in Nat /\ FeeFor(rate, input) \in Nat
  BY <1>1, <1>2, FeeType
<1>5. n * FeeFor(rate, input) \in Nat
  BY <1>2, <1>4
<1> QED BY <1>3, <1>4, <1>5

LEMMA PairOfTwo == \A x, y : <<x>> \o <<y>> = <<x, y>>
<1> TAKE x, y
<1> DEFINE S == {x, y}
           s == <<x>>
           t == <<y>>
           u == <<x, y>>
<1>1. s \in Seq(S) /\ t \in Seq(S) /\ u \in Seq(S)
  OBVIOUS
<1>2. Len(s) = 1 /\ Len(t) = 1 /\ Len(u) = 2 /\ s[1] = x /\ t[1] = y /\ u[1] = x /\ u[2] = y
  OBVIOUS
<1> HIDE DEF S, s, t, u
<1>3. /\ s \o t \in Seq(S) /\ Len(s \o t) = 2
      /\ (s \o t)[1] = x /\ (s \o t)[2] = y
  BY <1>1, <1>2, ConcatProperties
<1>4. \A i \in 1..2 : (s \o t)[i] = u[i]
  BY <1>2, <1>3
<1>5. s \o t = u
  BY <1>1, <1>2, <1>3, <1>4, SeqEqual
<1> QED BY <1>5 DEF s, t, u

(* What BDK builds from coins that cover the payment.                      *)
ChangeOut(sats, script) == [sats |-> sats, info |-> {}, script |-> script]

LEMMA BuiltIs ==
  ASSUME NEW a \in Asks, NEW coins \in SUBSET Coins, Covers(a, coins), NEW script,
         NEW tx \in Built(a, coins, script)
  PROVE  /\ tx.ins = coins /\ tx.lock = a.lock
         /\ \/ tx.outs = <<Recipient(a)>>
            \/ \E sats \in Nat : \/ tx.outs = <<Recipient(a), ChangeOut(sats, script)>>
                                 \/ tx.outs = <<ChangeOut(sats, script), Recipient(a)>>
         /\ Priced(tx, a)
<1> DEFINE R == Recipient(a)
           fee == Charged(a, coins)
           spare == Total(coins) - a.sats - fee
           cost == ChangeFee(a.rate)
           change == {[sats |-> sats, info |-> {}, script |-> script] :
                        sats \in ChangeOf(spare, a.rate)}
<1>1. /\ fee \in Nat /\ Total(coins) \in Nat /\ a.sats \in Nat
      /\ Total(coins) >= a.sats + fee
  BY ChargedType, TotalType, AskTypes DEF Covers
<1>2. cost \in Nat
  <2>1. a.rate \in Nat /\ 4 * ChangeBytes \in Nat
    BY AskTypes DEF ChangeBytes
  <2> QED BY <2>1, FeeType DEF ChangeFee
<1>3. PICK o \in {<<R>> \o SetToSeq(change), SetToSeq(change) \o <<R>>} :
        tx = [ins |-> coins, outs |-> o, lock |-> a.lock]
  BY DEF Built
<1>4. R.sats = a.sats
  BY DEF Recipient
<1>5. ChangeOf(spare, a.rate) = IF spare >= cost + Dust THEN {spare - cost} ELSE {}
  BY DEF ChangeOf
<1>6. Charged(a, tx.ins) = fee /\ Total(tx.ins) = Total(coins)
  BY <1>3
<1> HIDE DEF R, fee, cost
<1>7. CASE spare < cost + Dust
  <2>1. change = {}
    BY <1>1, <1>2, <1>5, <1>7 DEF Dust
  <2> HIDE DEF change
  <2>2. o = <<R>>
    BY <1>3, <2>1, SequenceOfNone
  <2>3. tx.outs = <<R>>
    BY <1>3, <2>2
  <2>4. Sats(tx) = a.sats
    <3>1. Len(tx.outs) = 1 /\ tx.outs[1] = R
      BY <2>3
    <3>2. tx.outs[1].sats = a.sats /\ a.sats \in Nat
      BY <1>1, <1>4, <3>1
    <3> QED BY <3>1, <3>2, SatsOfOne, Zenon
  <2>5. Priced(tx, a)
    <3>1. /\ Total(coins) >= a.sats + fee
          /\ Total(coins) < a.sats + fee + 2 * cost + Dust
      BY <1>1, <1>2, <1>7 DEF Dust
    <3> QED BY <1>6, <2>4, <3>1 DEF Priced, cost
  <2> QED BY <1>3, <2>3, <2>5 DEF R
<1>8. CASE spare >= cost + Dust
  <2> DEFINE left == spare - cost
             C == ChangeOut(left, script)
  <2>1. left \in Nat /\ Total(coins) = a.sats + left + fee + cost
    <3>2. Total(coins) - a.sats - fee >= cost + 330
      BY <1>8 DEF Dust
    <3>3. /\ Total(coins) \in Nat /\ a.sats \in Nat /\ fee \in Nat /\ cost \in Nat
          /\ left = Total(coins) - a.sats - fee - cost
      BY <1>1, <1>2
    <3> DEFINE total == Total(coins)
               sats == a.sats
    <3>4. /\ total \in Nat /\ sats \in Nat /\ fee \in Nat /\ cost \in Nat
          /\ left = total - sats - fee - cost /\ total - sats - fee >= cost + 330
      BY <3>2, <3>3
    <3> HIDE DEF left, fee, cost, total, sats
    <3>5. left \in Nat /\ total = sats + left + fee + cost
      BY <3>4
    <3> QED BY <3>5 DEF total, sats
  <2>2. change = {C}
    BY <1>5, <1>8 DEF ChangeOut
  <2>3. C.sats = left
    BY DEF ChangeOut
  <2> HIDE DEF change, C, left
  <2>4. tx.outs = <<R, C>> \/ tx.outs = <<C, R>>
    <3>1. o = <<R, C>> \/ o = <<C, R>>
      <4>1. SetToSeq(change) = <<C>>
        BY <2>2, SequenceOfOne
      <4>2. o = <<R>> \o <<C>> \/ o = <<C>> \o <<R>>
        BY <1>3, <4>1
      <4>3. <<R>> \o <<C>> = <<R, C>> /\ <<C>> \o <<R>> = <<C, R>>
        BY PairOfTwo, Zenon
      <4> QED BY <4>2, <4>3
    <3> QED BY <1>3, <3>1
  <2>5. Sats(tx) = a.sats + left
    <3>1. /\ Len(tx.outs) = 2
          /\ \/ tx.outs[1] = R /\ tx.outs[2] = C
             \/ tx.outs[1] = C /\ tx.outs[2] = R
      <4>1. CASE tx.outs = <<R, C>> BY <4>1
      <4>2. CASE tx.outs = <<C, R>> BY <4>2
      <4> QED BY <2>4, <4>1, <4>2
    <3>2. tx.outs[1].sats \in Nat /\ tx.outs[2].sats \in Nat
      BY <1>1, <1>4, <2>1, <2>3, <3>1
    <3>3. Sats(tx) = tx.outs[1].sats + tx.outs[2].sats
      BY <3>1, <3>2, SatsOfTwo, Zenon
    <3> QED BY <1>1, <1>4, <2>1, <2>3, <3>1, <3>3
  <2>6. Priced(tx, a)
    <3>1. /\ Total(coins) >= a.sats + left + fee
          /\ Total(coins) < a.sats + left + fee + 2 * cost + Dust
      <4>1. \A sats, l, f, c \in Nat :
              /\ sats + l + f + c >= sats + l + f
              /\ sats + l + f + c < sats + l + f + 2 * c + 330
        OBVIOUS
      <4>2. a.sats \in Nat /\ left \in Nat /\ fee \in Nat /\ cost \in Nat
        BY <1>1, <1>2, <2>1
      <4> HIDE DEF left, fee, cost
      <4> QED BY <2>1, <4>1, <4>2 DEF Dust
    <3> QED BY <1>6, <2>5, <3>1 DEF Priced, cost
  <2> QED BY <1>3, <2>1, <2>4, <2>6 DEF R, C
<1>9. spare \in Int /\ cost + Dust \in Int
  BY <1>1, <1>2 DEF Dust
<1> HIDE DEF spare
<1> QED BY <1>7, <1>8, <1>9

(* Stand-ins are told apart by their codes, and from other scripts.        *)
LEMMA ScriptsDiffer ==
  /\ \A x, y : StandIn(x) = StandIn(y) => x = y
  /\ \A x : StandIn(x) # Plain("address") /\ StandIn(x) # Plain("change")
  /\ \A x : StandIn(x).of = {x}
BY DEF StandIn, Plain

LEMMA NoneOrOne == \A x : << >> \in Seq({x}) /\ <<x>> \in Seq({x})
OBVIOUS

(* Which outputs are stand-ins of a code.                                  *)
LEMMA RecipientStandsIn ==
  ASSUME NEW a \in Asks, NEW code \in Codes
  PROVE  Recipient(a).script = StandIn(code) <=> a.to = code
<1>1. Recipient(a).script = IF a.to = Address THEN Plain("address") ELSE StandIn(a.to)
  BY DEF Recipient
<1>2. code # Address
  BY SpendAssumption
<1> QED BY <1>1, <1>2, ScriptsDiffer

(* The codes that are paid: change is one of them when there is a stand-in *)
(* of its code more than the recipient takes.                              *)
LEMMA RecipientsPlain ==
  ASSUME NEW a \in Asks, NEW tx
  PROVE  Recipients(a, tx, {}) = IF a.to = Address THEN << >> ELSE <<a.to>>
<1> DEFINE paid == IF a.to \in Codes THEN <<a.to>> ELSE << >>
<1>1. Recipients(a, tx, {}) = paid \o << >>
  <2>1. {code \in {} : Cardinality(StandIns(tx, code))
                         > Cardinality({k \in DOMAIN paid : paid[k] = code})} = {}
    OBVIOUS
  <2> QED BY <2>1, SequenceOfNone DEF Recipients
<1>2. paid = IF a.to = Address THEN << >> ELSE <<a.to>>
  BY AskTypes, SpendAssumption
<1>3. paid \in Seq({a.to})
  BY NoneOrOne
<1> HIDE DEF paid
<1> QED BY <1>1, <1>2, <1>3, ConcatEmptySeq

(* The codes of a payment whose change goes to a code: that code is        *)
(* claimed for change only when a stand-in is left for it.                 *)
LEMMA RecipientsWithChange ==
  ASSUME NEW a \in Asks, NEW tx, NEW code \in Codes
  PROVE  Recipients(a, tx, {code})
         = (IF a.to = Address THEN << >> ELSE <<a.to>>)
           \o (IF Cardinality(StandIns(tx, code)) > IF a.to = code THEN 1 ELSE 0
               THEN <<code>> ELSE << >>)
<1> DEFINE paid == IF a.to \in Codes THEN <<a.to>> ELSE << >>
           already == {k \in DOMAIN paid : paid[k] = code}
           n == Cardinality(StandIns(tx, code))
           more == {x \in {code} : Cardinality(StandIns(tx, x))
                                     > Cardinality({k \in DOMAIN paid : paid[k] = x})}
<1>1. Recipients(a, tx, {code}) = paid \o SetToSeq(more)
  BY DEF Recipients
<1>2. paid = IF a.to = Address THEN << >> ELSE <<a.to>>
  BY AskTypes, SpendAssumption
<1>3. Cardinality(already) = IF a.to = code THEN 1 ELSE 0
  <2>1. CASE a.to = code
    <3>1. paid = <<code>>
      BY <2>1
    <3>2. already = {1}
      BY <3>1
    <3> HIDE DEF already
    <3> QED BY <2>1, <3>2, FS_Singleton
  <2>2. CASE a.to # code
    <3>1. already = {}
      BY <2>2
    <3> HIDE DEF already
    <3> QED BY <2>2, <3>1, FS_EmptySet
  <2> QED BY <2>1, <2>2
<1>4. more = IF n > Cardinality(already) THEN {code} ELSE {}
  <2>1. code \in more <=> n > Cardinality(already)
    OBVIOUS
  <2>2. more \subseteq {code}
    OBVIOUS
  <2> HIDE DEF more, n, already
  <2> QED BY <2>1, <2>2
<1> HIDE DEF more, already, paid
<1>5. SetToSeq(more) = IF n > IF a.to = code THEN 1 ELSE 0 THEN <<code>> ELSE << >>
  BY <1>3, <1>4, SequenceOfNone, SequenceOfOne
<1> QED BY <1>1, <1>2, <1>5

(* The outputs that create claims for codes are all the stand-ins there    *)
(* are: with ordinary change, ...                                          *)
Standing(tx) == {i \in DOMAIN tx.outs : tx.outs[i].script \in {StandIn(x) : x \in Codes}}

(* In a payment with ordinary change exactly the stand-ins are claimed,    *)
(* ...                                                                     *)
LEMMA ClaimsPlain ==
  ASSUME NEW a \in Asks, NEW tx, NEW sats, NEW C, C = ChangeOut(sats, Plain("change")),
         tx.outs \in {<<Recipient(a)>>, <<Recipient(a), C>>, <<C, Recipient(a)>>}
  PROVE  Resolved(tx, Recipients(a, tx, {})) = Standing(tx)
<1> DEFINE R == Recipient(a)
<1>1. \A code \in Codes : (R.script = StandIn(code) <=> a.to = code) /\ C.script # StandIn(code)
  BY RecipientStandsIn, ScriptsDiffer DEF ChangeOut
<1> HIDE DEF R
<1>2. CASE a.to = Address
  <2>1. Recipients(a, tx, {}) = << >>
    BY <1>2, RecipientsPlain
  <2>2. a.to \notin Codes
    BY <1>2, SpendAssumption
  <2>3. \A i \in DOMAIN tx.outs : tx.outs[i] \in {R, C}
    BY DEF R
  <2>4. Standing(tx) = {}
    BY <1>1, <2>2, <2>3 DEF Standing
  <2> QED BY <2>1, <2>4, ResolvedNone
<1>3. ASSUME a.to # Address PROVE Resolved(tx, Recipients(a, tx, {})) = Standing(tx)
  <2>1. Recipients(a, tx, {}) = <<a.to>>
    BY <1>3, RecipientsPlain
  <2>2. a.to \in Codes
    BY <1>3, AskTypes
  <2>3. R.script = StandIn(a.to)
    BY <1>1, <2>2
  <2>4. PICK i \in 1..2 : /\ i \in DOMAIN tx.outs /\ tx.outs[i] = R
                          /\ \A j \in DOMAIN tx.outs : j # i => tx.outs[j] = C
    <3>1. CASE tx.outs \in {<<R>>, <<R, C>>}
      <4>1. /\ 1 \in DOMAIN tx.outs /\ tx.outs[1] = R
            /\ \A j \in DOMAIN tx.outs : j # 1 => tx.outs[j] = C
        BY <3>1
      <4> QED BY <4>1
    <3>2. CASE tx.outs = <<C, R>>
      <4>1. /\ 2 \in DOMAIN tx.outs /\ tx.outs[2] = R
            /\ \A j \in DOMAIN tx.outs : j # 2 => tx.outs[j] = C
        BY <3>2
      <4> QED BY <4>1
    <3> QED BY <3>1, <3>2 DEF R
  <2>5. StandIns(tx, a.to) = {i}
    BY <1>1, <2>2, <2>3, <2>4 DEF StandIns
  <2>6. Standing(tx) = {i}
    BY <1>1, <2>2, <2>3, <2>4 DEF Standing
  <2>7. i \in Nat
    OBVIOUS
  <2> QED BY <2>1, <2>5, <2>6, <2>7, ResolvedOne
<1> QED BY <1>2, <1>3

(* ... and with change to a code, which may be the recipient's.            *)
LEMMA ClaimsWithChange ==
  ASSUME NEW a \in Asks, NEW code \in Codes, NEW tx, NEW sats,
         NEW C, C = ChangeOut(sats, StandIn(code)),
         tx.outs \in {<<Recipient(a)>>, <<Recipient(a), C>>, <<C, Recipient(a)>>}
  PROVE  Resolved(tx, Recipients(a, tx, {code})) = Standing(tx)
<1> DEFINE R == Recipient(a)
           codes == Recipients(a, tx, {code})
           paid == IF a.to = Address THEN << >> ELSE <<a.to>>
           n == Cardinality(StandIns(tx, code))
<1>1. /\ \A x \in Codes : R.script = StandIn(x) <=> a.to = x
      /\ \A x \in Codes : C.script = StandIn(x) <=> code = x
  BY RecipientStandsIn, ScriptsDiffer DEF ChangeOut
<1>2. a.to = Address \/ a.to \in Codes
  BY AskTypes
<1>3. code # Address
  BY SpendAssumption
<1>4. codes = paid \o (IF n > IF a.to = code THEN 1 ELSE 0 THEN <<code>> ELSE << >>)
  BY RecipientsWithChange
<1>5. tx.outs \in {<<R>>, <<R, C>>, <<C, R>>}
  OBVIOUS
<1>6. paid \in Seq({a.to})
  BY NoneOrOne
<1>7. paid \o << >> = paid
  BY <1>6, ConcatEmptySeq
<1>8. << >> \o <<code>> = <<code>>
  <2>1. <<code>> \in Seq({code})
    OBVIOUS
  <2> QED BY <2>1, ConcatEmptySeq
<1> HIDE DEF R, codes
<1>9. CASE tx.outs = <<R>>
  <2>1. CASE a.to \in Codes
    <3>1. StandIns(tx, a.to) = {1} /\ Standing(tx) = {1}
      BY <1>1, <1>9, <2>1 DEF StandIns, Standing
    <3>2. StandIns(tx, code) = IF a.to = code THEN {1} ELSE {}
      BY <1>1, <1>9, <2>1 DEF StandIns
    <3>3. n = IF a.to = code THEN 1 ELSE 0
      BY <3>2, FS_Singleton, FS_EmptySet
    <3> HIDE DEF n
    <3>4. codes = paid
      BY <1>4, <1>7, <3>3
    <3>5. paid = <<a.to>>
      BY <2>1, SpendAssumption
    <3> QED BY <3>1, <3>4, <3>5, ResolvedOne DEF codes
  <2>2. CASE a.to = Address
    <3>1. StandIns(tx, code) = {} /\ Standing(tx) = {}
      BY <1>1, <1>3, <1>9, <2>2, SpendAssumption DEF StandIns, Standing
    <3>2. n = 0
      BY <3>1, FS_EmptySet
    <3> HIDE DEF n
    <3>3. codes = << >>
      BY <1>3, <1>4, <1>7, <2>2, <3>2
    <3> QED BY <3>1, <3>3, ResolvedNone DEF codes
  <2> QED BY <1>2, <2>1, <2>2
<1>10. CASE tx.outs \in {<<R, C>>, <<C, R>>}
  <2>1. PICK i, j \in 1..2 : /\ i # j /\ DOMAIN tx.outs = {1, 2}
                             /\ tx.outs[i] = R /\ tx.outs[j] = C
    <3>1. CASE tx.outs = <<R, C>>
      <4>1. 1 # 2 /\ DOMAIN tx.outs = {1, 2} /\ tx.outs[1] = R /\ tx.outs[2] = C
        BY <3>1
      <4> QED BY <4>1
    <3>2. CASE tx.outs = <<C, R>>
      <4>1. 2 # 1 /\ DOMAIN tx.outs = {1, 2} /\ tx.outs[2] = R /\ tx.outs[1] = C
        BY <3>2
      <4> QED BY <4>1
    <3> QED BY <1>10, <3>1, <3>2
  <2>2. \A x \in DOMAIN tx.outs : x = i \/ x = j
    BY <2>1
  <2>3. i \in Nat /\ j \in Nat /\ i \in DOMAIN tx.outs /\ j \in DOMAIN tx.outs
    BY <2>1
  <2>4. CASE a.to = code
    <3>1. StandIns(tx, code) = {1, 2} /\ Standing(tx) = {1, 2}
      BY <1>1, <2>1, <2>2, <2>3, <2>4 DEF StandIns, Standing
    <3>2. n = 2
      <4>1. Cardinality({1, 2}) = 2
        <5> DEFINE one == {1}
        <5>1. {1, 2} = one \cup {2} /\ 2 \notin one
          OBVIOUS
        <5>2. IsFiniteSet(one) /\ Cardinality(one) = 1
          BY FS_Singleton
        <5> HIDE DEF one
        <5>3. Cardinality(one \cup {2}) = Cardinality(one) + 1
          BY <5>1, <5>2, FS_AddElement
        <5> QED BY <5>1, <5>2, <5>3
      <4> QED BY <3>1, <4>1
    <3> HIDE DEF n
    <3>3. codes = <<code, code>>
      <4>1. paid = <<code>>
        BY <1>3, <2>4
      <4> HIDE DEF paid
      <4>2. codes = <<code>> \o <<code>>
        BY <1>4, <2>4, <3>2, <4>1
      <4> QED BY <4>2, PairOfTwo
    <3> QED BY <3>1, <3>3, ResolvedSame DEF codes
  <2>5. CASE a.to \in Codes /\ a.to # code
    <3>1. StandIns(tx, a.to) = {i} /\ StandIns(tx, code) = {j} /\ Standing(tx) = {i, j}
      BY <1>1, <2>1, <2>2, <2>3, <2>5 DEF StandIns, Standing
    <3>2. n = 1
      BY <3>1, FS_Singleton
    <3> HIDE DEF n
    <3>3. codes = <<a.to, code>>
      <4>1. paid = <<a.to>>
        BY <2>5, SpendAssumption
      <4> HIDE DEF paid
      <4>2. codes = <<a.to>> \o <<code>>
        BY <1>4, <2>5, <3>2, <4>1
      <4> QED BY <4>2, PairOfTwo
    <3> QED BY <2>1, <2>3, <3>1, <3>3, ResolvedEach DEF codes
  <2>6. CASE a.to = Address
    <3>1. StandIns(tx, code) = {j} /\ Standing(tx) = {j}
      BY <1>1, <1>3, <2>1, <2>2, <2>3, <2>6, SpendAssumption DEF StandIns, Standing
    <3>2. n = 1
      BY <3>1, FS_Singleton
    <3> HIDE DEF n
    <3>3. codes = <<code>>
      <4>1. paid = << >>
        BY <2>6
      <4> HIDE DEF paid
      <4> QED BY <1>3, <1>4, <1>8, <2>6, <3>2, <4>1
    <3> QED BY <2>3, <3>1, <3>3, ResolvedOne DEF codes
  <2> QED BY <1>2, <2>4, <2>5, <2>6
<1> QED BY <1>5, <1>9, <1>10 DEF codes

(* build_v2 on one output.                                                 *)
Labelled(out) ==
  IF out.script \in {StandIn(x) : x \in Codes}
  THEN [out EXCEPT !.info = out.script.of, !.script = Plain("none")]
  ELSE out

LEMMA ScriptTypes ==
  /\ Plain("address") \in Script /\ Plain("change") \in Script /\ Plain("none") \in Script
  /\ \A x \in Codes : StandIn(x) \in Script
  /\ \A x \in Codes : \A k \in Nat : Derived(x, k) \in Script
BY DEF Plain, StandIn, Derived, Script

(* An output of BDK, and what becomes of a stand-in.                       *)
LEMMA StandInLabelled ==
  ASSUME NEW sats, NEW code \in Codes
  PROVE  Labelled(ChangeOut(sats, StandIn(code)))
         = [sats |-> sats, info |-> {code}, script |-> Plain("none")]
<1> DEFINE script == StandIn(code)
           out == [sats |-> sats, info |-> {}, script |-> script]
<1>1. script.of = {code} /\ script \in {StandIn(x) : x \in Codes}
  BY ScriptsDiffer
<1> HIDE DEF script
<1>2. [out EXCEPT !.info = out.script.of, !.script = Plain("none")]
      = [sats |-> sats, info |-> {code}, script |-> Plain("none")]
  <2> DEFINE labelled == [out EXCEPT !.info = out.script.of]
  <2>1. out.script.of = {code}
    BY <1>1
  <2>2. labelled = [sats |-> sats, info |-> {code}, script |-> script]
    BY <2>1
  <2> HIDE DEF labelled
  <2>3. [labelled EXCEPT !.script = Plain("none")]
        = [sats |-> sats, info |-> {code}, script |-> Plain("none")]
    BY <2>2
  <2> QED BY <2>3 DEF labelled
<1>3. Labelled(out) = [out EXCEPT !.info = out.script.of, !.script = Plain("none")]
  BY <1>1 DEF Labelled
<1>4. ChangeOut(sats, script) = out
  BY DEF ChangeOut
<1> QED BY <1>2, <1>3, <1>4 DEF script

(* Claiming outputs does not change their amounts.                         *)
LEMMA SatsLabelled ==
  ASSUME NEW sats, NEW script
  PROVE  Labelled(ChangeOut(sats, script)).sats = sats
<1>1. CASE script \in {StandIn(x) : x \in Codes}
  BY <1>1, StandInLabelled
<1>2. CASE script \notin {StandIn(x) : x \in Codes}
  BY <1>2 DEF Labelled, ChangeOut
<1> QED BY <1>1, <1>2

LEMMA RecipientIs ==
  ASSUME NEW a
  PROVE  Recipient(a) = ChangeOut(a.sats, IF a.to = Address THEN Plain("address")
                                                            ELSE StandIn(a.to))
BY DEF Recipient, ChangeOut

(* The recipient's output once it is claimed.                              *)
LEMMA RecipientLabelled ==
  ASSUME NEW a \in Asks
  PROVE  Labelled(Recipient(a)) \in Out /\ ToRecipient(Labelled(Recipient(a)), a)
<1> DEFINE R == Recipient(a)
<1>1. /\ R = [sats |-> a.sats, info |-> {}, script |-> R.script]
      /\ R.script = IF a.to = Address THEN Plain("address") ELSE StandIn(a.to)
  BY DEF Recipient
<1> HIDE DEF R
<1>2. a.sats \in Nat
  BY AskTypes
<1>3. CASE a.to = Address
  <2>1. R.script = Plain("address")
    BY <1>1, <1>3
  <2>2. Labelled(R) = R
    BY <2>1, ScriptsDiffer DEF Labelled
  <2> QED BY <1>1, <1>2, <1>3, <2>1, <2>2, ScriptTypes DEF Out, ToRecipient, R
<1>4. CASE a.to \in Codes
  <2>1. a.to # Address
    BY <1>4, SpendAssumption
  <2>2. R.script = StandIn(a.to) /\ R.script.of = {a.to}
    BY <1>1, <2>1, ScriptsDiffer
  <2>3. Labelled(R) = [sats |-> a.sats, info |-> {a.to}, script |-> Plain("none")]
    BY <1>4, <2>1, RecipientIs, StandInLabelled DEF R
  <2> QED BY <1>2, <1>4, <2>1, <2>3, ScriptTypes DEF Out, ToRecipient, R
<1> QED BY <1>3, <1>4, AskTypes DEF R

(* The change output once it is claimed.                                   *)
LEMMA ChangeLabelled ==
  ASSUME NEW a \in Asks, NEW sats \in Nat, NEW script,
         \/ a.fromSp /\ \E code \in Devices : script = StandIn(code)
         \/ ~a.fromSp /\ script = Plain("change")
  PROVE  /\ Labelled(ChangeOut(sats, script)) \in Out
         /\ ToChange(Labelled(ChangeOut(sats, script)), a)
<1> DEFINE C == ChangeOut(sats, script)
<1>1. C = [sats |-> sats, info |-> {}, script |-> script]
  BY DEF ChangeOut
<1> HIDE DEF C
<1>2. CASE ~a.fromSp /\ script = Plain("change")
  <2>1. Labelled(C) = C
    BY <1>1, <1>2, ScriptsDiffer DEF Labelled
  <2> QED BY <1>1, <1>2, <2>1, ScriptTypes DEF Out, ToChange, C
<1>3. ASSUME a.fromSp, NEW code \in Devices, script = StandIn(code)
      PROVE  Labelled(C) \in Out /\ ToChange(Labelled(C), a)
  <2>1. code \in Codes
    BY SpendAssumption
  <2>2. script.of = {code}
    BY <1>3, ScriptsDiffer
  <2>3. Labelled(C) = [sats |-> sats, info |-> {code}, script |-> Plain("none")]
    BY <1>3, <2>1, StandInLabelled DEF C
  <2> QED BY <1>3, <2>1, <2>3, ScriptTypes DEF Out, ToChange
<1> QED BY <1>2, <1>3 DEF C

(* The codes change may go to, and the script that BDK builds for it.      *)
ChangeGoes(a, change, script) ==
  \/ a.fromSp /\ \E code \in Devices : change = {code} /\ script = StandIn(code)
  \/ ~a.fromSp /\ change = {} /\ script = Plain("change")

(* What create writes.                                                     *)
Written(a, tx, change) ==
  LET indexes == Resolved(tx, Recipients(a, tx, change))
  IN  [ask |-> a,
       psbt |-> [v2 |-> a.fromSp \/ indexes # {}, tx |-> Claimed(tx, indexes), sigs |-> {}]]

(* Whatever that is is what was asked for.                                 *)
LEMMA WrittenIsAsked ==
  ASSUME NEW a \in Asks, NEW coins \in SUBSET Coins, OfOneKind(coins, a), Covers(a, coins),
         NEW change, NEW script,
         ChangeGoes(a, change, script),
         NEW tx \in Built(a, coins, script)
  PROVE  AskedFor(Written(a, tx, change)) /\ Written(a, tx, change) \in Draft
<1>0. PICK indexes, d :
        /\ indexes = Resolved(tx, Recipients(a, tx, change))
        /\ d = Written(a, tx, change)
        /\ d = [ask |-> a,
                psbt |-> [v2 |-> a.fromSp \/ indexes # {}, tx |-> Claimed(tx, indexes),
                          sigs |-> {}]]
  BY Zenon DEF Written
<1> DEFINE R == Recipient(a)
           u == Claimed(tx, indexes)
<1>1. tx.ins = coins /\ tx.lock = a.lock /\ Priced(tx, a)
  BY BuiltIs
<1>2. PICK sats \in Nat : tx.outs \in {<<R>>, <<R, ChangeOut(sats, script)>>,
                                       <<ChangeOut(sats, script), R>>}
  <2>1. CASE tx.outs = <<R>>
    <3>1. 0 \in Nat /\ tx.outs \in {<<R>>, <<R, ChangeOut(0, script)>>,
                                    <<ChangeOut(0, script), R>>}
      BY <2>1
    <3> QED BY <3>1
  <2>2. ASSUME NEW sats \in Nat, \/ tx.outs = <<R, ChangeOut(sats, script)>>
                                 \/ tx.outs = <<ChangeOut(sats, script), R>>
        PROVE  tx.outs \in {<<R>>, <<R, ChangeOut(sats, script)>>,
                            <<ChangeOut(sats, script), R>>}
    BY <2>2
  <2>3. \/ tx.outs = <<R>>
        \/ \E sats \in Nat : \/ tx.outs = <<R, ChangeOut(sats, script)>>
                             \/ tx.outs = <<ChangeOut(sats, script), R>>
    BY BuiltIs
  <2> HIDE DEF R
  <2> QED BY <2>1, <2>2, <2>3
<1> DEFINE C == ChangeOut(sats, script)
<1>3. indexes = Standing(tx)
  <2>1. CASE ~a.fromSp /\ change = {} /\ script = Plain("change")
    BY <1>0, <1>2, <2>1, ClaimsPlain
  <2>2. ASSUME NEW code \in Devices, change = {code}, script = StandIn(code)
        PROVE  indexes = Standing(tx)
    <3>1. code \in Codes
      BY SpendAssumption
    <3> QED BY <1>0, <1>2, <2>2, <3>1, ClaimsWithChange
  <2> QED BY <2>1, <2>2 DEF ChangeGoes
<1>4. /\ Labelled(R) \in Out /\ ToRecipient(Labelled(R), a)
      /\ Labelled(C) \in Out /\ ToChange(Labelled(C), a)
  BY RecipientLabelled, ChangeLabelled DEF ChangeGoes
<1>5. PICK n \in 1..2, i \in 1..2 :
        /\ i <= n /\ DOMAIN tx.outs = 1..n /\ Len(tx.outs) = n
        /\ tx.outs[i] = R /\ \A j \in 1..n : j # i => tx.outs[j] = C
  <2> HIDE DEF R, C
  <2>1. CASE tx.outs = <<R>>
    <3>1. DOMAIN tx.outs = 1..1 /\ Len(tx.outs) = 1 /\ tx.outs[1] = R
      BY <2>1
    <3> QED BY <3>1
  <2>2. CASE tx.outs = <<R, C>>
    <3>1. DOMAIN tx.outs = 1..2 /\ Len(tx.outs) = 2 /\ tx.outs[1] = R /\ tx.outs[2] = C
      BY <2>2
    <3>2. \A j \in 1..2 : j # 1 => tx.outs[j] = C
      BY <3>1
    <3> QED BY <3>1, <3>2
  <2>3. CASE tx.outs = <<C, R>>
    <3>1. DOMAIN tx.outs = 1..2 /\ Len(tx.outs) = 2 /\ tx.outs[2] = R /\ tx.outs[1] = C
      BY <2>3
    <3>2. \A j \in 1..2 : j # 2 => tx.outs[j] = C
      BY <3>1
    <3> QED BY <3>1, <3>2
  <2>4. tx.outs \in {<<R>>, <<R, C>>, <<C, R>>}
    BY <1>2 DEF C
  <2> QED BY <2>1, <2>2, <2>3, <2>4
<1> HIDE DEF R, C
<1>6. /\ u.ins = coins /\ u.lock = a.lock /\ DOMAIN u = DOMAIN tx
      /\ u.outs = [j \in 1..n |-> Labelled(tx.outs[j])]
  <2>1. tx = [ins |-> tx.ins, outs |-> tx.outs, lock |-> tx.lock]
    BY DEF Built
  <2> DEFINE claimed == [j \in DOMAIN tx.outs |->
                           IF j \in indexes
                           THEN [tx.outs[j] EXCEPT !.info = tx.outs[j].script.of,
                                                   !.script = Plain("none")]
                           ELSE tx.outs[j]]
  <2>2. u = [tx EXCEPT !.outs = claimed]
    BY DEF Claimed
  <2>3. \A j \in 1..n : j \in indexes <=> tx.outs[j].script \in {StandIn(x) : x \in Codes}
    BY <1>3, <1>5 DEF Standing
  <2>4. claimed = [j \in 1..n |-> Labelled(tx.outs[j])]
    <3>1. ASSUME NEW j \in 1..n
          PROVE  (IF j \in indexes
                  THEN [tx.outs[j] EXCEPT !.info = tx.outs[j].script.of,
                                          !.script = Plain("none")]
                  ELSE tx.outs[j]) = Labelled(tx.outs[j])
      BY <2>3, Zenon DEF Labelled
    <3>2. DOMAIN tx.outs = 1..n
      BY <1>5
    <3> QED BY <3>1, <3>2, Zenon
  <2> HIDE DEF u, claimed
  <2>5. /\ DOMAIN u = DOMAIN tx /\ u.outs = claimed
        /\ u.ins = tx.ins /\ u.lock = tx.lock
    BY <2>1, <2>2
  <2> QED BY <1>1, <2>4, <2>5
<1>7. Len(u.outs) = n /\ u.outs \in Seq(Out) /\ DOMAIN u.outs = 1..n
  <2>1. \A j \in 1..n : Labelled(tx.outs[j]) \in Out
    BY <1>4, <1>5
  <2> HIDE DEF u
  <2>2. u.outs \in [1..n -> Out]
    BY <1>6, <2>1
  <2> QED BY <2>2, <1>6
<1>8. /\ ToRecipient(u.outs[i], a)
      /\ \A j \in 1..n : j # i => ToChange(u.outs[j], a)
  <2> HIDE DEF u
  <2> QED BY <1>4, <1>5, <1>6
<1>9. Priced(u, a)
  <2>1. ASSUME NEW j \in 1..n PROVE u.outs[j].sats = tx.outs[j].sats
    <3>1. Labelled(R).sats = R.sats /\ Labelled(C).sats = C.sats
      <4>1. \A s, x : Labelled(ChangeOut(s, x)).sats = ChangeOut(s, x).sats
        BY SatsLabelled DEF ChangeOut
      <4> QED BY <4>1, RecipientIs, Zenon DEF R, C
    <3> HIDE DEF u
    <3>2. u.outs[j] = Labelled(tx.outs[j])
      BY <1>6
    <3>3. tx.outs[j] = R \/ tx.outs[j] = C
      BY <1>5
    <3> QED BY <3>1, <3>2, <3>3
  <2> HIDE DEF u
  <2>2. Sats(u) = Sats(tx)
    BY <1>5, <1>7, <2>1, SatsSame
  <2> QED BY <1>1, <1>6, <2>2 DEF Priced
<1>10. (a.fromSp \/ indexes # {}) = (a.fromSp \/ a.to # Address)
  <2>1. CASE a.fromSp
    BY <2>1, AskTypes
  <2>2. CASE ~a.fromSp
    <3>1. C.script = Plain("change")
      BY <2>2 DEF C, ChangeOut, ChangeGoes
    <3>2. \A j \in 1..n : j # i => j \notin indexes
      BY <1>3, <1>5, <3>1, ScriptsDiffer DEF Standing
    <3>3. i \in indexes <=> a.to # Address
      <4>1. i \in indexes <=> \E x \in Codes : R.script = StandIn(x)
        BY <1>3, <1>5 DEF Standing
      <4>2. (\E x \in Codes : R.script = StandIn(x)) <=> a.to \in Codes
        BY RecipientStandsIn DEF R
      <4> QED BY <4>1, <4>2, AskTypes, SpendAssumption
    <3>4. indexes \subseteq 1..n
      BY <1>3, <1>5 DEF Standing
    <3>5. indexes # {} <=> a.to # Address
      BY <3>2, <3>3, <3>4
    <3> QED BY <2>2, <3>5
  <2> QED BY <2>1, <2>2, AskTypes
<1>11. d.ask = a /\ d.psbt.tx = u /\ d.psbt.v2 = (a.fromSp \/ indexes # {})
  BY <1>0
<1>12. AskedFor(d)
  <2> HIDE DEF u
  <2>1. OfOneKind(u.ins, a)
    BY <1>6
  <2>2. i \in DOMAIN u.outs /\ Len(u.outs) \in 1..2
    BY <1>5, <1>7
  <2>3. \A j \in DOMAIN u.outs \ {i} : ToChange(u.outs[j], a)
    BY <1>7, <1>8
  <2>4. d.psbt.v2 = (a.fromSp \/ a.to # Address)
    BY <1>10, <1>11
  <2>5. u.lock = a.lock /\ d.ask = a /\ d.psbt.tx = u
    BY <1>6, <1>11
  <2> QED BY <1>8, <1>9, <2>1, <2>2, <2>3, <2>4, <2>5, Zenon DEF AskedFor
<1>13. d \in Draft
  <2>1. u \in Tx
    <3>1. u = [ins |-> u.ins, outs |-> u.outs, lock |-> u.lock]
      <4>1. tx = [ins |-> tx.ins, outs |-> tx.outs, lock |-> tx.lock]
        BY DEF Built
      <4>2. \A o : LET v == [tx EXCEPT !.outs = o]
                   IN  v = [ins |-> v.ins, outs |-> v.outs, lock |-> v.lock]
        BY <4>1
      <4> QED BY <4>2, Zenon DEF Claimed
    <3> HIDE DEF u
    <3> QED BY <1>6, <1>7, <3>1, AskTypes DEF Tx
  <2> HIDE DEF u
  <2>2. d = [ask |-> a, psbt |-> [v2 |-> a.fromSp \/ indexes # {}, tx |-> u, sigs |-> {}]]
    BY <1>0, Zenon DEF u
  <2> QED BY <2>1, <2>2 DEF Draft, Psbt
<1> QED BY <1>0, <1>12, <1>13

-----------------------------------------------------------------------------
(* What a device answers.                                                  *)

(* Earlier outputs of a code are counted.                                  *)
LEMMA ExpectedType ==
  ASSUME NEW tx \in Tx, NEW i \in DOMAIN tx.outs
  PROVE  /\ Expected(tx, i) \subseteq Script
         /\ tx.outs[i].info # {} => Expected(tx, i) # {}
<1> DEFINE before == {j \in 1..i-1 : tx.outs[j].info = tx.outs[i].info}
<1>1. i \in Nat /\ tx.outs[i].info \subseteq Codes
  <2>1. tx.outs \in Seq(Out)
    BY DEF Tx
  <2>2. i \in Nat /\ tx.outs[i] \in Out
    BY <2>1
  <2> QED BY <2>2 DEF Out
<1>2. Cardinality(before) \in Nat
  <2>1. IsFiniteSet(1..i-1)
    <3>1. 1 \in Int /\ i-1 \in Int
      BY <1>1
    <3> QED BY <3>1, FS_Interval
  <2> QED BY <2>1, FS_Subset, FS_CardinalityType
<1>3. Expected(tx, i) = {Derived(code, Cardinality(before)) : code \in tx.outs[i].info}
  BY DEF Expected
<1> HIDE DEF before
<1> QED BY <1>1, <1>2, <1>3, ScriptTypes

(* The outputs of a transaction each replaced by another.                  *)
LEMMA OutsReplaced ==
  ASSUME NEW tx \in Tx, NEW outs, DOMAIN outs = DOMAIN tx.outs,
         outs = [i \in DOMAIN tx.outs |-> outs[i]],
         \A i \in DOMAIN tx.outs : outs[i] \in Out
  PROVE  /\ [tx EXCEPT !.outs = outs] \in Tx
         /\ Len(outs) = Len(tx.outs)
<1>1. tx.outs \in Seq(Out)
  BY DEF Tx
<1>2. PICK n \in Nat : n = Len(tx.outs) /\ DOMAIN tx.outs = 1..n
  BY <1>1
<1>3. outs \in [1..n -> Out]
  BY <1>2
<1>4. outs \in Seq(Out) /\ Len(outs) = n
  BY <1>3
<1> QED BY <1>2, <1>4 DEF Tx

FilledOut(tx, i) ==
  IF tx.outs[i].info = {} THEN tx.outs[i]
  ELSE [tx.outs[i] EXCEPT !.script = CHOOSE s \in Expected(tx, i) : TRUE]

LEMMA FilledOutIs ==
  ASSUME NEW tx \in Tx, NEW i \in DOMAIN tx.outs
  PROVE  /\ FilledOut(tx, i) \in Out
         /\ FilledOut(tx, i).sats = tx.outs[i].sats
         /\ FilledOut(tx, i).info = tx.outs[i].info
         /\ tx.outs[i].info = {} => FilledOut(tx, i).script = tx.outs[i].script
         /\ tx.outs[i].info # {} => FilledOut(tx, i).script \in Expected(tx, i)
<1>1. tx.outs[i] \in Out
  BY DEF Tx
<1>2. CASE tx.outs[i].info = {}
  BY <1>1, <1>2 DEF FilledOut
<1>3. CASE tx.outs[i].info # {}
  <2>1. PICK s : s = CHOOSE x \in Expected(tx, i) : TRUE
    OBVIOUS
  <2>2. s \in Expected(tx, i) /\ s \in Script
    BY <1>3, <2>1, ExpectedType
  <2>3. FilledOut(tx, i) = [tx.outs[i] EXCEPT !.script = s]
    BY <1>3, <2>1 DEF FilledOut
  <2> QED BY <1>1, <1>3, <2>2, <2>3 DEF Out
<1> QED BY <1>2, <1>3

(* A transaction with the scripts of codes filled in ...                   *)
LEMMA FilledIs ==
  ASSUME NEW tx \in Tx
  PROVE  /\ Filled(tx) \in Tx /\ Filled(tx).ins = tx.ins /\ Filled(tx).lock = tx.lock
         /\ DOMAIN Filled(tx).outs = DOMAIN tx.outs /\ Len(Filled(tx).outs) = Len(tx.outs)
         /\ \A i \in DOMAIN tx.outs : Filled(tx).outs[i] = FilledOut(tx, i)
<1> DEFINE outs == [i \in DOMAIN tx.outs |-> FilledOut(tx, i)]
<1>1. Filled(tx) = [tx EXCEPT !.outs = outs]
  BY DEF Filled, FilledOut
<1>2. /\ DOMAIN outs = DOMAIN tx.outs /\ outs = [i \in DOMAIN tx.outs |-> outs[i]]
      /\ \A i \in DOMAIN tx.outs : outs[i] = FilledOut(tx, i) /\ outs[i] \in Out
  BY FilledOutIs
<1> HIDE DEF outs
<1>3. [tx EXCEPT !.outs = outs] \in Tx /\ Len(outs) = Len(tx.outs)
  BY <1>2, OutsReplaced
<1>4. /\ [tx EXCEPT !.outs = outs].ins = tx.ins /\ [tx EXCEPT !.outs = outs].lock = tx.lock
      /\ [tx EXCEPT !.outs = outs].outs = outs
  BY DEF Tx
<1> QED BY <1>1, <1>2, <1>3, <1>4

(* ... and one without its codes.                                          *)
LEMMA UnsignedIs ==
  ASSUME NEW tx \in Tx
  PROVE  /\ Unsigned(tx) \in Tx /\ Unsigned(tx).ins = tx.ins /\ Unsigned(tx).lock = tx.lock
         /\ DOMAIN Unsigned(tx).outs = DOMAIN tx.outs
         /\ Len(Unsigned(tx).outs) = Len(tx.outs)
         /\ \A i \in DOMAIN tx.outs : /\ Unsigned(tx).outs[i].sats = tx.outs[i].sats
                                      /\ Unsigned(tx).outs[i].script = tx.outs[i].script
<1> DEFINE outs == [i \in DOMAIN tx.outs |-> [tx.outs[i] EXCEPT !.info = {}]]
<1>1. Unsigned(tx) = [tx EXCEPT !.outs = outs]
  BY DEF Unsigned
<1>2. \A i \in DOMAIN tx.outs : tx.outs[i] \in Out
  BY DEF Tx
<1>3. /\ DOMAIN outs = DOMAIN tx.outs /\ outs = [i \in DOMAIN tx.outs |-> outs[i]]
      /\ \A i \in DOMAIN tx.outs : /\ outs[i] \in Out
                                   /\ outs[i].sats = tx.outs[i].sats
                                   /\ outs[i].script = tx.outs[i].script
  BY <1>2 DEF Out
<1> HIDE DEF outs
<1>4. [tx EXCEPT !.outs = outs] \in Tx /\ Len(outs) = Len(tx.outs)
  BY <1>3, OutsReplaced
<1>5. /\ [tx EXCEPT !.outs = outs].ins = tx.ins /\ [tx EXCEPT !.outs = outs].lock = tx.lock
      /\ [tx EXCEPT !.outs = outs].outs = outs
  BY DEF Tx
<1> QED BY <1>1, <1>3, <1>4, <1>5

(* Answers have their types, the faulty ones too.                          *)
LEMMA SignedType ==
  ASSUME NEW device \in Devices, NEW p \in Psbt, NEW tx \in Tx, NEW coins \in SUBSET Coins
  PROVE  SignedBy(device, p, tx, coins) \in Psbt
<1> DEFINE sigs == {[coin |-> c, key |-> device, over |-> Unsigned(tx)] : c \in coins}
<1>1. Unsigned(tx) \in Tx
  BY UnsignedIs
<1>2. sigs \in SUBSET Sig
  BY <1>1 DEF Sig
<1>3. SignedBy(device, p, tx, coins) = [p EXCEPT !.tx = tx, !.sigs = sigs]
  BY DEF SignedBy
<1> HIDE DEF sigs
<1> QED BY <1>2, <1>3 DEF Psbt

LEMMA ToV0Type ==
  ASSUME NEW p \in Psbt
  PROVE  ToV0(p) \in Psbt /\ Unsigned(p.tx) \in Tx
<1>1. p.tx \in Tx /\ p.sigs \in SUBSET Sig
  BY DEF Psbt
<1>2. Unsigned(p.tx) \in Tx
  BY <1>1, UnsignedIs
<1> QED BY <1>1, <1>2 DEF ToV0, Psbt

LEMMA FaultyType ==
  ASSUME NEW tx \in Tx, Len(tx.outs) >= 1
  PROVE  Faulty(tx) \subseteq Tx
<1>1. PICK t \in Tx : t = Filled(tx) /\ Len(t.outs) >= 1
  BY FilledIs
<1>2. /\ t.ins \subseteq Coins /\ t.outs \in Seq(Out) /\ t.lock \in Nat /\ 1 \in DOMAIN t.outs
      /\ t.outs[1] \in Out /\ t.outs[1].sats \in Nat
  <2>1. t.ins \subseteq Coins /\ t.outs \in Seq(Out) /\ t.lock \in Nat
    BY DEF Tx
  <2>2. 1 \in DOMAIN t.outs /\ t.outs[1] \in Out
    BY <1>1, <2>1
  <2> QED BY <2>1, <2>2 DEF Out
<1>3. [t EXCEPT !.lock = @ + 1] \in Tx /\ [t EXCEPT !.ins = Coins \ @] \in Tx
  <2>1. t.lock + 1 \in Nat /\ Coins \ t.ins \subseteq Coins
    BY <1>2
  <2>2. \A lock \in Nat : [t EXCEPT !.lock = lock] \in Tx
    BY DEF Tx
  <2>3. \A ins \in SUBSET Coins : [t EXCEPT !.ins = ins] \in Tx
    BY DEF Tx
  <2> QED BY <2>1, <2>2, <2>3
<1>4. ASSUME NEW out \in Out PROVE [t EXCEPT !.outs[1] = out] \in Tx
  <2>1. [t.outs EXCEPT ![1] = out] \in Seq(Out)
    BY <1>2
  <2> QED BY <2>1 DEF Tx
<1>5. [t EXCEPT !.outs[1].sats = @ + 1] \in Tx
  <2>1. [t.outs[1] EXCEPT !.sats = @ + 1] \in Out
    <3>1. t.outs[1].sats + 1 \in Nat
      BY <1>2
    <3> QED BY <1>2, <3>1 DEF Out
  <2>2. [t EXCEPT !.outs[1].sats = @ + 1]
        = [t EXCEPT !.outs[1] = [t.outs[1] EXCEPT !.sats = @ + 1]]
    OBVIOUS
  <2> QED BY <1>4, <2>1, <2>2
<1>6. ASSUME NEW s \in Script PROVE [t EXCEPT !.outs[1].script = s] \in Tx
  <2>1. [t.outs[1] EXCEPT !.script = s] \in Out
    BY <1>2 DEF Out
  <2>2. [t EXCEPT !.outs[1].script = s]
        = [t EXCEPT !.outs[1] = [t.outs[1] EXCEPT !.script = s]]
    OBVIOUS
  <2> QED BY <1>4, <2>1, <2>2
<1>7. {Plain("none"), Plain("change")} \cup {Derived(code, 0) : code \in Codes} \subseteq Script
  BY ScriptTypes
<1> QED BY <1>1, <1>3, <1>5, <1>6, <1>7 DEF Faulty

LEMMA AnswerTypes ==
  ASSUME NEW device \in Devices, NEW d \in Draft, Len(d.psbt.tx.outs) >= 1
  PROVE  /\ Honest(device, d) \in Psbt
         /\ Misanswers(device, d) \subseteq Psbt
<1>1. d.psbt \in Psbt /\ d.psbt.tx \in Tx /\ d.psbt.tx.ins \subseteq Coins
  BY DEF Draft, Psbt, Tx
<1> DEFINE tx == Filled(d.psbt.tx)
<1>2. tx \in Tx /\ Len(tx.outs) >= 1
  BY <1>1, FilledIs
<1> HIDE DEF tx
<1>3. Honest(device, d) \in Psbt
  <2>1. Owned(device, d.psbt.tx) \subseteq Coins
    BY <1>1 DEF Owned
  <2> QED BY <1>1, <1>2, <2>1, SignedType DEF Honest, tx
<1>4. Faulty(tx) \subseteq Tx
  BY <1>2, FaultyType
<1>5. \A t \in Tx : SignedBy(device, d.psbt, t, t.ins) \in Psbt
  BY <1>1, SignedType DEF Tx
<1>6. SignedBy(device, d.psbt, tx, {}) \in Psbt
  BY <1>1, <1>2, SignedType
<1>7. ASSUME NEW p \in Misanswers(device, d) PROVE p \in Psbt
  <2>1. p \in {SignedBy(device, d.psbt, t, t.ins) :
                 t \in {tx} \cup IF Owned(device, tx) = {} THEN {} ELSE Faulty(tx)}
             \cup {SignedBy(device, d.psbt, tx, {})}
    BY <1>7 DEF Misanswers, tx
  <2> QED BY <1>2, <1>4, <1>5, <1>6, <2>1
<1> QED BY <1>3, <1>7

(* What select chooses is among the candidates and within the limit.       *)
LEMMA SelectedFits ==
  ASSUME NEW candidates, NEW target, NEW rate, Selected(candidates, target, rate) # {}
  PROVE  /\ Selected(candidates, target, rate) \subseteq candidates
         /\ Cardinality(Selected(candidates, target, rate)) <= MaxInputs
<1>1. PICK n \in Enough(candidates, target, rate) :
        Selected(candidates, target, rate) = Oldest(Worthwhile(candidates, rate), n)
  BY SelectedIsOldest
<1>2. Cardinality(Oldest(Worthwhile(candidates, rate), n)) <= MaxInputs
  BY DEF Enough
<1> QED BY <1>1, <1>2 DEF Oldest, Worthwhile

-----------------------------------------------------------------------------
(* The invariant of a payment: what create wrote is what was asked for,    *)
(* what it is about to write is of one kind, and the BDK wallet knows its  *)
(* coins that are left.                                                    *)
PairedWithOne == paired = {} \/ \E device \in Devices : paired = {device}

SpendInv ==
  /\ SpendTyped
  /\ PairedWithOne
  /\ \A d \in drafts : AskedFor(d)
  /\ \A m \in making : m.ask.fromSp /\ OfOneKind(m.coins, m.ask)
  /\ OwnCoins \ Spent \subseteq known

(* It holds at first ...                                                   *)
LEMMA InitSpend == Init => SpendInv
<1> SUFFICES ASSUME Init PROVE SpendInv
  OBVIOUS
<1>1. DOMAIN rows = {} /\ Cardinality({}) = 0
  BY FS_EmptySet DEF Init
<1>2. SpendTyped
  BY <1>1 DEF Init, SpendTyped, SpCoins
<1> QED BY <1>2 DEF Init, SpendInv, PairedWithOne

(* Paired with no device or with one.                                      *)
LEMMA PairedSize ==
  ASSUME PairedWithOne
  PROVE  paired \subseteq Devices /\ Cardinality(paired) <= 1
<1>1. CASE paired = {}
  <2>1. Cardinality({}) = 0
    BY FS_EmptySet
  <2> QED BY <1>1, <2>1
<1>2. ASSUME NEW device \in Devices, paired = {device}
      PROVE  paired \subseteq Devices /\ Cardinality(paired) <= 1
  <2>1. Cardinality({device}) = 1
    BY FS_Singleton
  <2> QED BY <1>2, <2>1
<1> QED BY <1>1, <1>2 DEF PairedWithOne

(* ... and stays when something happens to the coins or the store, ...     *)
LEMMA WorldKeeps ==
  ASSUME SpendInv, World
  PROVE  SpendInv'
<1> USE DEF store, files, network
<1>1. drafts' = drafts /\ making' = making /\ answers' = answers /\ handed' = handed
  BY DEF World, Pair, Arrive, Find, See, Drop, Unmine, SpendElsewhere, Sync
<1>2. (\A d \in drafts' : AskedFor(d)) /\ \A m \in making' : m.ask.fromSp /\ OfOneKind(m.coins, m.ask)
  BY <1>1 DEF SpendInv
<1>3. PairedWithOne'
  <2>1. CASE UNCHANGED paired
    BY <2>1 DEF SpendInv, PairedWithOne
  <2>2. ASSUME NEW device \in Devices, Pair(device) PROVE PairedWithOne'
    BY <2>2 DEF Pair, PairedWithOne
  <2> QED BY <2>1, <2>2 DEF World, Arrive, Find, See, Drop, Unmine, SpendElsewhere, Sync
<1>4. (OwnCoins \ Spent \subseteq known)' /\ (known \subseteq OwnCoins)'
  <2>1. net' = net /\ gone \subseteq gone'
    BY DEF World, Pair, Arrive, Find, See, Drop, Unmine, SpendElsewhere, Sync
  <2>2. Spent \subseteq Spent'
    BY <2>1 DEF Spent
  <2>3. CASE UNCHANGED known
    BY <2>2, <2>3 DEF SpendInv, SpendTyped
  <2>4. CASE Sync
    BY <2>4 DEF Sync, Spent
  <2> QED BY <2>3, <2>4 DEF World, Pair, Arrive, Find, See, Drop, Unmine, SpendElsewhere
<1>5. (DOMAIN rows \subseteq SpCoins)' /\ (\A c \in DOMAIN rows : rows[c] \in {"mined", "unconfirmed"})'
  <2>1. CASE UNCHANGED rows
    BY <2>1 DEF SpendInv, SpendTyped
  <2>2. ASSUME NEW c \in SpCoins, Find(c) \/ See(c) \/ Drop(c)
        PROVE  /\ DOMAIN rows' \subseteq SpCoins
               /\ \A e \in DOMAIN rows' : rows'[e] \in {"mined", "unconfirmed"}
    BY <2>2 DEF Find, See, Drop, SpendInv, SpendTyped
  <2> QED BY <2>1, <2>2 DEF World, Pair, Arrive, Unmine, SpendElsewhere, Sync
<1>6. (mined \subseteq SpCoins /\ gone \subseteq Coins /\ net \subseteq Tx)'
  BY DEF World, Pair, Arrive, Find, See, Drop, Unmine, SpendElsewhere, Sync, SpendInv, SpendTyped
<1>7. (paired \subseteq Devices /\ Cardinality(paired) <= 1)'
  BY <1>3, PairedSize, PTL
<1>8. SpendTyped'
  BY <1>1, <1>4, <1>5, <1>6, <1>7 DEF SpendInv, SpendTyped
<1> QED BY <1>2, <1>3, <1>4, <1>8 DEF SpendInv

(* What create and the device do leaves the wallet and the network alone.  *)
LEMMA FilesOnly ==
  ASSUME SpendInv, UNCHANGED <<store, network>>,
         \A m \in making' : m.ask \in Asks /\ m.coins \in (SUBSET SpCoins) \ {{}},
         \A m \in making' : m.ask.fromSp /\ OfOneKind(m.coins, m.ask),
         drafts' \subseteq Draft, \A d \in drafts' : AskedFor(d),
         answers' \cup handed' \subseteq Psbt
  PROVE  SpendInv'
BY DEF SpendInv, SpendTyped, PairedWithOne, store, network, Spent

(* ... when create chooses silent payments, ...                            *)
LEMMA PrepareKeeps ==
  ASSUME SpendInv, NEW a \in Asks, Prepare(a)
  PROVE  SpendInv'
<1> DEFINE coins == Selected(Unspent, a.sats, a.rate)
           m == [ask |-> a, coins |-> coins]
<1>1. /\ coins # {} /\ making' = {m} /\ a.fromSp
      /\ UNCHANGED <<store, drafts, answers, handed, network, events>>
  BY DEF Prepare
<1>2. coins \subseteq Unspent /\ Cardinality(coins) <= MaxInputs
  BY <1>1, SelectedFits
<1> HIDE DEF coins
<1>3. coins \subseteq Candidates /\ coins \subseteq SpCoins
  BY <1>2 DEF Unspent, SpendInv, SpendTyped, Candidates
<1>4. \A c, e \in coins : KeyOf[c] = KeyOf[e]
  <2>1. \A c \in coins : paired = {KeyOf[c]}
    BY <1>3 DEF Prepare, Checked
  <2> QED BY <2>1
<1>5. OfOneKind(coins, a)
  BY <1>1, <1>2, <1>3, <1>4 DEF OfOneKind
<1>6. m.ask = a /\ m.coins = coins
  OBVIOUS
<1> HIDE DEF m
<1>7. /\ \A x \in making' : x.ask \in Asks /\ x.coins \in (SUBSET SpCoins) \ {{}}
      /\ \A x \in making' : x.ask.fromSp /\ OfOneKind(x.coins, x.ask)
  <2>1. \A x \in making' : x.ask = a /\ x.coins = coins
    BY <1>1, <1>6
  <2>2. coins \in (SUBSET SpCoins) \ {{}}
    BY <1>1, <1>3
  <2> QED BY <1>1, <1>5, <2>1, <2>2
<1> QED BY <1>1, <1>7, FilesOnly DEF SpendInv, SpendTyped

(* ... when a PSBT is written ...                                          *)
LEMMA WriteKeeps ==
  ASSUME SpendInv, NEW a \in Asks, NEW coins \in SUBSET Coins, OfOneKind(coins, a),
         Covers(a, coins), NEW change, NEW script,
         ChangeGoes(a, change, script),
         NEW tx \in Built(a, coins, script), Write(a, tx, change)
  PROVE  drafts' \subseteq Draft /\ \A d \in drafts' : AskedFor(d)
<1>1. drafts' = drafts \cup {Written(a, tx, change)}
  BY Zenon DEF Write, Written
<1>2. AskedFor(Written(a, tx, change)) /\ Written(a, tx, change) \in Draft
  BY WrittenIsAsked, Zenon
<1> QED BY <1>1, <1>2 DEF SpendInv, SpendTyped

(* ... that spends silent payments ...                                     *)
LEMMA CreateFromSpKeeps ==
  ASSUME SpendInv, CreateFromSp
  PROVE  SpendInv'
<1>1. PICK m \in making : Covers(m.ask, m.coins) /\ \E code \in OwnSpAddress :
        \E tx \in Built(m.ask, m.coins, StandIn(code)) : Write(m.ask, tx, OwnSpAddress)
  BY DEF CreateFromSp
<1>2. PICK code \in OwnSpAddress : \E tx \in Built(m.ask, m.coins, StandIn(code)) :
        Write(m.ask, tx, OwnSpAddress)
  BY <1>1
<1>3. PICK tx \in Built(m.ask, m.coins, StandIn(code)) : Write(m.ask, tx, OwnSpAddress)
  BY <1>2
<1>4. making' = {} /\ UNCHANGED <<store, answers, handed, network, events>>
  BY DEF CreateFromSp
<1>5. code \in Devices /\ OwnSpAddress = {code}
  BY DEF OwnSpAddress, SpendInv, PairedWithOne
<1>6. /\ m.ask \in Asks /\ m.coins \in SUBSET Coins /\ m.ask.fromSp
      /\ OfOneKind(m.coins, m.ask)
  BY DEF SpendInv, SpendTyped, SpCoins
<1>7. PICK a \in Asks, coins \in SUBSET Coins : a = m.ask /\ coins = m.coins
  BY <1>6
<1>8. drafts' \subseteq Draft /\ \A d \in drafts' : AskedFor(d)
  <2>1. ChangeGoes(a, OwnSpAddress, StandIn(code))
    BY <1>5, <1>6, <1>7 DEF ChangeGoes
  <2>2. OfOneKind(coins, a) /\ Covers(a, coins)
    BY <1>1, <1>6, <1>7
  <2>3. tx \in Built(a, coins, StandIn(code)) /\ Write(a, tx, OwnSpAddress)
    BY <1>3, <1>7
  <2> QED BY <2>1, <2>2, <2>3, WriteKeeps, Zenon
<1> QED BY <1>4, <1>8, FilesOnly DEF SpendInv, SpendTyped

(* ... or coins of the BDK wallet, ...                                     *)
LEMMA CreateKeeps ==
  ASSUME SpendInv, NEW a \in Asks, Create(a)
  PROVE  SpendInv'
<1>1. ~a.fromSp /\ UNCHANGED <<store, making, answers, handed, network, events>>
  BY DEF Create
<1>2. PICK coins \in SUBSET known :
        /\ Cardinality(coins) <= MaxInputs /\ Covers(a, coins)
        /\ \E tx \in Built(a, coins, Plain("change")) : Write(a, tx, {})
  BY DEF Create
<1>3. PICK tx \in Built(a, coins, Plain("change")) : Write(a, tx, {})
  BY <1>2
<1>4. coins \subseteq OwnCoins /\ coins \in SUBSET Coins
  BY SpendAssumption DEF SpendInv, SpendTyped
<1>5. coins # {}
  <2>1. Charged(a, coins) \in Nat /\ a.sats \in Nat /\ a.sats > 0
    BY <1>4, ChargedType, AskTypes
  <2>2. Total(coins) >= a.sats + Charged(a, coins)
    BY <1>2 DEF Covers
  <2>3. Total(coins) # 0
    BY <2>1, <2>2
  <2> QED BY <2>3, NothingIsWorth
<1>6. OfOneKind(coins, a)
  BY <1>1, <1>2, <1>4, <1>5, SpendAssumption DEF OfOneKind
<1>7. drafts' \subseteq Draft /\ \A d \in drafts' : AskedFor(d)
  <2>1. ChangeGoes(a, {}, Plain("change"))
    BY <1>1 DEF ChangeGoes
  <2> QED BY <1>2, <1>3, <1>4, <1>6, <2>1, WriteKeeps, Zenon
<1> QED BY <1>1, <1>7, FilesOnly DEF SpendInv, SpendTyped

(* ... whatever a device answers, ...                                      *)
LEMMA AnswerKeeps ==
  ASSUME SpendInv, NEW device \in Devices, NEW d \in drafts,
         Answer(device, d) \/ WrongAnswer(device, d)
  PROVE  SpendInv'
<1>1. UNCHANGED <<store, making, drafts, handed, network, events>>
  BY DEF Answer, WrongAnswer
<1>2. d \in Draft /\ Len(d.psbt.tx.outs) \in 1..2
  BY DEF SpendInv, SpendTyped, AskedFor
<1>3. Honest(device, d) \in Psbt /\ Misanswers(device, d) \subseteq Psbt
  <2>1. Len(d.psbt.tx.outs) >= 1
    <3>1. \A n \in 1..2 : n >= 1
      OBVIOUS
    <3> QED BY <1>2, <3>1, Zenon
  <2> QED BY <1>2, <2>1, AnswerTypes, Zenon
<1>4. answers' \subseteq Psbt
  BY <1>3 DEF Answer, WrongAnswer, SpendInv, SpendTyped
<1> QED BY <1>1, <1>4, FilesOnly DEF SpendInv, SpendTyped

(* ... and when a transaction is handed to the network.                    *)
LEMMA BroadcastKeeps ==
  ASSUME SpendInv, NEW d \in drafts, NEW p \in answers, Broadcast(d, p)
  PROVE  SpendInv'
<1>1. UNCHANGED <<store, making, drafts, answers, mined, gone, events>>
  BY DEF Broadcast
<1>2. p \in Psbt
  BY DEF SpendInv, SpendTyped
<1>3. handed' \subseteq Psbt /\ net' \subseteq Tx /\ net \subseteq net'
  BY <1>2, ToV0Type DEF Broadcast, SpendInv, SpendTyped
<1>4. Spent \subseteq Spent'
  BY <1>1, <1>3 DEF Spent
<1> QED BY <1>1, <1>3, <1>4 DEF SpendInv, SpendTyped, PairedWithOne, store

LEMMA SpendSteps == SpendInv /\ [Next]_vars => SpendInv'
<1> SUFFICES ASSUME SpendInv, [Next]_vars PROVE SpendInv'
  OBVIOUS
<1>1. CASE World
  BY <1>1, WorldKeeps
<1>2. ASSUME NEW a \in Asks, Prepare(a) \/ Create(a) PROVE SpendInv'
  BY <1>2, PrepareKeeps, CreateKeeps
<1>3. CASE CreateFromSp
  BY <1>3, CreateFromSpKeeps
<1>4. CASE CreateFails
  BY <1>4, FilesOnly DEF CreateFails, SpendInv, SpendTyped
<1>5. ASSUME NEW device \in Devices, NEW d \in drafts, Answer(device, d) \/ WrongAnswer(device, d)
      PROVE  SpendInv'
  BY <1>5, AnswerKeeps
<1>6. ASSUME NEW d \in drafts, NEW p \in answers, Broadcast(d, p) PROVE SpendInv'
  BY <1>6, BroadcastKeeps
<1>7. CASE UNCHANGED vars
  BY <1>7, FilesOnly DEF vars, files, SpendInv, SpendTyped
<1> QED BY <1>1, <1>2, <1>3, <1>4, <1>5, <1>6, <1>7 DEF Next

LEMMA SpendStaysGood == Spec => []SpendInv
BY InitSpend, SpendSteps, PTL DEF Spec

(* The store, the files and the network have their types, whatever a       *)
(* device answers.                                                         *)
THEOREM SpendTypeCorrect == Spec => []SpendTyped
<1>1. SpendInv => SpendTyped
  BY DEF SpendInv
<1> QED BY <1>1, SpendStaysGood, PTL

-----------------------------------------------------------------------------
(* What broadcast accepts.                                                 *)

LEMMA DerivedDiffer ==
  /\ \A x, y, k, l : Derived(x, k) = Derived(y, l) => x = y /\ k = l
  /\ \A x, k : Derived(x, k) # Plain("address") /\ Derived(x, k) # Plain("change")
  /\ Plain("address") # Plain("change")
BY DEF Derived, Plain

(* The script of one code among two outputs.                               *)
InPlace(tx, i, code, script) ==
  /\ i \in 1..2
  /\ i = 1 => script = Derived(code, 0)
  /\ i = 2 => script = Derived(code, IF tx.outs[1].info = {code} THEN 1 ELSE 0)

LEMMA ExpectedPlace ==
  ASSUME NEW tx \in Tx, Len(tx.outs) \in 1..2, NEW i \in DOMAIN tx.outs, NEW code,
         tx.outs[i].info = {code}, NEW script \in Expected(tx, i)
  PROVE  InPlace(tx, i, code, script)
<1> DEFINE before == {j \in 1..i-1 : tx.outs[j].info = tx.outs[i].info}
<1>1. i \in 1..2
  BY DEF Tx
<1>2. script = Derived(code, Cardinality(before))
  BY DEF Expected
<1>3. CASE i = 1
  <2>1. before = {}
    BY <1>3
  <2>2. Cardinality(before) = 0
    BY <2>1, FS_EmptySet
  <2> HIDE DEF before
  <2>3. script = Derived(code, 0)
    BY <1>2, <2>2
  <2> QED BY <1>1, <1>3, <2>3 DEF InPlace
<1>4. CASE i = 2
  <2>1. before = IF tx.outs[1].info = {code} THEN {1} ELSE {}
    <3>1. \A j \in 1..i-1 : j = 1
      BY <1>4
    <3>2. 1 \in 1..i-1
      BY <1>4
    <3> QED BY <3>1, <3>2
  <2> HIDE DEF before
  <2>2. Cardinality(before) = IF tx.outs[1].info = {code} THEN 1 ELSE 0
    BY <2>1, FS_EmptySet, FS_Singleton
  <2>3. script = Derived(code, IF tx.outs[1].info = {code} THEN 1 ELSE 0)
    BY <1>2, <2>2
  <2> QED BY <1>1, <1>4, <2>3 DEF InPlace
<1> QED BY <1>1, <1>3, <1>4

(* An answer that is accepted differs from the PSBT in the scripts of      *)
(* codes only.                                                             *)
Answering(tx, s) ==
  /\ s.ins = tx.ins /\ s.lock = tx.lock /\ DOMAIN s.outs = DOMAIN tx.outs
  /\ \A i \in DOMAIN tx.outs :
       /\ s.outs[i].sats = tx.outs[i].sats /\ s.outs[i].info = tx.outs[i].info
       /\ tx.outs[i].info = {} => s.outs[i].script = tx.outs[i].script
       /\ tx.outs[i].info # {} => s.outs[i].script \in Expected(s, i)

LEMMA MatchesAnswers ==
  ASSUME NEW d, AskedFor(d), NEW p, Matches(d.psbt, p)
  PROVE  Answering(d.psbt.tx, p.tx)
<1> DEFINE a == d.ask
           tx == d.psbt.tx
<1>1. PICK i \in DOMAIN tx.outs :
        /\ ToRecipient(tx.outs[i], a)
        /\ \A j \in DOMAIN tx.outs \ {i} : ToChange(tx.outs[j], a)
  BY DEF AskedFor
<1>2. d.psbt.v2 = (a.fromSp \/ a.to # Address)
  BY DEF AskedFor
<1>3. CASE p.v2
  BY <1>3 DEF Matches, Verified, SameTransaction, Answering
<1>4. CASE ~p.v2
  <2>1. p.tx = tx /\ ~a.fromSp /\ a.to = Address
    BY <1>2, <1>4 DEF Matches
  <2>2. \A j \in DOMAIN tx.outs : tx.outs[j].info = {}
    BY <1>1, <2>1 DEF ToRecipient, ToChange
  <2> QED BY <2>1, <2>2 DEF Answering
<1> QED BY <1>3, <1>4

(* No two outputs of an answer have one script: the device counts the      *)
(* outputs of a code.                                                      *)
LEMMA AnswerPays ==
  ASSUME NEW a \in Asks, NEW tx, NEW s \in Tx, Answering(tx, s), Len(s.outs) \in 1..2,
         NEW i \in DOMAIN s.outs, ToRecipient(tx.outs[i], a),
         \A j \in DOMAIN s.outs \ {i} : ToChange(tx.outs[j], a)
  PROVE  /\ s.outs[i].sats = a.sats /\ Pays(s.outs[i], a.to)
         /\ \A j \in DOMAIN s.outs \ {i} :
              Change(s.outs[j], a) /\ s.outs[j].script # s.outs[i].script
<1>1. DOMAIN s.outs \subseteq 1..2 /\ i \in 1..2 /\ DOMAIN tx.outs = DOMAIN s.outs
  BY DEF Tx, Answering
<1>2. s.outs[i].sats = a.sats
  BY <1>1 DEF Answering, ToRecipient
<1>3. CASE a.to = Address
  <2>1. s.outs[i].script = Plain("address")
    BY <1>1, <1>3 DEF Answering, ToRecipient
  <2>2. ASSUME NEW j \in DOMAIN s.outs \ {i}
        PROVE  Change(s.outs[j], a) /\ s.outs[j].script # Plain("address")
    <3>1. CASE ~a.fromSp
      <4>1. s.outs[j].script = Plain("change")
        BY <1>1, <3>1 DEF Answering, ToChange
      <4> QED BY <3>1, <4>1, DerivedDiffer DEF Change
    <3>2. CASE a.fromSp
      <4>1. PICK device \in Devices : tx.outs[j].info = {device}
        BY <3>2 DEF ToChange
      <4>2. s.outs[j].info = {device} /\ s.outs[j].script \in Expected(s, j)
        BY <1>1, <4>1 DEF Answering
      <4>3. \E k \in 0..1 : s.outs[j].script = Derived(device, k)
        <5>1. InPlace(s, j, device, s.outs[j].script)
          BY <4>2, ExpectedPlace, Zenon
        <5> QED BY <5>1 DEF InPlace
      <4>4. device \in Codes
        BY SpendAssumption
      <4> QED BY <3>2, <4>3, <4>4, DerivedDiffer DEF Change, Pays
    <3> QED BY <3>1, <3>2
  <2> QED BY <1>2, <1>3, <2>1, <2>2 DEF Pays
<1>4. CASE a.to \in Codes
  <2>1. a.to # Address
    BY <1>4, SpendAssumption
  <2>2. s.outs[i].info = {a.to} /\ s.outs[i].script \in Expected(s, i)
    BY <1>1, <2>1 DEF Answering, ToRecipient
  <2>3. /\ i = 1 => s.outs[i].script = Derived(a.to, 0)
        /\ i = 2 => s.outs[i].script
                      = Derived(a.to, IF s.outs[1].info = {a.to} THEN 1 ELSE 0)
    <3>1. InPlace(s, i, a.to, s.outs[i].script)
      BY <2>2, ExpectedPlace, Zenon
    <3> QED BY <3>1 DEF InPlace
  <2>4. \E k \in 0..1 : s.outs[i].script = Derived(a.to, k)
    BY <1>1, <2>3
  <2>5. ASSUME NEW j \in DOMAIN s.outs \ {i}
        PROVE  Change(s.outs[j], a) /\ s.outs[j].script # s.outs[i].script
    <3>1. CASE ~a.fromSp
      <4>1. s.outs[j].script = Plain("change")
        BY <1>1, <3>1 DEF Answering, ToChange
      <4> QED BY <2>4, <3>1, <4>1, DerivedDiffer DEF Change
    <3>2. CASE a.fromSp
      <4>1. PICK device \in Devices : tx.outs[j].info = {device}
        BY <3>2 DEF ToChange
      <4>2. s.outs[j].info = {device} /\ s.outs[j].script \in Expected(s, j)
        BY <1>1, <4>1 DEF Answering
      <4>3. /\ j \in 1..2
            /\ j = 1 => s.outs[j].script = Derived(device, 0)
            /\ j = 2 => s.outs[j].script
                          = Derived(device, IF s.outs[1].info = {device} THEN 1 ELSE 0)
        <5>1. InPlace(s, j, device, s.outs[j].script)
          BY <4>2, ExpectedPlace, Zenon
        <5> QED BY <5>1 DEF InPlace
      <4>4. device \in Codes
        BY SpendAssumption
      <4>5. Change(s.outs[j], a)
        <5>1. \E k \in 0..1 : s.outs[j].script = Derived(device, k)
          BY <4>3
        <5> QED BY <3>2, <4>4, <5>1 DEF Change, Pays
      <4>6. CASE device # a.to
        BY <2>4, <4>3, <4>5, <4>6, DerivedDiffer
      <4>7. CASE device = a.to
        <5>1. (i = 1 /\ j = 2) \/ (i = 2 /\ j = 1)
          BY <1>1, <4>3
        <5>2. \/ /\ s.outs[i].script = Derived(a.to, 0)
                 /\ s.outs[j].script = Derived(a.to, 1)
              \/ /\ s.outs[i].script = Derived(a.to, 1)
                 /\ s.outs[j].script = Derived(a.to, 0)
          BY <2>2, <2>3, <4>2, <4>3, <4>7, <5>1
        <5>3. Derived(a.to, 0) # Derived(a.to, 1)
          BY DerivedDiffer
        <5> QED BY <4>5, <5>2, <5>3
      <4> QED BY <4>6, <4>7
    <3> QED BY <3>1, <3>2
  <2> QED BY <1>2, <1>4, <2>4, <2>5 DEF Pays
<1> QED BY <1>3, <1>4, AskTypes

(* So what is handed over is what was asked for.                           *)
LEMMA AcceptedFulfils ==
  ASSUME NEW d \in Draft, AskedFor(d), NEW p \in Psbt, Matches(d.psbt, p)
  PROVE  Fulfils(ToV0(p).tx, d.ask)
<1> DEFINE a == d.ask
           tx == d.psbt.tx
           s == p.tx
           u == Unsigned(s)
<1>1. a \in Asks /\ tx \in Tx /\ s \in Tx
  BY DEF Draft, Psbt
<1>2. Answering(tx, s)
  BY MatchesAnswers
<1>3. ToV0(p).tx = u
  BY DEF ToV0
<1>4. PICK i \in DOMAIN tx.outs :
        /\ ToRecipient(tx.outs[i], a)
        /\ \A j \in DOMAIN tx.outs \ {i} : ToChange(tx.outs[j], a)
  BY DEF AskedFor
<1>5. OfOneKind(tx.ins, a) /\ tx.lock = a.lock /\ Len(tx.outs) \in 1..2 /\ Priced(tx, a)
  BY DEF AskedFor
<1>15. Len(tx.outs) <= 2
  <2>1. \A n \in 1..2 : n <= 2
    OBVIOUS
  <2>2. Len(tx.outs) \in 1..2
    BY <1>5
  <2> QED BY <2>1, <2>2, Zenon
<1> HIDE DEF a, tx, s, u
<1>6. /\ DOMAIN s.outs = DOMAIN tx.outs /\ Len(s.outs) = Len(tx.outs)
      /\ DOMAIN tx.outs = 1..Len(tx.outs)
  BY <1>1, <1>2 DEF Tx, Answering
<1>7. /\ u \in Tx /\ u.ins = s.ins /\ u.lock = s.lock
      /\ DOMAIN u.outs = DOMAIN s.outs /\ Len(u.outs) = Len(s.outs)
      /\ \A j \in DOMAIN s.outs : /\ u.outs[j].sats = s.outs[j].sats
                                  /\ u.outs[j].script = s.outs[j].script
  BY <1>1, UnsignedIs DEF u
<1>8. /\ s.outs[i].sats = a.sats /\ Pays(s.outs[i], a.to)
      /\ \A j \in DOMAIN s.outs \ {i} :
           Change(s.outs[j], a) /\ s.outs[j].script # s.outs[i].script
  BY <1>1, <1>2, <1>4, <1>5, <1>6, AnswerPays
<1>9. /\ u.outs[i].sats = a.sats /\ Pays(u.outs[i], a.to)
      /\ \A j \in DOMAIN u.outs \ {i} :
           Change(u.outs[j], a) /\ u.outs[j].script # u.outs[i].script
  BY <1>4, <1>6, <1>7, <1>8 DEF Pays, Change
<1>10. Sats(u) = Sats(tx)
  <2>1. Len(tx.outs) \in Nat /\ Len(u.outs) = Len(tx.outs)
    BY <1>5, <1>6, <1>7
  <2>2. \A j \in 1..Len(tx.outs) : u.outs[j].sats = tx.outs[j].sats
    BY <1>2, <1>6, <1>7 DEF Answering
  <2> QED BY <2>1, <2>2, SatsSame, Zenon
<1>11. u.ins = tx.ins /\ u.lock = a.lock
  BY <1>2, <1>5, <1>7 DEF Answering
<1>12. Priced(u, a)
  BY <1>5, <1>10, <1>11 DEF Priced
<1>13. i \in DOMAIN u.outs /\ Len(u.outs) <= 2
  <2>1. i \in DOMAIN u.outs
    BY <1>4, <1>6, <1>7, Zenon
  <2>2. Len(u.outs) = Len(tx.outs)
    BY <1>6, <1>7
  <2> QED BY <1>15, <2>1, <2>2
<1>14. Fulfils(u, a)
  BY <1>5, <1>9, <1>11, <1>12, <1>13 DEF Fulfils, Priced, OfOneKind
<1> QED BY <1>3, <1>14 DEF a

(* Whatever the device answers, what is handed to the network is what was  *)
(* asked for: broadcast compares all that a PSBT said with the answer, and *)
(* derives the scripts of codes itself.                                    *)
THEOREM AskedIsPaid == Spec => []PaidAsAsked
<1>1. Init => PaidAsAsked
  BY DEF Init, PaidAsAsked
<1>2. SpendInv /\ PaidAsAsked /\ [Next]_vars => PaidAsAsked'
  <2> SUFFICES ASSUME SpendInv, PaidAsAsked, [Next]_vars PROVE PaidAsAsked'
    OBVIOUS
  <2>1. ASSUME NEW d \in drafts, NEW p \in answers, Broadcast(d, p)
        PROVE  PaidAsAsked'
    <3>1. d \in Draft /\ AskedFor(d) /\ p \in Psbt /\ Matches(d.psbt, p)
      BY <2>1 DEF SpendInv, SpendTyped, Broadcast, Accepted
    <3>2. Fulfils(ToV0(p).tx, d.ask)
      BY <3>1, AcceptedFulfils
    <3>3. handed' = handed \cup {ToV0(p)} /\ drafts' = drafts
      BY <2>1 DEF Broadcast
    <3> QED BY <3>2, <3>3 DEF PaidAsAsked
  <2>2. ASSUME UNCHANGED handed, drafts \subseteq drafts' PROVE PaidAsAsked'
    BY <2>2 DEF PaidAsAsked
  <2>3. CASE World \/ UNCHANGED vars
    BY <2>2, <2>3 DEF World, Pair, Arrive, Find, See, Drop, Unmine, SpendElsewhere,
                      Sync, files, vars
  <2>4. ASSUME NEW a \in Asks, Prepare(a) \/ Create(a) PROVE PaidAsAsked'
    BY <2>2, <2>4 DEF Prepare, Create, Write
  <2>5. CASE CreateFromSp \/ CreateFails
    BY <2>2, <2>5 DEF CreateFromSp, CreateFails, Write
  <2>6. CASE \E device \in Devices, d \in drafts : Answer(device, d) \/ WrongAnswer(device, d)
    BY <2>2, <2>6 DEF Answer, WrongAnswer
  <2> QED BY <2>1, <2>3, <2>4, <2>5, <2>6 DEF Next
<1> QED BY <1>1, <1>2, SpendStaysGood, PTL DEF Spec

-----------------------------------------------------------------------------
(* What the device that owns the coins answers.                            *)

(* What an output must pay depends on the codes of the outputs only.       *)
LEMMA ExpectedSame ==
  ASSUME NEW tx \in Tx, NEW t \in Tx, DOMAIN t.outs = DOMAIN tx.outs,
         \A j \in DOMAIN tx.outs : t.outs[j].info = tx.outs[j].info,
         NEW i \in DOMAIN tx.outs
  PROVE  Expected(t, i) = Expected(tx, i)
<1>1. \A j \in 1..i-1 : j \in DOMAIN tx.outs
  BY DEF Tx
<1>2. {j \in 1..i-1 : t.outs[j].info = t.outs[i].info}
      = {j \in 1..i-1 : tx.outs[j].info = tx.outs[i].info}
  BY <1>1
<1>3. t.outs[i].info = tx.outs[i].info
  OBVIOUS
<1> QED BY <1>2, <1>3, Zenon DEF Expected

(* Filling in the scripts of codes is all that verify lets a device do ... *)
LEMMA FilledVerifies ==
  ASSUME NEW tx \in Tx
  PROVE  Verified(tx, Filled(tx))
<1>1. PICK t \in Tx : /\ t = Filled(tx) /\ t.ins = tx.ins /\ t.lock = tx.lock
                      /\ DOMAIN t.outs = DOMAIN tx.outs
                      /\ \A i \in DOMAIN tx.outs : t.outs[i] = FilledOut(tx, i)
  BY FilledIs
<1>2. \A i \in DOMAIN tx.outs :
        /\ t.outs[i].sats = tx.outs[i].sats
        /\ t.outs[i].info = tx.outs[i].info
        /\ tx.outs[i].info = {} => t.outs[i].script = tx.outs[i].script
        /\ tx.outs[i].info # {} => t.outs[i].script \in Expected(tx, i)
  BY <1>1, FilledOutIs
<1>3. \A i \in DOMAIN tx.outs : Expected(t, i) = Expected(tx, i)
  BY <1>1, <1>2, ExpectedSame
<1>4. Verified(tx, t)
  BY <1>1, <1>2, <1>3 DEF Verified, SameTransaction
<1> QED BY <1>1, <1>4

(* ... and there are none to fill in in an ordinary payment.               *)
LEMMA FilledPlain ==
  ASSUME NEW tx \in Tx, \A i \in DOMAIN tx.outs : tx.outs[i].info = {}
  PROVE  Filled(tx) = tx
<1> DEFINE outs == [i \in DOMAIN tx.outs |->
                      IF tx.outs[i].info = {} THEN tx.outs[i]
                      ELSE [tx.outs[i] EXCEPT !.script = CHOOSE s \in Expected(tx, i) : TRUE]]
<1>1. outs = [i \in DOMAIN tx.outs |-> tx.outs[i]]
  OBVIOUS
<1>2. outs = tx.outs
  BY <1>1 DEF Tx
<1>3. Filled(tx) = [tx EXCEPT !.outs = outs]
  BY DEF Filled
<1> HIDE DEF outs
<1> QED BY <1>2, <1>3 DEF Tx

(* The answer of that device to a PSBT.                                    *)
LEMMA HonestIs ==
  ASSUME NEW device \in Devices, NEW d \in Draft
  PROVE  LET p == Honest(device, d)
             tx == d.psbt.tx
         IN  /\ p.v2 = d.psbt.v2 /\ p.tx = Filled(tx)
             /\ p.sigs = {[coin |-> c, key |-> device, over |-> Unsigned(Filled(tx))] :
                            c \in Owned(device, tx)}
BY DEF Honest, SignedBy, Draft, Psbt

(* broadcast takes it for an answer to the PSBT.                           *)
LEMMA HonestMatches ==
  ASSUME NEW device \in Devices, NEW d \in Draft, AskedFor(d)
  PROVE  Matches(d.psbt, Honest(device, d))
<1>0. PICK tx \in Tx : tx = d.psbt.tx
  BY DEF Draft, Psbt
<1>1. PICK p : p = Honest(device, d) /\ p.v2 = d.psbt.v2 /\ p.tx = Filled(tx)
  BY <1>0, HonestIs
<1>2. CASE p.v2
  BY <1>0, <1>1, <1>2, FilledVerifies DEF Matches
<1>3. CASE ~p.v2
  <2>1. ~d.ask.fromSp /\ d.ask.to = Address
    BY <1>1, <1>3 DEF AskedFor
  <2>2. \A i \in DOMAIN tx.outs : tx.outs[i].info = {}
    BY <1>0, <2>1 DEF AskedFor, ToRecipient, ToChange
  <2>3. Filled(tx) = tx
    BY <2>2, FilledPlain
  <2> QED BY <1>0, <1>1, <1>3, <2>3 DEF Matches
<1> QED BY <1>1, <1>2, <1>3

LEMMA SatsType ==
  ASSUME NEW tx \in Tx
  PROVE  Sats(tx) \in Nat
<1>1. PICK N \in Nat : N = Len(tx.outs) /\ \A i \in 1..N : tx.outs[i] \in Out
  BY DEF Tx
<1>2. \A i \in 1..N : tx.outs[i].sats \in Nat
  BY <1>1 DEF Out
<1>3. PICK sum : /\ Sats(tx) = sum[N] /\ sum[0] = 0
                 /\ \A n \in 1..N : sum[n] = sum[n-1] + tx.outs[n].sats
  BY <1>1, <1>2, SatsSum, Zenon
<1> DEFINE Typed == {n \in 0..N : sum[n] \in Nat}
<1>4. 0 \in Typed
  BY <1>3
<1>5. \A n \in 1..N : n-1 \in Typed => n \in Typed
  BY <1>2, <1>3
<1> HIDE DEF Typed
<1>6. \A n \in 0..N : n \in Typed
  BY <1>4, <1>5, UpTo
<1> QED BY <1>3, <1>6 DEF Typed

(* It adds up to what create wrote.                                        *)
LEMMA FilledSats ==
  ASSUME NEW tx \in Tx
  PROVE  Sats(Unsigned(Filled(tx))) = Sats(tx)
<1>1. PICK t \in Tx : /\ t = Filled(tx)
                      /\ DOMAIN t.outs = DOMAIN tx.outs /\ Len(t.outs) = Len(tx.outs)
                      /\ \A i \in DOMAIN tx.outs : t.outs[i] = FilledOut(tx, i)
  BY FilledIs
<1>2. \A i \in DOMAIN tx.outs : t.outs[i].sats = tx.outs[i].sats
  BY <1>1, FilledOutIs
<1>3. PICK u : /\ u = Unsigned(t) /\ Len(u.outs) = Len(t.outs)
               /\ \A i \in DOMAIN t.outs : u.outs[i].sats = t.outs[i].sats
  BY UnsignedIs
<1>4. DOMAIN tx.outs = 1..Len(tx.outs) /\ Len(tx.outs) \in Nat
  BY DEF Tx
<1>5. \A i \in 1..Len(tx.outs) : u.outs[i].sats = tx.outs[i].sats
  BY <1>1, <1>2, <1>3, <1>4
<1>6. Len(u.outs) = Len(tx.outs)
  BY <1>1, <1>3
<1>7. Sats(u) = Sats(tx)
  BY <1>4, <1>5, <1>6, SatsSame, Zenon
<1> QED BY <1>1, <1>3, <1>7

(* The device that owns one of the coins owns them all, and signs.         *)
LEMMA HonestSigns ==
  ASSUME NEW d \in Draft, AskedFor(d)
  PROVE  \E device \in Devices :
           /\ Signable(d.psbt)
           /\ \A c \in d.psbt.tx.ins : KeyOf[c] = device
           /\ Owned(device, d.psbt.tx) = d.psbt.tx.ins
<1>0. PICK a \in Asks : a = d.ask
  BY DEF Draft
<1>1. PICK tx \in Tx : /\ tx = d.psbt.tx /\ OfOneKind(tx.ins, a)
                       /\ d.psbt.v2 = (a.fromSp \/ a.to # Address)
                       /\ tx.ins \subseteq Coins
  BY <1>0 DEF AskedFor, Draft, Psbt, Tx
<1>2. PICK e \in tx.ins : TRUE
  BY <1>1 DEF OfOneKind
<1>3. KeyOf[e] \in Devices /\ \A c \in tx.ins : KeyOf[c] = KeyOf[e]
  BY <1>1, <1>2, SpendAssumption DEF OfOneKind
<1>4. Owned(KeyOf[e], tx) = tx.ins
  BY <1>3 DEF Owned
<1>5. Signable(d.psbt)
  <2>1. CASE a.fromSp
    BY <1>1, <2>1 DEF Signable, OfOneKind
  <2>2. CASE ~a.fromSp
    BY <1>1, <2>2 DEF Signable, OfOneKind, SpCoins
  <2> QED BY <2>1, <2>2
<1> QED BY <1>1, <1>3, <1>4, <1>5

(* A PSBT that create wrote can be paid as long as its coins are there for *)
(* the wallet, whatever happened in between.                               *)
LEMMA HonestIsTaken ==
  ASSUME SpendInv, NEW d \in drafts, Payable(d)
  PROVE  \E device \in Devices :
           LET p == Honest(device, d)
           IN  Signable(d.psbt) /\ Accepted(d.psbt, p) /\ Takes(ToV0(p))
<1>1. d \in Draft /\ AskedFor(d)
  BY DEF SpendInv, SpendTyped
<1>2. PICK device \in Devices : /\ Signable(d.psbt)
                                /\ \A c \in d.psbt.tx.ins : KeyOf[c] = device
                                /\ Owned(device, d.psbt.tx) = d.psbt.tx.ins
  BY <1>1, HonestSigns
<1>0. PICK tx \in Tx : tx = d.psbt.tx
  BY <1>1 DEF Draft, Psbt
<1>3. PICK p :
        /\ p = Honest(device, d) /\ p.tx = Filled(tx)
        /\ p.sigs = {[coin |-> c, key |-> device, over |-> Unsigned(Filled(tx))] : c \in tx.ins}
  BY <1>0, <1>1, <1>2, HonestIs
<1>4. PICK u \in Tx : u = Unsigned(Filled(tx)) /\ u.ins = tx.ins /\ Sats(u) = Sats(tx)
  BY FilledIs, UnsignedIs, FilledSats
<1>5. PICK q : /\ q = ToV0(p) /\ q.tx = u
               /\ q.sigs = {[coin |-> c, key |-> device, over |-> u] : c \in tx.ins}
  <2>1. ToV0(p).tx = u /\ ToV0(p).sigs = p.sigs
    BY <1>3, <1>4 DEF ToV0
  <2>2. p.sigs = {[coin |-> c, key |-> device, over |-> u] : c \in tx.ins}
    BY <1>3, <1>4, Zenon
  <2> QED BY <2>1, <2>2
<1>6. /\ tx.ins \subseteq mined \cup OwnCoins /\ tx.ins \cap Spent = {}
      /\ \A c \in tx.ins \cap SpCoins : c \in DOMAIN rows /\ paired = {KeyOf[c]}
      /\ \A c \in tx.ins : KeyOf[c] = device
      /\ tx.ins \subseteq Coins
  BY <1>0, <1>2 DEF Payable, Tx
<1>7. KnownInputs(u)
  BY <1>4, <1>6 DEF KnownInputs, SpendInv, SpCoins
<1>8. SignedSpCoins(u)
  <2>1. \A c \in u.ins \cap DOMAIN rows : c \in tx.ins \cap SpCoins
    BY <1>4 DEF SpendInv, SpendTyped
  <2> QED BY <1>6, <2>1 DEF SignedSpCoins, Checked
<1>9. \A c \in u.ins : [coin |-> c, key |-> device, over |-> u] \in q.sigs
  BY <1>4, <1>5
<1>10. FullySigned(q)
  <2>1. \A c \in u.ins : device \in ExpectedKey(c)
    <3>1. \A c \in u.ins \cap DOMAIN rows : paired = {KeyOf[c]}
      BY <1>8 DEF SignedSpCoins, Checked
    <3> QED BY <1>4, <1>6, <3>1 DEF ExpectedKey
  <2>2. \A s \in q.sigs : s.over = u
    BY <1>5
  <2> QED BY <1>5, <1>9, <2>1, <2>2 DEF FullySigned
<1>11. Matches(d.psbt, p)
  BY <1>1, <1>3, HonestMatches
<1>12. Accepted(d.psbt, p)
  BY <1>5, <1>7, <1>8, <1>10, <1>11 DEF Accepted
<1>13. Total(u.ins) >= Sats(u)
  <2>1. Total(tx.ins) >= Sats(tx) + Charged(d.ask, tx.ins)
    BY <1>0, <1>1 DEF AskedFor, Priced
  <2>2. Charged(d.ask, tx.ins) \in Nat
    BY <1>1, <1>6, ChargedType DEF Draft
  <2>3. Sats(tx) \in Nat
    BY SatsType
  <2>4. Total(tx.ins) \in Nat
    BY TotalType
  <2>5. Total(tx.ins) >= Sats(tx)
    BY <2>1, <2>2, <2>3, <2>4
  <2> QED BY <1>4, <2>5
<1>14. Takes(q)
  <2>1. \A t \in net : t.ins \cap tx.ins = {}
    BY <1>6 DEF Spent
  <2>2. tx.ins \cap gone = {}
    BY <1>6 DEF Spent
  <2>3. \A c \in u.ins : [coin |-> c, key |-> KeyOf[c], over |-> u] \in q.sigs
    BY <1>4, <1>6, <1>9
  <2> QED BY <1>4, <1>5, <1>6, <1>13, <2>1, <2>2, <2>3 DEF Takes
<1> QED BY <1>2, <1>3, <1>5, <1>12, <1>14

(* A PSBT that create wrote never becomes useless on the way: while its    *)
(* coins are there for the wallet, an answer of their device passes every  *)
(* check of broadcast and the network takes it, whatever happened to the   *)
(* wallet, its store and its files since.                                  *)
THEOREM DraftsCanBePaid == Spec => []DraftCanBePaid
<1>1. SpendInv => DraftCanBePaid
  BY HonestIsTaken DEF DraftCanBePaid
<1> QED BY <1>1, SpendStaysGood, PTL

-----------------------------------------------------------------------------
(* What choices of coins are worth.                                        *)

(* One coin after the other is counted.                                    *)
LEMMA Counting ==
  ASSUME NEW S
  PROVE  /\ Cardinality(Oldest(S, 0)) = 0
         /\ \A n \in 1..Len(Order) :
              /\ Cardinality(Oldest(S, n-1)) \in Nat
              /\ Cardinality(Oldest(S, n))
                 = Cardinality(Oldest(S, n-1)) + IF Order[n] \in S THEN 1 ELSE 0
<1>1. Len(Order) \in Nat
  BY SelectAssumption
<1>2. Cardinality(Oldest(S, 0)) = 0
  <2>1. Oldest(S, 0) = {}
    BY DEF Oldest
  <2> QED BY <2>1, FS_EmptySet
<1>3. ASSUME NEW n \in 1..Len(Order)
      PROVE  /\ Cardinality(Oldest(S, n-1)) \in Nat
             /\ Cardinality(Oldest(S, n))
                = Cardinality(Oldest(S, n-1)) + IF Order[n] \in S THEN 1 ELSE 0
  <2>1. Oldest(S, n-1) \subseteq Coins
    BY <1>1 DEF Oldest, Coins
  <2>2. IsFiniteSet(Oldest(S, n-1)) /\ Cardinality(Oldest(S, n-1)) \in Nat
    BY <2>1, CoinsFinite
  <2>3. {Order[i] : i \in 1..n} = {Order[i] : i \in 1..n-1} \cup {Order[n]}
    <3>1. 1..n = 1..n-1 \cup {n}
      BY <1>1
    <3> QED BY <3>1
  <2>4. Order[n] \notin {Order[i] : i \in 1..n-1}
    <3>1. DOMAIN Order = 1..Len(Order)
      BY SelectAssumption
    <3>2. \A i \in 1..n-1 : i \in DOMAIN Order /\ i # n
      BY <1>1, <3>1
    <3> QED BY <3>1, <3>2, SelectAssumption DEF IsInjective
  <2>5. CASE Order[n] \in S
    <3>1. Oldest(S, n) = Oldest(S, n-1) \cup {Order[n]} /\ Order[n] \notin Oldest(S, n-1)
      BY <2>3, <2>4, <2>5 DEF Oldest
    <3>2. Cardinality(Oldest(S, n-1) \cup {Order[n]}) = Cardinality(Oldest(S, n-1)) + 1
      BY <2>2, <3>1, FS_AddElement
    <3> QED BY <2>2, <2>5, <3>1, <3>2
  <2>6. CASE Order[n] \notin S
    <3>1. Oldest(S, n) = Oldest(S, n-1)
      BY <2>3, <2>6 DEF Oldest
    <3> QED BY <2>2, <2>6, <3>1
  <2> QED BY <2>2, <2>5, <2>6
<1> QED BY <1>2, <1>3

(* The whole list holds every coin.                                        *)
LEMMA AllOldest ==
  ASSUME NEW S \in SUBSET Coins
  PROVE  Oldest(S, Len(Order)) = S
BY DEF Oldest, Coins

LEMMA OneMoreTime == \A m, k \in Nat : m * k \in Nat /\ m * (k + 1) = m * k + m
OBVIOUS

(* Coins that are all worth m or more are worth m times their number; and  *)
(* no more than that if they are all worth m or less.                      *)
LEMMA TotalAtLeast ==
  ASSUME NEW m \in Nat, NEW S \in SUBSET Coins, \A c \in S : Value[c] >= m
  PROVE  Total(S) >= m * Cardinality(S)
<1> DEFINE N == Len(Order)
           size(n) == Cardinality(Oldest(S, n))
<1>1. PICK s : Sums(s, S) /\ Total(S) = s[N]
  BY TotalSum
<1>2. /\ \A n \in 0..N : s[n] \in Nat
      /\ N \in Nat /\ \A n \in 1..N : Value[Order[n]] \in Nat
  BY <1>1, SumsType
<1>3. /\ size(0) = 0
      /\ \A n \in 1..N : /\ size(n-1) \in Nat
                         /\ size(n) = size(n-1) + IF Order[n] \in S THEN 1 ELSE 0
  BY Counting
<1> HIDE DEF size
<1> DEFINE Good == {n \in 0..N : s[n] >= m * size(n)}
<1>4. 0 \in Good
  <2>1. m * 0 = 0
    OBVIOUS
  <2> QED BY <1>1, <1>2, <1>3, <2>1 DEF Sums
<1>5. ASSUME NEW n \in 1..N, n-1 \in Good PROVE n \in Good
  <2>1. n-1 \in 0..N /\ n \in 0..N /\ s[n-1] >= m * size(n-1)
    BY <1>2, <1>5
  <2>2. s[n] = s[n-1] + IF Order[n] \in S THEN Value[Order[n]] ELSE 0
    BY <1>1 DEF Sums
  <2>3. s[n-1] \in Nat /\ Value[Order[n]] \in Nat /\ size(n-1) \in Nat
    BY <1>2, <1>3, <2>1
  <2>4. CASE Order[n] \in S
    <3>1. size(n) = size(n-1) + 1 /\ s[n] = s[n-1] + Value[Order[n]] /\ Value[Order[n]] >= m
      BY <1>3, <2>2, <2>4
    <3>2. m * (size(n-1) + 1) = m * size(n-1) + m /\ m * size(n-1) \in Nat
      BY <2>3, OneMoreTime
    <3>3. s[n] >= m * size(n-1) + m
      <4> DEFINE x == m * size(n-1)
                 v == Value[Order[n]]
      <4>1. x \in Nat /\ v \in Nat /\ v >= m /\ s[n-1] >= x /\ s[n] = s[n-1] + v
        BY <2>1, <2>3, <3>1, <3>2
      <4> HIDE DEF x, v
      <4>2. s[n] >= x + m
        BY <2>3, <4>1
      <4> QED BY <4>2 DEF x
    <3>4. s[n] >= m * size(n)
      BY <3>1, <3>2, <3>3
    <3> QED BY <2>1, <3>4
  <2>5. CASE Order[n] \notin S
    <3>1. size(n) = size(n-1) /\ s[n] = s[n-1]
      BY <1>3, <2>2, <2>3, <2>5
    <3> QED BY <2>1, <3>1
  <2> QED BY <2>4, <2>5
<1> HIDE DEF Good
<1>6. \A n \in 0..N : n \in Good
  BY <1>2, <1>4, <1>5, UpTo
<1>7. N \in Good
  BY <1>2, <1>6
<1>8. size(N) = Cardinality(S)
  BY AllOldest DEF size
<1> QED BY <1>1, <1>7, <1>8 DEF Good

LEMMA TotalAtMost ==
  ASSUME NEW m \in Nat, NEW S \in SUBSET Coins, \A c \in S : Value[c] <= m
  PROVE  Total(S) <= m * Cardinality(S)
<1> DEFINE N == Len(Order)
           size(n) == Cardinality(Oldest(S, n))
<1>1. PICK s : Sums(s, S) /\ Total(S) = s[N]
  BY TotalSum
<1>2. /\ \A n \in 0..N : s[n] \in Nat
      /\ N \in Nat /\ \A n \in 1..N : Value[Order[n]] \in Nat
  BY <1>1, SumsType
<1>3. /\ size(0) = 0
      /\ \A n \in 1..N : /\ size(n-1) \in Nat
                         /\ size(n) = size(n-1) + IF Order[n] \in S THEN 1 ELSE 0
  BY Counting
<1> HIDE DEF size
<1> DEFINE Good == {n \in 0..N : s[n] <= m * size(n)}
<1>4. 0 \in Good
  <2>1. m * 0 = 0
    OBVIOUS
  <2> QED BY <1>1, <1>2, <1>3, <2>1 DEF Sums
<1>5. ASSUME NEW n \in 1..N, n-1 \in Good PROVE n \in Good
  <2>1. n-1 \in 0..N /\ n \in 0..N /\ s[n-1] <= m * size(n-1)
    BY <1>2, <1>5
  <2>2. s[n] = s[n-1] + IF Order[n] \in S THEN Value[Order[n]] ELSE 0
    BY <1>1 DEF Sums
  <2>3. s[n-1] \in Nat /\ Value[Order[n]] \in Nat /\ size(n-1) \in Nat
    BY <1>2, <1>3, <2>1
  <2>4. CASE Order[n] \in S
    <3>1. size(n) = size(n-1) + 1 /\ s[n] = s[n-1] + Value[Order[n]] /\ Value[Order[n]] <= m
      BY <1>3, <2>2, <2>4
    <3>2. m * (size(n-1) + 1) = m * size(n-1) + m /\ m * size(n-1) \in Nat
      BY <2>3, OneMoreTime
    <3>3. s[n] <= m * size(n-1) + m
      <4> DEFINE x == m * size(n-1)
                 v == Value[Order[n]]
      <4>1. x \in Nat /\ v \in Nat /\ v <= m /\ s[n-1] <= x /\ s[n] = s[n-1] + v
        BY <2>1, <2>3, <3>1, <3>2
      <4> HIDE DEF x, v
      <4>2. s[n] <= x + m
        BY <2>3, <4>1
      <4> QED BY <4>2 DEF x
    <3>4. s[n] <= m * size(n)
      BY <3>1, <3>2, <3>3
    <3> QED BY <2>1, <3>4
  <2>5. CASE Order[n] \notin S
    <3>1. size(n) = size(n-1) /\ s[n] = s[n-1]
      BY <1>3, <2>2, <2>3, <2>5
    <3> QED BY <2>1, <3>1
  <2> QED BY <2>4, <2>5
<1> HIDE DEF Good
<1>6. \A n \in 0..N : n \in Good
  BY <1>2, <1>4, <1>5, UpTo
<1>7. N \in Good
  BY <1>2, <1>6
<1>8. size(N) = Cardinality(S)
  BY AllOldest DEF size
<1> QED BY <1>1, <1>7, <1>8 DEF Good

-----------------------------------------------------------------------------
(* Why select refuses.                                                     *)

(* Leaving out k of w worthwhile coins and taking j others instead: what   *)
(* is saved is no more than what is lost, but for a sat of rounding for    *)
(* each of the others.                                                     *)
LEMMA NoOtherIsCheaper ==
  ASSUME NEW rate \in Nat, NEW w \in Nat, NEW k \in 0..w, NEW j \in Nat,
         NEW target \in Nat
  PROVE  Needed(target, rate, w) + Marginal(rate) * j
         <= Needed(target, rate, w - k + j) + (Marginal(rate) + 1) * k + j
<1> DEFINE n == w - k + j
           all == FeeFor(rate, 338 + 230 * w)
           some == FeeFor(rate, 338 + 230 * n)
           one == FeeFor(rate, 230)
           rw == rate * w
           rk == rate * k
           rj == rate * j
           oj == one * j
           ok == one * k
<1>1. /\ OVERHEAD_WEIGHT + INPUT_WEIGHT * w = 338 + 230 * w
      /\ OVERHEAD_WEIGHT + INPUT_WEIGHT * n = 338 + 230 * n
      /\ INPUT_WEIGHT = 230
  BY DEF OVERHEAD_WEIGHT, INPUT_WEIGHT, SATISFACTION_WEIGHT
<1>2. n \in Nat /\ k \in Nat
  OBVIOUS
<1>3. /\ rate * (338 + 230 * w) = 338 * rate + 230 * rw
      /\ rate * (338 + 230 * n) = 338 * rate + 230 * rw - 230 * rk + 230 * rj
      /\ rw \in Nat /\ rk \in Nat /\ rj \in Nat
  <2>1. rate * n = rw - rk + rj
    BY <1>2
  <2>2. rate * (338 + 230 * n) = 338 * rate + 230 * (rate * n)
    BY <1>2
  <2>3. rw \in Nat /\ rk \in Nat /\ rj \in Nat
    BY <1>2
  <2>4. rate * (338 + 230 * w) = 338 * rate + 230 * rw
    OBVIOUS
  <2> HIDE DEF n, rw, rk, rj
  <2> QED BY <2>1, <2>2, <2>3, <2>4
<1>4. all \in Nat /\ 1000 * all <= 338 * rate + 230 * rw + 999
  <2> DEFINE weight == 338 + 230 * w
  <2>1. weight \in Nat
    OBVIOUS
  <2>2. RoundedUp(FeeFor(rate, weight), rate * weight)
    <3> HIDE DEF weight
    <3> QED BY <2>1, FeeBounds
  <2> HIDE DEF rw
  <2> QED BY <1>3, <2>2 DEF RoundedUp
<1>5. some \in Nat /\ 1000 * some >= 338 * rate + 230 * rw - 230 * rk + 230 * rj
  <2> DEFINE weight == 338 + 230 * n
  <2>1. weight \in Nat
    BY <1>2
  <2>2. RoundedUp(FeeFor(rate, weight), rate * weight)
    <3> HIDE DEF weight
    <3> QED BY <2>1, FeeBounds
  <2> HIDE DEF n, rw, rk, rj
  <2> QED BY <1>3, <2>2 DEF RoundedUp
<1>6. one \in Nat /\ 1000 * one >= 230 * rate /\ 1000 * one <= 230 * rate + 999
  <2>1. RoundedUp(FeeFor(rate, 230), rate * 230)
    BY FeeBounds
  <2> HIDE DEF one
  <2>2. RoundedUp(one, rate * 230)
    BY <2>1 DEF one
  <2> QED BY <2>2 DEF RoundedUp
<1> HIDE DEF all, some, one, n
<1>7. oj \in Nat /\ 1000 * oj <= 230 * rj + 999 * j
  <2>1. (1000 * one) * j <= (230 * rate + 999) * j
    BY <1>6
  <2>2. (1000 * one) * j = 1000 * oj /\ (230 * rate + 999) * j = 230 * rj + 999 * j
    BY <1>6
  <2>3. oj \in Nat
    BY <1>6
  <2> HIDE DEF oj, rj
  <2> QED BY <2>1, <2>2, <2>3
<1>8. ok \in Nat /\ 1000 * ok >= 230 * rk
  <2>1. (1000 * one) * k >= (230 * rate) * k
    BY <1>2, <1>6
  <2>2. (1000 * one) * k = 1000 * ok /\ (230 * rate) * k = 230 * rk
    BY <1>2, <1>6
  <2>3. ok \in Nat
    BY <1>2, <1>6
  <2> HIDE DEF ok, rk
  <2> QED BY <2>1, <2>2, <2>3
<1>9. (one + 1) * k = ok + k
  BY <1>2, <1>6
<1> HIDE DEF rw, rk, rj, oj, ok
<1>10. all + oj <= some + ok + k + j
  BY <1>2, <1>3, <1>4, <1>5, <1>7, <1>8
<1>11. /\ Needed(target, rate, w) = target + all
       /\ Needed(target, rate, n) = target + some
       /\ Marginal(rate) = one
  BY <1>1 DEF Needed, Marginal, all, some, one
<1>12. target + all + oj <= target + some + (ok + k) + j
  BY <1>2, <1>4, <1>5, <1>7, <1>8, <1>10
<1>13. Needed(target, rate, w) + one * j <= Needed(target, rate, n) + (one + 1) * k + j
  BY <1>9, <1>11, <1>12 DEF oj
<1> QED BY <1>11, <1>13 DEF n

LEMMA FeeTypes ==
  \A target, rate, n \in Nat : Needed(target, rate, n) \in Nat /\ Needed(target, rate, n) >= target
                               /\ Marginal(rate) \in Nat
<1> TAKE target, rate, n \in Nat
<1>1. OVERHEAD_WEIGHT + INPUT_WEIGHT * n \in Nat /\ INPUT_WEIGHT \in Nat
  BY DEF OVERHEAD_WEIGHT, INPUT_WEIGHT, SATISFACTION_WEIGHT
<1>2. FeeFor(rate, OVERHEAD_WEIGHT + INPUT_WEIGHT * n) \in Nat /\ FeeFor(rate, INPUT_WEIGHT) \in Nat
  BY <1>1, FeeType
<1> QED BY <1>2 DEF Needed, Marginal

(* When nothing is chosen, all worthwhile coins together are too few.      *)
LEMMA RefusedIsTooFew ==
  ASSUME NEW candidates \in SUBSET Coins, NEW a \in Asks,
         Selected(candidates, a.sats, a.rate) = {},
         Cardinality(Worthwhile(candidates, a.rate)) <= MaxInputs
  PROVE  Total(Worthwhile(candidates, a.rate))
         < Needed(a.sats, a.rate, Cardinality(Worthwhile(candidates, a.rate)))
<1> DEFINE able == Worthwhile(candidates, a.rate)
           enough == Enough(candidates, a.sats, a.rate)
           N == Len(Order)
           need(n) == Needed(a.sats, a.rate, n)
<1>1. able \subseteq Coins /\ N \in Nat /\ enough \in SUBSET (1..N)
  BY SelectAssumption DEF Worthwhile, Enough
<1>2. \A n \in Nat : need(n) \in Nat /\ need(n) > 0
  <2>1. a.sats \in Nat /\ a.rate \in Nat /\ a.sats > 0
    BY AskTypes
  <2>2. ASSUME NEW n \in Nat PROVE need(n) \in Nat /\ need(n) >= a.sats
    BY <2>1, FeeTypes
  <2> HIDE DEF need
  <2> QED BY <2>1, <2>2
<1> HIDE DEF need
<1>3. Cardinality(able) \in Nat
  BY <1>1, CoinsFinite
<1>4. enough = {}
  <2>1. SUFFICES ASSUME enough # {} PROVE FALSE
    OBVIOUS
  <2>2. PICK n \in enough : \A m \in enough : n <= m
    <3>1. enough \in SUBSET Nat
      BY <1>1
    <3> HIDE DEF enough
    <3> QED BY <2>1, <3>1, Least
  <2>3. Oldest(able, n) \subseteq Selected(candidates, a.sats, a.rate)
    BY <2>2 DEF Selected
  <2>4. Oldest(able, n) = {}
    BY <2>3
  <2>5. Total(Oldest(able, n)) >= need(Cardinality(Oldest(able, n)))
    BY <2>2 DEF Enough, need
  <2>6. 0 >= need(0)
    BY <2>4, <2>5, NothingIsWorth, FS_EmptySet
  <2> QED BY <1>2, <2>6
<1>5. CASE N = 0
  <2>1. able = {}
    BY <1>1, <1>5 DEF Coins
  <2>2. Total(able) = 0 /\ Cardinality(able) = 0
    BY <2>1, NothingIsWorth, FS_EmptySet
  <2> QED BY <1>2, <2>2 DEF need
<1>6. CASE N # 0
  <2>1. N \in 1..N /\ N \notin enough
    BY <1>1, <1>4, <1>6
  <2>2. Oldest(able, N) = able
    BY <1>1, AllOldest
  <2>3. ~(Total(able) >= need(Cardinality(able)))
    BY <2>1, <2>2 DEF Enough, need
  <2>4. Total(able) \in Nat /\ need(Cardinality(able)) \in Nat
    BY <1>2, <1>3, TotalType
  <2>5. Total(able) < need(Cardinality(able))
    <3> HIDE DEF able, need
    <3> QED BY <2>3, <2>4
  <2> QED BY <2>5 DEF need
<1> QED BY <1>5, <1>6

(* No other choice of the coins is enough either.                          *)
LEMMA PoorWhenRefused ==
  ASSUME NEW candidates \in SUBSET Coins, NEW a \in Asks,
         Selected(candidates, a.sats, a.rate) = {},
         Cardinality(Worthwhile(candidates, a.rate)) <= MaxInputs,
         NEW coins \in SUBSET candidates
  PROVE  Total(coins) < Needed(a.sats, a.rate, Cardinality(coins))
                          + Cardinality(coins \ Worthwhile(candidates, a.rate))
<1> DEFINE able == Worthwhile(candidates, a.rate)
           both == coins \cap able
           other == coins \ able
           left == able \ coins
           w == Cardinality(able)
           k == Cardinality(left)
           j == Cardinality(other)
           one == Marginal(a.rate)
           need(n) == Needed(a.sats, a.rate, n)
<1>1. /\ able \subseteq Coins /\ both \subseteq Coins /\ other \subseteq Coins
      /\ left \subseteq Coins /\ coins \subseteq Coins
  BY DEF Worthwhile
<1>2. a.sats \in Nat /\ a.rate \in Nat
  BY AskTypes
<1>3. one \in Nat /\ \A n \in Nat : need(n) \in Nat
  BY <1>2, FeeTypes
<1>4. /\ w \in Nat /\ k \in Nat /\ j \in Nat /\ k <= w
      /\ Cardinality(coins) = w - k + j
  <2>1. /\ IsFiniteSet(able) /\ IsFiniteSet(coins) /\ IsFiniteSet(both)
        /\ w \in Nat /\ k \in Nat /\ j \in Nat
        /\ Cardinality(both) \in Nat /\ Cardinality(coins) \in Nat
    BY <1>1, CoinsFinite
  <2>2. k = w - Cardinality(able \cap coins)
    BY <2>1, FS_Difference
  <2>3. j = Cardinality(coins) - Cardinality(both)
    BY <2>1, FS_Difference
  <2>4. able \cap coins = both
    OBVIOUS
  <2> DEFINE b == Cardinality(both)
             n == Cardinality(coins)
  <2>5. /\ k = w - b /\ j = n - b
        /\ w \in Nat /\ k \in Nat /\ j \in Nat /\ b \in Nat /\ n \in Nat
    BY <2>1, <2>2, <2>3, <2>4
  <2> HIDE DEF w, k, j, b, n
  <2>6. k <= w /\ n = w - k + j
    BY <2>5
  <2> QED BY <2>5, <2>6 DEF n
<1>5. Total(able) < need(w)
  BY <1>1, RefusedIsTooFew
<1>6. Total(coins) = Total(both) + Total(other) /\ Total(able) = Total(both) + Total(left)
  <2>1. both \cap other = {} /\ coins = both \cup other
    OBVIOUS
  <2>2. both \cap left = {} /\ able = both \cup left
    OBVIOUS
  <2> HIDE DEF both, other, left, able
  <2> QED BY <2>1, <2>2, TotalSplit
<1>7. Total(left) >= (one + 1) * k
  <2>1. \A c \in left : Value[c] >= one + 1
    <3>1. \A c \in left : Value[c] > one /\ Value[c] \in Nat
      BY <1>1, SelectAssumption DEF Worthwhile
    <3> HIDE DEF one, left
    <3> QED BY <1>3, <3>1
  <2>2. one + 1 \in Nat
    BY <1>3
  <2> HIDE DEF one, left
  <2> QED BY <1>1, <2>1, <2>2, TotalAtLeast
<1>8. Total(other) <= one * j
  <2>1. \A c \in other : Value[c] <= one
    <3>1. \A c \in other : ~(Value[c] > one) /\ Value[c] \in Nat
      BY <1>1, SelectAssumption DEF Worthwhile
    <3> HIDE DEF one, other
    <3> QED BY <1>3, <3>1
  <2> HIDE DEF one, other
  <2> QED BY <1>1, <1>3, <2>1, TotalAtMost
<1>9. need(w) + one * j <= need(w - k + j) + (one + 1) * k + j
  <2>1. k \in 0..w
    BY <1>4
  <2> DEFINE r == a.rate
             t == a.sats
  <2>2. r \in Nat /\ t \in Nat
    BY <1>2
  <2> HIDE DEF w, k, j, r, t
  <2>3. Needed(t, r, w) + Marginal(r) * j <= Needed(t, r, w - k + j) + (Marginal(r) + 1) * k + j
    BY <1>4, <2>1, <2>2, NoOtherIsCheaper
  <2> QED BY <2>3 DEF r, t
<1>10. /\ Total(both) \in Nat /\ Total(other) \in Nat /\ Total(left) \in Nat
       /\ need(w) \in Nat /\ need(w - k + j) \in Nat
       /\ one * j \in Nat /\ (one + 1) * k \in Nat
  <2>1. w - k + j \in Nat
    <3> HIDE DEF w, k, j
    <3> QED BY <1>4
  <2>2. one * j \in Nat /\ (one + 1) * k \in Nat
    <3> HIDE DEF k, j, one
    <3> QED BY <1>3, <1>4
  <2> QED BY <1>3, <1>4, <2>1, <2>2, TotalType
<1> DEFINE b == Total(both)
           o == Total(other)
           l == Total(left)
           before == need(w)
           after == need(w - k + j)
           oj == one * j
           ok == (one + 1) * k
<1>11. /\ b \in Nat /\ o \in Nat /\ l \in Nat /\ before \in Nat /\ after \in Nat
       /\ oj \in Nat /\ ok \in Nat /\ j \in Nat
       /\ b + l < before /\ l >= ok /\ o <= oj /\ before + oj <= after + ok + j
  BY <1>4, <1>5, <1>6, <1>7, <1>8, <1>9, <1>10
<1> HIDE DEF b, o, l, before, after, oj, ok, j
<1>12. b + o < after + j
  BY <1>11
<1>13. Total(coins) < need(Cardinality(coins)) + j
  BY <1>4, <1>6, <1>12 DEF b, o, after
<1> QED BY <1>13 DEF j

(* When the coins there are do not reach the input limit, select refuses   *)
(* only what no choice of them could pay for, but for a sat of rounding    *)
(* for every coin that is not worth its own input.                         *)
THEOREM RefusedWhenPoor == Spec => []RefusedOnlyWhenPoor
<1>1. SpendInv => Unspent \subseteq Coins
  BY DEF SpendInv, SpendTyped, Unspent, Candidates, SpCoins
<1>2. SpendInv => RefusedOnlyWhenPoor
  BY <1>1, PoorWhenRefused DEF RefusedOnlyWhenPoor
<1> QED BY <1>2, SpendStaysGood, PTL
=============================================================================
