------------------------------ MODULE SpSelect ------------------------------
(***************************************************************************)
(* What a spend of received silent payments costs and which coins it uses  *)
(* (select and needed in spspend.rs), beside what BDK then charges for the *)
(* transaction.  Amounts are in sats, weights in weight units and rates in *)
(* sats per 1000 weight units, as FeeRate keeps them.  There are no        *)
(* variables here and no overflow: amounts are capped at 21 million coins. *)
(***************************************************************************)
EXTENDS Integers, SequencesExt

CONSTANTS
  Order,            \* the coins, in the order the store lists them
  Value,            \* Value[c]: the amount of coin c
  MaxInputs         \* KISS_MAX_INPUTS

Coins == {Order[i] : i \in 1..Len(Order)}

ASSUME SelectAssumption ==
  /\ Order \in Seq(Coins) /\ IsInjective(Order)
  /\ Value \in [Coins -> Nat]
  /\ MaxInputs \in 1..16

(* The lowest rate there is: 1 sat per virtual byte.                       *)
MinRate == 250

(* FeeRate times Weight rounds up.                                         *)
FeeFor(rate, weight) == (rate * weight + 999) \div 1000

-----------------------------------------------------------------------------
SATISFACTION_WEIGHT == 1 + 1 + 64
INPUT_WEIGHT == (36 + 4 + 1) * 4 + SATISFACTION_WEIGHT
OVERHEAD_WEIGHT == (4 + 4 + 1 + 1 + 43 + 31) * 4 + 2

(* Mutant: the first input is taken to be part of the overhead.            *)
MutNeeded(target, rate, inputs) ==
  target + FeeFor(rate, OVERHEAD_WEIGHT + INPUT_WEIGHT * (inputs - 1))

(* needed: what `inputs` coins must cover.                                 *)
Needed(target, rate, inputs) ==
  target + FeeFor(rate, OVERHEAD_WEIGHT + INPUT_WEIGHT * inputs)

(* Mutant: the witness of the input is left out.                           *)
MutMarginal(rate) == FeeFor(rate, INPUT_WEIGHT - SATISFACTION_WEIGHT)

(* What one more input costs.                                              *)
Marginal(rate) == FeeFor(rate, INPUT_WEIGHT)

Total(coins) ==
  LET sum[n \in 0..Len(Order)] ==
        IF n = 0 THEN 0
        ELSE sum[n-1] + IF Order[n] \in coins THEN Value[Order[n]] ELSE 0
  IN  sum[Len(Order)]

(* Coins worth more than they cost.                                        *)
Worthwhile(candidates, rate) == {c \in candidates : Value[c] > Marginal(rate)}

(* Those of `coins` among the first n, oldest first.                       *)
Oldest(coins, n) == coins \cap {Order[i] : i \in 1..n}

(* How far down the list there is enough.                                  *)
Enough(candidates, target, rate) ==
  {n \in 1..Len(Order) :
     LET coins == Oldest(Worthwhile(candidates, rate), n)
     IN  /\ Cardinality(coins) <= MaxInputs
         /\ Total(coins) >= Needed(target, rate, Cardinality(coins))}

(* select: the shortest run of worthwhile coins, oldest first, that is     *)
(* enough; nothing when there is none.                                     *)
Selected(candidates, target, rate) ==
  LET enough == Enough(candidates, target, rate)
  IN  UNION {Oldest(Worthwhile(candidates, rate), n) :
               n \in {first \in enough : \A m \in enough : first <= m}}

-----------------------------------------------------------------------------
(* BDK, as build_transaction uses it.  It prices every input on its own,   *)
(* with one byte more than SATISFACTION_WEIGHT, and what is left of the    *)
(* transaction with its recipient: version, lock time and counts, the      *)
(* segwit marker twice, and an output of at most 51 bytes.                 *)

BdkSpInput == INPUT_WEIGHT + 1
BdkOwnInput == (36 + 4 + 1) * 4 + 1 + 108
BdkOverhead(bytes) == (4 + 4 + 1 + 1 + bytes) * 4 + 2 + 2

BdkFee(rate, input, inputs, bytes) ==
  FeeFor(rate, BdkOverhead(bytes)) + inputs * FeeFor(rate, input)

(* A change output of a silent payment spend is a taproot one; the change  *)
(* of an ordinary spend is counted as one too.                             *)
ChangeBytes == 43
Dust == 330
ChangeFee(rate) == FeeFor(rate, 4 * ChangeBytes)

(* What is left over becomes change unless it is dust.                     *)
ChangeOf(spare, rate) ==
  IF spare >= ChangeFee(rate) + Dust THEN {spare - ChangeFee(rate)} ELSE {}
=============================================================================
