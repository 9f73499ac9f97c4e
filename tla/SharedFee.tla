------------------------------ MODULE SharedFee ------------------------------
(***************************************************************************)
(* The amounts and the fee of a shared send (share_of, half_as_v2,         *)
(* estimated_weight and check_fee in shared.rs), beside what BDK charges   *)
(* for a half.  Each wallet has BDK build a transaction of its own that    *)
(* pays its share, takes half the price of what both halves have in common *)
(* back into its change, and the two are put together; both wallets then   *)
(* check the fee of the whole.                                             *)
(*                                                                         *)
(* Amounts are in sats, weights in weight units and rates in sats per      *)
(* virtual byte.  Wallets spend P2WPKH coins, the only ones a KISS         *)
(* descriptor has that a shared send takes.                                *)
(***************************************************************************)
EXTENDS Integers

TAPROOT_DUST_SATS == 330
SHARED_WEIGHT == (4 + 4 + 1 + 1 + 43) * 4 + 2
TAPROOT_SCRIPT_BYTES == 34
P2WPKH_WITNESS_WEIGHT == 1 + 1 + 71 + 1 + 33
FEE_CEILING_FACTOR == 3
FEE_CEILING_SLACK_SATS == 1000

(* The price of a weight, rounded up.                                      *)
FeeFor(rate, weight) == (rate * weight + 3) \div 4

-----------------------------------------------------------------------------
(* BDK builds a half: it prices the version, the lock time, the counts,    *)
(* the recipient's output and the segwit marker (twice), then every input  *)
(* on its own, with a signature of 72 bytes, and the change.               *)

BdkOverhead == (4 + 4 + 1 + 1 + 43) * 4 + 2 + 2
BdkInput == (36 + 4 + 1) * 4 + 1 + 108
ChangeScriptBytes == 22
ChangeFee(rate) == FeeFor(rate, 4 * (8 + 1 + ChangeScriptBytes))
ChangeDust == 294

Charged(rate, inputs) == FeeFor(rate, BdkOverhead) + inputs * FeeFor(rate, BdkInput)

(* What is left over becomes change unless it is dust; 0 is no change.     *)
ChangeOf(spare, rate) ==
  IF spare >= ChangeFee(rate) + ChangeDust THEN spare - ChangeFee(rate) ELSE 0

(* A half that spends `inputs` coins worth `spent`.                        *)
BdkHalf(spent, inputs, share, rate) ==
  [spent |-> spent, inputs |-> inputs, share |-> share,
   change |-> ChangeOf(spent - share - Charged(rate, inputs), rate)]

-----------------------------------------------------------------------------
ShareOf(sats, role) ==
  IF role = "Start" THEN (sats \div 2) + (sats % 2) ELSE sats \div 2

CheckAmount(sats) == sats \div 2 >= TAPROOT_DUST_SATS

Refund(rate) == (rate * SHARED_WEIGHT) \div 8

(* half_as_v2: the refund goes into the change, if there is any.           *)
HalfAsV2(half, rate) ==
  IF half.change > 0 /\ Refund(rate) < half.spent - half.share - half.change
  THEN [half EXCEPT !.change = @ + Refund(rate)]
  ELSE half

CompactSize(value) == IF value <= 252 THEN 1 ELSE IF value <= 65535 THEN 3 ELSE 5

Outputs(half) == IF half.change > 0 THEN 1 ELSE 0

OutputBytes(script) == 8 + CompactSize(script) + script

(* estimated_weight of the transaction that two halves make.               *)
EstimatedWeight(a, b) ==
  LET inputs == a.inputs + b.inputs
      changes == Outputs(a) + Outputs(b)
      base == 4 + 4 + CompactSize(inputs) + CompactSize(1 + changes)
              + inputs * (36 + 4 + 1)
              + OutputBytes(TAPROOT_SCRIPT_BYTES) + changes * OutputBytes(ChangeScriptBytes)
  IN  base * 4 + 2 + inputs * P2WPKH_WITNESS_WEIGHT

(* fee                                                                     *)
Fee(a, b, sats) == (a.spent + b.spent) - (sats + a.change + b.change)

Wanted(a, b, rate) == FeeFor(rate, EstimatedWeight(a, b))

CheckFee(a, b, sats, rate) ==
  /\ Fee(a, b, sats) >= Wanted(a, b, rate)
  /\ Fee(a, b, sats) <= Wanted(a, b, rate) * FEE_CEILING_FACTOR + FEE_CEILING_SLACK_SATS
=============================================================================
