--------------------------- MODULE SharedPayment ---------------------------
(***************************************************************************)
(* What a shared send promises, without messages, files or commands: two   *)
(* wallets each bring a half, their signers give a share and a signature   *)
(* for every coin, the network takes the transaction, and each wallet      *)
(* learns that it did.  The header of shared.rs gives the same steps 3     *)
(* to 6.  SharedSend implements this.                                      *)
(*                                                                         *)
(* The actions quantify over what a step adds to the history, so no set of *)
(* all transactions is needed.                                             *)
(***************************************************************************)
CONSTANT Wallets

VARIABLES
  shared,   \* the shares signers gave: records of a coin and a transaction
  signed,   \* the signatures they gave
  chain,    \* the transactions the network took
  done      \* done[w]: the transactions w records as paid

vars == <<shared, signed, chain, done>>

InputsOf(t) == UNION {h.coins : h \in t.halves}
Marks(coins, t) == {[coin |-> c, tx |-> t] : c \in coins}

Init ==
  /\ shared = {}
  /\ signed = {}
  /\ chain = {}
  /\ done = [w \in Wallets |-> {}]

(* The coins of a half go into one transaction only: two shares for coins  *)
(* of one half are shares in the same transaction.                         *)
OneTxPerShare(shares) ==
  \A x, y \in shares : \A h \in x.tx.halves \cap y.tx.halves :
    x.coin \in h.coins /\ y.coin \in h.coins => x.tx = y.tx

(* A signer is visited: it adds shares, and signatures once every input of *)
(* the transaction has its share.                                          *)
Visit ==
  \E x \in shared' \cup signed' :
    \E shares, sigs \in SUBSET InputsOf(x.tx) :
      /\ shared' = shared \cup Marks(shares, x.tx)
      /\ signed' = signed \cup Marks(sigs, x.tx)
      /\ sigs # {} => Marks(InputsOf(x.tx), x.tx) \subseteq shared'
      /\ OneTxPerShare(shared')
      /\ UNCHANGED <<chain, done>>

(* The network takes a transaction all of whose coins are signed for, when *)
(* no other transaction spends one of them.                                *)
Pay ==
  \E t \in chain' :
    /\ chain' = chain \cup {t}
    /\ Marks(InputsOf(t), t) \subseteq signed
    /\ \A u \in chain : u # t => InputsOf(u) \cap InputsOf(t) = {}
    /\ UNCHANGED <<shared, signed, done>>

(* A wallet records a transaction the network took.                        *)
Learn ==
  \E w \in Wallets : \E t \in chain :
    /\ done' = [done EXCEPT ![w] = @ \cup {t}]
    /\ UNCHANGED <<shared, signed, chain>>

Next == Visit \/ Pay \/ Learn

Spec == Init /\ [][Next]_vars
=============================================================================
