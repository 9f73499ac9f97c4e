------------------------------ MODULE SpSpend ------------------------------
(***************************************************************************)
(* A payment from the command line: create builds a PSBT, the signing      *)
(* device answers it, scan and broadcast check the answer and broadcast    *)
(* hands the transaction to the network (main.rs over spspend.rs,          *)
(* spsend.rs and spverify.rs).  It spends either coins of the BDK wallet   *)
(* or silent payments that a scan found, never both; its recipient and     *)
(* its change may be silent payment codes, whose scripts the device        *)
(* derives.                                                                *)
(*                                                                         *)
(* Nothing is locked in between: the commands share the wallet's database, *)
(* PSBT files lie around, and meanwhile coins arrive, are spent elsewhere  *)
(* or leave the chain, rows leave the store, and the wallet is paired with *)
(* another device.  A key and the code that pays to it go by the name of   *)
(* their device.                                                           *)
(***************************************************************************)
EXTENDS SpSelect

CONSTANTS
  OwnCoins,     \* coins of the BDK wallet
  Devices,      \* signing devices
  KeyOf,        \* KeyOf[c]: the device whose key coin c pays to, the same
                \* for all coins of the BDK wallet
  Codes,        \* silent payment codes: those of the devices, and others
  Address,      \* an ordinary address
  Asks,         \* what users ask create for
  MaxDrafts,    \* bound: PSBTs created
  MaxFaults,    \* bound: wrong answers of a signing device
  MaxEvents     \* bound: things that happen to the coins and the store

SpCoins == Coins \ OwnCoins

(* from_sp, the recipient, the amount, the fee rate and --locktime.        *)
Ask == [fromSp : BOOLEAN, to : Codes \cup {Address}, sats : Nat \ {0},
        rate : Nat, lock : Nat]

ASSUME SpendAssumption ==
  /\ OwnCoins \subseteq Coins
  /\ KeyOf \in [Coins -> Devices]
  /\ \A c, e \in OwnCoins : KeyOf[c] = KeyOf[e]
  /\ Devices \subseteq Codes /\ Address \notin Codes
  /\ Asks \subseteq Ask
  /\ \A a \in Asks : a.rate >= MinRate
  /\ MaxDrafts \in Nat /\ MaxFaults \in Nat /\ MaxEvents \in Nat

VARIABLES
  paired,   \* kiss_sp_keys: the device paired with, if any
  rows,     \* kiss_sp_outputs: whether an output found was in a block
  known,    \* the wallet's coins that BDK knows and takes to be unspent
  making,   \* what a running create --from-sp has chosen
  drafts,   \* PSBT files that create wrote, each with what was asked for
  answers,  \* PSBTs a device returned
  handed,   \* history: signed transactions broadcast handed to the network
  mined,    \* silent payments whose transaction is in a block
  gone,     \* coins spent by another wallet of the same keys
  net,      \* transactions the network took
  events    \* what happened to the coins and the store so far

store == <<paired, rows, known>>
files == <<making, drafts, answers, handed>>
network == <<mined, gone, net>>
vars == <<store, files, network, events>>

(* A script is an address, change of the BDK wallet, the stand-in for a    *)
(* code, none yet, or the one derived for a code in its k-th output.       *)
Script == [kind : {"address", "change", "stand-in", "none", "derived"},
           of : SUBSET Codes, k : Nat]

Plain(kind) == [kind |-> kind, of |-> {}, k |-> 0]
StandIn(code) == [kind |-> "stand-in", of |-> {code}, k |-> 0]
Derived(code, k) == [kind |-> "derived", of |-> {code}, k |-> k]

(* info is PSBT_OUT_SP_V0_INFO.  The lock stands for everything else that  *)
(* decides the transaction id.                                             *)
Out == [sats : Nat, info : SUBSET Codes, script : Script]
Tx == [ins : SUBSET Coins, outs : Seq(Out), lock : Nat]
Sig == [coin : Coins, key : Devices, over : Tx]
Psbt == [v2 : BOOLEAN, tx : Tx, sigs : SUBSET Sig]
Draft == [ask : Asks, psbt : Psbt]

(* The transaction as such, which is what a signature signs: the codes are *)
(* fields of the PSBT.                                                     *)
Unsigned(tx) == [tx EXCEPT !.outs = [i \in DOMAIN @ |-> [@[i] EXCEPT !.info = {}]]]

Sats(tx) ==
  LET sum[n \in 0..Len(tx.outs)] == IF n = 0 THEN 0 ELSE sum[n-1] + tx.outs[n].sats
  IN  sum[Len(tx.outs)]

Spent == gone \cup UNION {t.ins : t \in net}

Init ==
  /\ paired = {}
  /\ rows = << >>
  /\ known = OwnCoins
  /\ making = {}
  /\ drafts = {}
  /\ answers = {}
  /\ handed = {}
  /\ mined = SpCoins
  /\ gone = {}
  /\ net = {}
  /\ events = 0

-----------------------------------------------------------------------------
(* The coins and the store.                                                *)

Event == events < MaxEvents /\ events' = events + 1

(* sp-pair replaces the keys and leaves the rows.                          *)
Pair(device) ==
  /\ paired # {device}
  /\ paired' = {device}
  /\ IF paired = {} THEN UNCHANGED events ELSE Event
  /\ UNCHANGED <<rows, known, files, network>>

(* A silent payment is mined again.                                        *)
Arrive(c) ==
  /\ c \notin mined
  /\ mined' = mined \cup {c}
  /\ UNCHANGED <<store, files, gone, net, events>>

(* A scan with the keys of now finds it.                                   *)
Find(c) ==
  /\ c \in mined /\ paired = {KeyOf[c]}
  /\ rows' = [r \in DOMAIN rows \cup {c} |-> IF r = c THEN "mined" ELSE rows[r]]
  /\ rows' # rows
  /\ UNCHANGED <<paired, known, files, network, events>>

(* sp-scan --tx finds one that is not in a block, or gets no answer about  *)
(* the block.                                                              *)
See(c) ==
  /\ paired = {KeyOf[c]}
  /\ c \in DOMAIN rows => rows[c] = "mined"
  /\ rows' = [r \in DOMAIN rows \cup {c} |-> IF r = c THEN "unconfirmed" ELSE rows[r]]
  /\ Event
  /\ UNCHANGED <<paired, known, files, network>>

(* sp-balance forgets it, or a scan that rewinds does.                     *)
Drop(c) ==
  /\ c \in DOMAIN rows
  /\ rows' = [r \in DOMAIN rows \ {c} |-> rows[r]]
  /\ Event
  /\ UNCHANGED <<paired, known, files, network>>

(* A block is replaced and its silent payment is not mined any more.       *)
Unmine(c) ==
  /\ c \in mined /\ c \notin Spent
  /\ mined' = mined \ {c}
  /\ Event
  /\ UNCHANGED <<store, files, gone, net>>

SpendElsewhere(c) ==
  /\ c \in mined \cup OwnCoins /\ c \notin Spent
  /\ gone' = gone \cup {c}
  /\ Event
  /\ UNCHANGED <<store, files, mined, net>>

(* sync                                                                    *)
Sync ==
  /\ known' = OwnCoins \ Spent
  /\ known' # known
  /\ UNCHANGED <<paired, rows, files, network, events>>

-----------------------------------------------------------------------------
(* create                                                                  *)

MutChecked(c) == paired # {}   \* mutant: the stored output is believed

(* SpCoin::checked: the key and the stored tweak give the stored script.   *)
Checked(c) == paired = {KeyOf[c]}

(* candidates of spstore.                                                  *)
Candidates == {c \in DOMAIN rows : rows[c] = "mined"}

(* Those Esplora knows and says are unspent.                               *)
Unspent == (Candidates \cap mined) \ Spent

(* Mutant: no coins are a choice, too.                                     *)
MutPrepare(a) ==
  /\ a.fromSp /\ making = {} /\ paired # {}
  /\ \A c \in Candidates : Checked(c)
  /\ making' = {[ask |-> a, coins |-> Selected(Unspent, a.sats, a.rate)]}
  /\ UNCHANGED <<store, drafts, answers, handed, network, events>>

(* prepare_sp_spend.  One stored output of another pairing ends it.        *)
Prepare(a) ==
  /\ a.fromSp /\ making = {}
  /\ Cardinality(drafts) < MaxDrafts
  /\ paired # {}
  /\ \A c \in Candidates : Checked(c)
  /\ LET coins == Selected(Unspent, a.sats, a.rate)
     IN  /\ coins # {}
         /\ making' = {[ask |-> a, coins |-> coins]}
  /\ UNCHANGED <<store, drafts, answers, handed, network, events>>

(* The output for the recipient that BDK builds.                           *)
Recipient(a) ==
  [sats |-> a.sats, info |-> {},
   script |-> IF a.to = Address THEN Plain("address") ELSE StandIn(a.to)]

(* What BDK takes for spending `coins`.                                    *)
Charged(a, coins) ==
  BdkFee(a.rate, IF a.fromSp THEN BdkSpInput ELSE BdkOwnInput, Cardinality(coins), 43)

Covers(a, coins) == Total(coins) >= a.sats + Charged(a, coins)

(* build_transaction: these inputs and no other, the recipient and what is *)
(* left as change, in any order.                                           *)
Built(a, coins, script) ==
  LET change == {[sats |-> sats, info |-> {}, script |-> script] :
                   sats \in ChangeOf(Total(coins) - a.sats - Charged(a, coins), a.rate)}
      outs == {<<Recipient(a)>> \o SetToSeq(change), SetToSeq(change) \o <<Recipient(a)>>}
  IN  {[ins |-> coins, outs |-> o, lock |-> a.lock] : o \in outs}

StandIns(tx, code) == {i \in DOMAIN tx.outs : tx.outs[i].script = StandIn(code)}

(* Mutant: change is claimed when there is any stand-in of its code.       *)
MutRecipients(a, tx, change) ==
  (IF a.to \in Codes THEN <<a.to>> ELSE << >>)
  \o SetToSeq({code \in change : StandIns(tx, code) # {} /\ a.to # code})

(* The codes paid: the recipient's, and the wallet's own when a stand-in   *)
(* of it is left for change.                                               *)
Recipients(a, tx, change) ==
  LET paid == IF a.to \in Codes THEN <<a.to>> ELSE << >>
      already(code) == {k \in DOMAIN paid : paid[k] = code}
  IN  paid \o SetToSeq({code \in change :
                          Cardinality(StandIns(tx, code)) > Cardinality(already(code))})

(* resolve_sp_outputs: every code claims the first stand-in of its own     *)
(* that no code before it did.                                             *)
Resolved(tx, codes) ==
  LET claimed[n \in 0..Len(codes)] ==
        IF n = 0 THEN {}
        ELSE claimed[n-1] \cup {Min(StandIns(tx, codes[n]) \ claimed[n-1])}
  IN  claimed[Len(codes)]

(* build_v2: a claimed output names its code and has no script.            *)
Claimed(tx, indexes) ==
  [tx EXCEPT !.outs = [i \in DOMAIN tx.outs |->
     IF i \in indexes
     THEN [tx.outs[i] EXCEPT !.info = tx.outs[i].script.of, !.script = Plain("none")]
     ELSE tx.outs[i]]]

Write(a, tx, change) ==
  LET indexes == Resolved(tx, Recipients(a, tx, change))
  IN  drafts' = drafts \cup
        {[ask |-> a,
          psbt |-> [v2 |-> a.fromSp \/ indexes # {}, tx |-> Claimed(tx, indexes), sigs |-> {}]]}

(* own_sp_address: the code of the keys the wallet has now.                *)
OwnSpAddress == paired

(* create --from-sp: the code that takes the change is read again.         *)
CreateFromSp ==
  /\ \E m \in making :
       /\ Covers(m.ask, m.coins)
       /\ \E code \in OwnSpAddress : \E tx \in Built(m.ask, m.coins, StandIn(code)) :
            Write(m.ask, tx, OwnSpAddress)
  /\ making' = {}
  /\ UNCHANGED <<store, answers, handed, network, events>>

(* It ends without a PSBT: BDK finds the coins short, or it is stopped.    *)
CreateFails ==
  /\ making # {}
  /\ making' = {}
  /\ UNCHANGED <<store, drafts, answers, handed, network, events>>

(* create from the BDK wallet: BDK selects.                                *)
Create(a) ==
  /\ ~a.fromSp
  /\ Cardinality(drafts) < MaxDrafts
  /\ \E coins \in SUBSET known :
       /\ Cardinality(coins) <= MaxInputs
       /\ Covers(a, coins)
       /\ \E tx \in Built(a, coins, Plain("change")) : Write(a, tx, {})
  /\ UNCHANGED <<store, making, answers, handed, network, events>>

-----------------------------------------------------------------------------
(* The signing device.                                                     *)

(* What output i must pay: its code, in its place among the outputs of     *)
(* that code.                                                              *)
Expected(tx, i) ==
  LET before == {j \in 1..i-1 : tx.outs[j].info = tx.outs[i].info}
  IN  {Derived(code, Cardinality(before)) : code \in tx.outs[i].info}

Filled(tx) ==
  [tx EXCEPT !.outs = [i \in DOMAIN tx.outs |->
     IF tx.outs[i].info = {} THEN tx.outs[i]
     ELSE [tx.outs[i] EXCEPT !.script = CHOOSE s \in Expected(tx, i) : TRUE]]]

(* The device signs for the coins among `coins` with its own key.          *)
SignedBy(device, p, tx, coins) ==
  [p EXCEPT !.tx = tx,
            !.sigs = {[coin |-> c, key |-> device, over |-> Unsigned(tx)] : c \in coins}]

(* Whether the coins are of one kind, and silent payments in a v2.         *)
Signable(p) ==
  /\ p.tx.ins \cap SpCoins = {} \/ p.tx.ins \subseteq SpCoins
  /\ p.tx.ins \cap SpCoins # {} => p.v2

Owned(device, tx) == {c \in tx.ins : KeyOf[c] = device}

Honest(device, d) ==
  SignedBy(device, d.psbt, Filled(d.psbt.tx), Owned(device, d.psbt.tx))

Answer(device, d) ==
  /\ Signable(d.psbt) /\ Owned(device, d.psbt.tx) # {}
  /\ answers' = answers \cup {Honest(device, d)}
  /\ answers' # answers
  /\ UNCHANGED <<store, making, drafts, handed, network, events>>

(* What a faulty device may sign instead: another lock time, amount, input *)
(* or recipient, a script of another code or none.                         *)
Faulty(tx) ==
  LET t == Filled(tx)
  IN  {[t EXCEPT !.lock = @ + 1], [t EXCEPT !.outs[1].sats = @ + 1],
       [t EXCEPT !.ins = Coins \ @]}
      \cup {[t EXCEPT !.outs[1].script = s] :
              s \in {Plain("none"), Plain("change")} \cup {Derived(code, 0) : code \in Codes}}

(* That, signed by the owner of the coins, or the right transaction signed *)
(* by nobody or by another device.                                         *)
Misanswers(device, d) ==
  LET tx == Filled(d.psbt.tx)
  IN  {SignedBy(device, d.psbt, t, t.ins) :
         t \in {tx} \cup IF Owned(device, tx) = {} THEN {} ELSE Faulty(tx)}
      \cup {SignedBy(device, d.psbt, tx, {})}

Wrong == answers \ {Honest(device, d) : device \in Devices, d \in drafts}

WrongAnswer(device, d) ==
  /\ Cardinality(Wrong) < MaxFaults
  /\ \E p \in Misanswers(device, d) : answers' = answers \cup {p}
  /\ answers' # answers
  /\ UNCHANGED <<store, making, drafts, handed, network, events>>

-----------------------------------------------------------------------------
(* broadcast                                                               *)

(* Mutant: the lock time is not compared.                                  *)
MutSameTransaction(original, signed) ==
  /\ signed.ins = original.ins
  /\ DOMAIN signed.outs = DOMAIN original.outs
  /\ \A i \in DOMAIN signed.outs :
       /\ signed.outs[i].sats = original.outs[i].sats
       /\ signed.outs[i].info = original.outs[i].info
       /\ original.outs[i].info = {} => signed.outs[i].script = original.outs[i].script

(* same_transaction: nothing but the scripts of codes may differ.          *)
SameTransaction(original, signed) ==
  /\ signed.ins = original.ins
  /\ signed.lock = original.lock
  /\ DOMAIN signed.outs = DOMAIN original.outs
  /\ \A i \in DOMAIN signed.outs :
       /\ signed.outs[i].sats = original.outs[i].sats
       /\ signed.outs[i].info = original.outs[i].info
       /\ original.outs[i].info = {} => signed.outs[i].script = original.outs[i].script

(* verify: and those are derived from these inputs for their code.         *)
Verified(original, signed) ==
  /\ SameTransaction(original, signed)
  /\ \A i \in DOMAIN signed.outs :
       signed.outs[i].info # {} => signed.outs[i].script \in Expected(signed, i)

(* scan_psbt and the first part of broadcast: an answer to this PSBT.      *)
Matches(original, signed) ==
  /\ signed.v2 = original.v2
  /\ IF signed.v2 THEN Verified(original.tx, signed.tx) ELSE signed.tx = original.tx

(* Mutant: taproot signatures are left behind.                             *)
MutToV0(p) ==
  [v2 |-> FALSE, tx |-> Unsigned(p.tx), sigs |-> {s \in p.sigs : s.coin \in OwnCoins}]

(* to_v0: the transaction the fields of a v2 describe, with all signatures; *)
(* a v0 PSBT is what it is.                                                *)
ToV0(p) == [v2 |-> FALSE, tx |-> Unsigned(p.tx), sigs |-> p.sigs]

(* The inputs are coins of this wallet.                                    *)
KnownInputs(tx) == tx.ins \subseteq known \cup DOMAIN rows

(* signed_sp_coins: every stored coin among the inputs is checked again.   *)
SignedSpCoins(tx) == \A c \in tx.ins \cap DOMAIN rows : Checked(c)

(* The key that must have signed for c: the descriptor's, or the one the   *)
(* tweak and the key paired with now give.                                 *)
ExpectedKey(c) == IF c \in DOMAIN rows THEN paired ELSE {KeyOf[c]}

(* verify_psbt_signatures and the finalizers.                              *)
FullySigned(p) ==
  \A c \in p.tx.ins :
    /\ \A s \in p.sigs : s.coin = c => s.over = p.tx
    /\ \E key \in ExpectedKey(c) : [coin |-> c, key |-> key, over |-> p.tx] \in p.sigs

Accepted(original, signed) ==
  /\ Matches(original, signed)
  /\ KnownInputs(ToV0(signed).tx)
  /\ SignedSpCoins(ToV0(signed).tx)
  /\ FullySigned(ToV0(signed))

(* What the network takes: coins that are there, that no other transaction *)
(* spends, and that their owners signed for.                               *)
Takes(p) ==
  /\ p.tx.ins \subseteq mined \cup OwnCoins
  /\ p.tx.ins \cap gone = {}
  /\ \A t \in net : t # p.tx => t.ins \cap p.tx.ins = {}
  /\ \A c \in p.tx.ins : [coin |-> c, key |-> KeyOf[c], over |-> p.tx] \in p.sigs
  /\ Total(p.tx.ins) >= Sats(p.tx)

(* broadcast with the file create wrote and any answer of a device.        *)
Broadcast(d, p) ==
  /\ Accepted(d.psbt, p)
  /\ handed' = handed \cup {ToV0(p)}
  /\ net' = IF Takes(ToV0(p)) THEN net \cup {Unsigned(p.tx)} ELSE net
  /\ <<handed, net>>' # <<handed, net>>
  /\ UNCHANGED <<store, making, drafts, answers, mined, gone, events>>

-----------------------------------------------------------------------------
World ==
  \/ \E device \in Devices : Pair(device)
  \/ \E c \in SpCoins : Arrive(c) \/ Find(c) \/ See(c) \/ Drop(c) \/ Unmine(c)
  \/ \E c \in Coins : SpendElsewhere(c)
  \/ Sync

Next ==
  \/ World
  \/ \E a \in Asks : Prepare(a) \/ Create(a)
  \/ CreateFromSp \/ CreateFails
  \/ \E device \in Devices, d \in drafts : Answer(device, d) \/ WrongAnswer(device, d)
  \/ \E d \in drafts, p \in answers : Broadcast(d, p)

Spec == Init /\ [][Next]_vars

-----------------------------------------------------------------------------
(* The store, the files, the network and what commands hold have their     *)
(* types, and the store has rows of payments to this wallet only.          *)
SpendTyped ==
  /\ paired \subseteq Devices /\ Cardinality(paired) <= 1
  /\ DOMAIN rows \subseteq SpCoins
  /\ \A c \in DOMAIN rows : rows[c] \in {"mined", "unconfirmed"}
  /\ known \subseteq OwnCoins
  /\ \A m \in making : m.ask \in Asks /\ m.coins \in (SUBSET SpCoins) \ {{}}
  /\ drafts \subseteq Draft /\ answers \cup handed \subseteq Psbt
  /\ mined \subseteq SpCoins /\ gone \subseteq Coins /\ net \subseteq Tx

(* The scripts a payment may end in.                                       *)
Pays(out, to) ==
  \/ to = Address /\ out.script = Plain("address")
  \/ to \in Codes /\ \E k \in 0..1 : out.script = Derived(to, k)

Change(out, a) ==
  IF a.fromSp THEN \E device \in Devices : Pays(out, device)
              ELSE out.script = Plain("change")

(* tx is what `a` asks for: one kind of coins and no more than the device  *)
(* takes, the amount to the recipient, the rest back to this wallet, every *)
(* output with a script of its own, the asked lock time, and a fee between *)
(* what BDK charges and what it drops instead of making change.            *)
Fulfils(tx, a) ==
  /\ tx.ins \subseteq (IF a.fromSp THEN SpCoins ELSE OwnCoins)
  /\ Cardinality(tx.ins) <= MaxInputs
  /\ tx.lock = a.lock
  /\ \E i \in DOMAIN tx.outs :
       /\ tx.outs[i].sats = a.sats /\ Pays(tx.outs[i], a.to)
       /\ \A j \in DOMAIN tx.outs \ {i} :
            Change(tx.outs[j], a) /\ tx.outs[j].script # tx.outs[i].script
  /\ Len(tx.outs) <= 2
  /\ Total(tx.ins) >= Sats(tx) + Charged(a, tx.ins)
  /\ Total(tx.ins) < Sats(tx) + Charged(a, tx.ins) + 2 * ChangeFee(a.rate) + Dust

(* Whatever the device answers, and whichever files are put together, what *)
(* is handed to the network is what create was asked for.                  *)
PaidAsAsked == \A p \in handed : \E d \in drafts : Fulfils(p.tx, d.ask)

(* ... and every coin of it is signed for by the key that owns it, for     *)
(* this very transaction, also when the wallet was paired with another     *)
(* device after the coin was found or the PSBT was made.                   *)
SignedByOwner ==
  \A p \in handed : \A c \in p.tx.ins :
    [coin |-> c, key |-> KeyOf[c], over |-> p.tx] \in p.sigs

(* Coins that select chose are never too few for BDK, which prices the     *)
(* transaction its own way and may not add any.                            *)
NeverShort == \A m \in making : Covers(m.ask, m.coins)

(* When the coins there are do not reach the input limit, select refuses   *)
(* only what no choice of them could pay for.  Rounding can make a coin    *)
(* that is worth no more than it costs one sat cheaper beside others than  *)
(* it is on its own, and select leaves it out all the same.                *)
RefusedOnlyWhenPoor ==
  \A a \in Asks :
    LET worthwhile == Worthwhile(Unspent, a.rate)
    IN  /\ Selected(Unspent, a.sats, a.rate) = {}
        /\ Cardinality(worthwhile) <= MaxInputs
        => \A coins \in SUBSET Unspent :
             Total(coins) < Needed(a.sats, a.rate, Cardinality(coins))
                              + Cardinality(coins \ worthwhile)

(* A payment that can still be made: its coins are there, nobody spent     *)
(* them, the store has them and the wallet is paired with their device.    *)
Payable(d) ==
  LET ins == d.psbt.tx.ins
  IN  /\ ins \subseteq mined \cup OwnCoins
      /\ ins \cap Spent = {}
      /\ \A c \in ins \cap SpCoins : c \in DOMAIN rows /\ paired = {KeyOf[c]}

(* A PSBT that create wrote never becomes useless on the way: the device   *)
(* that owns its coins can sign it, and that answer passes every check of  *)
(* broadcast and is taken by the network, whatever happened to the wallet  *)
(* and its files since, unless the coins themselves are lost to it.        *)
DraftCanBePaid ==
  \A d \in drafts : Payable(d) =>
    \E device \in Devices :
      LET p == Honest(device, d)
      IN  Signable(d.psbt) /\ Accepted(d.psbt, p) /\ Takes(ToV0(p))
=============================================================================
