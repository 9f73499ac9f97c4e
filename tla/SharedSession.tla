--------------------------- MODULE SharedSession ---------------------------
(***************************************************************************)
(* What shared.rs decides: the state of one silent payment that two        *)
(* wallets pay together, what a signer or the other wallet may add to it,  *)
(* and one wallet's record of it (struct Session).  Like shared.rs this    *)
(* module has no variables: every operator is a function of its arguments. *)
(*                                                                         *)
(* A PSBT is abstracted to what decides the outcome.  A coin is an atom; a *)
(* half is what one call of WalletLink::fund built, its coins and its      *)
(* change, told apart from every other half by the wallet and the number   *)
(* of the change address it reserved.  The transaction id is a function of *)
(* the deal (recipient and amount) and the halves, once the script of the  *)
(* recipient's output is known.  Keys, proofs, amounts, the fee rate and   *)
(* encodings are left out: a share or a signature in a PSBT here is one    *)
(* whose proof or verification passes.                                     *)
(***************************************************************************)
EXTENDS Naturals, Sequences, FiniteSets

CONSTANTS
  Wallets,    \* wallet folders, named by their master fingerprint
  Coins,      \* coins of all wallets
  Deals,      \* what can be agreed: recipient and amount
  NoSession   \* the session file holds no session

Role   == {"Start", "Join"}
Stage  == {"Proposed", "Active", "Done"}
Newest == {"Mine", "Theirs", "Joined"}
Kind   == {"Proposal", "Update", "Done"}

(* The half of the transaction one wallet brings.                          *)
Half == [owner : Wallets, no : Nat, coins : SUBSET Coins]

(* A transaction id, and the session id.  The session id is drawn by the   *)
(* wallet that proposes; the owner and number of its half name it.         *)
Tx  == [deal : Deals, halves : SUBSET Half]
Sid == [owner : Wallets, no : Nat]

(* open stands for tx_modifiable_flags, script for the recipient's output  *)
(* having one; shares and sigs are the coins whose input carries one.      *)
Psbt == [deal : Deals, halves : SUBSET Half, open : BOOLEAN,
         shares : SUBSET Coins, script : BOOLEAN, sigs : SUBSET Coins]

(* The optional txid is a set of at most one element, as peer is below.    *)
Message == [kind : Kind, sid : Sid, from : Wallets, psbt : Psbt,
            txid : SUBSET Tx]

Session == [sid : Sid, role : Role, me : Wallets, peer : SUBSET Wallets,
            stage : Stage, newest : Newest, psbt : Psbt,
            mine : SUBSET Coins, visits : Nat, outbox : Seq(Message),
            txid : SUBSET Tx]

(* NoSession is a model value of its own, no record.                       *)
ASSUME NoSessionAssumption == NoSession \notin Session

-----------------------------------------------------------------------------
(* The transaction.                                                        *)

InputsOf(p) == UNION {h.coins : h \in p.halves}

TxOf(p) == [deal |-> p.deal, halves |-> p.halves]

(* unsigned_transaction: there is one only when every output has a script. *)
MutHasTx(p) == TRUE   \* mutant: signatures are taken before the script exists

HasTx(p) == p.script

SharesComplete(p) == InputsOf(p) \subseteq p.shares

-----------------------------------------------------------------------------
(* Taking in what a signer or the other wallet sent.                       *)

(* same_skeleton: nothing that decides the transaction id may differ.      *)
SameSkeleton(state, incoming) ==
  /\ state.deal = incoming.deal
  /\ state.halves = incoming.halves

(* The result of absorb: shares first, then the script they complete, then *)
(* the signatures.  What is already held is never taken back.              *)
Absorbed(state, incoming) ==
  LET shares == state.shares \cup incoming.shares
  IN  [state EXCEPT
         !.shares = shares,
         !.script = state.script \/ InputsOf(state) \subseteq shares,
         !.sigs   = state.sigs \cup incoming.sigs]

(* The checks of absorb, in the order the code makes them: the transaction *)
(* unchanged and closed, shares on its inputs, a script only once every    *)
(* share is here, a signature only when there is a transaction to check it *)
(* against, and from a signer only on this wallet's own coins.             *)
AbsorbAccepts(state, incoming, source, mine) ==
  /\ SameSkeleton(state, incoming)
  /\ ~incoming.open
  /\ incoming.shares \subseteq InputsOf(state)
  /\ incoming.script => SharesComplete(Absorbed(state, incoming))
  /\ incoming.sigs # {} => HasTx(Absorbed(state, incoming))
  /\ incoming.sigs \subseteq (IF source = "Signer" THEN mine ELSE InputsOf(state))

-----------------------------------------------------------------------------
(* Building the transaction.                                               *)

(* propose: A's half, open for another wallet's coins and change.          *)
Proposed(half, deal) ==
  [deal |-> deal, halves |-> {half}, open |-> TRUE,
   shares |-> {}, script |-> FALSE, sigs |-> {}]

(* read_proposal: it is another wallet's, and still open.                  *)
ReadableProposal(m, me) ==
  /\ m.kind = "Proposal"
  /\ m.from # me
  /\ m.psbt.open
  /\ ~m.psbt.script
  /\ InputsOf(m.psbt) # {}

(* no_coin_twice, when B's half goes into A's proposal.                    *)
JoinAccepts(proposal, half) == InputsOf(proposal) \cap half.coins = {}

(* join: B's coins and change are added and the transaction is closed.     *)
JoinedPsbt(proposal, half) ==
  [Proposed(half, proposal.deal) EXCEPT
     !.halves = proposal.halves \cup {half}, !.open = FALSE]

(* adopt_join: A's own half as proposed, at least one coin added, no coin  *)
(* twice, the agreed recipient and amount, closed.                         *)
AdoptAccepts(proposal, joined) ==
  /\ ~joined.open
  /\ proposal.deal = joined.deal
  /\ proposal.halves \subseteq joined.halves
  /\ InputsOf(joined) # InputsOf(proposal)
  /\ \A h, k \in joined.halves : h # k => h.coins \cap k.coins = {}

(* Mutant: the proposer does not close the transaction it adopts.          *)
MutAdoptedPsbt(proposal, joined) == [proposal EXCEPT !.halves = joined.halves]

(* The result of adopt_join takes no share and no signature.               *)
AdoptedPsbt(proposal, joined) ==
  [proposal EXCEPT !.halves = joined.halves, !.open = FALSE]

(* The checks finalize makes from nothing before it builds the transaction.*)
FinalizeAccepts(p) ==
  /\ ~p.open
  /\ SharesComplete(p)
  /\ HasTx(p)
  /\ p.sigs = InputsOf(p)

-----------------------------------------------------------------------------
(* One wallet's record of one shared send.                                 *)

SidOf(half) == [owner |-> half.owner, no |-> half.no]

ProposalMessage(s) ==
  [kind |-> "Proposal", sid |-> s.sid, from |-> s.me, psbt |-> s.psbt, txid |-> {}]

(* update_message: this wallet's whole state, signatures included.         *)
UpdateMessage(s) ==
  [kind |-> "Update", sid |-> s.sid, from |-> s.me, psbt |-> s.psbt, txid |-> {}]

DoneMessage(s) ==
  [kind |-> "Done", sid |-> s.sid, from |-> s.me, psbt |-> s.psbt, txid |-> s.txid]

(* Session::propose leaves the proposal in the outbox.                     *)
StartSession(me, half, deal) ==
  LET s == [sid |-> SidOf(half), role |-> "Start", me |-> me, peer |-> {},
            stage |-> "Proposed", newest |-> "Mine",
            psbt |-> Proposed(half, deal), mine |-> half.coins,
            visits |-> 0, outbox |-> << >>, txid |-> {}]
  IN  [s EXCEPT !.outbox = <<ProposalMessage(s)>>]

(* Session::join sends nothing: the update after the first visit does.     *)
JoinSession(me, m, half) ==
  [sid |-> m.sid, role |-> "Join", me |-> me, peer |-> {m.from},
   stage |-> "Active", newest |-> "Joined",
   psbt |-> JoinedPsbt(m.psbt, half), mine |-> half.coins,
   visits |-> 0, outbox |-> << >>, txid |-> {}]

(* Mutant: only an update gives the turn, having joined does not.          *)
MutMyTurn(s) ==
  /\ s.stage = "Active"
  /\ s.newest = "Theirs"
  /\ ~(s.mine \subseteq s.psbt.sigs)

(* Mutant: a wallet whose coins are not signed may always visit its signer.*)
MutMyTurnAlways(s) == s.stage = "Active" /\ ~(s.mine \subseteq s.psbt.sigs)

(* my_turn: the newest state came from the other side, or this wallet just *)
(* joined, and its own coins are not all signed.                           *)
MyTurn(s) ==
  /\ s.stage = "Active"
  /\ s.newest # "Mine"
  /\ ~(s.mine \subseteq s.psbt.sigs)

(* Mutant: only this wallet's own coins are looked at.                     *)
MutReady(s) == s.stage = "Active" /\ s.mine \subseteq s.psbt.sigs

(* ready counts the signed inputs and looks at nothing else.               *)
Ready(s) ==
  /\ s.stage = "Active"
  /\ s.psbt.sigs = InputsOf(s.psbt)

(* pass: whether the signer can only add its share.                        *)
ShareOnly(s) == ~(InputsOf(s.psbt) \ s.mine \subseteq s.psbt.shares)

(* respond takes an answer that absorb accepts and that adds something;    *)
(* any other answer is refused and leaves the session alone.               *)
RespondAccepts(s, answer) ==
  /\ MyTurn(s)
  /\ AbsorbAccepts(s.psbt, answer, "Signer", s.mine)
  /\ Absorbed(s.psbt, answer) # s.psbt

(* Mutant: the update is not put into the outbox.                          *)
MutResponded(s, answer) ==
  [s EXCEPT !.psbt = Absorbed(s.psbt, answer), !.newest = "Mine", !.visits = @ + 1]

Responded(s, answer) ==
  LET t == [s EXCEPT !.psbt = Absorbed(s.psbt, answer),
                     !.newest = "Mine",
                     !.visits = @ + 1]
  IN  [t EXCEPT !.outbox = Append(@, UpdateMessage(t))]

(* Mutant: the session id is recorded where the transaction id belongs.    *)
MutFinished(s) == [s EXCEPT !.stage = "Done", !.txid = {s.sid}]

(* finish, after the transaction was broadcast.                            *)
Finished(s) ==
  LET t == [s EXCEPT !.stage = "Done", !.txid = {TxOf(s.psbt)}]
  IN  [t EXCEPT !.outbox = Append(@, DoneMessage(t))]

-----------------------------------------------------------------------------
(* Session::receive.  A message that is ignored or refused leaves the      *)
(* session exactly as it was; apply works on a copy for that.              *)

(* apply: this shared send, from the other wallet in it.                   *)
ForThisSend(s, m) ==
  /\ m.sid = s.sid
  /\ m.from # s.me
  /\ s.peer \subseteq {m.from}

(* Mutant: the proposer adopts a joined transaction with every update.     *)
MutUpdateBase(s, m) ==
  IF s.role = "Start" THEN AdoptedPsbt(s.psbt, m.psbt) ELSE s.psbt

(* The state an update is absorbed into: A adopts the joined transaction   *)
(* first.                                                                  *)
UpdateBase(s, m) ==
  IF s.stage = "Proposed" THEN AdoptedPsbt(s.psbt, m.psbt) ELSE s.psbt

(* receive_update passes every check.                                      *)
UpdateAccepts(s, m) ==
  /\ s.stage = "Proposed" => AdoptAccepts(s.psbt, m.psbt)
  /\ AbsorbAccepts(UpdateBase(s, m), m.psbt, "Peer", s.mine)

(* Mutant: the state in the message replaces what is held.                 *)
MutUpdated(s, m) ==
  [s EXCEPT !.psbt = m.psbt, !.stage = "Active", !.newest = "Theirs", !.peer = {m.from}]

(* ... and what it makes of the session: nothing when a joined session     *)
(* holds everything in it already.                                         *)
Updated(s, m) ==
  LET next == Absorbed(UpdateBase(s, m), m.psbt)
  IN  IF s.stage = "Active" /\ next = s.psbt
      THEN s
      ELSE [s EXCEPT !.psbt = next, !.stage = "Active",
                     !.newest = "Theirs", !.peer = {m.from}]

(* receive_done takes the state that travels with the news first, then     *)
(* compares the reported transaction with its own.                         *)
DoneAccepts(s, m) ==
  /\ UpdateAccepts(s, m)
  /\ HasTx(Updated(s, m).psbt)
  /\ m.txid = {TxOf(Updated(s, m).psbt)}

DoneTaken(s, m) ==
  [Updated(s, m) EXCEPT !.stage = "Done", !.txid = m.txid]

(* Mutant: the news that a send is done is taken without its state.        *)
MutReceivedNews(s, m) ==
  CASE m.kind = "Update" /\ ForThisSend(s, m) /\ s.stage # "Done"
       /\ UpdateAccepts(s, m) -> Updated(s, m)
    [] m.kind = "Done" /\ m.sid = s.sid /\ s.stage = "Active"
       -> [s EXCEPT !.stage = "Done", !.txid = {TxOf(s.psbt)}]
    [] OTHER -> s

(* The session after one message.                                          *)
Received(s, m) ==
  CASE m.kind = "Update" /\ ForThisSend(s, m) /\ s.stage # "Done"
       /\ UpdateAccepts(s, m) -> Updated(s, m)
    [] m.kind = "Done" /\ ForThisSend(s, m) /\ s.stage = "Active"
       /\ DoneAccepts(s, m) -> DoneTaken(s, m)
    [] OTHER -> s

-----------------------------------------------------------------------------
(* The signing device, as shared.rs and the reference signer of the tests  *)
(* use it.  It adds a share for each of its coins; when every other share  *)
(* is in the request it also signs.  A partial answer leaves out some of   *)
(* its coins.  An answer with nothing new is an earlier QR read again, or  *)
(* one that does not parse.                                                *)

Answer(s, shares, sigs) ==
  [s.psbt EXCEPT !.shares = shares,
                 !.script = @ \/ InputsOf(s.psbt) \subseteq s.psbt.shares \cup shares,
                 !.sigs = sigs]

WholeAnswer(s) ==
  Answer(s, s.mine, IF ShareOnly(s) THEN {} ELSE s.mine)

PartialAnswers(s) ==
  {Answer(s, shares, sigs) :
     shares \in SUBSET s.mine,
     sigs \in IF ShareOnly(s) THEN {{}} ELSE SUBSET s.mine}

EmptyAnswer(s) == [Answer(s, {}, {}) EXCEPT !.script = FALSE]

(* A session that goes on as t took nothing back of what it was as s.      *)
StageNo(s) == CASE s.stage = "Proposed" -> 0 [] s.stage = "Active" -> 1 [] OTHER -> 2

Extends(s, t) ==
  /\ s.psbt.shares \subseteq t.psbt.shares
  /\ s.psbt.sigs \subseteq t.psbt.sigs
  /\ s.psbt.halves \subseteq t.psbt.halves
  /\ s.stage # "Proposed" => t.psbt.halves = s.psbt.halves
  /\ StageNo(s) <= StageNo(t)

-----------------------------------------------------------------------------
(* What may be relied on.  A PSBT is sound when it holds only shares and   *)
(* signatures that signers gave for its transaction, a script only when    *)
(* the shares are complete and signatures only when there is a script.     *)

(* One coin's share or signature, and the transaction it was given in.     *)
Mark == [coin : Coins, tx : Tx]

Marks(coins, t) == {[coin |-> c, tx |-> t] : c \in coins}

SoundPsbt(shares, sigs) ==
  {p \in Psbt :
     /\ p.shares \subseteq InputsOf(p)
     /\ p.sigs \subseteq InputsOf(p)
     /\ p.script => SharesComplete(p)
     /\ p.sigs # {} => p.script
     /\ p.open => p.shares = {} /\ ~p.script
     /\ Marks(p.shares, TxOf(p)) \subseteq shares
     /\ Marks(p.sigs, TxOf(p)) \subseteq sigs}

SoundMessage(shares, sigs, paid) ==
  {m \in Message :
     /\ m.psbt \in SoundPsbt(shares, sigs)
     /\ m.kind = "Done" => m.txid \subseteq paid}

SoundSession(shares, sigs, paid) ==
  {s \in Session :
     /\ s.psbt \in SoundPsbt(shares, sigs)
     /\ s.outbox \in Seq(SoundMessage(shares, sigs, paid))
     /\ s.mine # {} /\ s.mine \subseteq InputsOf(s.psbt)
     /\ s.psbt.open <=> s.stage = "Proposed"
     /\ IF s.stage = "Done"
        THEN s.txid = {TxOf(s.psbt)} /\ s.txid \subseteq paid
        ELSE s.txid = {}}
=============================================================================
