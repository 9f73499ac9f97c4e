------------------------- MODULE SharedSessionProofs -------------------------
(***************************************************************************)
(* Lemmas about the operators of shared.rs: what they make of a sound PSBT *)
(* is sound, so what they make of a sound session is.  The proofs about    *)
(* the running commands and about the commands that work from files rest   *)
(* on them.  At the end: the fee two fair halves agree on.                 *)
(***************************************************************************)
EXTENDS SharedSession, SharedFee, SequenceTheorems, TLAPS

(* A sequence of elements of a set is one of elements of a larger set.     *)
LEMMA SeqMono ==
  ASSUME NEW S, NEW T, S \subseteq T
  PROVE  Seq(S) \subseteq Seq(T)
OBVIOUS

(* One element is a sequence of one: the outbox with a first message.      *)
LEMMA OneElement ==
  ASSUME NEW S, NEW e \in S
  PROVE  <<e>> \in Seq(S)
OBVIOUS

(* An empty outbox, inbox or batch is a sequence of anything.              *)
LEMMA NoMessages ==
  ASSUME NEW S
  PROVE  << >> \in Seq(S)
OBVIOUS

-----------------------------------------------------------------------------
(* More shares, more signatures and more payments keep what is sound sound. *)
LEMMA PsbtMono ==
  ASSUME NEW sh, NEW sg, NEW sh1, NEW sg1, sh \subseteq sh1, sg \subseteq sg1
  PROVE  SoundPsbt(sh, sg) \subseteq SoundPsbt(sh1, sg1)
BY DEF SoundPsbt

(* A sound message stays sound while it waits and more is given or paid.   *)
LEMMA MessageMono ==
  ASSUME NEW sh, NEW sg, NEW ch, NEW sh1, NEW sg1, NEW ch1,
         sh \subseteq sh1, sg \subseteq sg1, ch \subseteq ch1
  PROVE  SoundMessage(sh, sg, ch) \subseteq SoundMessage(sh1, sg1, ch1)
BY PsbtMono DEF SoundMessage

(* So does a sound session with the messages in its outbox.                *)
LEMMA SessionMono ==
  ASSUME NEW sh, NEW sg, NEW ch, NEW sh1, NEW sg1, NEW ch1,
         sh \subseteq sh1, sg \subseteq sg1, ch \subseteq ch1
  PROVE  SoundSession(sh, sg, ch) \subseteq SoundSession(sh1, sg1, ch1)
<1>1. Seq(SoundMessage(sh, sg, ch)) \subseteq Seq(SoundMessage(sh1, sg1, ch1))
  BY MessageMono, SeqMono
<1> QED
  BY <1>1, PsbtMono DEF SoundSession

-----------------------------------------------------------------------------
(* The operators of shared.rs on sound PSBTs.                              *)

(* What propose builds is sound: it is open and carries nothing a signer   *)
(* would have to give.                                                     *)
LEMMA ProposedSound ==
  ASSUME NEW sh, NEW sg, NEW half \in Half, NEW d \in Deals
  PROVE  /\ Proposed(half, d) \in SoundPsbt(sh, sg)
         /\ Proposed(half, d).open
         /\ InputsOf(Proposed(half, d)) = half.coins
BY DEF Proposed, SoundPsbt, Psbt, Half, InputsOf, Marks

(* What join builds is sound and closed, and the joining wallet's coins    *)
(* are inputs of it.                                                       *)
LEMMA JoinedSound ==
  ASSUME NEW sh, NEW sg, NEW half \in Half, NEW p \in Psbt
  PROVE  /\ JoinedPsbt(p, half) \in SoundPsbt(sh, sg)
         /\ ~JoinedPsbt(p, half).open
         /\ half.coins \subseteq InputsOf(JoinedPsbt(p, half))
BY DEF JoinedPsbt, Proposed, SoundPsbt, Psbt, Half, InputsOf, Marks

(* What adopt_join builds is sound and closed, and no input of the         *)
(* proposal is lost.                                                       *)
LEMMA AdoptedSound ==
  ASSUME NEW sh, NEW sg, NEW p \in SoundPsbt(sh, sg), NEW q \in SoundPsbt(sh, sg),
         p.open, AdoptAccepts(p, q)
  PROVE  /\ AdoptedPsbt(p, q) \in SoundPsbt(sh, sg)
         /\ ~AdoptedPsbt(p, q).open
         /\ InputsOf(p) \subseteq InputsOf(AdoptedPsbt(p, q))
<1> DEFINE r == AdoptedPsbt(p, q)
<1>1. r \in Psbt /\ ~r.open /\ r.shares = {} /\ r.sigs = {} /\ ~r.script
  BY DEF AdoptedPsbt, SoundPsbt, Psbt
<1>2. r.halves = q.halves /\ p.halves \subseteq q.halves
  BY DEF AdoptedPsbt, AdoptAccepts, SoundPsbt, Psbt
<1>3. InputsOf(p) \subseteq InputsOf(r)
  BY <1>2 DEF InputsOf
<1>4. Marks(r.shares, TxOf(r)) = {} /\ Marks(r.sigs, TxOf(r)) = {}
  BY <1>1 DEF Marks
<1> HIDE DEF r
<1>5. r \in SoundPsbt(sh, sg)
  BY <1>1, <1>4 DEF SoundPsbt
<1> QED
  BY <1>1, <1>3, <1>5 DEF r

(* What absorb accepts keeps a closed PSBT sound, and adds to it without   *)
(* changing its transaction.                                               *)
LEMMA AbsorbedSound ==
  ASSUME NEW sh, NEW sg, NEW p \in SoundPsbt(sh, sg), NEW q \in Psbt,
         NEW source, NEW mine \in SUBSET Coins, mine \subseteq InputsOf(p), ~p.open,
         AbsorbAccepts(p, q, source, mine),
         Marks(q.shares, TxOf(p)) \subseteq sh, Marks(q.sigs, TxOf(p)) \subseteq sg
  PROVE  /\ Absorbed(p, q) \in SoundPsbt(sh, sg)
         /\ ~Absorbed(p, q).open
         /\ TxOf(Absorbed(p, q)) = TxOf(p)
         /\ InputsOf(Absorbed(p, q)) = InputsOf(p)
<1> DEFINE r == Absorbed(p, q)
<1>0. p \in Psbt
  BY DEF SoundPsbt
<1>1. /\ r \in Psbt /\ r.deal = p.deal /\ r.halves = p.halves /\ r.open = p.open
      /\ r.shares = p.shares \cup q.shares
      /\ r.sigs = p.sigs \cup q.sigs
      /\ r.script = (p.script \/ InputsOf(p) \subseteq r.shares)
  BY <1>0 DEF Absorbed, Psbt
<1>2. InputsOf(r) = InputsOf(p) /\ TxOf(r) = TxOf(p)
  BY <1>1 DEF InputsOf, TxOf
<1>3. r.shares \subseteq InputsOf(r) /\ r.sigs \subseteq InputsOf(r)
  BY <1>1, <1>2 DEF AbsorbAccepts, SoundPsbt
<1>4. r.script => SharesComplete(r)
  BY <1>1, <1>2 DEF SoundPsbt, SharesComplete
<1>5. r.sigs # {} => r.script
  BY <1>1 DEF SoundPsbt, AbsorbAccepts, HasTx
<1>6. Marks(r.shares, TxOf(r)) \subseteq sh /\ Marks(r.sigs, TxOf(r)) \subseteq sg
  BY <1>1, <1>2 DEF SoundPsbt, Marks
<1> HIDE DEF r
<1>7. r \in SoundPsbt(sh, sg)
  BY <1>1, <1>3, <1>4, <1>5, <1>6 DEF SoundPsbt
<1> QED
  BY <1>1, <1>2, <1>7 DEF r

-----------------------------------------------------------------------------
(* The operators of struct Session on sound sessions.                      *)

(* Session::propose makes a sound session with one sound message to send.  *)
LEMMA StartSessionSound ==
  ASSUME NEW sh, NEW sg, NEW ch, NEW me \in Wallets, NEW half \in Half,
         NEW d \in Deals, half.coins # {}
  PROVE  StartSession(me, half, d) \in SoundSession(sh, sg, ch)
<1> DEFINE s == [sid |-> SidOf(half), role |-> "Start", me |-> me, peer |-> {},
                 stage |-> "Proposed", newest |-> "Mine",
                 psbt |-> Proposed(half, d), mine |-> half.coins,
                 visits |-> 0, outbox |-> << >>, txid |-> {}]
           m == ProposalMessage(s)
           t == [s EXCEPT !.outbox = <<m>>]
<1>1. SidOf(half) \in Sid /\ half.coins \subseteq Coins
  BY DEF SidOf, Sid, Half
<1>2. /\ Proposed(half, d) \in SoundPsbt(sh, sg) /\ Proposed(half, d).open
      /\ InputsOf(Proposed(half, d)) = half.coins
  BY ProposedSound
<1>3. m \in SoundMessage(sh, sg, ch)
  BY <1>1, <1>2 DEF ProposalMessage, SoundMessage, Message, Kind, SoundPsbt
<1> HIDE DEF m
<1>4. <<m>> \in Seq(SoundMessage(sh, sg, ch)) /\ <<m>> \in Seq(Message)
  <2>1. m \in Message
    BY <1>3 DEF SoundMessage
  <2> QED
    BY <1>3, <2>1, OneElement
<1>5. /\ t \in Session /\ t.psbt = Proposed(half, d) /\ t.outbox = <<m>>
      /\ t.mine = half.coins /\ t.stage = "Proposed" /\ t.txid = {}
  BY <1>1, <1>2, <1>4 DEF Session, Role, Stage, Newest, SoundPsbt
<1> HIDE DEF t
<1>6. t \in SoundSession(sh, sg, ch)
  BY <1>2, <1>4, <1>5 DEF SoundSession
<1> QED
  BY <1>6 DEF t, m, StartSession

(* Session::join makes a sound session, with nothing to send yet.          *)
LEMMA JoinSessionSound ==
  ASSUME NEW sh, NEW sg, NEW ch, NEW me \in Wallets, NEW m \in Message,
         NEW half \in Half, half.coins # {}
  PROVE  JoinSession(me, m, half) \in SoundSession(sh, sg, ch)
<1> DEFINE t == JoinSession(me, m, half)
<1>1. m.psbt \in Psbt /\ m.sid \in Sid /\ m.from \in Wallets /\ half.coins \subseteq Coins
  BY DEF Message, Half
<1>2. /\ JoinedPsbt(m.psbt, half) \in SoundPsbt(sh, sg)
      /\ ~JoinedPsbt(m.psbt, half).open
      /\ half.coins \subseteq InputsOf(JoinedPsbt(m.psbt, half))
  BY <1>1, JoinedSound
<1>3. /\ t \in Session /\ t.psbt = JoinedPsbt(m.psbt, half) /\ t.outbox = << >>
      /\ t.mine = half.coins /\ t.stage = "Active" /\ t.txid = {}
  BY <1>1, <1>2 DEF JoinSession, Session, Role, Stage, Newest, SoundPsbt
<1>4. << >> \in Seq(SoundMessage(sh, sg, ch))
  OBVIOUS
<1> HIDE DEF t
<1> QED
  BY <1>2, <1>3, <1>4 DEF SoundSession, t

(* Which parts of a sound session are sound.                               *)
LEMMA SessionParts ==
  ASSUME NEW sh, NEW sg, NEW ch, NEW s \in SoundSession(sh, sg, ch)
  PROVE  /\ s \in Session
         /\ s.psbt \in SoundPsbt(sh, sg)
         /\ s.outbox \in Seq(SoundMessage(sh, sg, ch))
         /\ s.mine \in SUBSET Coins /\ s.mine # {} /\ s.mine \subseteq InputsOf(s.psbt)
         /\ s.psbt.open <=> s.stage = "Proposed"
         /\ s.stage = "Done" => s.txid = {TxOf(s.psbt)} /\ s.txid \subseteq ch
         /\ s.stage # "Done" => s.txid = {}
BY DEF SoundSession, Session

(* receive_update keeps a session sound.                                   *)
LEMMA UpdatedSound ==
  ASSUME NEW sh, NEW sg, NEW ch, NEW s \in SoundSession(sh, sg, ch),
         NEW m \in SoundMessage(sh, sg, ch), s.stage # "Done", UpdateAccepts(s, m)
  PROVE  /\ Updated(s, m) \in SoundSession(sh, sg, ch)
         /\ Updated(s, m).stage = "Active"
<1> DEFINE base == UpdateBase(s, m)
           next == Absorbed(base, m.psbt)
           t == [s EXCEPT !.psbt = next, !.stage = "Active",
                          !.newest = "Theirs", !.peer = {m.from}]
<1>0. /\ s \in Session /\ s.psbt \in SoundPsbt(sh, sg)
      /\ s.mine \in SUBSET Coins /\ s.mine # {} /\ s.mine \subseteq InputsOf(s.psbt)
      /\ s.psbt.open <=> s.stage = "Proposed"
      /\ s.outbox \in Seq(SoundMessage(sh, sg, ch)) /\ s.txid = {}
      /\ s.stage \in {"Proposed", "Active"}
  BY SessionParts DEF Session, Stage
<1>1. m \in Message /\ m.psbt \in SoundPsbt(sh, sg) /\ m.from \in Wallets /\ m.psbt \in Psbt
  BY DEF SoundMessage, Message
<1>2. /\ base \in SoundPsbt(sh, sg) /\ ~base.open /\ s.mine \subseteq InputsOf(base)
      /\ AbsorbAccepts(base, m.psbt, "Peer", s.mine)
  <2>1. CASE s.stage = "Proposed"
    <3>1. AdoptAccepts(s.psbt, m.psbt) /\ s.psbt.open /\ base = AdoptedPsbt(s.psbt, m.psbt)
      BY <1>0, <2>1 DEF UpdateAccepts, UpdateBase
    <3> QED
      BY <1>0, <1>1, <3>1, AdoptedSound DEF UpdateAccepts
  <2>2. CASE s.stage = "Active"
    BY <1>0, <2>2 DEF UpdateAccepts, UpdateBase
  <2> QED
    BY <1>0, <2>1, <2>2
<1>3. /\ Marks(m.psbt.shares, TxOf(base)) \subseteq sh
      /\ Marks(m.psbt.sigs, TxOf(base)) \subseteq sg
  <2>1. TxOf(base) = TxOf(m.psbt)
    BY <1>2 DEF AbsorbAccepts, SameSkeleton, TxOf
  <2> QED
    BY <1>1, <2>1 DEF SoundPsbt
<1> HIDE DEF base
<1>4. /\ next \in SoundPsbt(sh, sg) /\ ~next.open
      /\ InputsOf(next) = InputsOf(base)
  BY <1>0, <1>1, <1>2, <1>3, AbsorbedSound
<1>5. Updated(s, m) = (IF s.stage = "Active" /\ next = s.psbt THEN s ELSE t)
  BY DEF Updated, base
<1> HIDE DEF next
<1>6. /\ t \in Session /\ t.psbt = next /\ t.stage = "Active" /\ t.mine = s.mine
      /\ t.outbox = s.outbox /\ t.txid = {}
  BY <1>0, <1>1, <1>4 DEF Session, Stage, Newest, SoundPsbt
<1> HIDE DEF t
<1>7. t \in SoundSession(sh, sg, ch)
  BY <1>0, <1>2, <1>4, <1>6 DEF SoundSession
<1> QED
  BY <1>5, <1>6, <1>7

(* receive keeps a session sound, whatever message comes.                  *)
LEMMA ReceivedSound ==
  ASSUME NEW sh, NEW sg, NEW ch, NEW s \in SoundSession(sh, sg, ch),
         NEW m \in SoundMessage(sh, sg, ch)
  PROVE  Received(s, m) \in SoundSession(sh, sg, ch)
<1>1. CASE m.kind = "Update" /\ ForThisSend(s, m) /\ s.stage # "Done" /\ UpdateAccepts(s, m)
  <2>1. Received(s, m) = Updated(s, m)
    BY <1>1 DEF Received
  <2> QED
    BY <1>1, <2>1, UpdatedSound
<1>2. CASE m.kind = "Done" /\ ForThisSend(s, m) /\ s.stage = "Active" /\ DoneAccepts(s, m)
  <2> DEFINE u == Updated(s, m)
             t == [u EXCEPT !.stage = "Done", !.txid = m.txid]
  <2>1. Received(s, m) = t
    BY <1>2 DEF Received, DoneTaken
  <2>2. u \in SoundSession(sh, sg, ch) /\ u.stage = "Active"
    BY <1>2, UpdatedSound DEF DoneAccepts
  <2>3. m.txid = {TxOf(u.psbt)} /\ m.txid \subseteq ch /\ m.txid \subseteq Tx
    BY <1>2 DEF DoneAccepts, SoundMessage, Message
  <2> HIDE DEF u
  <2>4. /\ u \in Session /\ u.psbt \in SoundPsbt(sh, sg) /\ ~u.psbt.open
        /\ u.outbox \in Seq(SoundMessage(sh, sg, ch))
        /\ u.mine # {} /\ u.mine \subseteq InputsOf(u.psbt)
    BY <2>2, SessionParts
  <2>5. /\ t \in Session /\ t.psbt = u.psbt /\ t.stage = "Done" /\ t.mine = u.mine
        /\ t.outbox = u.outbox /\ t.txid = m.txid
    BY <2>3, <2>4 DEF Session, Stage
  <2> HIDE DEF t
  <2> QED
    BY <2>1, <2>3, <2>4, <2>5 DEF SoundSession
<1>3. CASE Received(s, m) = s
  BY <1>3
<1> QED
  BY <1>1, <1>2, <1>3 DEF Received

(* A visit keeps a session sound once its shares and signatures count as   *)
(* given, and signs only what has every share.                             *)
LEMMA RespondedSound ==
  ASSUME NEW sh, NEW sg, NEW ch, NEW s \in SoundSession(sh, sg, ch),
         NEW answer \in Psbt, RespondAccepts(s, answer),
         NEW sh1, NEW sg1,
         sh1 = sh \cup Marks(answer.shares, TxOf(s.psbt)),
         sg1 = sg \cup Marks(answer.sigs, TxOf(s.psbt))
  PROVE  /\ Responded(s, answer) \in SoundSession(sh1, sg1, ch)
         /\ answer.sigs # {} =>
              Marks(InputsOf(s.psbt), TxOf(s.psbt)) \subseteq sh1
<1> DEFINE next == Absorbed(s.psbt, answer)
           r == [s EXCEPT !.psbt = next, !.newest = "Mine", !.visits = @ + 1]
           m == UpdateMessage(r)
           t == [r EXCEPT !.outbox = Append(@, m)]
<1>0. s \in SoundSession(sh1, sg1, ch)
  BY SessionMono
<1>1. /\ s \in Session /\ s.psbt \in SoundPsbt(sh1, sg1)
      /\ s.outbox \in Seq(SoundMessage(sh1, sg1, ch))
      /\ s.mine \in SUBSET Coins /\ s.mine # {} /\ s.mine \subseteq InputsOf(s.psbt)
      /\ s.stage = "Active" /\ ~s.psbt.open /\ s.txid = {}
  BY <1>0, SessionParts DEF RespondAccepts, MyTurn
<1>3. /\ next \in SoundPsbt(sh1, sg1) /\ ~next.open
      /\ TxOf(next) = TxOf(s.psbt) /\ InputsOf(next) = InputsOf(s.psbt)
  BY <1>1, AbsorbedSound DEF RespondAccepts
<1>4. answer.sigs # {} => next.script
  BY DEF RespondAccepts, AbsorbAccepts, HasTx
<1>5. next.script => Marks(InputsOf(next), TxOf(next)) \subseteq sh1
  BY <1>3 DEF SoundPsbt, SharesComplete, Marks
<1> HIDE DEF next
<1>6. /\ r \in Session /\ r.psbt = next /\ r.outbox = s.outbox /\ r.mine = s.mine
      /\ r.stage = "Active" /\ r.txid = {}
  <2>1. s.visits + 1 \in Nat /\ next \in Psbt
    BY <1>1, <1>3 DEF Session, SoundPsbt
  <2> DEFINE visits == s.visits + 1
  <2> HIDE DEF visits
  <2>2. [s EXCEPT !.psbt = next, !.newest = "Mine", !.visits = visits] \in Session
    BY <1>1, <2>1 DEF Session, Newest, visits
  <2>3. r \in Session
    BY <2>2 DEF visits
  <2> QED
    BY <1>1, <2>3 DEF Session
<1> HIDE DEF r
<1>7. m \in SoundMessage(sh1, sg1, ch) /\ m \in Message
  BY <1>3, <1>6 DEF UpdateMessage, SoundMessage, Message, Kind, Session
<1> HIDE DEF m
<1>8. Append(r.outbox, m) \in Seq(SoundMessage(sh1, sg1, ch)) /\ r.outbox \in Seq(Message)
  BY <1>1, <1>6, <1>7 DEF Session
<1>9. /\ t \in Session /\ t.psbt = next /\ t.outbox = Append(r.outbox, m)
      /\ t.mine = s.mine /\ t.stage = "Active" /\ t.txid = {}
  <2>1. Append(r.outbox, m) \in Seq(Message)
    BY <1>7, <1>8
  <2> QED
    BY <1>6, <2>1 DEF Session
<1>10. Responded(s, answer) = t
  BY DEF Responded, t, r, m, next
<1> HIDE DEF t
<1>11. t \in SoundSession(sh1, sg1, ch)
  BY <1>1, <1>3, <1>8, <1>9 DEF SoundSession
<1> QED
  BY <1>3, <1>4, <1>5, <1>10, <1>11

(* finish keeps a session sound when the network took its transaction.     *)
LEMMA FinishedSound ==
  ASSUME NEW sh, NEW sg, NEW ch, NEW s \in SoundSession(sh, sg, ch),
         s.stage = "Active", TxOf(s.psbt) \in ch
  PROVE  Finished(s) \in SoundSession(sh, sg, ch)
<1> DEFINE r == [s EXCEPT !.stage = "Done", !.txid = {TxOf(s.psbt)}]
           m == DoneMessage(r)
           t == [r EXCEPT !.outbox = Append(@, m)]
<1>1. /\ s \in Session /\ s.psbt \in SoundPsbt(sh, sg) /\ s.psbt \in Psbt
      /\ s.outbox \in Seq(SoundMessage(sh, sg, ch)) /\ s.outbox \in Seq(Message)
      /\ s.mine # {} /\ s.mine \subseteq InputsOf(s.psbt)
      /\ ~s.psbt.open
  BY SessionParts DEF Session
<1>2. TxOf(s.psbt) \in Tx
  BY <1>1 DEF TxOf, Tx, Psbt
<1>3. /\ r \in Session /\ r.psbt = s.psbt /\ r.outbox = s.outbox /\ r.mine = s.mine
      /\ r.stage = "Done" /\ r.txid = {TxOf(s.psbt)}
  BY <1>1, <1>2 DEF Session, Stage
<1> HIDE DEF r
<1>4. m \in SoundMessage(sh, sg, ch) /\ m \in Message
  BY <1>1, <1>2, <1>3 DEF DoneMessage, SoundMessage, Message, Kind, Session
<1> HIDE DEF m
<1>5. /\ Append(r.outbox, m) \in Seq(SoundMessage(sh, sg, ch))
      /\ Append(r.outbox, m) \in Seq(Message)
  BY <1>1, <1>3, <1>4
<1>6. /\ t \in Session /\ t.psbt = s.psbt /\ t.outbox = Append(r.outbox, m)
      /\ t.mine = s.mine /\ t.stage = "Done" /\ t.txid = {TxOf(s.psbt)}
  BY <1>3, <1>5 DEF Session
<1>7. Finished(s) = t
  BY DEF Finished, t, r, m
<1> HIDE DEF t
<1> QED
  BY <1>1, <1>5, <1>6, <1>7 DEF SoundSession

(* Sound files and messages have the types TypeOK gives them.              *)
LEMMA SoundTypes ==
  ASSUME NEW sh, NEW sg, NEW ch
  PROVE  /\ SoundSession(sh, sg, ch) \subseteq Session
         /\ SoundMessage(sh, sg, ch) \subseteq Message
         /\ Seq(SoundMessage(sh, sg, ch)) \subseteq Seq(Message)
<1>1. SoundMessage(sh, sg, ch) \subseteq Message
  BY DEF SoundMessage
<1> QED
  BY <1>1, SeqMono DEF SoundSession

-----------------------------------------------------------------------------
(* What the operators of Session leave as it is, and what they only add to. *)

(* receive_update: a proposer takes over the halves of the update, which   *)
(* its own is among; a joined session keeps its halves.                    *)
LEMMA UpdatedKeeps ==
  ASSUME NEW s \in Session, NEW m \in Message,
         s.stage # "Done", UpdateAccepts(s, m)
  PROVE  LET r == Updated(s, m) IN
         /\ r.sid = s.sid /\ r.me = s.me /\ r.mine = s.mine /\ r.txid = s.txid
         /\ r.outbox = s.outbox /\ r.stage = "Active" /\ r.psbt.deal = s.psbt.deal
         /\ IF s.stage = "Proposed"
            THEN s.psbt.halves \subseteq m.psbt.halves /\ r.psbt.halves = m.psbt.halves
            ELSE r.psbt.halves = s.psbt.halves
         /\ s.psbt.shares \subseteq r.psbt.shares /\ s.psbt.sigs \subseteq r.psbt.sigs
<1> DEFINE base == UpdateBase(s, m)
           next == Absorbed(base, m.psbt)
<1>1. s.psbt \in Psbt /\ m.psbt \in Psbt /\ s.stage \in {"Proposed", "Active"}
  BY DEF Session, Message, Stage
<1>2. /\ base \in Psbt /\ base.deal = s.psbt.deal
      /\ base.shares = s.psbt.shares /\ base.sigs = s.psbt.sigs
      /\ IF s.stage = "Proposed"
         THEN s.psbt.halves \subseteq m.psbt.halves /\ base.halves = m.psbt.halves
         ELSE base.halves = s.psbt.halves
  BY <1>1 DEF UpdateBase, UpdateAccepts, AdoptAccepts, AdoptedPsbt, Psbt
<1> HIDE DEF base
<1>3. /\ next.deal = base.deal /\ next.halves = base.halves
      /\ base.shares \subseteq next.shares /\ base.sigs \subseteq next.sigs
  BY <1>2 DEF Absorbed, Psbt
<1>4. Updated(s, m) = IF s.stage = "Active" /\ next = s.psbt
                      THEN s
                      ELSE [s EXCEPT !.psbt = next, !.stage = "Active",
                                     !.newest = "Theirs", !.peer = {m.from}]
  BY DEF Updated, base
<1> HIDE DEF next
<1> QED
  BY <1>1, <1>2, <1>3, <1>4 DEF Session

(* receive, whatever the message is.                                       *)
LEMMA ReceivedKeeps ==
  ASSUME NEW s \in Session, NEW m \in Message
  PROVE  LET r == Received(s, m) IN
         /\ r.sid = s.sid /\ r.me = s.me /\ r.mine = s.mine /\ r.outbox = s.outbox
         /\ \/ r.psbt.halves = s.psbt.halves /\ (s.stage = "Proposed" => r = s)
            \/ /\ s.stage = "Proposed" /\ m.sid = s.sid
               /\ s.psbt.halves \subseteq m.psbt.halves /\ r.psbt.halves = m.psbt.halves
               /\ r.stage # "Proposed"
         /\ r.psbt.deal = s.psbt.deal
         /\ Extends(s, r)
<1> DEFINE r == Received(s, m)
<1>1. CASE m.kind = "Update" /\ ForThisSend(s, m) /\ s.stage # "Done" /\ UpdateAccepts(s, m)
  <2>1. r = Updated(s, m)
    BY <1>1 DEF Received
  <2> QED
    BY <1>1, <2>1, UpdatedKeeps DEF Extends, StageNo, ForThisSend, Session, Stage
<1>2. CASE m.kind = "Done" /\ ForThisSend(s, m) /\ s.stage = "Active" /\ DoneAccepts(s, m)
  <2> DEFINE u == Updated(s, m)
  <2>1. r = [u EXCEPT !.stage = "Done", !.txid = m.txid]
    BY <1>2 DEF Received, DoneTaken
  <2>2. UpdateAccepts(s, m)
    BY <1>2 DEF DoneAccepts
  <2>3. u = s \/ \E p : u = [s EXCEPT !.psbt = p, !.stage = "Active",
                                    !.newest = "Theirs", !.peer = {m.from}]
    BY DEF Updated
  <2>4. /\ r.stage = "Done" /\ r.psbt = u.psbt /\ r.sid = u.sid /\ r.me = u.me
        /\ r.mine = u.mine /\ r.outbox = u.outbox
    <3>1. CASE u = s
      BY <2>1, <3>1 DEF Session
    <3>2. CASE u # s
      BY <2>1, <2>3, <3>2 DEF Session
    <3> QED
      BY <3>1, <3>2
  <2>5. /\ u.sid = s.sid /\ u.me = s.me /\ u.mine = s.mine /\ u.outbox = s.outbox
        /\ u.psbt.deal = s.psbt.deal /\ u.psbt.halves = s.psbt.halves
        /\ s.psbt.shares \subseteq u.psbt.shares /\ s.psbt.sigs \subseteq u.psbt.sigs
    BY <1>2, <2>2, UpdatedKeeps
  <2> HIDE DEF u, r
  <2> QED
    BY <1>2, <2>4, <2>5 DEF Extends, StageNo, r
<1>3. CASE r = s
  BY <1>3 DEF Extends, StageNo, Session, Stage
<1> QED
  BY <1>1, <1>2, <1>3 DEF Received

(* respond: only an active session has a turn, and it stays active.        *)
LEMMA RespondedKeeps ==
  ASSUME NEW s \in Session, NEW answer \in Psbt, RespondAccepts(s, answer)
  PROVE  LET r == Responded(s, answer) IN
         /\ r.sid = s.sid /\ r.me = s.me /\ r.mine = s.mine /\ r.txid = s.txid
         /\ s.stage = "Active" /\ r.stage = "Active"
         /\ r.psbt = Absorbed(s.psbt, answer) /\ r.newest = "Mine"
         /\ TxOf(r.psbt) = TxOf(s.psbt)
         /\ r.outbox = Append(s.outbox, UpdateMessage(r))
         /\ Extends(s, r)
<1> DEFINE next == Absorbed(s.psbt, answer)
           t == [s EXCEPT !.psbt = next, !.newest = "Mine", !.visits = @ + 1]
           r == [t EXCEPT !.outbox = Append(@, UpdateMessage(t))]
<1>1. s.psbt \in Psbt /\ s.stage = "Active"
  BY DEF Session, RespondAccepts, MyTurn
<1>2. /\ next.deal = s.psbt.deal /\ next.halves = s.psbt.halves
      /\ s.psbt.shares \subseteq next.shares /\ s.psbt.sigs \subseteq next.sigs
  BY <1>1 DEF Absorbed, Psbt
<1> HIDE DEF next
<1>3. /\ t.sid = s.sid /\ t.me = s.me /\ t.mine = s.mine /\ t.txid = s.txid
      /\ t.stage = s.stage /\ t.psbt = next /\ t.outbox = s.outbox /\ t.newest = "Mine"
      /\ r.sid = t.sid /\ r.me = t.me /\ r.mine = t.mine /\ r.txid = t.txid
      /\ r.newest = t.newest /\ r.stage = t.stage /\ r.psbt = t.psbt /\ r.outbox = Append(t.outbox, UpdateMessage(t))
  BY DEF Session
<1>4. Responded(s, answer) = r
  BY DEF Responded, next
<1> HIDE DEF t, r
<1>5. UpdateMessage(t) = UpdateMessage(r)
  BY <1>3 DEF UpdateMessage
<1> QED
  BY <1>1, <1>2, <1>3, <1>4, <1>5 DEF Extends, StageNo, TxOf, next

(* finish.                                                                 *)
LEMMA FinishedKeeps ==
  ASSUME NEW s \in Session
  PROVE  LET r == Finished(s) IN
         /\ r.sid = s.sid /\ r.me = s.me /\ r.mine = s.mine /\ r.psbt = s.psbt
         /\ r.stage = "Done" /\ r.newest = s.newest /\ r.txid = {TxOf(s.psbt)}
         /\ r.outbox = Append(s.outbox, DoneMessage(r))
         /\ Extends(s, r)
<1> DEFINE t == [s EXCEPT !.stage = "Done", !.txid = {TxOf(s.psbt)}]
           r == [t EXCEPT !.outbox = Append(@, DoneMessage(t))]
<1>1. /\ t.sid = s.sid /\ t.me = s.me /\ t.mine = s.mine /\ t.txid = {TxOf(s.psbt)}
      /\ t.stage = "Done" /\ t.psbt = s.psbt /\ t.outbox = s.outbox
      /\ t.newest = s.newest /\ r.newest = t.newest
      /\ r.sid = t.sid /\ r.me = t.me /\ r.mine = t.mine /\ r.txid = t.txid
      /\ r.stage = t.stage /\ r.psbt = t.psbt /\ r.outbox = Append(t.outbox, DoneMessage(t))
  BY DEF Session
<1>2. Finished(s) = r
  BY DEF Finished
<1> HIDE DEF t, r
<1>3. DoneMessage(t) = DoneMessage(r)
  BY <1>1 DEF DoneMessage
<1>4. s.stage \in Stage
  BY DEF Session
<1> QED
  BY <1>1, <1>2, <1>3, <1>4 DEF Extends, StageNo, Stage

(* propose and join.                                                       *)
LEMMA StartSessionIs ==
  ASSUME NEW w, NEW half, NEW d
  PROVE  LET r == StartSession(w, half, d) IN
         /\ r.sid = SidOf(half) /\ r.me = w /\ r.mine = half.coins
         /\ r.stage = "Proposed" /\ r.psbt = Proposed(half, d) /\ r.txid = {}
         /\ r.outbox = <<ProposalMessage(r)>>
BY DEF StartSession, ProposalMessage

LEMMA JoinSessionIs ==
  ASSUME NEW w, NEW m, NEW half
  PROVE  LET r == JoinSession(w, m, half) IN
         /\ r.sid = m.sid /\ r.me = w /\ r.mine = half.coins
         /\ r.stage = "Active" /\ r.newest = "Joined" /\ r.txid = {}
         /\ r.psbt.halves = m.psbt.halves \cup {half}
         /\ r.psbt.shares = {} /\ r.psbt.sigs = {}
         /\ r.outbox = << >>
BY DEF JoinSession, JoinedPsbt, Proposed

-----------------------------------------------------------------------------
(* The halves of transactions, each of a set B of halves that were built.  *)

(* The halves of one transaction: at most one of each wallet.              *)
OneEach(B, halves) ==
  /\ halves \subseteq B
  /\ \A h, k \in halves : h.owner = k.owner => h = k

Names(sid, halves) == \E h \in halves : SidOf(h) = sid

(* A message is about a send that one of its halves started; a proposal    *)
(* brings only the sender's half.                                          *)
KnownMessages(B) ==
  {m \in Message :
     /\ OneEach(B, m.psbt.halves)
     /\ Names(m.sid, m.psbt.halves)
     /\ m.kind = "Proposal" => \A h \in m.psbt.halves : h.owner = m.from}

(* So is a session, which has a half of its wallet.                        *)
KnownSession(B, w, s) ==
  /\ OneEach(B, s.psbt.halves)
  /\ Names(s.sid, s.psbt.halves)
  /\ s.me = w
  /\ \E h \in s.psbt.halves : h.owner = w /\ h.coins = s.mine
  /\ s.stage = "Proposed" => \A h \in s.psbt.halves : h.owner = w

(* One more half does not matter to what is known already.                 *)
LEMMA MoreHalves ==
  ASSUME NEW B, NEW C, B \subseteq C
  PROVE  /\ \A halves : OneEach(B, halves) => OneEach(C, halves)
         /\ KnownMessages(B) \subseteq KnownMessages(C)
         /\ \A w, s : KnownSession(B, w, s) => KnownSession(C, w, s)
<1>1. \A halves : OneEach(B, halves) => OneEach(C, halves)
  BY DEF OneEach
<1> QED
  BY <1>1 DEF KnownMessages, KnownSession

(* The message a session puts into its outbox when it gets to be s.        *)
Says(s) ==
  CASE s.stage = "Proposed" -> ProposalMessage(s)
    [] s.stage = "Active"   -> UpdateMessage(s)
    [] OTHER                -> DoneMessage(s)

(* What a known session says is a known message.                           *)
LEMMA SaysKnown ==
  ASSUME NEW B, NEW w, NEW s \in Session, KnownSession(B, w, s)
  PROVE  Says(s) \in KnownMessages(B)
<1>1. /\ s.sid \in Sid /\ s.me \in Wallets /\ s.psbt \in Psbt /\ s.txid \in SUBSET Tx
      /\ s.stage \in Stage
  BY DEF Session
<1>2. /\ OneEach(B, s.psbt.halves) /\ Names(s.sid, s.psbt.halves) /\ s.me = w
      /\ s.stage = "Proposed" => \A h \in s.psbt.halves : h.owner = w
  BY DEF KnownSession
<1>3. \A m : /\ m \in {ProposalMessage(s), UpdateMessage(s), DoneMessage(s)}
             /\ m.kind = "Proposal" => s.stage = "Proposed"
             => m \in KnownMessages(B)
  BY <1>1, <1>2 DEF ProposalMessage, UpdateMessage, DoneMessage, KnownMessages, Message, Kind
<1> QED
  BY <1>3 DEF Says, ProposalMessage, UpdateMessage, DoneMessage

(* A wallet's own half in a transaction of its session.                    *)
LEMMA OwnHalf ==
  ASSUME NEW B, NEW w, NEW s, KnownSession(B, w, s), NEW h \in s.psbt.halves, h.owner = w
  PROVE  h.coins = s.mine
BY DEF KnownSession, OneEach

-----------------------------------------------------------------------------
(* The fee: check_fee never refuses a transaction whose halves were both   *)
(* built at the rate (shared.rs, at the witness weights), for any amount,  *)
(* any rate and any number of coins.                                       *)

(* Dividing by 4 and rounding up.                                          *)
RoundedUp(fee, x) == fee \in Nat /\ 4 * fee >= x /\ 4 * fee <= x + 3

LEMMA FeeBounds ==
  \A rate, weight \in Nat : RoundedUp(FeeFor(rate, weight), rate * weight)
<1> TAKE rate, weight \in Nat
<1> DEFINE x == rate * weight
<1>1. x \in Nat OBVIOUS
<1>2. \A y \in Nat : /\ (y + 3) \div 4 \in Nat
                     /\ 4 * ((y + 3) \div 4) >= y
                     /\ 4 * ((y + 3) \div 4) <= y + 3
  OBVIOUS
<1> QED BY <1>1, <1>2 DEF FeeFor, RoundedUp

(* The two shares are the whole amount, and BDK builds an output for each. *)
THEOREM SharesAddUp ==
  ASSUME NEW sats \in Nat, CheckAmount(sats)
  PROVE  /\ ShareOf(sats, "Start") \in Nat /\ ShareOf(sats, "Join") \in Nat
         /\ ShareOf(sats, "Start") + ShareOf(sats, "Join") = sats
         /\ ShareOf(sats, "Start") >= TAPROOT_DUST_SATS
         /\ ShareOf(sats, "Join") >= TAPROOT_DUST_SATS
<1>1. /\ sats \div 2 \in Nat /\ sats % 2 \in {0, 1}
      /\ sats = 2 * (sats \div 2) + (sats % 2)
  OBVIOUS
<1> QED BY <1>1 DEF ShareOf, CheckAmount, TAPROOT_DUST_SATS

-----------------------------------------------------------------------------
(* What one wallet pays besides its share.                                 *)
PaysBeside(half) == half.spent - (half.share + half.change)

(* A half pays for its own coins and change, and for at least its part of  *)
(* what both have in common; at most two thirds of a change output and the *)
(* dust more.                                                              *)
Fair(half, inputs, rate) ==
  /\ half.inputs = inputs
  /\ half.spent \in Nat /\ half.share \in Nat /\ half.change \in Nat
  /\ Outputs(half) \in {0, 1}
  /\ 4 * PaysBeside(half) >= 109 * rate + 273 * (rate * inputs) + 124 * (rate * Outputs(half))
  /\ 4 * PaysBeside(half) <= 340 * rate + 273 * (rate * inputs) + 3 * inputs + 1182

(* The price of a half without its change.                                 *)
LEMMA ChargedBounds ==
  ASSUME NEW rate \in Nat, NEW n \in Nat
  PROVE  /\ Charged(rate, n) \in Nat
         /\ 4 * Charged(rate, n) >= 216 * rate + 273 * (rate * n)
         /\ 4 * Charged(rate, n) <= 216 * rate + 273 * (rate * n) + 3 + 3 * n
<1> DEFINE common == FeeFor(rate, 216)
           each == FeeFor(rate, 273)
           rn == rate * n
<1>1. Charged(rate, n) = common + n * each
  BY DEF Charged, BdkOverhead, BdkInput
<1>2. common \in Nat /\ 4 * common >= 216 * rate /\ 4 * common <= 216 * rate + 3
  <2>1. RoundedUp(FeeFor(rate, 216), rate * 216)
    BY FeeBounds
  <2> QED BY <2>1 DEF RoundedUp
<1>3. each \in Nat /\ 4 * each >= 273 * rate /\ 4 * each <= 273 * rate + 3
  <2>1. RoundedUp(FeeFor(rate, 273), rate * 273)
    BY FeeBounds
  <2> QED BY <2>1 DEF RoundedUp
<1> HIDE DEF common, each
<1>4. /\ n * each \in Nat
      /\ 4 * (n * each) >= 273 * rn
      /\ 4 * (n * each) <= 273 * rn + 3 * n
  <2>1. n * (4 * each) >= n * (273 * rate) /\ n * (4 * each) <= n * (273 * rate + 3)
    BY <1>3
  <2>2. n * (4 * each) = 4 * (n * each) /\ n * each \in Nat
    BY <1>3
  <2>3. n * (273 * rate) = 273 * rn /\ n * (273 * rate + 3) = 273 * rn + 3 * n
    BY DEF rn
  <2> QED BY <2>1, <2>2, <2>3
<1>5. rn \in Nat
  OBVIOUS
<1> DEFINE coins == n * each
<1>6. coins \in Nat /\ 4 * coins >= 273 * rn /\ 4 * coins <= 273 * rn + 3 * n
  BY <1>4
<1>7. Charged(rate, n) = common + coins
  BY <1>1
<1> HIDE DEF rn, coins
<1>8. /\ Charged(rate, n) \in Nat
      /\ 4 * Charged(rate, n) >= 216 * rate + 273 * rn
      /\ 4 * Charged(rate, n) <= 216 * rate + 273 * rn + 3 + 3 * n
  BY <1>2, <1>5, <1>6, <1>7
<1> QED BY <1>8 DEF rn

(* What half_as_v2 makes of a half that BDK built.                         *)
LEMMA HalfIsFair ==
  ASSUME NEW rate \in Nat \ {0}, NEW n \in Nat, NEW share \in Nat, NEW spent \in Nat,
         spent >= share + Charged(rate, n)
  PROVE  Fair(HalfAsV2(BdkHalf(spent, n, share, rate), rate), n, rate)
<1> DEFINE rn == rate * n
           charged == Charged(rate, n)
           spare == spent - share - charged
           cost == ChangeFee(rate)
           back == Refund(rate)
           half == BdkHalf(spent, n, share, rate)
           v2 == HalfAsV2(half, rate)
<1>1. /\ charged \in Nat
      /\ 4 * charged >= 216 * rate + 273 * rn
      /\ 4 * charged <= 216 * rate + 273 * rn + 3 + 3 * n
  BY ChargedBounds
<1>2. cost \in Nat /\ 4 * cost >= 124 * rate /\ 4 * cost <= 124 * rate + 3
  <2>1. RoundedUp(FeeFor(rate, 124), rate * 124)
    BY FeeBounds
  <2>2. cost = FeeFor(rate, 124)
    BY DEF ChangeFee, ChangeScriptBytes
  <2> QED BY <2>1, <2>2 DEF RoundedUp
<1>3. back \in Nat /\ 8 * back <= 214 * rate
  <2>1. back = (rate * 214) \div 8
    BY DEF Refund, SHARED_WEIGHT
  <2>2. \A y \in Nat : y \div 8 \in Nat /\ 8 * (y \div 8) <= y
    OBVIOUS
  <2>3. rate * 214 \in Nat
    OBVIOUS
  <2> QED BY <2>1, <2>2, <2>3
<1>4. rn \in Nat
  OBVIOUS
<1>5. spare \in Nat /\ spent >= share + charged
  BY <1>1
<1>6. /\ half = [spent |-> spent, inputs |-> n, share |-> share, change |-> ChangeOf(spare, rate)]
      /\ ChangeOf(spare, rate) = IF spare >= cost + 294 THEN spare - cost ELSE 0
  BY DEF BdkHalf, ChangeOf, ChangeDust
<1> HIDE DEF charged, cost, back, half, rn
<1>7. CASE spare >= cost + 294
  <2>1. half = [spent |-> spent, inputs |-> n, share |-> share, change |-> spare - cost]
    BY <1>6, <1>7
  <2>2. /\ half.change = spare - cost
        /\ half.change > 0
        /\ half.spent - half.share - half.change = charged + cost
    BY <2>1, <1>1, <1>2, <1>5, <1>7
  <2>3. back < charged + cost
    BY <1>1, <1>2, <1>3, <1>4
  <2>4. v2 = [spent |-> spent, inputs |-> n, share |-> share, change |-> spare - cost + back]
    BY <2>1, <2>2, <2>3 DEF HalfAsV2, back
  <2>5. Outputs(v2) = 1
    BY <2>4, <1>2, <1>3, <1>5, <1>7, <1>1 DEF Outputs
  <2>6. PaysBeside(v2) = charged + cost - back
    BY <2>4, <1>1, <1>2, <1>3, <1>5 DEF PaysBeside
  <2>7. /\ v2.inputs = n /\ v2.spent \in Nat /\ v2.share \in Nat /\ v2.change \in Nat
    BY <2>4, <1>1, <1>2, <1>3, <1>5, <1>7
  <2> HIDE DEF v2
  <2>8. /\ 4 * PaysBeside(v2) >= 109 * rate + 273 * rn + 124 * rate
        /\ 4 * PaysBeside(v2) <= 340 * rate + 273 * rn + 3 * n + 1182
    BY <2>6, <1>1, <1>2, <1>3, <1>4
  <2>9. rate * Outputs(v2) = rate
    BY <2>5
  <2>10. Fair(v2, n, rate)
    BY <2>5, <2>7, <2>8, <2>9 DEF Fair, rn
  <2> QED BY <2>10 DEF v2, half
<1>8. CASE ~(spare >= cost + 294)
  <2>1. half = [spent |-> spent, inputs |-> n, share |-> share, change |-> 0]
    BY <1>6, <1>8
  <2>2. v2 = [spent |-> spent, inputs |-> n, share |-> share, change |-> 0]
    BY <2>1 DEF HalfAsV2
  <2>3. Outputs(v2) = 0
    BY <2>2 DEF Outputs
  <2>4. PaysBeside(v2) = charged + spare
    BY <2>2, <1>1, <1>5 DEF PaysBeside
  <2>5. v2.inputs = n /\ v2.spent \in Nat /\ v2.share \in Nat /\ v2.change \in Nat
    BY <2>2
  <2>6. spare <= cost + 293
    BY <1>2, <1>5, <1>8
  <2> HIDE DEF v2
  <2> DEFINE extra == spare
  <2>7. extra \in Nat /\ extra <= cost + 293 /\ PaysBeside(v2) = charged + extra
    BY <2>4, <2>6, <1>5
  <2> HIDE DEF extra
  <2>8. /\ 4 * PaysBeside(v2) >= 109 * rate + 273 * rn
        /\ 4 * PaysBeside(v2) <= 340 * rate + 273 * rn + 3 * n + 1182
    BY <2>7, <1>1, <1>2, <1>4
  <2>9. rate * Outputs(v2) = 0
    BY <2>3
  <2>10. Fair(v2, n, rate)
    BY <2>3, <2>5, <2>8, <2>9 DEF Fair, rn
  <2> QED BY <2>10 DEF v2, half
<1> QED BY <1>7, <1>8

-----------------------------------------------------------------------------
(* The weight check_fee estimates is between these.                        *)
LEMMA WeightBounds ==
  ASSUME NEW a, NEW b, NEW n \in Nat, a.inputs + b.inputs = n,
         Outputs(a) \in {0, 1}, Outputs(b) \in {0, 1}
  PROVE  /\ EstimatedWeight(a, b) \in Nat
         /\ EstimatedWeight(a, b) >= 214 + 271 * n
         /\ EstimatedWeight(a, b) <= 218 + 273 * n + 124 * Outputs(a) + 124 * Outputs(b)
<1> DEFINE k == Outputs(a) + Outputs(b)
<1>1. /\ k \in 0..2
      /\ CompactSize(1 + k) = 1 /\ CompactSize(34) = 1 /\ CompactSize(22) = 1
  BY DEF CompactSize
<1>2. CompactSize(n) \in Nat /\ CompactSize(n) >= 1 /\ 4 * CompactSize(n) <= 8 + 2 * n
  BY DEF CompactSize
<1>3. EstimatedWeight(a, b)
        = (4 + 4 + CompactSize(n) + 1 + n * 41 + 43 + k * 31) * 4 + 2 + n * 107
  BY <1>1 DEF EstimatedWeight, OutputBytes, TAPROOT_SCRIPT_BYTES, ChangeScriptBytes,
              P2WPKH_WITNESS_WEIGHT
<1> HIDE DEF k
<1>4. /\ EstimatedWeight(a, b) \in Nat
      /\ EstimatedWeight(a, b) >= 214 + 271 * n
      /\ EstimatedWeight(a, b) <= 218 + 273 * n + 124 * k
  BY <1>1, <1>2, <1>3
<1> QED BY <1>4 DEF k

(* Two fair halves pay a fee within the limits.                            *)
LEMMA FairIsEnough ==
  ASSUME NEW a, NEW b, NEW n \in Nat \ {0}, NEW m \in Nat \ {0}, NEW rate \in Nat \ {0},
         NEW sats \in Nat,
         Fair(a, n, rate), Fair(b, m, rate), a.share + b.share = sats
  PROVE  CheckFee(a, b, sats, rate)
<1> DEFINE weight == EstimatedWeight(a, b)
           price == rate * weight
           wanted == FeeFor(rate, weight)
           rn == rate * n
           rm == rate * m
           ra == rate * Outputs(a)
           rb == rate * Outputs(b)
<1>1. /\ weight \in Nat
      /\ weight >= 214 + 271 * (n + m)
      /\ weight <= 218 + 273 * (n + m) + 124 * Outputs(a) + 124 * Outputs(b)
  BY WeightBounds DEF Fair
<1>2. Fee(a, b, sats) = PaysBeside(a) + PaysBeside(b) /\ PaysBeside(a) \in Int /\ PaysBeside(b) \in Int
  BY DEF Fee, PaysBeside, Fair
<1>3. /\ rn \in Nat /\ rm \in Nat /\ ra \in Nat /\ rb \in Nat
      /\ rn >= n /\ rm >= m /\ rn >= rate /\ rm >= rate
  <2>1. \A x, y \in Nat \ {0} : x * y \in Nat /\ x * y >= x /\ x * y >= y
    <3> TAKE x, y \in Nat \ {0}
    <3>1. x * y >= x * 1 /\ 1 * y <= x * y
      OBVIOUS
    <3> QED BY <3>1
  <2>2. ra \in {0, rate} /\ rb \in {0, rate}
    BY DEF Fair
  <2> QED BY <2>1, <2>2
<1>4. /\ price \in Nat
      /\ price >= 214 * rate + 271 * (rn + rm)
      /\ price <= 218 * rate + 273 * (rn + rm) + 124 * (ra + rb)
  <2> DEFINE low == 214 + 271 * (n + m)
             high == 218 + 273 * (n + m) + 124 * Outputs(a) + 124 * Outputs(b)
  <2>1. rate * low = 214 * rate + 271 * (rn + rm)
    OBVIOUS
  <2>2. rate * high = 218 * rate + 273 * (rn + rm) + 124 * (ra + rb)
    BY DEF Fair
  <2>3. low \in Nat /\ high \in Nat
    BY DEF Fair
  <2> HIDE DEF low, high, weight
  <2>4. rate * weight >= rate * low /\ rate * weight <= rate * high /\ rate * weight \in Nat
    BY <1>1, <2>3 DEF low, high
  <2> QED BY <2>1, <2>2, <2>4
<1>5. wanted \in Nat /\ 4 * wanted >= price /\ 4 * wanted <= price + 3
  BY <1>1, FeeBounds DEF RoundedUp
<1>6. /\ 4 * PaysBeside(a) >= 109 * rate + 273 * rn + 124 * ra
      /\ 4 * PaysBeside(a) <= 340 * rate + 273 * rn + 3 * n + 1182
      /\ 4 * PaysBeside(b) >= 109 * rate + 273 * rm + 124 * rb
      /\ 4 * PaysBeside(b) <= 340 * rate + 273 * rm + 3 * m + 1182
  BY DEF Fair
<1> HIDE DEF price, wanted, rn, rm, ra, rb, weight
<1>7. PaysBeside(a) + PaysBeside(b) >= wanted
  BY <1>2, <1>3, <1>4, <1>5, <1>6
<1>8. PaysBeside(a) + PaysBeside(b) <= wanted * 3 + 1000
  BY <1>2, <1>3, <1>4, <1>5, <1>6
<1> QED BY <1>2, <1>7, <1>8
        DEF CheckFee, Wanted, FEE_CEILING_FACTOR, FEE_CEILING_SLACK_SATS, wanted, weight

(* When both wallets' halves were built by BDK at the agreed rate, neither *)
(* wallet refuses what they make together: its fee is what the rate asks   *)
(* for, although it was rounded and refunded in each half on its own, and  *)
(* is never taken to be a broken half's, although up to two change outputs *)
(* went into it.                                                           *)
THEOREM NeverRefused ==
  ASSUME NEW sats \in Nat, CheckAmount(sats),
         NEW rate \in Nat \ {0},
         NEW n \in Nat \ {0}, NEW m \in Nat \ {0},
         NEW spentA \in Nat, spentA >= ShareOf(sats, "Start") + Charged(rate, n),
         NEW spentB \in Nat, spentB >= ShareOf(sats, "Join") + Charged(rate, m)
  PROVE  CheckFee(HalfAsV2(BdkHalf(spentA, n, ShareOf(sats, "Start"), rate), rate),
                  HalfAsV2(BdkHalf(spentB, m, ShareOf(sats, "Join"), rate), rate),
                  sats, rate)
<1> DEFINE shareA == ShareOf(sats, "Start")
           shareB == ShareOf(sats, "Join")
           a == HalfAsV2(BdkHalf(spentA, n, shareA, rate), rate)
           b == HalfAsV2(BdkHalf(spentB, m, shareB, rate), rate)
<1>1. shareA \in Nat /\ shareB \in Nat /\ shareA + shareB = sats
  BY SharesAddUp
<1>2. a.share = shareA /\ b.share = shareB
  BY DEF HalfAsV2, BdkHalf
<1> HIDE DEF shareA, shareB
<1>3. Fair(a, n, rate)
  BY <1>1, HalfIsFair DEF shareA
<1>4. Fair(b, m, rate)
  BY <1>1, HalfIsFair DEF shareB
<1> HIDE DEF a, b
<1>5. CheckFee(a, b, sats, rate)
  BY <1>1, <1>2, <1>3, <1>4, FairIsEnough
<1> QED BY <1>5 DEF a, b, shareA, shareB

=============================================================================
