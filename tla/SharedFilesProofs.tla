------------------------- MODULE SharedFilesProofs -------------------------
(***************************************************************************)
(* Proofs about a shared send finished by hand, for any wallets, folders,  *)
(* processes and files and any number of stopped commands and of commands  *)
(* that run beside each other: nothing a wallet owes is lost, nothing is   *)
(* paid that was not signed for, and a half is signed into one transaction *)
(* where no two commands changed its session file at the same time.        *)
(*                                                                         *)
(* What a command does to its session is one operator of shared.rs, and    *)
(* keeps it Good; a step moves sessions and messages between the memory of *)
(* a command and the files, and a growing world keeps all of them Good.    *)
(***************************************************************************)
EXTENDS SharedFiles, SharedSessionProofs, WellFoundedInduction

-----------------------------------------------------------------------------
(* More shares, signatures, payments and message files keep a session      *)
(* good, in a file and in the memory of a command.                         *)
LEMMA GoodMono ==
  ASSUME NEW sh, NEW sg, NEW ch, NEW wr, NEW sh1, NEW sg1, NEW ch1, NEW wr1,
         sh \subseteq sh1, sg \subseteq sg1, ch \subseteq ch1, wr \subseteq wr1
  PROVE  /\ Good(sh, sg, ch, wr) \subseteq Good(sh1, sg1, ch1, wr1)
         /\ GoodCommand(sh, sg, ch, wr) \subseteq GoodCommand(sh1, sg1, ch1, wr1)
<1>1. SoundSession(sh, sg, ch) \subseteq SoundSession(sh1, sg1, ch1)
  BY SessionMono
<1>2. \A s : Told(s, wr) => Told(s, wr1)
  BY DEF Told
<1>3. Good(sh, sg, ch, wr) \subseteq Good(sh1, sg1, ch1, wr1)
  BY <1>1, <1>2 DEF Good
<1> QED
  BY <1>3 DEF GoodCommand

(* What is written of a good session: any message of it is sound.          *)
LEMMA GoodParts ==
  ASSUME NEW sh, NEW sg, NEW ch, NEW wr, NEW s \in Good(sh, sg, ch, wr)
  PROVE  /\ s \in SoundSession(sh, sg, ch) /\ s \in Session
         /\ s.outbox \in Seq(SoundMessage(sh, sg, ch))
         /\ s.psbt \in SoundPsbt(sh, sg) /\ s.psbt \in Psbt
BY SessionParts DEF Good, Session

-----------------------------------------------------------------------------
(* The operators of struct Session on good sessions.                       *)

(* A new session owes its proposal.                                        *)
LEMMA StartGood ==
  ASSUME NEW sh, NEW sg, NEW ch, NEW wr, NEW w \in Wallets, NEW half \in Half,
         NEW d \in Deals, half.coins # {}
  PROVE  StartSession(w, half, d) \in Good(sh, sg, ch, wr)
<1> DEFINE s == StartSession(w, half, d)
<1>1. s \in SoundSession(sh, sg, ch)
  BY StartSessionSound
<1>2. s.outbox = <<ProposalMessage(s)>> /\ s.stage = "Proposed"
  BY DEF StartSession, ProposalMessage
<1>3. ProposalMessage(s) \in ToSet(s.outbox) /\ Tells(ProposalMessage(s), s)
  BY <1>2 DEF ToSet, Tells, ProposalMessage
<1> QED
  BY <1>1, <1>3 DEF Good, Told

(* A session that joined owes nothing before its first visit.              *)
LEMMA JoinGood ==
  ASSUME NEW sh, NEW sg, NEW ch, NEW wr, NEW w \in Wallets, NEW m \in Message,
         NEW half \in Half, half.coins # {}
  PROVE  JoinSession(w, m, half) \in Good(sh, sg, ch, wr)
<1>1. JoinSession(w, m, half) \in SoundSession(sh, sg, ch)
  BY JoinSessionSound
<1>2. /\ JoinSession(w, m, half).stage = "Active"
      /\ JoinSession(w, m, half).newest = "Joined"
  BY DEF JoinSession
<1> QED
  BY <1>1, <1>2 DEF Good, Told

(* The proposal put back into an empty outbox is the proposal.             *)
LEMMA OfferedGood ==
  ASSUME NEW sh, NEW sg, NEW ch, NEW wr, NEW s \in Good(sh, sg, ch, wr), Offers(s)
  PROVE  Offered(s) \in Good(sh, sg, ch, wr)
<1>1. CASE s.outbox # << >>
  BY <1>1 DEF Offered
<1>2. CASE s.outbox = << >>
  <2> DEFINE m == ProposalMessage(s)
             t == [s EXCEPT !.outbox = <<m>>]
  <2>1. s.stage = "Proposed" /\ Offered(s) = t
    BY <1>2 DEF Offers, Offered
  <2>2. /\ s \in Session /\ s.psbt \in SoundPsbt(sh, sg) /\ s \in SoundSession(sh, sg, ch)
    BY GoodParts
  <2>3. m \in SoundMessage(sh, sg, ch) /\ m \in Message
    BY <2>2 DEF ProposalMessage, SoundMessage, Message, Kind, Session
  <2>4. Tells(m, s) /\ m.sid = s.sid
    BY <2>1 DEF Tells, ProposalMessage
  <2>5. ProposalMessage(t) = m
    BY <2>2 DEF ProposalMessage, Session
  <2> HIDE DEF m
  <2>6. <<m>> \in Seq(SoundMessage(sh, sg, ch)) /\ <<m>> \in Seq(Message)
    BY <2>3, OneElement
  <2>7. /\ t \in Session /\ t.outbox = <<m>> /\ t.stage = s.stage /\ t.sid = s.sid
        /\ t.psbt = s.psbt /\ t.mine = s.mine /\ t.txid = s.txid
    BY <2>2, <2>6 DEF Session
  <2> HIDE DEF t
  <2>8. t \in SoundSession(sh, sg, ch)
    BY <2>2, <2>6, <2>7 DEF SoundSession
  <2>9. m \in ToSet(t.outbox) /\ Tells(m, t)
    BY <2>1, <2>4, <2>5, <2>7 DEF Tells, ToSet
  <2> QED
    BY <2>1, <2>8, <2>9 DEF Good, Told
<1> QED
  BY <1>1, <1>2

(* A message in a file leaves a good session good: after an update the     *)
(* other wallet has the newest state, and the news of the broadcast is in  *)
(* the file it came in.                                                    *)
LEMMA ReceivedGood ==
  ASSUME NEW sh, NEW sg, NEW ch, NEW wr, NEW s \in Good(sh, sg, ch, wr),
         NEW m \in SoundMessage(sh, sg, ch), m \in wr
  PROVE  Received(s, m) \in Good(sh, sg, ch, wr)
<1>0. s \in SoundSession(sh, sg, ch) /\ s \in Session
  BY GoodParts
<1>1. Received(s, m) \in SoundSession(sh, sg, ch)
  BY <1>0, ReceivedSound
<1>2. Told(Received(s, m), wr)
  <2> DEFINE u == Updated(s, m)
  <2>1. ASSUME ForThisSend(s, m), s.stage # "Done", UpdateAccepts(s, m)
        PROVE  /\ u \in Session /\ u.stage = "Active" /\ u.sid = s.sid
               /\ u = s \/ u.newest = "Theirs"
    <3>1. u \in SoundSession(sh, sg, ch) /\ u.stage = "Active"
      BY <1>0, <2>1, UpdatedSound
    <3>2. u.sid = s.sid /\ (u = s \/ u.newest = "Theirs")
      BY <1>0 DEF Updated, Session
    <3> QED
      BY <3>1, <3>2, SessionParts
  <2>2. CASE m.kind = "Update" /\ ForThisSend(s, m) /\ s.stage # "Done" /\ UpdateAccepts(s, m)
    <3>1. Received(s, m) = u
      BY <2>2 DEF Received
    <3>2. Told(s, wr)
      BY DEF Good
    <3> HIDE DEF u
    <3> QED
      BY <2>1, <2>2, <3>1, <3>2 DEF Told
  <2>3. CASE m.kind = "Done" /\ ForThisSend(s, m) /\ s.stage = "Active" /\ DoneAccepts(s, m)
    <3> DEFINE t == [u EXCEPT !.stage = "Done", !.txid = m.txid]
    <3>1. Received(s, m) = t
      BY <2>3 DEF Received, DoneTaken
    <3>2. u \in Session /\ u.sid = s.sid /\ m.sid = s.sid
      BY <2>1, <2>3 DEF DoneAccepts, ForThisSend
    <3> HIDE DEF u
    <3>3. t.stage = "Done" /\ t.txid = m.txid /\ t.sid = m.sid
      BY <3>2 DEF Session
    <3> HIDE DEF t
    <3> QED
      BY <2>3, <3>1, <3>3 DEF Told, Tells
  <2>4. CASE Received(s, m) = s
    BY <2>4 DEF Good
  <2> QED
    BY <2>2, <2>3, <2>4 DEF Received
<1> QED
  BY <1>1, <1>2 DEF Good

(* An answer a visit takes leaves a good session good: the update is owed. *)
LEMMA RespondedGood ==
  ASSUME NEW sh, NEW sg, NEW ch, NEW wr, NEW s \in Good(sh, sg, ch, wr),
         NEW answer \in Given(sh, sg), RespondAccepts(s, answer)
  PROVE  Responded(s, answer) \in Good(sh, sg, ch, wr)
<1>0. s \in SoundSession(sh, sg, ch) /\ s \in Session /\ s.outbox \in Seq(Message)
      /\ s.psbt \in Psbt /\ answer \in Psbt
  BY GoodParts DEF Given, Session
<1>1. TxOf(answer) = TxOf(s.psbt)
  BY DEF RespondAccepts, AbsorbAccepts, SameSkeleton, TxOf
<1>2. /\ sh = sh \cup Marks(answer.shares, TxOf(s.psbt))
      /\ sg = sg \cup Marks(answer.sigs, TxOf(s.psbt))
  BY <1>1 DEF Given
<1>3. Responded(s, answer) \in SoundSession(sh, sg, ch)
  BY <1>0, <1>2, RespondedSound
<1>4. Told(Responded(s, answer), wr)
  <2> DEFINE next == Absorbed(s.psbt, answer)
             visits == s.visits + 1
             r == [s EXCEPT !.psbt = next, !.newest = "Mine", !.visits = visits]
             m == UpdateMessage(r)
             t == [r EXCEPT !.outbox = Append(@, m)]
  <2>1. Responded(s, answer) = t
    BY DEF Responded
  <2> HIDE DEF visits, next
  <2>2. r.outbox = s.outbox /\ r.psbt = next /\ r.me = s.me /\ r.sid = s.sid
        /\ r.stage = s.stage /\ DOMAIN r = DOMAIN s
    BY <1>0 DEF Session
  <2>3. m.kind = "Update" /\ m.from = s.me /\ m.psbt = next /\ m.sid = s.sid
    BY <2>2 DEF UpdateMessage
  <2> HIDE DEF m
  <2>4. t.outbox = Append(s.outbox, m) /\ t.psbt = next /\ t.me = s.me /\ t.sid = s.sid
        /\ t.stage = s.stage
    BY <1>0, <2>2 DEF Session
  <2>5. s.stage = "Active"
    BY DEF RespondAccepts, MyTurn
  <2> HIDE DEF t, r
  <2>6. m \in ToSet(t.outbox)
    <3>1. /\ Len(s.outbox) + 1 \in DOMAIN Append(s.outbox, m)
          /\ Append(s.outbox, m)[Len(s.outbox) + 1] = m
      BY <1>0
    <3> QED
      BY <2>4, <3>1 DEF ToSet
  <2>7. Tells(m, t)
    BY <2>3, <2>4, <2>5 DEF Tells
  <2> QED
    BY <2>1, <2>6, <2>7 DEF Told
<1> QED
  BY <1>3, <1>4 DEF Good

(* A send that was broadcast owes the news of it.                          *)
LEMMA FinishedGood ==
  ASSUME NEW sh, NEW sg, NEW ch, NEW wr, NEW s \in Good(sh, sg, ch, wr),
         s.stage = "Active", TxOf(s.psbt) \in ch
  PROVE  Finished(s) \in Good(sh, sg, ch, wr)
<1>0. s \in SoundSession(sh, sg, ch) /\ s \in Session /\ s.outbox \in Seq(Message)
  BY GoodParts DEF Session
<1>1. Finished(s) \in SoundSession(sh, sg, ch)
  BY <1>0, FinishedSound
<1>2. Told(Finished(s), wr)
  <2> DEFINE txid == {TxOf(s.psbt)}
             r == [s EXCEPT !.stage = "Done", !.txid = txid]
             m == DoneMessage(r)
             t == [r EXCEPT !.outbox = Append(@, m)]
  <2>1. Finished(s) = t
    BY DEF Finished
  <2> HIDE DEF txid
  <2>2. r.outbox = s.outbox /\ r.sid = s.sid /\ r.stage = "Done" /\ r.txid = txid
        /\ DOMAIN r = DOMAIN s
    BY <1>0 DEF Session
  <2>3. m.kind = "Done" /\ m.txid = txid /\ m.sid = s.sid
    BY <2>2 DEF DoneMessage
  <2> HIDE DEF m
  <2>4. t.outbox = Append(s.outbox, m) /\ t.sid = s.sid /\ t.stage = "Done" /\ t.txid = txid
    BY <1>0, <2>2 DEF Session
  <2> HIDE DEF t, r
  <2>5. m \in ToSet(t.outbox)
    <3>1. /\ Len(s.outbox) + 1 \in DOMAIN Append(s.outbox, m)
          /\ Append(s.outbox, m)[Len(s.outbox) + 1] = m
      BY <1>0
    <3> QED
      BY <2>4, <3>1 DEF ToSet
  <2>6. Tells(m, t)
    BY <2>3, <2>4 DEF Tells
  <2> QED
    BY <2>1, <2>5, <2>6 DEF Told
<1> QED
  BY <1>1, <1>2 DEF Good

(* What was owed and is in a file now need not be owed any more.           *)
LEMMA ClearedGood ==
  ASSUME NEW sh, NEW sg, NEW ch, NEW wr, NEW s \in Good(sh, sg, ch, wr),
         ToSet(s.outbox) \subseteq wr
  PROVE  [s EXCEPT !.outbox = << >>] \in Good(sh, sg, ch, wr)
<1> DEFINE t == [s EXCEPT !.outbox = << >>]
<1>1. s \in SoundSession(sh, sg, ch) /\ s \in Session
  BY GoodParts
<1>2. << >> \in Seq(SoundMessage(sh, sg, ch)) /\ << >> \in Seq(Message)
  BY NoMessages
<1>3. /\ t \in Session /\ t.outbox = << >> /\ t.psbt = s.psbt /\ t.stage = s.stage
      /\ t.mine = s.mine /\ t.txid = s.txid /\ t.newest = s.newest /\ t.sid = s.sid
      /\ t.me = s.me
  BY <1>1, <1>2 DEF Session
<1> HIDE DEF t
<1>4. t \in SoundSession(sh, sg, ch)
  BY <1>1, <1>2, <1>3 DEF SoundSession
<1>5. \A m : Tells(m, s) => Tells(m, t)
  <2>1. ProposalMessage(t) = ProposalMessage(s)
    BY <1>3 DEF ProposalMessage
  <2> QED
    BY <1>3, <2>1 DEF Tells
<1>6. Told(t, wr)
  BY <1>3, <1>5 DEF Good, Told
<1> QED
  BY <1>4, <1>6 DEF Good, t

-----------------------------------------------------------------------------
(* A file of messages, one after the other.                                *)

(* Induction for a set, as far as N.                                       *)
LEMMA UpTo ==
  ASSUME NEW N \in Nat, NEW Set, 0 \in Set,
         \A n \in 1..N : n-1 \in Set => n \in Set
  PROVE  \A n \in 0..N : n \in Set
<1> DEFINE Bad == {n \in 0..N : n \notin Set}
           Less == {ss \in Nat \X Nat : ss[1] < ss[2]}
<1>1. SUFFICES ASSUME Bad # {} PROVE FALSE
  OBVIOUS
<1>2. Bad \in SUBSET Nat
  OBVIOUS
<1>3. IsWellFoundedOn(Less, Nat)
  BY NatLessThanWellFounded DEF OpToRel
<1>4. \A n, m \in Nat : m < n => <<m, n>> \in Less
  OBVIOUS
<1> HIDE DEF Less, Bad
<1>5. PICK n \in Bad : \A m \in Bad : ~(<<m, n>> \in Less)
  BY <1>1, <1>2, <1>3, WFMin
<1>6. \A m \in Bad : ~(m < n)
  BY <1>2, <1>4, <1>5
<1> USE DEF Bad
<1>7. n \in 1..N /\ n-1 \notin Set
  BY <1>6
<1> QED
  BY <1>6, <1>7

(* When every message leaves a session of a set in it, there are such      *)
(* sessions after each message ...                                         *)
LEMMA StepsExist ==
  ASSUME NEW Set, NEW s \in Set, NEW file \in Seq(Message),
         \A t \in Set, n \in DOMAIN file : Received(t, file[n]) \in Set
  PROVE  \E f \in [0..Len(file) -> Set] :
           f = [n \in 0..Len(file) |-> IF n = 0 THEN s ELSE Received(f[n-1], file[n])]
<1> DEFINE N == Len(file)
           After(f, k) == \A n \in 0..k : f[n] = IF n = 0 THEN s ELSE Received(f[n-1], file[n])
           Reached == {k \in 0..N : \E f \in [0..k -> Set] : After(f, k)}
<1>0. N \in Nat /\ DOMAIN file = 1..N
  OBVIOUS
<1>1. 0 \in Reached
  <2>1. \E f \in [0..0 -> Set] : After(f, 0)
    <3> DEFINE f == [n \in 0..0 |-> s]
    <3>1. f \in [0..0 -> Set]
      OBVIOUS
    <3>2. After(f, 0)
      OBVIOUS
    <3> HIDE DEF f, After
    <3> QED
      BY <3>1, <3>2
  <2> HIDE DEF After
  <2> QED
    BY <2>1
<1>2. ASSUME NEW k \in 1..N, k-1 \in Reached PROVE k \in Reached
  <2>1. PICK f \in [0..k-1 -> Set] : After(f, k-1)
    BY <1>2
  <2> DEFINE last == Received(f[k-1], file[k])
             g == [n \in 0..k |-> IF n = k THEN last ELSE f[n]]
  <2>2. last \in Set
    BY <1>0, <2>1
  <2>3. ASSUME NEW n \in 0..k
        PROVE  g[n] = IF n = 0 THEN s ELSE Received(g[n-1], file[n])
    <3>1. CASE n = k
      <4>1. g[n] = last /\ g[n-1] = f[k-1] /\ n # 0
        BY <3>1
      <4> QED
        BY <3>1, <4>1
    <3>2. CASE n # k
      <4>1. n \in 0..k-1 /\ g[n] = f[n] /\ (n # 0 => g[n-1] = f[n-1])
        BY <3>2
      <4> HIDE DEF g, last
      <4> QED
        BY <2>1, <4>1
    <3> QED
      BY <3>1, <3>2
  <2> HIDE DEF last
  <2>4. g \in [0..k -> Set]
    BY <2>1, <2>2
  <2>5. After(g, k)
    BY <2>3
  <2> HIDE DEF g, After
  <2> QED
    BY <2>4, <2>5
<1> HIDE DEF Reached
<1>3. \A n \in 1..N : n-1 \in Reached => n \in Reached
  BY <1>2
<1> HIDE DEF N
<1>4. N \in Reached
  BY SMTT(30), <1>0, <1>1, <1>3, UpTo
<1>5. PICK f \in [0..N -> Set] : After(f, N)
  BY <1>4 DEF Reached
<1>6. f = [n \in 0..N |-> IF n = 0 THEN s ELSE Received(f[n-1], file[n])]
  BY <1>5
<1> QED
  BY <1>5, <1>6 DEF N

(* ... and they are the ones receive computes.                             *)
LEMMA StepsIn ==
  ASSUME NEW Set, NEW s \in Set, NEW file \in Seq(Message),
         \A t \in Set, n \in DOMAIN file : Received(t, file[n]) \in Set
  PROVE  Steps(s, file)[Len(file)] \in Set
<1> DEFINE steps == Steps(s, file)
           Inside == {n \in 0..Len(file) : steps[n] \in Set}
<1>1. steps = [n \in 0..Len(file) |-> IF n = 0 THEN s ELSE Received(steps[n-1], file[n])]
  <2>1. \E f : f = [n \in 0..Len(file) |-> IF n = 0 THEN s ELSE Received(f[n-1], file[n])]
    BY SMTT(30), StepsExist
  <2> QED
    BY <2>1 DEF Steps
<1> HIDE DEF steps
<1>2. Len(file) \in Nat /\ DOMAIN file = 1..Len(file)
  OBVIOUS
<1>3. 0 \in Inside
  BY <1>1, <1>2
<1>4. ASSUME NEW n \in 1..Len(file), n-1 \in Inside PROVE n \in Inside
  BY <1>1, <1>2, <1>4
<1> HIDE DEF Inside
<1>5. \A n \in 0..Len(file) : n \in Inside
  BY <1>2, <1>3, <1>4, UpTo
<1> QED
  BY <1>2, <1>5 DEF Inside, steps

-----------------------------------------------------------------------------
(* The actions.                                                            *)

(* The initial state has no session, no command and no file.               *)
LEMMA InitKeeps == Init => IInv
<1> SUFFICES ASSUME Init PROVE IInv
  OBVIOUS
<1>1. CommandsTyped
  BY DEF Init, CommandsTyped
<1>2. PaidWhenSigned
  BY DEF Init, PaidWhenSigned, HasSession
<1> QED
  BY <1>1, <1>2 DEF Init, IInv

(* A session of a folder that has one is good.                             *)
LEMMA SessionGood ==
  ASSUME IInv, NEW w \in Wallets, HasSession(w)
  PROVE  session[w] \in Good(shared, signed, chain, Written)
BY DEF IInv, HasSession

(* What a step may leave in a command's memory, with the files as they     *)
(* are.                                                                    *)
Now == GoodCommand(shared, signed, chain, Written)

LEMMA CommandGood ==
  ASSUME NEW s \in Good(shared, signed, chain, Written),
         NEW next \in {"begun", "again", "push", "write", "save"},
         next = "push" => s.stage = "Active" /\ FinalizeAccepts(s.psbt)
  PROVE  [s |-> s, next |-> next] \in Now
BY GoodParts DEF Now, GoodCommand, Command

(* A step that leaves the world as it is keeps the invariant when it       *)
(* replaces the memory of one command, the session file of one wallet, or  *)
(* both, by good ones, and records nothing but payments.                   *)
LEMMA StepKeeps ==
  ASSUME IInv, NEW p \in Processes, NEW cs \in SUBSET Now,
         command' = [command EXCEPT ![p] = cs] \/ command' = command,
         NEW w \in Wallets,
         NEW s \in Good(shared, signed, chain, Written) \cup {NoSession},
         session' = [session EXCEPT ![w] = s] \/ session' = session,
         kept' \in [Wallets -> SUBSET [sid : Sid, tx : Tx]],
         \A v \in Wallets : \A r \in kept'[v] : r.tx \in chain,
         made' \in [Wallets -> Nat], overlapped' \subseteq Wallets,
         UNCHANGED world
  PROVE  IInv'
<1> DEFINE G == Good(shared, signed, chain, Written)
<1>1. /\ UNCHANGED <<files, answers, chain, shared, signed>>
      /\ Written' = Written
  BY DEF world, Written
<1>2. /\ session \in [Wallets -> G \cup {NoSession}]
      /\ command \in [Processes -> SUBSET Now]
      /\ CommandsTyped /\ PaidWhenSigned
  BY DEF IInv, Now
<1>3. session' \in [Wallets -> G \cup {NoSession}]
  BY <1>2
<1>4. command' \in [Processes -> SUBSET Now]
  BY <1>2
<1>5. G \subseteq Session /\ Now \subseteq Command
  BY GoodParts DEF Now, GoodCommand
<1>6. CommandsTyped'
  <2>1. session' \in [Wallets -> Session \cup {NoSession}]
    BY <1>3, <1>5
  <2>2. command' \in [Processes -> SUBSET Command]
    BY <1>4, <1>5
  <2> QED
    BY <1>1, <1>2, <2>1, <2>2 DEF CommandsTyped
<1>7. \A v \in Wallets : HasSession(v)' => session'[v].txid \subseteq chain
  <2>1. \A t \in G : t.txid \subseteq chain
    BY GoodParts, SessionParts
  <2> HIDE DEF G
  <2> QED
    BY <1>3, <2>1 DEF HasSession
<1>8. PaidWhenSigned'
  BY <1>1, <1>2, <1>7 DEF PaidWhenSigned
<1> QED
  BY <1>1, <1>3, <1>4, <1>6, <1>8 DEF IInv, Now

(* Retiring leaves no session, and records only what was paid.             *)
LEMMA RetireKeeps ==
  ASSUME IInv, NEW w \in Wallets, Retire(w)
  PROVE  /\ session' = [session EXCEPT ![w] = NoSession]
         /\ kept' \in [Wallets -> SUBSET [sid : Sid, tx : Tx]]
         /\ \A v \in Wallets : \A r \in kept'[v] : r.tx \in chain
<1> DEFINE new == IF HasSession(w)
                  THEN {[sid |-> session[w].sid, tx |-> t] : t \in session[w].txid}
                  ELSE {}
<1>1. /\ kept \in [Wallets -> SUBSET [sid : Sid, tx : Tx]]
      /\ \A v \in Wallets : \A r \in kept[v] : r.tx \in chain
  BY DEF IInv, CommandsTyped, PaidWhenSigned
<1>2. /\ session' = [session EXCEPT ![w] = NoSession]
      /\ kept' = [kept EXCEPT ![w] = kept[w] \cup new]
  BY DEF Retire, SetSession
<1>3. new \subseteq [sid : Sid, tx : Tx] /\ \A r \in new : r.tx \in chain
  <2>1. CASE HasSession(w)
    <3>1. session[w] \in Session /\ session[w].txid \subseteq chain
      BY <2>1, SessionGood, GoodParts DEF IInv, PaidWhenSigned
    <3> QED
      BY <3>1 DEF Session
  <2> QED
    BY <2>1
<1> HIDE DEF new
<1> QED
  BY <1>1, <1>2, <1>3

(* The half fund builds has a coin.                                        *)
LEMMA NewHalfType ==
  ASSUME IInv, NEW w \in Wallets, NEW half \in NewHalves(w)
  PROVE  half \in Half /\ half.coins # {}
<1>1. PICK coins \in Picks[w] : half = [owner |-> w, no |-> made[w], coins |-> coins]
  BY DEF NewHalves
<1>2. coins \subseteq Coins /\ coins # {}
  <2>1. {} \notin Picks[w] /\ Picks[w] \subseteq SUBSET Coins
    BY FilesAssumption
  <2> QED
    BY <2>1
<1>3. made[w] \in Nat
  BY DEF IInv, CommandsTyped
<1> QED
  BY <1>1, <1>2, <1>3 DEF Half

(* What an action beside another leaves of the history is typed.           *)
LEMMA BesideType ==
  ASSUME IInv, NEW w \in Wallets, Beside(w)
  PROVE  overlapped' \subseteq Wallets
BY DEF Beside, IInv, CommandsTyped

(* What IInv says of the rest of the state, for a step that leaves it.     *)
LEMMA Rest ==
  ASSUME IInv
  PROVE  /\ kept \in [Wallets -> SUBSET [sid : Sid, tx : Tx]]
         /\ \A v \in Wallets : \A r \in kept[v] : r.tx \in chain
         /\ made \in [Wallets -> Nat] /\ overlapped \subseteq Wallets
         /\ files \subseteq Seq(SoundMessage(shared, signed, chain))
         /\ files \subseteq Seq(Message)
         /\ Written \subseteq SoundMessage(shared, signed, chain)
         /\ Written \subseteq Message
<1>1. files \subseteq Seq(SoundMessage(shared, signed, chain)) /\ files \subseteq Seq(Message)
  BY DEF IInv, CommandsTyped
<1>2. \A file \in files : ToSet(file) \subseteq SoundMessage(shared, signed, chain)
  BY <1>1 DEF ToSet
<1>3. Written \subseteq SoundMessage(shared, signed, chain)
  BY <1>2 DEF Written
<1>4. Written \subseteq Message
  BY <1>3 DEF SoundMessage
<1> QED
  BY <1>1, <1>3, <1>4 DEF IInv, CommandsTyped, PaidWhenSigned

(* Starting a command that goes on with a good session, the session file   *)
(* as it was or gone.                                                      *)
LEMMA StartKeeps ==
  ASSUME IInv, NEW p \in Processes,
         NEW s \in Good(shared, signed, chain, Written),
         NEW next \in {"begun", "again", "push", "write", "save"},
         next = "push" => s.stage = "Active" /\ FinalizeAccepts(s.psbt),
         Starts(p, s, next), UNCHANGED world,
         \/ UNCHANGED disk
         \/ Retire(Folder[p]) /\ made' \in [Wallets -> Nat]
  PROVE  IInv'
<1> DEFINE cs == {[s |-> s, next |-> next]}
           w == Folder[p]
<1>1. cs \in SUBSET Now
  BY CommandGood
<1>2. w \in Wallets
  BY FilesAssumption
<1>3. command' = [command EXCEPT ![p] = cs] /\ overlapped' \subseteq Wallets
  BY <1>2, BesideType DEF Starts, Goes
<1>4. /\ kept' \in [Wallets -> SUBSET [sid : Sid, tx : Tx]]
      /\ \A v \in Wallets : \A r \in kept'[v] : r.tx \in chain
      /\ made' \in [Wallets -> Nat]
      /\ session' = [session EXCEPT ![w] = NoSession] \/ session' = session
  BY <1>2, Rest, RetireKeeps DEF disk
<1> HIDE DEF cs, w
<1> QED
  BY <1>1, <1>2, <1>3, <1>4, StepKeeps

(* propose and accept, with a new half.                                    *)
LEMMA NewSessionKeeps ==
  ASSUME IInv, NEW p \in Processes,
         (\E d \in Deals : Propose(p, d)) \/ (\E m \in Written : Accept(p, m))
  PROVE  IInv'
<1> DEFINE w == Folder[p]
<1>0. w \in Wallets
  BY FilesAssumption
<1>1. Reserve(w) => made' \in [Wallets -> Nat]
  BY <1>0, Rest DEF Reserve
<1>2. CASE \E d \in Deals : Propose(p, d)
  <2>1. PICK d \in Deals : Propose(p, d)
    BY <1>2
  <2>2. PICK half \in NewHalves(w) : Starts(p, StartSession(w, half, d), "begun")
    BY <2>1 DEF Propose
  <2>3. Retire(w) /\ Reserve(w) /\ UNCHANGED world
    BY <2>1 DEF Propose
  <2>4. StartSession(w, half, d) \in Good(shared, signed, chain, Written)
    BY <1>0, <2>2, NewHalfType, StartGood
  <2> QED
    BY <1>0, <1>1, <2>2, <2>3, <2>4, StartKeeps
<1>3. CASE \E m \in Written : Accept(p, m)
  <2>1. PICK m \in Written : Accept(p, m)
    BY <1>3
  <2>2. PICK half \in NewHalves(w) : Starts(p, JoinSession(w, m, half), "save")
    BY <2>1 DEF Accept
  <2>3. Retire(w) /\ Reserve(w) /\ UNCHANGED world
    BY <2>1 DEF Accept
  <2>4. m \in Message
    BY Rest
  <2>5. JoinSession(w, m, half) \in Good(shared, signed, chain, Written)
    BY <1>0, <2>2, <2>4, NewHalfType, JoinGood
  <2> QED
    BY <1>0, <1>1, <2>2, <2>3, <2>5, StartKeeps
<1> QED
  BY <1>2, <1>3

(* The commands that go on with the session there is.                      *)
LEMMA OldSessionKeeps ==
  ASSUME IInv, NEW p \in Processes,
         \/ \E d \in Deals : ProposeAgain(p, d)
         \/ \E a \in answers : AnswerWith(p, a)
         \/ \E file \in files : Receive(p, file)
         \/ Broadcast(p)
  PROVE  IInv'
<1> DEFINE w == Folder[p]
           G == Good(shared, signed, chain, Written)
<1>0. w \in Wallets
  BY FilesAssumption
<1>1. HasSession(w) => session[w] \in G
  BY <1>0, SessionGood
<1>2. CASE \E d \in Deals : ProposeAgain(p, d)
  <2>1. HasSession(w) /\ Starts(p, session[w], "again") /\ UNCHANGED <<disk, world>>
    BY <1>2 DEF ProposeAgain, Active
  <2> QED
    BY <1>1, <2>1, StartKeeps
<1>3. CASE \E a \in answers : AnswerWith(p, a)
  <2>1. PICK a \in answers : AnswerWith(p, a)
    BY <1>3
  <2>2. /\ HasSession(w) /\ RespondAccepts(session[w], a)
        /\ Starts(p, Responded(session[w], a), "write") /\ UNCHANGED <<disk, world>>
    BY <2>1 DEF AnswerWith, Active
  <2>3. a \in Given(shared, signed)
    BY DEF IInv
  <2>4. Responded(session[w], a) \in G
    BY <1>1, <2>2, <2>3, RespondedGood
  <2> QED
    BY <2>2, <2>4, StartKeeps
<1>4. CASE \E file \in files : Receive(p, file)
  <2>1. PICK file \in files : Receive(p, file)
    BY <1>4
  <2> DEFINE s == Steps(session[w], file)[Len(file)]
  <2>2. HasSession(w) /\ AfterReceive(p, s) /\ UNCHANGED <<disk, world>>
    BY <2>1 DEF Receive
  <2>3. file \in Seq(Message) /\ file \in Seq(SoundMessage(shared, signed, chain))
    BY Rest
  <2>4. \A n \in DOMAIN file : file[n] \in Written /\ file[n] \in SoundMessage(shared, signed, chain)
    BY <2>3 DEF Written, ToSet
  <2>5. \A t \in G, n \in DOMAIN file : Received(t, file[n]) \in G
    BY <2>4, ReceivedGood
  <2> HIDE DEF G
  <2>6. s \in G
    BY <1>1, <2>2, <2>3, <2>5, StepsIn
  <2> HIDE DEF s
  <2>7. Starts(p, s, "write") \/ Starts(p, s, "save")
    BY <2>2 DEF AfterReceive
  <2> USE DEF G
  <2> QED
    BY <2>2, <2>6, <2>7, StartKeeps
<1>5. CASE Broadcast(p)
  <2>1. /\ HasSession(w) /\ session[w].stage = "Active" /\ FinalizeAccepts(session[w].psbt)
        /\ Starts(p, session[w], "push") /\ UNCHANGED <<disk, world>>
    BY <1>5 DEF Broadcast, Active, Ready
  <2> QED
    BY <1>1, <2>1, StartKeeps
<1> QED
  BY <1>2, <1>3, <1>4, <1>5

(* An accept that is refused, and a session file that is deleted.          *)
LEMMA DroppingKeeps ==
  ASSUME IInv,
         \/ \E p \in Processes : \E m \in Written : AcceptRefused(p, m)
         \/ \E w \in Wallets : GiveUp(w)
  PROVE  IInv'
<1> DEFINE G == Good(shared, signed, chain, Written)
<1>1. CASE \E p \in Processes : \E m \in Written : AcceptRefused(p, m)
  <2>1. PICK p \in Processes : \E m \in Written : AcceptRefused(p, m)
    BY <1>1
  <2> DEFINE w == Folder[p]
  <2>2. w \in Wallets /\ {} \in SUBSET Now /\ NoSession \in G \cup {NoSession}
    BY FilesAssumption
  <2>3. /\ Retire(w) /\ Beside(w) /\ UNCHANGED world
        /\ command' = command /\ made' = made
    BY <2>1 DEF AcceptRefused
  <2>4. /\ session' = [session EXCEPT ![w] = NoSession]
        /\ kept' \in [Wallets -> SUBSET [sid : Sid, tx : Tx]]
        /\ \A v \in Wallets : \A r \in kept'[v] : r.tx \in chain
        /\ made' \in [Wallets -> Nat] /\ overlapped' \subseteq Wallets
    BY <2>2, <2>3, RetireKeeps, BesideType, Rest
  <2> HIDE DEF w, G
  <2> QED
    BY <2>2, <2>3, <2>4, StepKeeps DEF G
<1>2. CASE \E w \in Wallets : GiveUp(w)
  <2>1. PICK w \in Wallets : GiveUp(w)
    BY <1>2
  <2>2. /\ session' = [session EXCEPT ![w] = NoSession] /\ Beside(w)
        /\ UNCHANGED <<kept, made, command, world>>
    BY <2>1 DEF GiveUp, SetSession
  <2>3. /\ kept' \in [Wallets -> SUBSET [sid : Sid, tx : Tx]]
        /\ \A v \in Wallets : \A r \in kept'[v] : r.tx \in chain
        /\ made' \in [Wallets -> Nat] /\ overlapped' \subseteq Wallets
    BY <2>2, BesideType, Rest
  <2>4. CASE \E p \in Processes : TRUE
    <3>1. PICK p \in Processes : TRUE
      BY <2>4
    <3>2. {} \in SUBSET Now /\ NoSession \in G \cup {NoSession}
      OBVIOUS
    <3> HIDE DEF G
    <3> QED
      BY <2>2, <2>3, <3>1, <3>2, StepKeeps DEF G
  <2>5. CASE Processes = {}
    <3>1. /\ UNCHANGED <<files, answers, chain, shared, signed, command, made, kept>>
          /\ Written' = Written
      BY <2>2 DEF world, Written
    <3>2. session' \in [Wallets -> G \cup {NoSession}]
      BY <2>2 DEF IInv
    <3>3. \A v \in Wallets : session'[v] # NoSession => session'[v] = session[v]
      BY <2>2 DEF IInv
    <3>4. CommandsTyped'
      BY <2>2, <2>3, <3>1 DEF IInv, CommandsTyped
    <3>5. PaidWhenSigned'
      BY <2>3, <3>1, <3>3 DEF IInv, PaidWhenSigned, HasSession
    <3> QED
      BY <3>1, <3>2, <3>4, <3>5 DEF IInv
  <2> QED
    BY <2>4, <2>5
<1> QED
  BY <1>1, <1>2

(* The steps of a running command that leave the world as it is.           *)
LEMMA RunningKeeps ==
  ASSUME IInv, NEW p \in Processes, SaveBegun(p) \/ Reload(p) \/ Save(p) \/ Stop(p)
  PROVE  IInv'
<1> DEFINE w == Folder[p]
           G == Good(shared, signed, chain, Written)
<1>0. w \in Wallets
  BY FilesAssumption
<1>1. command[p] \in SUBSET Now
  BY DEF IInv, Now
<1>2. /\ kept \in [Wallets -> SUBSET [sid : Sid, tx : Tx]]
      /\ \A v \in Wallets : \A r \in kept[v] : r.tx \in chain
      /\ made \in [Wallets -> Nat] /\ overlapped \subseteq Wallets
  BY Rest
<1>3. \A c \in Now : c.s \in G
  BY DEF Now, GoodCommand
<1> HIDE DEF w, G
<1>4. CASE SaveBegun(p)
  <2>1. PICK c \in command[p] :
          /\ session' = [session EXCEPT ![w] = c.s]
          /\ command' = [command EXCEPT ![p] = {[s |-> c.s, next |-> "again"]}]
          /\ UNCHANGED <<kept, made, world, overlapped>>
    BY <1>4 DEF SaveBegun, SetSession, Goes, history, w
  <2>2. c.s \in G
    BY <1>1, <1>3
  <2>3. {[s |-> c.s, next |-> "again"]} \in SUBSET Now
    BY <2>2, CommandGood DEF G
  <2> QED
    BY <1>0, <1>2, <2>1, <2>2, <2>3, StepKeeps DEF G
<1>5. CASE Reload(p)
  <2>1. UNCHANGED <<session, kept, made, world, overlapped>>
    BY <1>5 DEF Reload, disk, history
  <2>2. PICK cs \in SUBSET Now : command' = [command EXCEPT ![p] = cs]
    <3>1. CASE HasSession(w) /\ Offers(session[w])
      <4>1. session[w] \in G
        BY <1>0, <3>1, SessionGood DEF G
      <4>2. Offered(session[w]) \in G
        BY <3>1, <4>1, OfferedGood DEF G
      <4>3. command' = [command EXCEPT ![p] = {[s |-> Offered(session[w]), next |-> "write"]}]
        BY <1>5, <3>1 DEF Reload, Goes, w
      <4>4. [s |-> Offered(session[w]), next |-> "write"] \in Now
        BY <4>2, CommandGood DEF G
      <4> QED
        BY <4>3, <4>4
    <3>2. CASE ~(HasSession(w) /\ Offers(session[w]))
      <4>1. command' = [command EXCEPT ![p] = {}]
        BY <1>5, <3>2 DEF Reload, Ends, w
      <4> QED
        BY <4>1
    <3> QED
      BY <3>1, <3>2
  <2> QED
    BY <1>0, <1>2, <2>1, <2>2, StepKeeps
<1>6. CASE Save(p)
  <2>1. PICK c \in command[p] :
          /\ session' = [session EXCEPT ![w] = c.s]
          /\ command' = [command EXCEPT ![p] = {}]
          /\ UNCHANGED <<kept, made, world, overlapped>>
    BY <1>6 DEF Save, SetSession, Ends, history, w
  <2>2. c.s \in G /\ {} \in SUBSET Now
    BY <1>1, <1>3
  <2> QED
    BY <1>0, <1>2, <2>1, <2>2, StepKeeps DEF G
<1>7. CASE Stop(p)
  <2>1. /\ command' = [command EXCEPT ![p] = {}]
        /\ UNCHANGED <<session, kept, made, world, overlapped>>
    BY <1>7 DEF Stop, Ends, disk
  <2>2. {} \in SUBSET Now
    OBVIOUS
  <2> QED
    BY <1>0, <1>2, <2>1, <2>2, StepKeeps
<1> QED
  BY <1>4, <1>5, <1>6, <1>7

-----------------------------------------------------------------------------
(* The steps that add to the world: a file, a payment, an answer.          *)

(* What is there stays good when the world grows.                          *)
LEMMA Grown ==
  ASSUME IInv, shared \subseteq shared', signed \subseteq signed',
         chain \subseteq chain', files \subseteq files'
  PROVE  /\ session \in [Wallets -> Good(shared', signed', chain', Written') \cup {NoSession}]
         /\ command \in [Processes -> SUBSET GoodCommand(shared', signed', chain', Written')]
         /\ files \subseteq Seq(SoundMessage(shared', signed', chain'))
         /\ answers \subseteq Given(shared', signed')
<1>1. Written \subseteq Written'
  BY DEF Written
<1>2. /\ Good(shared, signed, chain, Written) \subseteq Good(shared', signed', chain', Written')
      /\ GoodCommand(shared, signed, chain, Written)
           \subseteq GoodCommand(shared', signed', chain', Written')
  BY <1>1, GoodMono
<1>3. Seq(SoundMessage(shared, signed, chain)) \subseteq Seq(SoundMessage(shared', signed', chain'))
  BY MessageMono, SeqMono
<1>4. Given(shared, signed) \subseteq Given(shared', signed')
  BY DEF Given
<1>5. /\ session \in [Wallets -> Good(shared, signed, chain, Written) \cup {NoSession}]
      /\ command \in [Processes -> SUBSET GoodCommand(shared, signed, chain, Written)]
      /\ files \subseteq Seq(SoundMessage(shared, signed, chain))
      /\ answers \subseteq Given(shared, signed)
  BY DEF IInv
<1> QED
  BY <1>2, <1>3, <1>4, <1>5

(* write_outbox: what is forgotten is in a file.                           *)
LEMMA WriteOutKeeps ==
  ASSUME IInv, NEW p \in Processes, WriteOut(p)
  PROVE  IInv'
<1>1. PICK c \in command[p] :
        /\ files' = files \cup {c.s.outbox}
        /\ command' = [command EXCEPT
              ![p] = {[s |-> [c.s EXCEPT !.outbox = << >>], next |-> "save"]}]
        /\ UNCHANGED <<session, kept, made, answers, chain, shared, signed, overlapped>>
  BY DEF WriteOut, Goes, disk, history
<1> DEFINE G == Good(shared', signed', chain', Written')
           K == GoodCommand(shared', signed', chain', Written')
           s == [c.s EXCEPT !.outbox = << >>]
<1>2. /\ session \in [Wallets -> G \cup {NoSession}]
      /\ command \in [Processes -> SUBSET K]
      /\ files \subseteq Seq(SoundMessage(shared', signed', chain'))
      /\ answers \subseteq Given(shared', signed')
  BY <1>1, Grown
<1>3. c.s \in G
  BY <1>2 DEF GoodCommand
<1>4. c.s.outbox \in Seq(SoundMessage(shared', signed', chain')) /\ ToSet(c.s.outbox) \subseteq Written'
  BY <1>1, <1>3, GoodParts DEF Written
<1>5. s \in G
  BY <1>3, <1>4, ClearedGood
<1>6. s \in Session /\ c.s.outbox \in Seq(Message)
  BY <1>3, <1>5, GoodParts DEF Session
<1> HIDE DEF s, G
<1>7. {[s |-> s, next |-> "save"]} \in SUBSET K
  BY <1>5, <1>6 DEF GoodCommand, Command, G
<1>8. command' \in [Processes -> SUBSET K]
  BY <1>1, <1>2, <1>7 DEF s
<1>9. K \subseteq Command
  BY DEF GoodCommand
<1> HIDE DEF K
<1>10. CommandsTyped'
  <2>1. command' \in [Processes -> SUBSET Command]
    BY <1>8, <1>9
  <2> QED
    BY <1>1, <1>6, <2>1 DEF IInv, CommandsTyped
<1>11. PaidWhenSigned'
  BY <1>1 DEF IInv, PaidWhenSigned, HasSession
<1>12. files' \subseteq Seq(SoundMessage(shared', signed', chain'))
  BY <1>1, <1>2, <1>4
<1> QED
  BY <1>1, <1>2, <1>8, <1>10, <1>11, <1>12 DEF IInv, G, K

(* Push: a transaction that is ready carries every signature.              *)
LEMMA PushKeeps ==
  ASSUME IInv, NEW p \in Processes, Push(p)
  PROVE  IInv'
<1>1. PICK c \in command[p] :
        /\ c.next = "push"
        /\ \/ /\ chain' = chain \cup {TxOf(c.s.psbt)}
              /\ command' = [command EXCEPT ![p] = {[s |-> Finished(c.s), next |-> "write"]}]
           \/ /\ chain' = chain
              /\ command' = [command EXCEPT ![p] = {}]
        /\ UNCHANGED <<session, kept, made, files, answers, shared, signed, overlapped>>
  BY DEF Push, Goes, Ends, disk, history
<1> DEFINE G == Good(shared', signed', chain', Written')
           K == GoodCommand(shared', signed', chain', Written')
           t == TxOf(c.s.psbt)
<1>2. /\ session \in [Wallets -> G \cup {NoSession}]
      /\ command \in [Processes -> SUBSET K]
      /\ files \subseteq Seq(SoundMessage(shared', signed', chain'))
      /\ answers \subseteq Given(shared', signed')
  BY <1>1, Grown
<1>3. c.s \in G /\ c.s.stage = "Active" /\ FinalizeAccepts(c.s.psbt)
  BY <1>1, <1>2 DEF GoodCommand
<1>4. /\ c.s.psbt \in Psbt /\ Marks(c.s.psbt.sigs, t) \subseteq signed
      /\ c.s.psbt.sigs = InputsOf(c.s.psbt)
  BY <1>1, <1>3, GoodParts DEF SoundPsbt, FinalizeAccepts
<1>5. t \in Tx /\ InputsOf(t) = InputsOf(c.s.psbt)
  BY <1>4 DEF TxOf, Tx, Psbt, InputsOf
<1>6. Marks(InputsOf(t), t) \subseteq signed
  BY <1>4, <1>5
<1>7. chain \subseteq chain' /\ chain' \subseteq Tx
      /\ \A u \in chain' : Marks(InputsOf(u), u) \subseteq signed
  BY <1>1, <1>5, <1>6 DEF IInv, CommandsTyped, PaidWhenSigned
<1>8. PICK cs \in SUBSET K : command' = [command EXCEPT ![p] = cs]
  <2>1. CASE /\ chain' = chain \cup {t}
             /\ command' = [command EXCEPT ![p] = {[s |-> Finished(c.s), next |-> "write"]}]
    <3>1. Finished(c.s) \in G
      BY <1>3, <2>1, FinishedGood
    <3>2. Finished(c.s) \in Session
      BY <3>1, GoodParts
    <3> HIDE DEF G
    <3>3. {[s |-> Finished(c.s), next |-> "write"]} \in SUBSET K
      BY <3>1, <3>2 DEF GoodCommand, Command, G
    <3> QED
      BY <2>1, <3>3
  <2>2. CASE command' = [command EXCEPT ![p] = {}]
    BY <2>2
  <2> QED
    BY <1>1, <2>1, <2>2
<1>9. K \subseteq Command
  BY DEF GoodCommand
<1> HIDE DEF t, G, K
<1>10. command' \in [Processes -> SUBSET K]
  BY <1>2, <1>8
<1>11. CommandsTyped'
  <2>1. command' \in [Processes -> SUBSET Command]
    BY <1>9, <1>10
  <2> QED
    BY <1>1, <1>7, <2>1 DEF IInv, CommandsTyped
<1>12. PaidWhenSigned'
  BY <1>1, <1>7 DEF IInv, PaidWhenSigned, HasSession
<1> QED
  BY <1>1, <1>2, <1>10, <1>11, <1>12 DEF IInv, G, K

(* Request: the signer signs only what has every share.                    *)
LEMMA RequestKeeps ==
  ASSUME IInv, NEW w \in Wallets, Request(w)
  PROVE  IInv'
<1> DEFINE s == session[w]
           a == WholeAnswer(s)
           t == TxOf(s.psbt)
<1>1. /\ HasSession(w) /\ MyTurn(s)
      /\ answers' = answers \cup {a}
      /\ shared' = shared \cup Marks(a.shares, t)
      /\ signed' = signed \cup Marks(a.sigs, t)
      /\ UNCHANGED <<session, kept, made, command, files, chain, overlapped>>
  BY DEF Request, Active, disk, history
<1>2. /\ s \in Session /\ s.psbt \in Psbt /\ s.mine \subseteq Coins
      /\ s.psbt \in SoundPsbt(shared, signed) /\ s.mine \subseteq InputsOf(s.psbt)
  BY <1>1, SessionGood, GoodParts, SessionParts DEF Session
<1>3. /\ a \in Psbt /\ TxOf(a) = t /\ a.shares = s.mine
      /\ a.sigs = IF ShareOnly(s) THEN {} ELSE s.mine
  BY <1>2 DEF WholeAnswer, Answer, Psbt, TxOf
<1>4. t \in Tx /\ InputsOf(t) = InputsOf(s.psbt)
  BY <1>2 DEF TxOf, Tx, Psbt, InputsOf
<1>5. /\ Marks(a.shares, t) \subseteq Mark /\ Marks(a.sigs, t) \subseteq Mark
      /\ \A x \in Marks(a.sigs, t) : x.tx = t /\ a.sigs # {}
  BY <1>2, <1>3, <1>4 DEF Mark, Marks
<1>6. a.sigs # {} => Marks(InputsOf(t), t) \subseteq shared'
  <2>1. SUFFICES ASSUME ~ShareOnly(s) PROVE Marks(InputsOf(t), t) \subseteq shared'
    BY <1>3
  <2>2. InputsOf(t) \subseteq s.psbt.shares \cup a.shares
    BY <1>3, <1>4, <2>1 DEF ShareOnly
  <2>3. Marks(s.psbt.shares, t) \subseteq shared
    BY <1>2 DEF SoundPsbt
  <2> QED
    BY <1>1, <2>2, <2>3 DEF Marks
<1> HIDE DEF a, t, s
<1>7. /\ session \in [Wallets -> Good(shared', signed', chain', Written') \cup {NoSession}]
      /\ command \in [Processes -> SUBSET GoodCommand(shared', signed', chain', Written')]
      /\ files \subseteq Seq(SoundMessage(shared', signed', chain'))
      /\ answers \subseteq Given(shared', signed')
  BY <1>1, Grown
<1>8. a \in Given(shared', signed')
  BY <1>1, <1>3 DEF Given
<1>9. CommandsTyped'
  BY <1>1, <1>3, <1>5 DEF IInv, CommandsTyped
<1>10. PaidWhenSigned'
  <2>1. \A x \in signed' : Marks(InputsOf(x.tx), x.tx) \subseteq shared'
    BY <1>1, <1>5, <1>6 DEF IInv, PaidWhenSigned
  <2>2. \A u \in chain' : Marks(InputsOf(u), u) \subseteq signed'
    BY <1>1 DEF IInv, PaidWhenSigned
  <2> QED
    BY <1>1, <2>1, <2>2 DEF IInv, PaidWhenSigned, HasSession
<1> QED
  BY <1>1, <1>7, <1>8, <1>9, <1>10 DEF IInv

(* Every step keeps the invariant.                                         *)
LEMMA NextKeeps == IInv /\ [Next]_vars => IInv'
<1> SUFFICES ASSUME IInv, [Next]_vars PROVE IInv'
  OBVIOUS
<1>1. CASE \E p \in Processes : Begin(p) \/ Continue(p)
  <2>1. PICK p \in Processes : Begin(p) \/ Continue(p)
    BY <1>1
  <2> QED
    BY <2>1, NewSessionKeeps, OldSessionKeeps, DroppingKeeps, RunningKeeps,
       WriteOutKeeps, PushKeeps DEF Begin, Continue
<1>2. CASE \E w \in Wallets : Request(w) \/ GiveUp(w)
  BY <1>2, RequestKeeps, DroppingKeeps
<1>3. CASE UNCHANGED vars
  BY <1>3 DEF vars, disk, world, history, IInv, CommandsTyped, PaidWhenSigned,
              HasSession, Written
<1> QED
  BY <1>1, <1>2, <1>3 DEF Next

-----------------------------------------------------------------------------
(* The invariant holds.                                                    *)
THEOREM FilesStayGood == Spec => []IInv
<1> QED
  BY InitKeeps, NextKeeps, PTL DEF Spec

(* Whichever commands run beside each other or are stopped, a transaction  *)
(* is only paid when every coin of it was signed for, a signature only     *)
(* given when all shares were, and what a session file or a record calls   *)
(* paid was paid.                                                          *)
THEOREM HandPaidWhenSigned == Spec => []PaidWhenSigned
<1>1. IInv => PaidWhenSigned
  BY DEF IInv
<1> QED
  BY <1>1, FilesStayGood, PTL

(* Whichever commands replace each other's session file or are stopped,    *)
(* what the other wallet has to hear of a session is owed or written.      *)
THEOREM OwedOrWritten == Spec => []NothingOwedIsLost
<1>1. IInv => NothingOwedIsLost
  BY SessionGood DEF NothingOwedIsLost, Good
<1> QED
  BY <1>1, FilesStayGood, PTL

(* Files, the memory of commands and the history keep their types.         *)
THEOREM CommandsKeepTypes == Spec => []CommandsTyped
<1>1. IInv => CommandsTyped
  BY DEF IInv
<1> QED
  BY <1>1, FilesStayGood, PTL

-----------------------------------------------------------------------------
(* A half is signed into one transaction only.  Signers do not know what   *)
(* they signed before: it is the session that keeps to one transaction,    *)
(* and the session file that keeps to one session.  So the invariant says  *)
(* of every wallet whose session file no two commands changed at a time    *)
(* that what it ever shared of a half is in the one transaction of the     *)
(* session with that half, in the file and in the memory of the command.   *)

(* The halves wallets built so far.                                        *)
Built == {h \in Half : h.no < made[h.owner] /\ h.coins \in Picks[h.owner]}

(* A session and the messages it owes have only such halves.               *)
Knows(B, w, s) == KnownSession(B, w, s) /\ s.outbox \in Seq(KnownMessages(B))

(* Whatever of w's half in s was shared was shared in the transaction of s,*)
(* and nothing before s has one.                                           *)
Bound(marks, w, s) ==
  \A x \in marks : \A h \in x.tx.halves \cap s.psbt.halves :
    h.owner = w /\ x.coin \in h.coins => s.stage # "Proposed" /\ x.tx = TxOf(s.psbt)

(* A command with s will not put another transaction in the place of old's.*)
Follows(old, s) ==
  old # NoSession /\ old.stage # "Proposed" =>
    s.stage # "Proposed" /\ TxOf(s.psbt) = TxOf(old.psbt)

HalvesKnown ==
  /\ Written \subseteq KnownMessages(Built)
  /\ \A w \in Wallets : HasSession(w) => Knows(Built, w, session[w])
  /\ \A p \in Processes : \A c \in command[p] : Knows(Built, Folder[p], c.s)
  /\ \A x \in shared \cup signed : OneEach(Built, x.tx.halves)

HandOf(w) ==
  /\ \A p, q \in Processes :
       Folder[p] = w /\ Folder[q] = w /\ command[p] # {} /\ command[q] # {} => p = q
  /\ HasSession(w) => Bound(shared, w, session[w])
  /\ \A p \in Processes : Folder[p] = w =>
       \A c \in command[p] : Bound(shared, w, c.s) /\ Follows(session[w], c.s)

(* One transaction for what was shared of one half.                        *)
SharedOnce ==
  \A x, y \in shared : \A h \in x.tx.halves \cap y.tx.halves :
    h.owner \notin overlapped /\ x.coin \in h.coins /\ y.coin \in h.coins => x.tx = y.tx

HandInv ==
  /\ HalvesKnown
  /\ SharedOnce
  /\ \A w \in Wallets : w \notin overlapped => HandOf(w)

-----------------------------------------------------------------------------
(* What the operators of struct Session do to what is known and bound.     *)

(* Facts about one session, without which halves were built.               *)
LEMMA KnowsMore ==
  ASSUME NEW B, NEW C, B \subseteq C, NEW w, NEW s, Knows(B, w, s)
  PROVE  Knows(C, w, s)
<1>1. KnownMessages(B) \subseteq KnownMessages(C) /\ KnownSession(C, w, s)
  BY MoreHalves DEF Knows
<1>2. Seq(KnownMessages(B)) \subseteq Seq(KnownMessages(C))
  BY <1>1, SeqMono
<1> QED
  BY <1>1, <1>2 DEF Knows

(* A session that goes on in the same transaction, owing as much or one    *)
(* message more.                                                           *)
LEMMA GoesOnKnown ==
  ASSUME NEW B, NEW w, NEW s \in Session, NEW r \in Session, Knows(B, w, s),
         r.sid = s.sid, r.me = s.me, r.mine = s.mine, r.psbt.halves = s.psbt.halves,
         r.stage = "Proposed" => s.stage = "Proposed",
         \/ r.outbox = s.outbox \/ r.outbox = << >> \/ r.outbox = <<Says(r)>>
         \/ r.outbox = Append(s.outbox, Says(r))
  PROVE  Knows(B, w, r)
<1>1. KnownSession(B, w, r)
  BY DEF Knows, KnownSession
<1>2. Says(r) \in KnownMessages(B)
  BY <1>1, SaysKnown
<1>3. s.outbox \in Seq(KnownMessages(B))
  BY DEF Knows
<1>4. << >> \in Seq(KnownMessages(B)) /\ <<Says(r)>> \in Seq(KnownMessages(B))
  BY <1>2, OneElement
<1>5. Append(s.outbox, Says(r)) \in Seq(KnownMessages(B))
  BY <1>2, <1>3
<1> QED
  BY <1>1, <1>3, <1>4, <1>5 DEF Knows

LEMMA GoesOnBound ==
  ASSUME NEW marks, NEW w, NEW s, NEW r, Bound(marks, w, s),
         r.psbt.halves = s.psbt.halves, r.psbt.deal = s.psbt.deal,
         r.stage = "Proposed" => s.stage = "Proposed"
  PROVE  Bound(marks, w, r)
<1>1. TxOf(r.psbt) = TxOf(s.psbt)
  BY DEF TxOf
<1> QED
  BY <1>1 DEF Bound

(* A message: the half of a proposer that adopts a transaction was shared  *)
(* in none yet.                                                            *)
LEMMA ReceivedHand ==
  ASSUME NEW B, NEW w, NEW s \in Session, NEW m \in KnownMessages(B), Knows(B, w, s)
  PROVE  /\ Knows(B, w, Received(s, m))
         /\ \A marks : Bound(marks, w, s) => Bound(marks, w, Received(s, m))
         /\ s.stage # "Proposed" => /\ Received(s, m).stage # "Proposed"
                                   /\ TxOf(Received(s, m).psbt) = TxOf(s.psbt)
<1> DEFINE r == Received(s, m)
<1>0. m \in Message /\ OneEach(B, m.psbt.halves) /\ Names(m.sid, m.psbt.halves)
  BY DEF KnownMessages
<1>1. /\ r.sid = s.sid /\ r.me = s.me /\ r.mine = s.mine /\ r.outbox = s.outbox
      /\ \/ r.psbt.halves = s.psbt.halves /\ (s.stage = "Proposed" => r = s)
         \/ /\ s.stage = "Proposed" /\ m.sid = s.sid
            /\ s.psbt.halves \subseteq m.psbt.halves /\ r.psbt.halves = m.psbt.halves
            /\ r.stage # "Proposed"
      /\ r.psbt.deal = s.psbt.deal
      /\ StageNo(s) <= StageNo(r)
  BY <1>0, ReceivedKeeps DEF Extends
<1> HIDE DEF r
<1>2. KnownSession(B, w, s) /\ s.outbox \in Seq(KnownMessages(B))
  BY DEF Knows
<1>3. CASE r.psbt.halves = s.psbt.halves /\ (s.stage = "Proposed" => r = s)
  <2>1. r.stage = "Proposed" => s.stage = "Proposed"
    BY <1>1 DEF StageNo, Session, Stage
  <2>2. KnownSession(B, w, r)
    BY <1>1, <1>2, <1>3, <2>1 DEF KnownSession
  <2>3. \A marks : Bound(marks, w, s) => Bound(marks, w, r)
    BY <1>1, <1>3, <2>1, GoesOnBound
  <2>4. TxOf(r.psbt) = TxOf(s.psbt)
    BY <1>1, <1>3 DEF TxOf
  <2> QED
    BY <1>1, <1>2, <2>1, <2>2, <2>3, <2>4 DEF Knows, r
<1>4. CASE /\ s.stage = "Proposed" /\ m.sid = s.sid
           /\ s.psbt.halves \subseteq m.psbt.halves /\ r.psbt.halves = m.psbt.halves
           /\ r.stage # "Proposed"
  <2>1. PICK own \in s.psbt.halves : own.owner = w /\ own.coins = s.mine
    BY <1>2 DEF KnownSession
  <2>2. KnownSession(B, w, r)
    BY <1>0, <1>1, <1>2, <1>4, <2>1 DEF KnownSession
  <2>3. \A h \in r.psbt.halves : h.owner = w => h = own
    BY <1>0, <1>4, <2>1 DEF OneEach
  <2>4. \A marks : Bound(marks, w, s) => Bound(marks, w, r)
    BY <1>4, <2>1, <2>3 DEF Bound
  <2> QED
    BY <1>1, <1>2, <1>4, <2>2, <2>4 DEF Knows, r
<1> QED
  BY <1>1, <1>3, <1>4

LEMMA RespondedHand ==
  ASSUME NEW B, NEW w, NEW s \in Session, NEW a \in Psbt, RespondAccepts(s, a),
         Responded(s, a) \in Session, Knows(B, w, s)
  PROVE  /\ Knows(B, w, Responded(s, a))
         /\ \A marks : Bound(marks, w, s) => Bound(marks, w, Responded(s, a))
         /\ s.stage # "Proposed" /\ Responded(s, a).stage # "Proposed"
         /\ TxOf(Responded(s, a).psbt) = TxOf(s.psbt)
<1> DEFINE r == Responded(s, a)
<1>1. /\ r.sid = s.sid /\ r.me = s.me /\ r.mine = s.mine
      /\ s.stage = "Active" /\ r.stage = "Active" /\ TxOf(r.psbt) = TxOf(s.psbt)
      /\ r.outbox = Append(s.outbox, UpdateMessage(r))
  BY RespondedKeeps
<1> HIDE DEF r
<1>2. r.psbt.halves = s.psbt.halves /\ r.psbt.deal = s.psbt.deal
  BY <1>1 DEF TxOf
<1>3. Says(r) = UpdateMessage(r) /\ r \in Session
  BY <1>1 DEF Says, r
<1>4. Knows(B, w, r)
  BY <1>1, <1>2, <1>3, GoesOnKnown
<1>5. \A marks : Bound(marks, w, s) => Bound(marks, w, r)
  BY <1>1, <1>2, GoesOnBound
<1> QED
  BY <1>1, <1>4, <1>5 DEF r

LEMMA FinishedHand ==
  ASSUME NEW B, NEW w, NEW s \in Session, Finished(s) \in Session, Knows(B, w, s)
  PROVE  /\ Knows(B, w, Finished(s))
         /\ \A marks : Bound(marks, w, s) => Bound(marks, w, Finished(s))
         /\ Finished(s).stage # "Proposed" /\ Finished(s).psbt = s.psbt
<1> DEFINE r == Finished(s)
<1>1. /\ r.sid = s.sid /\ r.me = s.me /\ r.mine = s.mine /\ r.psbt = s.psbt
      /\ r.stage = "Done" /\ r.outbox = Append(s.outbox, DoneMessage(r))
  BY FinishedKeeps
<1> HIDE DEF r
<1>2. Says(r) = DoneMessage(r) /\ r \in Session
  BY <1>1 DEF Says, r
<1>3. Knows(B, w, r)
  BY <1>1, <1>2, GoesOnKnown
<1>4. \A marks : Bound(marks, w, s) => Bound(marks, w, r)
  BY <1>1, GoesOnBound
<1> QED
  BY <1>1, <1>3, <1>4 DEF r

(* The outbox emptied into a file, or filled with the proposal again.      *)
LEMMA OutboxHand ==
  ASSUME NEW B, NEW w, NEW s \in Session, NEW out, Knows(B, w, s),
         [s EXCEPT !.outbox = out] \in Session,
         out = << >> \/ (out = <<ProposalMessage(s)>> /\ s.stage = "Proposed")
  PROVE  LET r == [s EXCEPT !.outbox = out] IN
         /\ Knows(B, w, r)
         /\ \A marks : Bound(marks, w, s) => Bound(marks, w, r)
         /\ r.stage = s.stage /\ r.psbt = s.psbt
<1> DEFINE r == [s EXCEPT !.outbox = out]
<1>1. /\ r.sid = s.sid /\ r.me = s.me /\ r.mine = s.mine /\ r.psbt = s.psbt
      /\ r.stage = s.stage /\ r.outbox = out /\ r \in Session
  BY DEF Session
<1> HIDE DEF r
<1>2. s.stage = "Proposed" => Says(r) = ProposalMessage(s)
  BY <1>1 DEF Says, ProposalMessage
<1>3. Knows(B, w, r)
  BY <1>1, <1>2, GoesOnKnown
<1>4. \A marks : Bound(marks, w, s) => Bound(marks, w, r)
  BY <1>1, GoesOnBound
<1> QED
  BY <1>1, <1>3, <1>4 DEF r

(* A new session, with a half no transaction has yet.                      *)
LEMMA StartHand ==
  ASSUME NEW B, NEW w \in Wallets, NEW half \in B, half.owner = w, NEW d,
         StartSession(w, half, d) \in Session
  PROVE  /\ Knows(B, w, StartSession(w, half, d))
         /\ \A marks : (\A x \in marks : half \notin x.tx.halves) =>
              Bound(marks, w, StartSession(w, half, d))
<1> DEFINE r == StartSession(w, half, d)
<1>1. /\ r.sid = SidOf(half) /\ r.me = w /\ r.mine = half.coins /\ r.stage = "Proposed"
      /\ r.psbt = Proposed(half, d) /\ r.outbox = <<ProposalMessage(r)>>
  BY StartSessionIs
<1>0. Proposed(half, d).halves = {half}
  BY DEF Proposed
<1> HIDE DEF r
<1>2. KnownSession(B, w, r)
  BY <1>0, <1>1 DEF KnownSession, OneEach, Names
<1>3. Says(r) = ProposalMessage(r) /\ Says(r) \in KnownMessages(B)
  BY <1>1, <1>2, SaysKnown DEF Says, r
<1>4. r.outbox \in Seq(KnownMessages(B))
  BY <1>1, <1>3, OneElement
<1>5. \A marks : (\A x \in marks : half \notin x.tx.halves) => Bound(marks, w, r)
  BY <1>0, <1>1 DEF Bound
<1> QED
  BY <1>2, <1>4, <1>5 DEF Knows, r

LEMMA JoinHand ==
  ASSUME NEW B, NEW w \in Wallets, NEW half \in B, half.owner = w,
         NEW m \in KnownMessages(B), ReadableProposal(m, w)
  PROVE  /\ Knows(B, w, JoinSession(w, m, half))
         /\ \A marks : (\A x \in marks : half \notin x.tx.halves) =>
              Bound(marks, w, JoinSession(w, m, half))
<1> DEFINE r == JoinSession(w, m, half)
<1>1. /\ r.sid = m.sid /\ r.me = w /\ r.mine = half.coins /\ r.stage = "Active"
      /\ r.psbt.halves = m.psbt.halves \cup {half} /\ r.outbox = << >>
  BY DEF JoinSession, JoinedPsbt, Proposed
<1> HIDE DEF r
<1>2. /\ OneEach(B, m.psbt.halves) /\ Names(m.sid, m.psbt.halves)
      /\ \A h \in m.psbt.halves : h.owner # w /\ h.owner = m.from
  BY DEF KnownMessages, ReadableProposal
<1>3. KnownSession(B, w, r)
  BY <1>1, <1>2 DEF KnownSession, OneEach, Names
<1>4. r.outbox \in Seq(KnownMessages(B))
  BY <1>1
<1>5. \A marks : (\A x \in marks : half \notin x.tx.halves) => Bound(marks, w, r)
  BY <1>1, <1>2 DEF Bound
<1> QED
  BY <1>3, <1>4, <1>5 DEF Knows, r

-----------------------------------------------------------------------------
(* The steps.                                                              *)

(* Before anything is built there is nothing to share.                     *)
LEMMA HandInit == Init => HandInv
<1> SUFFICES ASSUME Init PROVE HandInv
  OBVIOUS
<1>1. /\ Written = {} /\ shared = {} /\ signed = {}
      /\ \A p \in Processes : command[p] = {}
      /\ \A w \in Wallets : ~HasSession(w)
  BY DEF Init, Written, HasSession
<1> QED
  BY <1>1 DEF HandInv, HalvesKnown, SharedOnce, HandOf

(* A change address is reserved once, so that a new half is in no          *)
(* transaction yet.                                                        *)
LEMMA NewHalf ==
  ASSUME IInv, HandInv, NEW w \in Wallets, Reserve(w), NEW half \in NewHalves(w)
  PROVE  /\ Built \subseteq Built'
         /\ half \in Built' /\ half.owner = w
         /\ \A x \in shared : half \notin x.tx.halves
<1>1. made \in [Wallets -> Nat] /\ made' = [made EXCEPT ![w] = made[w] + 1]
  BY Rest DEF Reserve
<1>2. half \in Half /\ half.owner = w /\ half.no = made[w] /\ half.coins \in Picks[w]
  BY NewHalfType DEF NewHalves
<1>3. \A v \in Wallets : made[v] \in Nat /\ made'[v] \in Nat /\ made[v] <= made'[v]
  BY <1>1
<1>4. \A h \in Half : h.owner \in Wallets /\ h.no \in Nat
  BY DEF Half
<1>5. \A h \in Half : h.no < made[h.owner] => h.no < made'[h.owner]
  BY <1>3, <1>4
<1>6. Built \subseteq Built'
  BY <1>5 DEF Built
<1>7. half.no < made'[half.owner] /\ ~(half.no < made[half.owner])
  BY <1>1, <1>2
<1>8. half \in Built' /\ half \notin Built
  BY <1>2, <1>7 DEF Built
<1>9. \A x \in shared : x.tx.halves \subseteq Built
  BY DEF HandInv, HalvesKnown, OneEach
<1> QED
  BY <1>2, <1>6, <1>8, <1>9

(* A step of one wallet that shares nothing.                               *)
LEMMA HandKeeps ==
  ASSUME IInv, HandInv, NEW w \in Wallets,
         UNCHANGED <<shared, signed>>, overlapped \subseteq overlapped', Built \subseteq Built',
         Written' \subseteq KnownMessages(Built'),
         \A v \in Wallets : v # w => session'[v] = session[v],
         \A q \in Processes : Folder[q] # w => command'[q] = command[q],
         HasSession(w)' => Knows(Built', w, session'[w]),
         \A q \in Processes : Folder[q] = w => \A c \in command'[q] : Knows(Built', w, c.s),
         w \notin overlapped' => HandOf(w)'
  PROVE  HandInv'
<1>1. HalvesKnown /\ SharedOnce /\ \A v \in Wallets : v \notin overlapped => HandOf(v)
  BY DEF HandInv
<1>2. \A v \in Wallets : HasSession(v)' => Knows(Built', v, session'[v])
  <2> SUFFICES ASSUME NEW v \in Wallets, v # w, HasSession(v)'
               PROVE  Knows(Built', v, session'[v])
    OBVIOUS
  <2>1. session'[v] = session[v] /\ HasSession(v)
    BY DEF HasSession
  <2>2. Knows(Built, v, session[v])
    BY <1>1, <2>1 DEF HalvesKnown
  <2> QED
    BY <2>1, <2>2, KnowsMore
<1>3. \A q \in Processes : \A c \in command'[q] : Knows(Built', Folder[q], c.s)
  <2> SUFFICES ASSUME NEW q \in Processes, Folder[q] # w, NEW c \in command'[q]
               PROVE  Knows(Built', Folder[q], c.s)
    OBVIOUS
  <2>1. Knows(Built, Folder[q], c.s)
    BY <1>1 DEF HalvesKnown
  <2> QED
    BY <2>1, KnowsMore
<1>4. \A x \in shared' \cup signed' : OneEach(Built', x.tx.halves)
  <2>1. \A halves : OneEach(Built, halves) => OneEach(Built', halves)
    BY DEF OneEach
  <2>2. \A x \in shared \cup signed : OneEach(Built, x.tx.halves)
    BY <1>1 DEF HalvesKnown
  <2> QED
    BY <2>1, <2>2
<1>5. HalvesKnown'
  BY <1>2, <1>3, <1>4 DEF HalvesKnown
<1>6. SharedOnce'
  BY <1>1 DEF SharedOnce
<1>7. ASSUME NEW v \in Wallets, v # w, v \notin overlapped' PROVE HandOf(v)'
  <2>1. HandOf(v) /\ session'[v] = session[v] /\ (HasSession(v)' <=> HasSession(v))
    BY <1>1, <1>7 DEF HasSession
  <2>2. \A q \in Processes : Folder[q] = v => command'[q] = command[q]
    BY <1>7
  <2> QED
    BY <2>1, <2>2 DEF HandOf
<1> QED
  BY <1>5, <1>6, <1>7 DEF HandInv

(* When only p works on w's folder it is enough to look at p's command.    *)
LEMMA HandIs ==
  ASSUME NEW w \in Wallets, NEW p \in Processes,
         \A q \in Processes : Folder[q] = w /\ q # p => command'[q] = {},
         HasSession(w)' => Bound(shared', w, session'[w]),
         \A c \in command'[p] : Bound(shared', w, c.s) /\ Follows(session'[w], c.s)
  PROVE  HandOf(w)'
BY DEF HandOf

(* Whatever happens beside another command is in the history.              *)
LEMMA BesideIs ==
  ASSUME NEW w \in Wallets, Beside(w)
  PROVE  /\ overlapped \subseteq overlapped'
         /\ w \notin overlapped' =>
              \A q \in Processes : Folder[q] = w => command[q] = {}
BY DEF Beside, Busy

(* A command starts with a session that the session file there is does not *)
(* stand against.                                                          *)
LEMMA StartsHand ==
  ASSUME IInv, IInv', HandInv, NEW p \in Processes, NEW s, NEW next,
         Starts(p, s, next), UNCHANGED world, Built \subseteq Built',
         \/ session' = session
         \/ session' = [session EXCEPT ![Folder[p]] = NoSession],
         Knows(Built', Folder[p], s),
         Folder[p] \notin overlapped =>
            Bound(shared, Folder[p], s) /\ (session' = session => Follows(session[Folder[p]], s))
  PROVE  HandInv'
<1> DEFINE w == Folder[p]
<1>0. w \in Wallets
  BY FilesAssumption
<1>1. /\ Beside(w) /\ command' = [command EXCEPT ![p] = {[s |-> s, next |-> next]}]
      /\ UNCHANGED <<shared, signed>> /\ Written' = Written
  BY DEF Starts, Goes, world, Written
<1>2. /\ session \in [Wallets -> Session \cup {NoSession}]
      /\ command \in [Processes -> SUBSET Command]
  BY DEF IInv, CommandsTyped
<1>3. Written \subseteq KnownMessages(Built') /\ (HasSession(w) => Knows(Built', w, session[w]))
  BY <1>0, MoreHalves, KnowsMore DEF HandInv, HalvesKnown
<1>4. /\ \A v \in Wallets : v # w => session'[v] = session[v]
      /\ session'[w] = session[w] \/ session'[w] = NoSession
  BY <1>0, <1>2
<1>5. /\ \A q \in Processes : q # p => command'[q] = command[q]
      /\ command'[p] = {[s |-> s, next |-> next]}
  BY <1>1, <1>2
<1>6. HasSession(w)' => HasSession(w) /\ session'[w] = session[w]
  BY <1>4 DEF HasSession
<1>7. ASSUME NEW q \in Processes, Folder[q] = w, NEW c \in command'[q]
      PROVE  Knows(Built', w, c.s)
  <2>1. CASE q = p
    BY <1>5, <2>1
  <2>2. CASE q # p
    BY <1>5, <1>7, <2>2, KnowsMore DEF HandInv, HalvesKnown
  <2> QED
    BY <2>1, <2>2
<1>8. w \notin overlapped' => HandOf(w)'
  <2> SUFFICES ASSUME w \notin overlapped' PROVE HandOf(w)'
    OBVIOUS
  <2>1. w \notin overlapped /\ \A q \in Processes : Folder[q] = w => command[q] = {}
    BY <1>0, <1>1, BesideIs
  <2>2. HandOf(w) /\ Bound(shared, w, s) /\ (session' = session => Follows(session[w], s))
    BY <1>0, <2>1 DEF HandInv
  <2>3. HasSession(w)' => Bound(shared', w, session'[w])
    BY <1>1, <1>6, <2>2 DEF HandOf
  <2>4. Follows(session'[w], s)
    <3>1. CASE session' = session
      BY <2>2, <3>1 DEF Follows
    <3>2. CASE session' = [session EXCEPT ![w] = NoSession]
      BY <1>0, <1>2, <3>2 DEF Follows
    <3> QED
      BY <3>1, <3>2
  <2>5. \A c \in command'[p] : Bound(shared', w, c.s) /\ Follows(session'[w], c.s)
    BY <1>1, <1>5, <2>2, <2>4 DEF Follows
  <2> HIDE DEF w
  <2> QED
    BY <1>0, <1>5, <2>1, <2>3, <2>5, HandIs
<1>9. overlapped \subseteq overlapped'
  BY <1>0, <1>1, BesideIs
<1>10. \A q \in Processes : Folder[q] # w => command'[q] = command[q]
  BY <1>5
<1>11. HasSession(w)' => Knows(Built', w, session'[w])
  BY <1>3, <1>6
<1> HIDE DEF w
<1> QED
  BY <1>0, <1>1, <1>3, <1>4, <1>7, <1>8, <1>9, <1>10, <1>11, HandKeeps

(* propose and accept, with a new half.                                    *)
LEMMA NewSessionHand ==
  ASSUME IInv, IInv', HandInv, NEW p \in Processes,
         (\E d \in Deals : Propose(p, d)) \/ (\E m \in Written : Accept(p, m))
  PROVE  HandInv'
<1> DEFINE w == Folder[p]
<1>0. w \in Wallets
  BY FilesAssumption
<1>1. Retire(w) /\ Reserve(w) /\ UNCHANGED world
  BY DEF Propose, Accept
<1>2. session' = [session EXCEPT ![w] = NoSession] /\ ~HasSession(w)'
  <2>1. session' = [session EXCEPT ![w] = NoSession]
    BY <1>0, <1>1, RetireKeeps
  <2> QED
    BY <1>0, <2>1 DEF HasSession, IInv, CommandsTyped
<1>3. \A s : session' = session => Follows(session[w], s)
  BY <1>0, <1>2 DEF Follows, HasSession
<1>4. PICK half, s :
        /\ half \in NewHalves(w)
        /\ \E next : Starts(p, s, next)
        /\ \/ \E d \in Deals : s = StartSession(w, half, d)
           \/ \E m \in Written : ReadableProposal(m, w) /\ s = JoinSession(w, m, half)
  BY DEF Propose, Accept
<1>5. /\ Built \subseteq Built' /\ half \in Built' /\ half.owner = w
      /\ \A x \in shared : half \notin x.tx.halves
  BY <1>0, <1>1, <1>4, NewHalf
<1>6. s \in Session
  <2>1. PICK next : command' = [command EXCEPT ![p] = {[s |-> s, next |-> next]}]
    BY <1>4 DEF Starts, Goes
  <2>2. command' \in [Processes -> SUBSET Command] /\ command \in [Processes -> SUBSET Command]
    BY DEF IInv, CommandsTyped
  <2>3. [s |-> s, next |-> next] \in Command
    BY <2>1, <2>2
  <2> QED
    BY <2>3 DEF Command
<1>7. Knows(Built', w, s) /\ Bound(shared, w, s)
  <2>1. CASE \E d \in Deals : s = StartSession(w, half, d)
    BY <1>0, <1>5, <1>6, <2>1, StartHand
  <2>2. CASE \E m \in Written : ReadableProposal(m, w) /\ s = JoinSession(w, m, half)
    <3>1. PICK m \in Written : ReadableProposal(m, w) /\ s = JoinSession(w, m, half)
      BY <2>2
    <3>2. m \in KnownMessages(Built')
      BY <1>5, MoreHalves DEF HandInv, HalvesKnown
    <3> QED
      BY <1>0, <1>5, <3>1, <3>2, JoinHand
  <2> QED
    BY <1>4, <2>1, <2>2
<1>8. PICK next : Starts(p, s, next)
  BY <1>4
<1> QED
  BY <1>1, <1>2, <1>3, <1>5, <1>7, <1>8, StartsHand DEF w

(* The commands that go on with the session there is.                      *)
LEMMA OldSessionHand ==
  ASSUME IInv, IInv', HandInv, NEW p \in Processes,
         \/ \E d \in Deals : ProposeAgain(p, d)
         \/ \E a \in answers : AnswerWith(p, a)
         \/ \E file \in files : Receive(p, file)
         \/ Broadcast(p)
  PROVE  HandInv'
<1> DEFINE w == Folder[p]
           old == session[w]
           Onward == {t \in Good(shared, signed, chain, Written) :
                        /\ Knows(Built, w, t)
                        /\ Bound(shared, w, old) => Bound(shared, w, t)
                        /\ old.stage # "Proposed" => /\ t.stage # "Proposed"
                                                     /\ TxOf(t.psbt) = TxOf(old.psbt)}
<1>0. w \in Wallets
  BY FilesAssumption
<1>1. HasSession(w) /\ UNCHANGED <<disk, world>>
  BY DEF ProposeAgain, AnswerWith, Receive, Broadcast, Active
<1>2. old \in Good(shared, signed, chain, Written) /\ old \in Session /\ Knows(Built, w, old)
  BY <1>0, <1>1, SessionGood, GoodParts DEF HandInv, HalvesKnown
<1>3. old \in Onward
  BY <1>2
<1>4. PICK s \in Onward : \E next : Starts(p, s, next)
  <2>1. CASE (\E d \in Deals : ProposeAgain(p, d)) \/ Broadcast(p)
    <3>1. \E next : Starts(p, old, next)
      BY <2>1 DEF ProposeAgain, Broadcast
    <3> QED
      BY <1>3, <3>1
  <2>2. CASE \E a \in answers : AnswerWith(p, a)
    <3>1. PICK a \in answers : AnswerWith(p, a)
      BY <2>2
    <3>2. RespondAccepts(old, a) /\ Starts(p, Responded(old, a), "write")
      BY <3>1 DEF AnswerWith
    <3>3. a \in Given(shared, signed) /\ a \in Psbt
      BY DEF IInv, Given
    <3>4. Responded(old, a) \in Good(shared, signed, chain, Written)
      BY <1>2, <3>2, <3>3, RespondedGood
    <3>5. Responded(old, a) \in Session
      BY <3>4, GoodParts
    <3> HIDE DEF old, w
    <3>6. Responded(old, a) \in Onward
      BY <1>2, <3>2, <3>3, <3>4, <3>5, RespondedHand
    <3> QED
      BY <3>2, <3>6
  <2>3. CASE \E file \in files : Receive(p, file)
    <3>1. PICK file \in files : Receive(p, file)
      BY <2>3
    <3> DEFINE s == Steps(old, file)[Len(file)]
    <3>2. AfterReceive(p, s)
      BY <3>1 DEF Receive
    <3>3. file \in Seq(Message) /\ file \in Seq(SoundMessage(shared, signed, chain))
      BY Rest
    <3>4. \A n \in DOMAIN file : /\ file[n] \in Written
                                 /\ file[n] \in SoundMessage(shared, signed, chain)
                                 /\ file[n] \in KnownMessages(Built)
      BY <3>3 DEF Written, ToSet, HandInv, HalvesKnown
    <3>5. ASSUME NEW t \in Onward, NEW n \in DOMAIN file PROVE Received(t, file[n]) \in Onward
      <4>1. t \in Session /\ t \in Good(shared, signed, chain, Written)
        BY GoodParts
      <4>2. Received(t, file[n]) \in Good(shared, signed, chain, Written)
        BY <3>4, <4>1, ReceivedGood
      <4> HIDE DEF old, w
      <4> QED
        BY <3>4, <4>1, <4>2, ReceivedHand
    <3> HIDE DEF Onward, old
    <3>6. s \in Onward
      BY <1>3, <3>3, <3>5, StepsIn
    <3> HIDE DEF s
    <3>7. \E next : Starts(p, s, next)
      BY <3>2 DEF AfterReceive
    <3> QED
      BY <3>6, <3>7
  <2> HIDE DEF Onward
  <2> QED
    BY <2>1, <2>2, <2>3
<1>5. Built' = Built
  BY <1>1 DEF disk, Built
<1>6. w \notin overlapped => Bound(shared, w, old)
  BY <1>0, <1>1 DEF HandInv, HandOf
<1>7. w \notin overlapped => Bound(shared, w, s) /\ Follows(session[w], s)
  BY <1>6 DEF Follows
<1>8. Knows(Built', w, s) /\ session' = session /\ UNCHANGED world
  BY <1>1, <1>5 DEF disk
<1>9. PICK next : Starts(p, s, next)
  BY <1>4
<1> HIDE DEF Onward
<1> QED
  BY <1>4, <1>5, <1>7, <1>8, <1>9, StartsHand DEF w

(* A session dropped with no command beside it.                            *)
LEMMA DroppingHand ==
  ASSUME IInv, HandInv,
         \/ \E p \in Processes : \E m \in Written : AcceptRefused(p, m)
         \/ \E w \in Wallets : GiveUp(w)
  PROVE  HandInv'
<1>1. PICK w \in Wallets : /\ session' = [session EXCEPT ![w] = NoSession]
                           /\ Beside(w)
                           /\ UNCHANGED <<made, command, world>>
  BY FilesAssumption DEF AcceptRefused, GiveUp, Retire, SetSession
<1>2. /\ session \in [Wallets -> Session \cup {NoSession}]
      /\ command \in [Processes -> SUBSET Command]
  BY DEF IInv, CommandsTyped
<1>3. /\ \A v \in Wallets : v # w => session'[v] = session[v]
      /\ ~HasSession(w)'
  BY <1>1, <1>2 DEF HasSession
<1>4. UNCHANGED <<shared, signed>> /\ Written' = Written /\ Built' = Built
  BY <1>1 DEF world, Written, Built
<1>5. HalvesKnown
  BY DEF HandInv
<1>6. \A q \in Processes : Folder[q] = w => \A c \in command'[q] : Knows(Built', w, c.s)
  BY <1>1, <1>4, <1>5 DEF HalvesKnown
<1>7. w \notin overlapped' => HandOf(w)'
  <2> SUFFICES ASSUME w \notin overlapped' PROVE HandOf(w)'
    OBVIOUS
  <2>1. \A q \in Processes : Folder[q] = w => command'[q] = {}
    BY <1>1, BesideIs
  <2> QED
    BY <1>3, <2>1 DEF HandOf
<1>8. overlapped \subseteq overlapped' /\ Written' \subseteq KnownMessages(Built')
  BY <1>1, <1>4, <1>5, BesideIs DEF HalvesKnown
<1> QED
  BY <1>1, <1>3, <1>4, <1>6, <1>7, <1>8, HandKeeps

(* The memory of p becomes cs.                                             *)
Turns(p, cs) ==
  /\ command'[p] = cs
  /\ \A q \in Processes : q # p => command'[q] = command[q]

LEMMA TurnsIs ==
  ASSUME IInv, NEW p \in Processes
  PROVE  \A cs : command' = [command EXCEPT ![p] = cs] => Turns(p, cs)
<1>1. command \in [Processes -> SUBSET Command]
  BY DEF IInv, CommandsTyped
<1> QED
  BY <1>1 DEF Turns

(* A running command goes on with what its session says, and may put it    *)
(* into the session file.                                                  *)
LEMMA GoesHand ==
  ASSUME IInv, IInv', HandInv, NEW p \in Processes, NEW c \in command[p], NEW cs,
         UNCHANGED <<shared, signed, made, overlapped>>,
         Written' \subseteq KnownMessages(Built),
         session' = session \/ SetSession(Folder[p], c.s),
         Turns(p, cs),
         \A d \in cs :
            /\ Knows(Built, Folder[p], d.s)
            /\ Folder[p] \notin overlapped =>
                 Bound(shared, Folder[p], d.s) /\ Follows(session'[Folder[p]], d.s)
  PROVE  HandInv'
<1> DEFINE w == Folder[p]
<1>0. w \in Wallets
  BY FilesAssumption
<1>1. /\ session \in [Wallets -> Session \cup {NoSession}]
      /\ command \in [Processes -> SUBSET Command]
  BY DEF IInv, CommandsTyped
<1>2. /\ \A v \in Wallets : v # w => session'[v] = session[v]
      /\ session'[w] = session[w] \/ session'[w] = c.s
  BY <1>0, <1>1 DEF SetSession
<1>3. /\ \A q \in Processes : q # p => command'[q] = command[q]
      /\ command'[p] = cs
  BY DEF Turns
<1>4. Built' = Built
  BY DEF Built
<1>5. HalvesKnown
  BY DEF HandInv
<1>6. HasSession(w)' => Knows(Built', w, session'[w])
  BY <1>0, <1>2, <1>4, <1>5 DEF HalvesKnown, HasSession
<1>7. \A q \in Processes : Folder[q] = w => \A d \in command'[q] : Knows(Built', w, d.s)
  BY <1>3, <1>4, <1>5 DEF HalvesKnown
<1>8. w \notin overlapped' => HandOf(w)'
  <2> SUFFICES ASSUME w \notin overlapped PROVE HandOf(w)'
    OBVIOUS
  <2>1. HandOf(w)
    BY <1>0 DEF HandInv
  <2>2. \A q \in Processes : Folder[q] = w /\ q # p => command'[q] = {}
    BY <1>3, <2>1 DEF HandOf
  <2>3. HasSession(w)' => Bound(shared', w, session'[w])
    BY <1>2, <2>1 DEF HandOf, HasSession
  <2>4. \A d \in command'[p] : Bound(shared', w, d.s) /\ Follows(session'[w], d.s)
    BY <1>3 DEF Follows, HasSession
  <2> HIDE DEF w
  <2> QED
    BY <1>0, <2>2, <2>3, <2>4, HandIs
<1>9. \A q \in Processes : Folder[q] # w => command'[q] = command[q]
  BY <1>3
<1> HIDE DEF w
<1> QED
  BY <1>0, <1>2, <1>4, <1>6, <1>7, <1>8, <1>9, HandKeeps

(* What HandInv says of a running command.                                 *)
LEMMA CommandHand ==
  ASSUME IInv, HandInv, NEW p \in Processes, NEW c \in command[p]
  PROVE  /\ c.s \in Good(shared, signed, chain, Written) /\ c.s \in Session
         /\ Knows(Built, Folder[p], c.s)
         /\ Folder[p] \notin overlapped =>
              Bound(shared, Folder[p], c.s) /\ Follows(session[Folder[p]], c.s)
<1>1. c.s \in Good(shared, signed, chain, Written)
  BY DEF IInv, GoodCommand
<1>2. c.s \in Session
  BY <1>1, GoodParts
<1>3. Folder[p] \in Wallets
  BY FilesAssumption
<1> QED
  BY <1>1, <1>2, <1>3 DEF HandInv, HalvesKnown, HandOf

(* Saving, loading and ending.                                             *)
LEMMA RunningHand ==
  ASSUME IInv, IInv', HandInv, NEW p \in Processes,
         SaveBegun(p) \/ Reload(p) \/ Save(p) \/ Stop(p)
  PROVE  HandInv'
<1> DEFINE w == Folder[p]
<1>0. w \in Wallets
  BY FilesAssumption
<1>1. UNCHANGED <<shared, signed, made, overlapped, files>>
  BY DEF SaveBegun, Reload, Save, Stop, disk, world, history
<1>2. Written' \subseteq KnownMessages(Built)
  BY <1>1 DEF HandInv, HalvesKnown, Written
<1>3. session \in [Wallets -> Session \cup {NoSession}]
  BY DEF IInv, CommandsTyped
<1>4. CASE SaveBegun(p)
  <2>1. PICK c \in command[p] :
          /\ SetSession(w, c.s)
          /\ Turns(p, {[s |-> c.s, next |-> "again"]})
    BY <1>4, TurnsIs DEF SaveBegun, Goes
  <2>2. Follows(session'[w], c.s)
    BY <1>0, <1>3, <2>1 DEF Follows, SetSession
  <2>3. \A d \in {[s |-> c.s, next |-> "again"]} :
          /\ Knows(Built, w, d.s)
          /\ w \notin overlapped => Bound(shared, w, d.s) /\ Follows(session'[w], d.s)
    BY <2>2, CommandHand
  <2> QED
    BY <1>1, <1>2, <2>1, <2>3, GoesHand
<1>5. CASE Reload(p)
  <2>1. PICK c \in command[p] : TRUE
    BY <1>5 DEF Reload
  <2>2. session' = session
    BY <1>5 DEF Reload, disk
  <2>3. CASE HasSession(w) /\ Offers(session[w])
    <3> DEFINE s == session[w]
    <3>1. Turns(p, {[s |-> Offered(s), next |-> "write"]})
      BY <1>5, <2>3, TurnsIs DEF Reload, Goes
    <3>2. /\ s \in Good(shared, signed, chain, Written) /\ s \in Session
          /\ Knows(Built, w, s) /\ (w \notin overlapped => Bound(shared, w, s))
      BY <1>0, <2>3, SessionGood, GoodParts DEF HandInv, HalvesKnown, HandOf
    <3>3. Offered(s) \in Session
      BY <2>3, <3>2, OfferedGood, GoodParts
    <3>4. /\ Knows(Built, w, Offered(s))
          /\ w \notin overlapped => Bound(shared, w, Offered(s))
          /\ Offered(s).stage = s.stage /\ Offered(s).psbt = s.psbt
      <4>1. CASE s.outbox # << >>
        BY <3>2, <4>1 DEF Offered
      <4>2. CASE s.outbox = << >>
        <5> DEFINE out == <<ProposalMessage(s)>>
        <5>1. Offered(s) = [s EXCEPT !.outbox = out] /\ s.stage = "Proposed"
          BY <2>3, <4>2 DEF Offered, Offers
        <5> HIDE DEF s
        <5> QED
          BY <3>2, <3>3, <5>1, OutboxHand
      <4> QED
        BY <4>1, <4>2
    <3>5. Follows(session'[w], Offered(s))
      BY <2>2, <3>4 DEF Follows, HasSession
    <3>6. \A d \in {[s |-> Offered(s), next |-> "write"]} :
            /\ Knows(Built, w, d.s)
            /\ w \notin overlapped => Bound(shared, w, d.s) /\ Follows(session'[w], d.s)
      BY <3>4, <3>5
    <3> HIDE DEF s
    <3> QED
      BY <1>1, <1>2, <2>1, <2>2, <3>1, <3>6, GoesHand
  <2>4. CASE ~(HasSession(w) /\ Offers(session[w]))
    <3>1. Turns(p, {})
      BY <1>5, <2>4, TurnsIs DEF Reload, Ends
    <3> QED
      BY <1>1, <1>2, <2>1, <2>2, <3>1, GoesHand
  <2> QED
    BY <2>3, <2>4
<1>6. CASE Save(p)
  <2>1. PICK c \in command[p] :
          /\ SetSession(w, c.s)
          /\ Turns(p, {})
    BY <1>6, TurnsIs DEF Save, Ends
  <2> QED
    BY <1>1, <1>2, <2>1, GoesHand
<1>7. CASE Stop(p)
  <2>1. PICK c \in command[p] : TRUE
    BY <1>7 DEF Stop
  <2>2. Turns(p, {}) /\ session' = session
    BY <1>7, TurnsIs DEF Stop, Ends, disk
  <2> QED
    BY <1>1, <1>2, <2>1, <2>2, GoesHand
<1> QED
  BY <1>4, <1>5, <1>6, <1>7

(* A file written and a transaction sent: the session stays what it was.   *)
LEMMA OutHand ==
  ASSUME IInv, IInv', HandInv, NEW p \in Processes, WriteOut(p) \/ Push(p)
  PROVE  HandInv'
<1> DEFINE w == Folder[p]
<1>0. w \in Wallets
  BY FilesAssumption
<1>1. UNCHANGED <<session, shared, signed, made, overlapped>>
  BY DEF WriteOut, Push, disk, history
<1>2. CASE WriteOut(p)
  <2>1. PICK c \in command[p] :
          /\ files' = files \cup {c.s.outbox}
          /\ Turns(p, {[s |-> [c.s EXCEPT !.outbox = << >>], next |-> "save"]})
    BY <1>2, TurnsIs DEF WriteOut, Goes
  <2> DEFINE s == [c.s EXCEPT !.outbox = << >>]
  <2>2. /\ c.s \in Session /\ Knows(Built, w, c.s)
        /\ w \notin overlapped => Bound(shared, w, c.s) /\ Follows(session[w], c.s)
    BY CommandHand
  <2>3. ToSet(c.s.outbox) \subseteq KnownMessages(Built)
    BY <2>2 DEF Knows, ToSet
  <2>4. Written' \subseteq KnownMessages(Built)
    BY <2>1, <2>3 DEF HandInv, HalvesKnown, Written
  <2>5. s \in Session
    BY <2>2, NoMessages DEF Session
  <2>6. /\ Knows(Built, w, s) /\ (Bound(shared, w, c.s) => Bound(shared, w, s))
        /\ s.stage = c.s.stage /\ s.psbt = c.s.psbt
    BY <2>2, <2>5, OutboxHand
  <2>7. w \notin overlapped => Bound(shared, w, s) /\ Follows(session'[w], s)
    BY <1>1, <2>2, <2>6 DEF Follows, HasSession
  <2> HIDE DEF s
  <2>8. \A d \in {[s |-> s, next |-> "save"]} :
          /\ Knows(Built, w, d.s)
          /\ w \notin overlapped => Bound(shared, w, d.s) /\ Follows(session'[w], d.s)
    BY <2>6, <2>7
  <2> QED
    BY <1>1, <2>1, <2>4, <2>8, GoesHand DEF s
<1>3. CASE Push(p)
  <2>1. PICK c \in command[p] :
          \/ Turns(p, {[s |-> Finished(c.s), next |-> "write"]})
          \/ Turns(p, {})
    BY <1>3, TurnsIs DEF Push, Goes, Ends
  <2>2. files' = files
    BY <1>3 DEF Push
  <2>3. Written' \subseteq KnownMessages(Built)
    BY <2>2 DEF HandInv, HalvesKnown, Written
  <2>4. CASE Turns(p, {})
    BY <1>1, <2>3, <2>4, GoesHand
  <2>5. CASE Turns(p, {[s |-> Finished(c.s), next |-> "write"]})
    <3> DEFINE s == Finished(c.s)
    <3>1. /\ c.s \in Session /\ Knows(Built, w, c.s)
          /\ w \notin overlapped => Bound(shared, w, c.s) /\ Follows(session[w], c.s)
      BY CommandHand
    <3>2. s \in Session
      <4>1. command' \in [Processes -> SUBSET Command] /\ command \in [Processes -> SUBSET Command]
        BY DEF IInv, CommandsTyped
      <4>2. [s |-> s, next |-> "write"] \in Command
        BY <2>5, <4>1 DEF Turns
      <4> QED
        BY <4>2 DEF Command
    <3>3. /\ Knows(Built, w, s) /\ (Bound(shared, w, c.s) => Bound(shared, w, s))
          /\ s.stage # "Proposed" /\ s.psbt = c.s.psbt
      BY <3>1, <3>2, FinishedHand
    <3> HIDE DEF s
    <3>4. w \notin overlapped => Bound(shared, w, s) /\ Follows(session'[w], s)
      BY <1>1, <3>1, <3>3 DEF Follows, HasSession
    <3>5. \A d \in {[s |-> s, next |-> "write"]} :
            /\ Knows(Built, w, d.s)
            /\ w \notin overlapped => Bound(shared, w, d.s) /\ Follows(session'[w], d.s)
      BY <3>3, <3>4
    <3> QED
      BY <1>1, <2>3, <2>5, <3>5, GoesHand DEF s
  <2> QED
    BY <2>1, <2>4, <2>5
<1> QED
  BY <1>2, <1>3

(* A visit shares coins of the wallet's own half, in the transaction its   *)
(* session and any command of it are in.                                   *)
LEMMA RequestHand ==
  ASSUME IInv, HandInv, NEW w \in Wallets, Request(w)
  PROVE  HandInv'
<1> DEFINE s == session[w]
           t == TxOf(s.psbt)
           new == Marks(WholeAnswer(s).shares, t)
           sgn == Marks(WholeAnswer(s).sigs, t)
<1>1. /\ HasSession(w) /\ s.stage = "Active"
      /\ shared' = shared \cup new
      /\ signed' = signed \cup sgn
      /\ UNCHANGED <<session, made, command, files, overlapped>>
  BY DEF Request, Active, MyTurn, disk, history
<1>2. /\ s \in Session /\ Knows(Built, w, s) /\ s.psbt \in Psbt
  BY <1>1, SessionGood, GoodParts DEF HandInv, HalvesKnown
<1>3. Built' = Built /\ Written' = Written
  BY <1>1 DEF Built, Written
<1>4. \A x \in new : x.tx = t /\ x.coin \in s.mine
  BY <1>2 DEF WholeAnswer, Answer, Marks, Psbt
<1>5. PICK own \in s.psbt.halves : own.owner = w /\ own.coins = s.mine
  BY <1>2 DEF Knows, KnownSession
<1>6. OneEach(Built, s.psbt.halves) /\ t.halves = s.psbt.halves
  BY <1>2 DEF Knows, KnownSession, TxOf
(* A coin of w's half is in no other wallet's.                             *)
<1>7. ASSUME NEW x \in new, NEW h \in Built, x.coin \in h.coins PROVE h.owner = w
  <2>1. own.coins \in Picks[w] /\ h.coins \in Picks[h.owner] /\ h.owner \in Wallets
    BY <1>5, <1>6 DEF Built, Half, OneEach
  <2>2. x.coin \in own.coins /\ x.coin \in h.coins
    BY <1>4, <1>5, <1>7
  <2>3. h.owner # w => own.coins \cap h.coins = {}
    BY <2>1, FilesAssumption
  <2> QED
    BY <2>2, <2>3
<1>8. HalvesKnown /\ SharedOnce /\ \A v \in Wallets : v \notin overlapped => HandOf(v)
  BY DEF HandInv
<1> HIDE DEF new, t, s
<1>9. \A x \in new \cup sgn : x.tx.halves = s.psbt.halves
  BY <1>4, <1>6 DEF Marks
<1>10. HalvesKnown'
  <2>1. \A x \in shared' \cup signed' : OneEach(Built', x.tx.halves)
    BY <1>1, <1>3, <1>6, <1>8, <1>9 DEF HalvesKnown
  <2> QED
    BY <1>1, <1>3, <1>8, <2>1 DEF HalvesKnown, HasSession
(* w's session and commands are in the transaction already.                *)
<1>11. ASSUME NEW v \in Wallets, NEW u, Knows(Built, v, u), Bound(shared, v, u),
              v = w => u.stage # "Proposed" /\ TxOf(u.psbt) = t
       PROVE  Bound(shared', v, u)
  <2> SUFFICES ASSUME NEW x \in new, NEW h \in x.tx.halves \cap u.psbt.halves,
                      h.owner = v, x.coin \in h.coins
               PROVE  u.stage # "Proposed" /\ x.tx = TxOf(u.psbt)
    BY <1>1, <1>11 DEF Bound
  <2>1. h \in Built
    BY <1>11 DEF Knows, KnownSession, OneEach
  <2> QED
    BY <1>4, <1>7, <1>11, <2>1
<1>12. ASSUME NEW v \in Wallets, v \notin overlapped PROVE HandOf(v)'
  <2>1. HandOf(v)
    BY <1>8, <1>12
  <2>2. ASSUME HasSession(v) PROVE Bound(shared', v, session[v])
    <3>1. Knows(Built, v, session[v]) /\ Bound(shared, v, session[v])
      BY <1>8, <2>1, <2>2 DEF HalvesKnown, HandOf
    <3>2. v = w => session[v].stage # "Proposed" /\ TxOf(session[v].psbt) = t
      BY <1>1 DEF s, t
    <3> QED
      BY <1>11, <3>1, <3>2
  <2>3. ASSUME NEW p \in Processes, Folder[p] = v, NEW c \in command[p]
        PROVE  Bound(shared', v, c.s) /\ Follows(session[v], c.s)
    <3>1. /\ Knows(Built, v, c.s) /\ Bound(shared, v, c.s) /\ Follows(session[v], c.s)
      BY <1>8, <2>1, <2>3 DEF HalvesKnown, HandOf
    <3>2. v = w => c.s.stage # "Proposed" /\ TxOf(c.s.psbt) = t
      BY <1>1, <3>1 DEF Follows, HasSession, s, t
    <3> QED
      BY <1>11, <3>1, <3>2
  <2> QED
    BY <1>1, <2>1, <2>2, <2>3 DEF HandOf, HasSession
(* What is new agrees with what was shared of the half before.             *)
<1>13. ASSUME NEW x \in new, NEW y \in shared, NEW h \in x.tx.halves \cap y.tx.halves,
              h.owner \notin overlapped, x.coin \in h.coins, y.coin \in h.coins
       PROVE  x.tx = y.tx
  <2>1. h \in Built /\ h \in s.psbt.halves
    BY <1>6, <1>9 DEF OneEach
  <2>2. h.owner = w
    BY <1>7, <1>13, <2>1
  <2>3. Bound(shared, w, s)
    BY <1>1, <1>8, <1>13, <2>2 DEF HandOf, s
  <2> QED
    BY <1>4, <1>13, <2>1, <2>2, <2>3 DEF Bound, t
<1>14. SharedOnce'
  <2> SUFFICES ASSUME NEW x \in shared', NEW y \in shared', NEW h \in x.tx.halves \cap y.tx.halves,
                      h.owner \notin overlapped, x.coin \in h.coins, y.coin \in h.coins
               PROVE  x.tx = y.tx
    BY <1>1 DEF SharedOnce
  <2>1. CASE x \in shared /\ y \in shared
    BY <1>8, <2>1 DEF SharedOnce
  <2>2. CASE x \in new /\ y \in new
    BY <1>4, <2>2
  <2>3. CASE x \in new /\ y \in shared
    BY <1>13, <2>3
  <2>4. CASE x \in shared /\ y \in new
    BY <1>13, <2>4
  <2> QED
    BY <1>1, <2>1, <2>2, <2>3, <2>4
<1> QED
  BY <1>1, <1>10, <1>12, <1>14 DEF HandInv

(* Every step keeps the invariant.                                         *)
LEMMA HandNext == IInv /\ IInv' /\ HandInv /\ [Next]_vars => HandInv'
<1> SUFFICES ASSUME IInv, IInv', HandInv, [Next]_vars PROVE HandInv'
  OBVIOUS
<1>1. CASE \E p \in Processes : Begin(p) \/ Continue(p)
  <2>1. PICK p \in Processes : Begin(p) \/ Continue(p)
    BY <1>1
  <2> QED
    BY <2>1, NewSessionHand, OldSessionHand, DroppingHand, RunningHand, OutHand
       DEF Begin, Continue
<1>2. CASE \E w \in Wallets : Request(w) \/ GiveUp(w)
  BY <1>2, RequestHand, DroppingHand
<1>3. CASE UNCHANGED vars
  BY <1>3 DEF vars, disk, world, history, HandInv, HalvesKnown, SharedOnce, HandOf,
              HasSession, Written, Built
<1> QED
  BY <1>1, <1>2, <1>3 DEF Next

(* Every share was given before a signature, so that signatures of one     *)
(* half in two transactions would be shares of it in two.                  *)
LEMMA SharedThenSigned == IInv /\ HandInv => SignedOnce
<1> SUFFICES ASSUME IInv, HandInv, NEW x \in signed, NEW y \in signed,
                    NEW h \in x.tx.halves \cap y.tx.halves, h.owner \notin overlapped
             PROVE  x.tx = y.tx
  BY DEF SignedOnce
<1>1. h \in Built
  BY DEF HandInv, HalvesKnown, OneEach
<1>2. PICK coin \in h.coins : TRUE
  <2>1. h.owner \in Wallets /\ h.coins \in Picks[h.owner]
    BY <1>1 DEF Built, Half
  <2>2. {} \notin Picks[h.owner]
    BY <2>1, FilesAssumption
  <2>3. h.coins # {}
    BY <2>1, <2>2
  <2> QED
    BY <2>3
<1>3. ASSUME NEW t, h \in t.halves, Marks(InputsOf(t), t) \subseteq shared
      PROVE  [coin |-> coin, tx |-> t] \in shared
  BY <1>3 DEF Marks, InputsOf
<1>4. [coin |-> coin, tx |-> x.tx] \in shared /\ [coin |-> coin, tx |-> y.tx] \in shared
  BY <1>3 DEF IInv, PaidWhenSigned
<1>5. \A z, u \in shared : \A k \in z.tx.halves \cap u.tx.halves :
        k.owner \notin overlapped /\ z.coin \in k.coins /\ u.coin \in k.coins => z.tx = u.tx
  BY DEF HandInv, SharedOnce
<1>6. [coin |-> coin, tx |-> x.tx].tx = [coin |-> coin, tx |-> y.tx].tx
  BY <1>4, <1>5
<1> QED
  BY <1>6

(* Whichever files reach whichever wallet, how often and in whatever       *)
(* order, whichever answers are used late and whichever commands are       *)
(* stopped: a half is signed into one transaction only, unless two         *)
(* commands changed its wallet's session file at the same time.            *)
THEOREM HandSignedOnce == Spec => []SignedOnce
<1>1. HandInv /\ IInv /\ IInv' /\ [Next]_vars => HandInv'
  BY HandNext
<1> QED
  BY <1>1, HandInit, SharedThenSigned, FilesStayGood, PTL DEF Spec
=============================================================================
