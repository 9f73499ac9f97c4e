------------------------- MODULE SharedPaymentProofs -------------------------
(***************************************************************************)
(* Proofs that SharedSend implements SharedPayment, that a half is signed  *)
(* into one transaction at most, that two wallets record one outcome of a  *)
(* send, that a step takes nothing back, that a send that ended is not     *)
(* joined again, that the signers are visited in turns, and that two       *)
(* wallets never wait for each other, for any number of wallets.           *)
(*                                                                         *)
(* Soundness says what one PSBT may hold.  What is needed here relates the *)
(* PSBTs to each other: every half anywhere was built by its owner's BDK   *)
(* wallet, once, and the owner's session decides into which transaction    *)
(* its signer gives shares.  The argument has two layers: what a step does *)
(* to session files and messages, whichever action it is, and from that    *)
(* what every step preserves.                                              *)
(***************************************************************************)
EXTENDS SharedSendProofs, FiniteSetTheorems

-----------------------------------------------------------------------------
(* What a step does to a session file.                                     *)

Still == UNCHANGED <<session, made, shared, signed>>

Reserves(w) == made' = [made EXCEPT ![w] = @ + 1]

(* shared start: a new half in a new session.                              *)
Started(w) ==
  \E d \in Deals : \E coins \in Fundable(w, d) :
    /\ ~Unfinished(w)
    /\ Retire(w)
    /\ session' = [session EXCEPT ![w] = StartSession(w, NewHalf(w, coins), d)]
    /\ Reserves(w)
    /\ UNCHANGED <<shared, signed>>

(* shared join: a new half in the session of a proposal.                   *)
Joined(w) ==
  \E i \in DOMAIN inbox[w] : \E coins \in Fundable(w, inbox[w][i].psbt.deal) :
    /\ ~HasSession(w)
    /\ Acceptable(w, inbox[w][i])
    /\ JoinAccepts(inbox[w][i].psbt, NewHalf(w, coins))
    /\ session' = [session EXCEPT ![w] = JoinSession(w, inbox[w][i], NewHalf(w, coins))]
    /\ Reserves(w)
    /\ UNCHANGED <<shared, signed>>

(* The session is retired, given up, or none was joined.                   *)
Left(w) ==
  /\ \/ GiveUp(w) \/ ~HasSession(w)
     \/ ~Unfinished(w) /\ Retire(w)
  /\ session' = [session EXCEPT ![w] = NoSession]
  /\ made' \in {made, [made EXCEPT ![w] = @ + 1]}
  /\ UNCHANGED <<shared, signed>>

(* The session goes on: a message is received, the outbox is cleared, the  *)
(* transaction was broadcast, ...                                          *)
Becomes(w, s) ==
  /\ HasSession(w)
  /\ session' = [session EXCEPT ![w] = s]
  /\ UNCHANGED made

Heard(w) ==
  /\ session[w].outbox = << >>
  /\ \E i \in DOMAIN inbox[w] :
       /\ i = 1
       /\ Becomes(w, Received(session[w], inbox[w][i]))
       /\ inbox'[w] = RemoveAt(inbox[w], i)
  /\ run'[w].hand = run[w].hand /\ channel'[w] = channel[w]
  /\ UNCHANGED <<shared, signed>>

Cleared(w) ==
  /\ Becomes(w, [session[w] EXCEPT !.outbox = << >>])
  /\ UNCHANGED <<shared, signed>>

Ended(w) ==
  /\ Becomes(w, Finished(session[w]))
  /\ run[w].pushed
  /\ session[w].stage = "Active" /\ TxOf(session[w].psbt) \in chain
  /\ UNCHANGED <<shared, signed>>

(* ... or the signer was visited.                                          *)
Answered(w) ==
  \E answer \in Answers(session[w]) :
    /\ RespondAccepts(session[w], answer)
    /\ Becomes(w, Responded(session[w], answer))
    /\ shared' = shared \cup Marks(answer.shares, TxOf(session[w].psbt))
    /\ signed' = signed \cup Marks(answer.sigs, TxOf(session[w].psbt))

GoesOn(w) == Heard(w) \/ Cleared(w) \/ Ended(w) \/ Answered(w)

Changes(w) == Started(w) \/ Joined(w) \/ Left(w) \/ GoesOn(w)

(* Every step does one of these to at most one session file.               *)
LEMMA StepChanges ==
  ASSUME Sound, [Next]_vars
  PROVE  Still \/ \E w \in Wallets : Changes(w)
<1> USE DEF disk, world, history, SetSession
<1>0. /\ session \in [Wallets -> Session \cup {NoSession}]
      /\ made \in [Wallets -> Nat]
      /\ inbox \in [Wallets -> Seq(Message)]
  BY DEF Sound, TypeOK
<1>1. CASE Block \/ UNCHANGED vars
  BY <1>1 DEF Block, vars, Still
<1>2. ASSUME NEW w \in Wallets, Users(w) PROVE Still \/ Changes(w)
  <2>1. ASSUME NEW d \in Deals, StartNew(w, d) PROVE Started(w)
    BY <2>1 DEF StartNew, Started, Reserve, Reserves
  <2>2. ASSUME NEW d \in Deals, StartFails(w, d) PROVE Left(w)
    BY <2>2 DEF StartFails, Left
  <2>3. ASSUME RunJoin(w) PROVE Still \/ Left(w)
    BY <1>0, <2>3 DEF RunJoin, Still, Left
  <2>4. ASSUME GiveUp(w) PROVE Left(w)
    BY <2>4 DEF GiveUp, Left
  <2>5. ASSUME Sync(w) PROVE Still
    BY <2>5 DEF Sync, Still
  <2>6. ASSUME NEW d \in Deals, ResumeStart(w, d) PROVE Still
    BY <2>6 DEF ResumeStart, Still
  <2> QED
    BY <1>2, <2>1, <2>2, <2>3, <2>4, <2>5, <2>6 DEF Users, Changes
<1>3. ASSUME NEW w \in Wallets, Step(w) PROVE Still \/ Changes(w)
  <2>1. ASSUME HandleMessage(w) PROVE Heard(w)
    BY <1>0, <2>1
       DEF HandleMessage, Handling, Owes, NextInInbox, TakeOut, Heard, Becomes
  <2>2. ASSUME JoinProposal(w) PROVE Joined(w) \/ Left(w)
    BY <2>2 DEF JoinProposal, Joined, Left, Reserve, Reserves
  <2>3. ASSUME ClearOutbox(w) PROVE Cleared(w)
    BY <2>3 DEF ClearOutbox, Cleared, Becomes, Owes
  <2>4. ASSUME Finish(w) PROVE Ended(w)
    BY <2>4 DEF Finish, Ended, Becomes, Sound, SoundTransit
  <2>5. ASSUME Visit(w) PROVE Answered(w)
    BY <2>5 DEF Visit, SignersTurn, Answered, Becomes
  <2>6. ASSUME \/ SendOne(w) \/ DropMessage(w) \/ JoinFails(w) \/ EndDone(w)
               \/ Grace(w) \/ Receive(w) \/ StoreBatch(w)
        PROVE  Still
    BY <2>6 DEF SendOne, DropMessage, JoinFails, EndDone, Grace, Receive, StoreBatch, Still
  <2>7. ASSUME \/ Broadcast(w) \/ BroadcastRefused(w) \/ BroadcastUnanswered(w)
               \/ AnswerRefused(w)
        PROVE  Still
    BY <2>7 DEF Broadcast, BroadcastRefused, BroadcastUnanswered, AnswerRefused, Still
  <2> QED
    BY <1>3, <2>1, <2>2, <2>3, <2>4, <2>5, <2>6, <2>7 DEF Step, Changes, GoesOn
<1>4. ASSUME NEW w \in Wallets, Stop(w) PROVE Still
  BY <1>4 DEF Stop, EndInError, Still
<1> QED
  BY <1>1, <1>2, <1>3, <1>4 DEF Next

(* ... and leaves those of the other wallets alone.                        *)
LEMMA OthersStay ==
  ASSUME Sound, NEW v \in Wallets, Changes(v)
  PROVE  /\ \A w \in Wallets \ {v} : session'[w] = session[w] /\ made'[w] = made[w]
         /\ \A w \in Wallets : made'[w] \in Nat /\ made[w] <= made'[w]
<1>1. session \in [Wallets -> Session \cup {NoSession}] /\ made \in [Wallets -> Nat]
  BY DEF Sound, TypeOK
<1>2. \E s : session' = [session EXCEPT ![v] = s]
  <2>1. CASE Started(v)
    BY <2>1 DEF Started
  <2>2. CASE Joined(v)
    BY <2>2 DEF Joined
  <2>3. CASE Left(v) \/ Heard(v) \/ Cleared(v) \/ Ended(v) \/ Answered(v)
    BY <2>3 DEF Left, Heard, Cleared, Ended, Answered, Becomes
  <2> QED
    BY <2>1, <2>2, <2>3 DEF Changes, GoesOn
<1>3. made' = made \/ made' = [made EXCEPT ![v] = @ + 1]
  BY DEF Changes, GoesOn, Started, Joined, Left, Heard, Cleared, Ended, Answered, Becomes, Reserves
<1> QED
  BY <1>1, <1>2, <1>3

LEMMA ChangedBy ==
  ASSUME Sound, [Next]_vars, NEW w \in Wallets, session'[w] # session[w]
  PROVE  Changes(w)
<1>1. ~Still
  BY DEF Still
<1> QED
  BY <1>1, StepChanges, OthersStay

-----------------------------------------------------------------------------
(* Messages.                                                               *)

(* A session that goes on is one.                                          *)
LEMMA GoesOnType ==
  ASSUME Sound, NEW w \in Wallets, GoesOn(w)
  PROVE  session'[w] \in Session /\ HasSession(w)'
<1> DEFINE s == session[w]
<1>0. /\ session \in [Wallets -> Session \cup {NoSession}]
      /\ inbox[w] \in Seq(Message)
      /\ HasSession(w) => s \in Session
  BY DEF Sound, TypeOK, HasSession
<1> SUFFICES session'[w] \in Session
  BY NoSessionAssumption DEF HasSession
<1>1. CASE Heard(w)
  <2>1. PICK i \in DOMAIN inbox[w] : Becomes(w, Received(session[w], inbox[w][i]))
    BY <1>1 DEF Heard
  <2>2. session[w] \in SoundSession(shared, signed, chain)
    BY <2>1, SessionSound DEF Becomes
  <2>3. inbox[w][i] \in SoundMessage(shared, signed, chain)
    BY DEF Sound, SoundFiles
  <2>4. Received(session[w], inbox[w][i]) \in Session
    BY <2>2, <2>3, ReceivedSound, SessionParts
  <2> QED
    BY <1>0, <2>1, <2>4 DEF Becomes
<1>2. CASE Cleared(w)
  BY <1>0, <1>2, NoMessages DEF Cleared, Becomes, Session
<1>3. CASE Ended(w)
  <2>1. session[w] \in SoundSession(shared, signed, chain)
    BY <1>3, SessionSound DEF Ended, Becomes
  <2>2. Finished(session[w]) \in Session
    BY <1>3, <2>1, FinishedSound, SessionParts DEF Ended
  <2> QED
    BY <1>0, <1>3, <2>2 DEF Ended, Becomes
<1>4. CASE Answered(w)
  <2>1. PICK answer \in Answers(s) :
          RespondAccepts(s, answer) /\ Becomes(w, Responded(s, answer))
    BY <1>4 DEF Answered
  <2>2. s \in SoundSession(shared, signed, chain) /\ answer \in Psbt
    BY <1>0, <2>1, SessionSound, AnswerType DEF Becomes
  <2>3. Responded(s, answer) \in Session
    <3> DEFINE sh == shared \cup Marks(answer.shares, TxOf(s.psbt))
               sg == signed \cup Marks(answer.sigs, TxOf(s.psbt))
    <3>1. Responded(s, answer) \in SoundSession(sh, sg, chain)
      BY <2>1, <2>2, RespondedSound
    <3> HIDE DEF s
    <3> QED
      BY <3>1, SessionParts
  <2> QED
    BY <1>0, <2>1, <2>3 DEF Becomes
<1> QED
  BY <1>1, <1>2, <1>3, <1>4 DEF GoesOn

(* A session after a step of its wallet: all of it but the outbox is what  *)
(* the operators make of it, and at most one message is added.             *)
LEMMA SessionAfter ==
  ASSUME Sound, NEW w \in Wallets, Changes(w), HasSession(w)'
  PROVE  /\ session'[w] \in Session
         /\ \/ HasSession(w) /\ session'[w].outbox = session[w].outbox
            \/ session'[w].outbox = << >>
            \/ session'[w].outbox = <<Says(session'[w])>>
            \/ /\ HasSession(w)
               /\ session'[w].outbox = Append(session[w].outbox, Says(session'[w]))
<1> DEFINE s == session[w]
           r == session'[w]
<1>0. /\ session \in [Wallets -> Session \cup {NoSession}]
      /\ inbox[w] \in Seq(Message) /\ TypeOK
      /\ HasSession(w) => s \in Session
  BY DEF Sound, TypeOK, HasSession
<1>1. r \in Session
  <2>2. CASE Started(w)
    <3>1. PICK d \in Deals : \E coins \in Fundable(w, d) :
            session' = [session EXCEPT ![w] = StartSession(w, NewHalf(w, coins), d)]
      BY <2>2 DEF Started
    <3>2. PICK coins \in Fundable(w, d) :
            session' = [session EXCEPT ![w] = StartSession(w, NewHalf(w, coins), d)]
      BY <3>1
    <3>3. StartSession(w, NewHalf(w, coins), d) \in Session
      BY <1>0, NewHalfType, StartSessionSound, SessionParts
    <3> QED
      BY <1>0, <3>2, <3>3
  <2>3. CASE Joined(w)
    <3>1. PICK i \in DOMAIN inbox[w] : \E coins \in Fundable(w, inbox[w][i].psbt.deal) :
            session' = [session EXCEPT ![w] = JoinSession(w, inbox[w][i], NewHalf(w, coins))]
      BY <2>3 DEF Joined
    <3>2. inbox[w][i] \in Message /\ inbox[w][i].psbt.deal \in Deals
      <4>1. inbox[w][i] \in Message
        BY <1>0
      <4> QED
        BY <4>1 DEF Message, Psbt
    <3>3. PICK coins \in Fundable(w, inbox[w][i].psbt.deal) :
            session' = [session EXCEPT ![w] = JoinSession(w, inbox[w][i], NewHalf(w, coins))]
      BY <3>1
    <3>4. JoinSession(w, inbox[w][i], NewHalf(w, coins)) \in Session
      BY <1>0, <3>2, NewHalfType, JoinSessionSound, SessionParts
    <3> QED
      BY <1>0, <3>3, <3>4
  <2>4. CASE Left(w)
    BY <1>0, <2>4 DEF Left, HasSession
  <2>5. CASE GoesOn(w)
    BY <2>5, GoesOnType
  <2> QED
    BY <2>2, <2>3, <2>4, <2>5 DEF Changes
<1>2. CASE Started(w)
  <2>1. PICK d \in Deals : \E coins \in Fundable(w, d) :
          session' = [session EXCEPT ![w] = StartSession(w, NewHalf(w, coins), d)]
    BY <1>2 DEF Started
  <2>2. PICK coins \in Fundable(w, d) :
          session' = [session EXCEPT ![w] = StartSession(w, NewHalf(w, coins), d)]
    BY <2>1
  <2>3. r = StartSession(w, NewHalf(w, coins), d)
    BY <1>0, <2>2
  <2>4. r.stage = "Proposed" /\ r.outbox = <<ProposalMessage(r)>>
    BY <2>3, StartSessionIs
  <2> QED
    BY <1>1, <2>4 DEF Says
<1>3. CASE Joined(w)
  <2>1. PICK i \in DOMAIN inbox[w] : \E coins \in Fundable(w, inbox[w][i].psbt.deal) :
          session' = [session EXCEPT ![w] = JoinSession(w, inbox[w][i], NewHalf(w, coins))]
    BY <1>3 DEF Joined
  <2>2. PICK coins \in Fundable(w, inbox[w][i].psbt.deal) :
          session' = [session EXCEPT ![w] = JoinSession(w, inbox[w][i], NewHalf(w, coins))]
    BY <2>1
  <2>3. r = JoinSession(w, inbox[w][i], NewHalf(w, coins))
    BY <1>0, <2>2
  <2> QED
    BY <1>1, <2>3, JoinSessionIs
<1>4. CASE Left(w)
  BY <1>0, <1>4 DEF Left, HasSession
<1>5. CASE Heard(w)
  <2>1. PICK i \in DOMAIN inbox[w] : Becomes(w, Received(s, inbox[w][i]))
    BY <1>5 DEF Heard
  <2>2. inbox[w][i] \in Message /\ s \in Session
    BY <1>0, <2>1 DEF Becomes
  <2> QED
    BY <1>0, <1>1, <2>1, <2>2, ReceivedKeeps DEF Becomes
<1>6. CASE Cleared(w)
  BY <1>0, <1>1, <1>6 DEF Cleared, Becomes, Session
<1>7. CASE Ended(w)
  BY <1>0, <1>1, <1>7, FinishedKeeps DEF Ended, Becomes, Says
<1>8. CASE Answered(w)
  <2>1. PICK answer \in Answers(s) :
          RespondAccepts(s, answer) /\ Becomes(w, Responded(s, answer))
    BY <1>8 DEF Answered
  <2>2. s \in Session /\ answer \in Psbt
    BY <1>0, <2>1, AnswerType DEF Becomes
  <2> QED
    BY <1>0, <1>1, <2>1, <2>2, RespondedKeeps DEF Becomes, Says
<1> QED
  BY <1>1, <1>2, <1>3, <1>4, <1>5, <1>6, <1>7, <1>8 DEF Changes, GoesOn

-----------------------------------------------------------------------------
(* The messages of an outbox, an inbox, the memory of a command and the    *)
(* channel.                                                                *)
Carried(S) ==
  \A w \in Wallets :
    /\ inbox[w] \in Seq(S)
    /\ channel[w] \in Seq(S)
    /\ run[w].hand \in Seq(S)
    /\ HasSession(w) => session[w].outbox \in Seq(S)

(* What can happen to the messages on their way to wallet v: nothing, or   *)
(* they are lost with a command or with the session file, ...              *)
StayOrGo(v) ==
  /\ inbox'[v] = inbox[v] \/ (inbox'[v] = << >> /\ GiveUp(v))
  /\ \/ run'[v].hand = run[v].hand
     \/ run'[v].hand = << >> /\ (StopInHandOver \/ ~run[v].up)
  /\ channel'[v] = channel[v]

(* ... one of the inbox is acted on, ...                                   *)
OneTaken(v) ==
  \E i \in DOMAIN inbox[v] :
    /\ inbox'[v] = RemoveAt(inbox[v], i)
    /\ HasSession(v) => i = 1 /\ session'[v] = Received(session[v], inbox[v][i])
    /\ run'[v].hand = run[v].hand
    /\ channel'[v] = channel[v]

(* ... the channel gives them up, the batch is stored, ...                 *)
Returned(v) ==
  /\ run[v].hand = << >> /\ run'[v].hand = channel[v]
  /\ channel'[v] = << >>
  /\ inbox'[v] = inbox[v]

Stored(v) ==
  /\ inbox'[v] = inbox[v] \o run[v].hand
  /\ run'[v].hand = << >>
  /\ channel'[v] = channel[v]

(* ... or another wallet sends one.                                        *)
SentBy(w, v) ==
  /\ HasSession(w)
  /\ \E k \in DOMAIN session[w].outbox :
       channel'[v] = Append(channel[v], session[w].outbox[k])
  /\ inbox'[v] = inbox[v]
  /\ run'[v].hand = run[v].hand
  /\ UNCHANGED <<session, kept, shared>>

LEMMA MessagesMove ==
  ASSUME Sound, [Next]_vars, NEW v \in Wallets
  PROVE  \/ StayOrGo(v) \/ OneTaken(v) \/ Returned(v) \/ Stored(v)
         \/ \E w \in Wallets \ {v} : SentBy(w, v)
<1> DEFINE Moved == \/ StayOrGo(v) \/ OneTaken(v) \/ Returned(v) \/ Stored(v)
                    \/ \E w \in Wallets \ {v} : SentBy(w, v)
<1> USE DEF disk, world, history, SetSession
<1>0. /\ inbox \in [Wallets -> Seq(Message)]
      /\ channel \in [Wallets -> Seq(Message)]
      /\ run \in [Wallets -> Run]
      /\ \A w \in Wallets : HasSession(w) => session[w].outbox \in Seq(Message)
  BY DEF Sound, TypeOK, HasSession, Session
<1>1. ASSUME Block \/ UNCHANGED vars PROVE StayOrGo(v)
  BY <1>1 DEF Block, vars, StayOrGo
<1>2. ASSUME NEW w \in Wallets, Users(w) PROVE StayOrGo(v)
  <2>1. CASE \E d \in Deals : ResumeStart(w, d) \/ StartNew(w, d) \/ StartFails(w, d)
    BY <1>0, <2>1, StartedRun DEF ResumeStart, StartNew, StartFails, StayOrGo
  <2>2. CASE RunJoin(w) \/ GiveUp(w) \/ Sync(w)
    BY <1>0, <2>2, StartedRun DEF RunJoin, GiveUp, Sync, StayOrGo
  <2> QED
    BY <1>2, <2>1, <2>2 DEF Users
<1>3. ASSUME NEW w \in Wallets, Step(w) PROVE Moved
  <2>1. CASE SendOne(w)
    <3> DEFINE k == run[w].sent + 1
    <3>1. HasSession(w) /\ k \in DOMAIN session[w].outbox
      <4>1. HasSession(w) /\ run[w].sent < Len(session[w].outbox)
        BY <2>1 DEF SendOne, Owes
      <4>2. session[w].outbox \in Seq(Message) /\ run[w].sent \in Nat
        BY <1>0, <4>1 DEF Run
      <4> QED
        BY <4>1, <4>2
    <3>2. /\ channel' = [u \in Wallets |-> IF u = w THEN channel[u]
                                          ELSE Append(channel[u], session[w].outbox[k])]
          /\ inbox' = inbox
          /\ run' = [run EXCEPT ![w].sent = @ + 1]
          /\ UNCHANGED <<session, kept, shared>>
      BY <2>1 DEF SendOne
    <3>3. run'[v].hand = run[v].hand
      BY <1>0, <3>2 DEF Run
    <3> HIDE DEF k
    <3> QED
      BY <3>1, <3>2, <3>3 DEF SentBy, StayOrGo
  <2>2. CASE HandleMessage(w) \/ DropMessage(w) \/ JoinProposal(w)
    <3>1. PICK i \in DOMAIN inbox[w] :
            /\ TakeOut(w, i) /\ run' = run /\ channel' = channel
            /\ HasSession(w) => i = 1 /\ session'[w] = Received(session[w], inbox[w][i])
      <4>1. CASE HandleMessage(w)
        BY <1>0, <4>1 DEF HandleMessage, Handling, NextInInbox, Sound, TypeOK
      <4>2. CASE DropMessage(w) \/ JoinProposal(w)
        BY <4>2 DEF DropMessage, JoinProposal
      <4> QED
        BY <2>2, <4>1, <4>2
    <3> QED
      BY <1>0, <3>1 DEF TakeOut, OneTaken, StayOrGo
  <2>3. ASSUME \/ JoinFails(w) \/ EndDone(w) \/ BroadcastRefused(w)
               \/ BroadcastUnanswered(w) \/ AnswerRefused(w)
               \/ ClearOutbox(w) \/ Finish(w) \/ Visit(w) \/ Broadcast(w)
        PROVE  StayOrGo(v)
    <3>1. UNCHANGED <<inbox, channel>>
      BY <2>3 DEF JoinFails, EndDone, Broadcast, BroadcastRefused, BroadcastUnanswered,
                  AnswerRefused, ClearOutbox, Finish, Visit
    <3>2. \/ run' = [run EXCEPT ![w] = Down] /\ run[w].hand = << >>
          \/ run' = [run EXCEPT ![w].sent = 0]
          \/ run' = [run EXCEPT ![w].pushed = TRUE]
          \/ run' = [run EXCEPT ![w].pushed = FALSE]
          \/ run' = [run EXCEPT ![w].tries = 0]
          \/ run' = [run EXCEPT ![w].tries = @ + 1]
      <4>1. run[w].hand = << >> \/ Finish(w)
        BY <2>3 DEF JoinFails, EndDone, Broadcast, BroadcastRefused, BroadcastUnanswered,
                    AnswerRefused, ClearOutbox, Visit, SignersTurn, Broadcasting, Quiet,
                    Handling, AtStep
      <4> QED
        BY <2>3, <4>1
           DEF JoinFails, EndDone, Broadcast, BroadcastRefused, BroadcastUnanswered,
               AnswerRefused, ClearOutbox, Finish, Visit, EndInError
    <3>3. v # w => run'[v] = run[v]
      BY <1>0, <3>2
    <3>4. run[w] \in Run /\ Down.hand = << >>
      BY <1>0, StartedRun
    <3>5. \/ run'[w] = Down /\ run[w].hand = << >>
          \/ \E r : run'[w] = [run[w] EXCEPT !.sent = r]
          \/ \E r : run'[w] = [run[w] EXCEPT !.pushed = r]
          \/ \E r : run'[w] = [run[w] EXCEPT !.tries = r]
      BY <1>0, <3>2
    <3>6. run'[w].hand = run[w].hand
      BY <3>4, <3>5 DEF Run
    <3> QED
      BY <3>1, <3>3, <3>6 DEF StayOrGo
  <2>4. CASE Grace(w) \/ Receive(w)
    <3>1. /\ inbox' = inbox /\ run[w].hand = << >>
          /\ \/ run' = [run EXCEPT ![w].waited = TRUE, ![w].hand = channel[w]]
             \/ run' = [run EXCEPT ![w].hand = channel[w]]
          /\ channel' = [channel EXCEPT ![w] = << >>]
      BY <2>4 DEF Grace, Receive, Listening, Quiet, AtStep
    <3>2. v # w => run'[v] = run[v] /\ channel'[v] = channel[v]
      BY <1>0, <3>1
    <3>3. run'[w].hand = channel[w] /\ channel'[w] = << >>
      BY <1>0, <3>1 DEF Run
    <3> QED
      BY <3>1, <3>2, <3>3 DEF Returned, StayOrGo
  <2>5. CASE StoreBatch(w)
    <3>1. /\ inbox' = [inbox EXCEPT ![w] = @ \o run[w].hand]
          /\ run' = [run EXCEPT ![w].hand = << >>]
          /\ channel' = channel
      BY <2>5 DEF StoreBatch
    <3>2. v # w => run'[v] = run[v] /\ inbox'[v] = inbox[v]
      BY <1>0, <3>1
    <3>3. run'[w].hand = << >> /\ inbox'[w] = inbox[w] \o run[w].hand
      BY <1>0, <3>1 DEF Run
    <3> QED
      BY <3>1, <3>2, <3>3 DEF Stored, StayOrGo
  <2> QED
    BY <1>3, <2>1, <2>2, <2>3, <2>4, <2>5 DEF Step, StayOrGo
<1>4. ASSUME NEW w \in Wallets, Stop(w) PROVE StayOrGo(v)
  BY <1>0, <1>4, StartedRun DEF Stop, EndInError, StayOrGo
<1> QED
  BY <1>1, <1>2, <1>3, <1>4 DEF Next

(* A message only moves on, from an outbox to the channels of the others,  *)
(* from there to a command and into an inbox; the new ones are in outboxes.*)
LEMMA CarriedOn ==
  ASSUME Sound, [Next]_vars, NEW S, Carried(S),
         \A w \in Wallets : HasSession(w)' =>
           \/ HasSession(w) /\ session'[w].outbox = session[w].outbox
           \/ session'[w].outbox = << >>
           \/ Says(session'[w]) \in S
  PROVE  Carried(S)'
<1>0. /\ \A v \in Wallets : /\ inbox[v] \in Seq(S) /\ channel[v] \in Seq(S)
                            /\ run[v].hand \in Seq(S)
                            /\ HasSession(v) => session[v].outbox \in Seq(S)
      /\ << >> \in Seq(S)
  BY NoMessages DEF Carried
<1>1. \A w \in Wallets : HasSession(w)' => session'[w].outbox \in Seq(S)
  <2> SUFFICES ASSUME NEW w \in Wallets, HasSession(w)'
               PROVE  session'[w].outbox \in Seq(S)
    OBVIOUS
  <2>1. CASE session'[w] = session[w]
    BY <2>1 DEF HasSession, Carried
  <2>2. CASE \/ HasSession(w) /\ session'[w].outbox = session[w].outbox
             \/ session'[w].outbox = << >>
    BY <1>0, <2>2
  <2>3. CASE session'[w] # session[w] /\ Says(session'[w]) \in S
    <3>1. Changes(w)
      BY <2>3, ChangedBy
    <3>2. Says(session'[w]) \in S
      BY <2>3
    <3>3. HasSession(w) => session[w].outbox \in Seq(S)
      BY DEF Carried
    <3>4. session'[w].outbox \in Seq(Message) /\ <<Says(session'[w])>> \in Seq(S)
      BY <3>1, <3>2, SessionAfter, OneElement DEF Session
    <3>5. \A o \in Seq(S) : Append(o, Says(session'[w])) \in Seq(S)
      BY <3>2
    <3> QED
      BY <1>0, <3>1, <3>3, <3>4, <3>5, SessionAfter
  <2> QED
    BY <2>1, <2>2, <2>3
<1>2. ASSUME NEW v \in Wallets
      PROVE  inbox'[v] \in Seq(S) /\ channel'[v] \in Seq(S) /\ run'[v].hand \in Seq(S)
  <2>1. CASE StayOrGo(v)
    BY <1>0, <2>1 DEF StayOrGo
  <2>2. CASE OneTaken(v)
    BY <1>0, <2>2, RemoveAtType DEF OneTaken
  <2>3. CASE Returned(v) \/ Stored(v)
    BY <1>0, <2>3, ConcatType DEF Returned, Stored
  <2>4. ASSUME NEW w \in Wallets, SentBy(w, v)
        PROVE  inbox'[v] \in Seq(S) /\ channel'[v] \in Seq(S) /\ run'[v].hand \in Seq(S)
    <3>1. PICK k \in DOMAIN session[w].outbox :
            channel'[v] = Append(channel[v], session[w].outbox[k])
      BY <2>4 DEF SentBy
    <3>2. session[w].outbox[k] \in S
      BY <1>0, <2>4 DEF SentBy
    <3> QED
      BY <1>0, <2>4, <3>1, <3>2 DEF SentBy
  <2> QED
    BY <2>1, <2>2, <2>3, <2>4, MessagesMove
<1> QED
  BY <1>1, <1>2 DEF Carried, HasSession

-----------------------------------------------------------------------------
(* What a step leaves of a session and of the records.                     *)

(* A session that goes on is the same send, takes nothing back, and keeps  *)
(* its halves unless it takes over those of a message in its inbox.        *)
Continues(w, s, r) ==
  /\ r.sid = s.sid /\ r.me = s.me /\ r.mine = s.mine
  /\ r.psbt.deal = s.psbt.deal
  /\ Extends(s, r)
  /\ \/ r.psbt.halves = s.psbt.halves
        /\ (s.stage = "Proposed" => r.stage = "Proposed")
     \/ /\ s.stage = "Proposed"
        /\ \E i \in DOMAIN inbox[w] :
             /\ inbox[w][i].sid = s.sid
             /\ s.psbt.halves \subseteq inbox[w][i].psbt.halves
             /\ r.psbt.halves = inbox[w][i].psbt.halves
             /\ r.stage # "Proposed"

LEMMA SessionGoesOn ==
  ASSUME Sound, NEW w \in Wallets, GoesOn(w)
  PROVE  /\ session[w] \in Session /\ HasSession(w) /\ made' = made
         /\ Continues(w, session[w], session'[w])
<1> DEFINE s == session[w]
           r == session'[w]
<1>0. /\ session \in [Wallets -> Session \cup {NoSession}]
      /\ inbox[w] \in Seq(Message)
  BY DEF Sound, TypeOK
<1>1. HasSession(w) /\ made' = made /\ s \in Session
  BY <1>0 DEF GoesOn, Heard, Cleared, Ended, Answered, Becomes, HasSession
<1>2. ASSUME Heard(w) PROVE Continues(w, s, r)
  <2>1. PICK i \in DOMAIN inbox[w] : Becomes(w, Received(s, inbox[w][i]))
    BY <1>2 DEF Heard
  <2>2. inbox[w][i] \in Message /\ r = Received(s, inbox[w][i])
    BY <1>0, <2>1 DEF Becomes
  <2> HIDE DEF s
  <2> QED
    BY <1>1, <2>2, ReceivedKeeps DEF Continues
<1>3. ASSUME Cleared(w) PROVE Continues(w, s, r)
  <2>1. r = [s EXCEPT !.outbox = << >>]
    BY <1>0, <1>3 DEF Cleared, Becomes
  <2> HIDE DEF s
  <2> QED
    BY <1>1, <2>1 DEF Session, Stage, Extends, StageNo, Continues
<1>4. ASSUME Ended(w) PROVE Continues(w, s, r)
  <2>1. r = Finished(s) /\ s.stage = "Active"
    BY <1>0, <1>4 DEF Ended, Becomes
  <2> HIDE DEF s
  <2> QED
    BY <1>1, <2>1, FinishedKeeps DEF Continues
<1>5. ASSUME Answered(w) PROVE Continues(w, s, r)
  <2>1. PICK answer \in Answers(s) :
          RespondAccepts(s, answer) /\ r = Responded(s, answer)
    BY <1>0, <1>5 DEF Answered, Becomes
  <2>2. answer \in Psbt
    BY <1>1, AnswerType
  <2>3. Absorbed(s.psbt, answer).deal = s.psbt.deal /\ Absorbed(s.psbt, answer).halves = s.psbt.halves
    BY <1>1 DEF Absorbed, Session, Psbt
  <2> HIDE DEF s
  <2> QED
    BY <1>1, <2>1, <2>2, <2>3, RespondedKeeps DEF Continues
<1> QED
  BY <1>1, <1>2, <1>3, <1>4, <1>5 DEF GoesOn

(* A new record is of the session that said Done.                          *)
LEMMA KeptAfter ==
  ASSUME Sound, [Next]_vars, NEW w \in Wallets
  PROVE  /\ kept[w] \subseteq kept'[w]
         /\ \A r \in kept'[w] \ kept[w] :
              /\ HasSession(w) /\ session[w].stage = "Done"
              /\ r = [sid |-> session[w].sid, tx |-> TxOf(session[w].psbt)]
<1> USE DEF disk, world, history
<1>0. kept \in [Wallets -> SUBSET Record]
  BY DEF Sound, TypeOK
<1>1. CASE kept' = kept
  BY <1>1
<1>2. ASSUME NEW v \in Wallets, Retire(v)
      PROVE  /\ kept[w] \subseteq kept'[w]
             /\ \A r \in kept'[w] \ kept[w] :
                  /\ HasSession(w) /\ session[w].stage = "Done"
                  /\ r = [sid |-> session[w].sid, tx |-> TxOf(session[w].psbt)]
  <2>1. CASE HasSession(v) /\ ~Unfinished(v)
    <3>1. session[v].stage = "Done" /\ session[v].txid = {TxOf(session[v].psbt)}
      BY <2>1, SessionSound, SessionParts DEF Unfinished
    <3>2. kept' = [kept EXCEPT ![v] = @ \cup {[sid |-> session[v].sid, tx |-> TxOf(session[v].psbt)]}]
      BY <1>2, <2>1, <3>1 DEF Retire
    <3> QED
      BY <1>0, <2>1, <3>1, <3>2
  <2>2. CASE ~(HasSession(v) /\ ~Unfinished(v))
    BY <1>2, <2>2 DEF Retire
  <2> QED
    BY <2>1, <2>2
<1>3. ASSUME Block \/ UNCHANGED vars PROVE kept' = kept
  BY <1>3 DEF Block, vars
<1>4. ASSUME NEW v \in Wallets, Users(v) PROVE kept' = kept \/ Retire(v)
  BY <1>4 DEF Users, ResumeStart, StartNew, StartFails, RunJoin, GiveUp, Sync
<1>5. ASSUME NEW v \in Wallets, Step(v) \/ Stop(v) PROVE kept' = kept
  BY <1>5 DEF Step, Stop, SendOne, ClearOutbox, HandleMessage, DropMessage, JoinProposal,
              JoinFails, EndDone, Grace, Broadcast, BroadcastRefused, BroadcastUnanswered,
              Finish, Visit, AnswerRefused, Receive, StoreBatch
<1> QED
  BY <1>1, <1>2, <1>3, <1>4, <1>5 DEF Next

-----------------------------------------------------------------------------
(* Every half that is named anywhere was built by its owner's BDK wallet,  *)
(* and no two with the same number.  B stands for the halves built so far; *)
(* there is no variable for them, so the invariant says that there is a B. *)

BuiltHalves(B) ==
  /\ B \subseteq Half
  /\ \A h \in B : /\ h.no < made[h.owner]
                  /\ \E d \in Deals : h.coins \in Picks[h.owner][d]
  /\ \A h, k \in B : SidOf(h) = SidOf(k) => h = k

KnownFiles(B) ==
  \A w \in Wallets :
    /\ HasSession(w) => KnownSession(B, w, session[w])
    /\ \A r \in kept[w] : OneEach(B, r.tx.halves) /\ Names(r.sid, r.tx.halves)

KnownBy(B) ==
  /\ BuiltHalves(B)
  /\ Carried(KnownMessages(B))
  /\ KnownFiles(B)
  /\ \A x \in shared \cup signed : OneEach(B, x.tx.halves)

LEMMA MoreCarried ==
  ASSUME NEW S, NEW T, S \subseteq T, Carried(S)
  PROVE  Carried(T)
BY SeqMono DEF Carried

(* The half fund builds is not known yet.                                  *)
LEMMA NewHalfIsNew ==
  ASSUME Sound, NEW B, BuiltHalves(B), NEW w \in Wallets, NEW d \in Deals,
         NEW coins \in Fundable(w, d), NEW h, h = NewHalf(w, coins),
         Reserves(w)
  PROVE  /\ h \in Half /\ h.owner = w /\ h.coins = coins
         /\ \A k \in B : SidOf(k) # SidOf(h)
         /\ BuiltHalves(B \cup {h})'
<1>1. TypeOK /\ made \in [Wallets -> Nat]
  BY DEF Sound, TypeOK
<1>2. h \in Half /\ h.owner = w /\ h.coins = coins /\ h.no = made[w]
  BY <1>1, NewHalfType DEF NewHalf
<1>3. h.coins \in Picks[w][d]
  BY <1>2 DEF Fundable
<1>4. \A k \in B : k.owner \in Wallets /\ k.no \in Nat /\ k.no < made[k.owner]
  BY DEF BuiltHalves, Half
<1>5. \A k \in B : SidOf(k) # SidOf(h)
  BY <1>1, <1>2, <1>4 DEF SidOf
<1>6. h.no < made'[w] /\ \A k \in B : k.no < made'[k.owner]
  BY <1>1, <1>2, <1>4 DEF Reserves
<1>7. BuiltHalves(B \cup {h})'
  BY <1>2, <1>3, <1>5, <1>6 DEF BuiltHalves
<1> QED
  BY <1>2, <1>5, <1>7

(* A send that begins has a new half of its wallet, and no other of its.   *)
Begun(B, w, h) ==
  /\ ~Unfinished(w)
  /\ h.owner = w
  /\ \A k \in B : SidOf(k) # SidOf(h)
  /\ BuiltHalves(B \cup {h})'
  /\ KnownSession(B \cup {h}, w, session'[w])
  /\ \A k \in session'[w].psbt.halves : k.owner = w => k = h
  /\ h \in session'[w].psbt.halves
  /\ session'[w].psbt.shares = {} /\ session'[w].stage # "Done"
  /\ \A k \in DOMAIN session'[w].outbox : session'[w].outbox[k] = Says(session'[w])
  /\ \/ session'[w].sid = SidOf(h)
     \/ ~HasSession(w) /\ \E i \in DOMAIN inbox[w] :
          /\ inbox[w][i].kind = "Proposal" /\ inbox[w][i].from # w
          /\ session'[w].sid = inbox[w][i].sid
  /\ UNCHANGED <<shared, signed>>

LEMMA BeginsKnown ==
  ASSUME Sound, NEW B, KnownBy(B), NEW w \in Wallets, Started(w) \/ Joined(w)
  PROVE  \E h : Begun(B, w, h)
<1>0. /\ session \in [Wallets -> Session \cup {NoSession}]
      /\ inbox[w] \in Seq(Message)
      /\ BuiltHalves(B) /\ B \subseteq Half
      /\ inbox[w] \in Seq(KnownMessages(B))
  BY DEF Sound, TypeOK, KnownBy, BuiltHalves, Carried
<1>1. CASE Started(w)
  <2>1. PICK d \in Deals : \E coins \in Fundable(w, d) :
          /\ ~Unfinished(w)
          /\ session' = [session EXCEPT ![w] = StartSession(w, NewHalf(w, coins), d)]
          /\ Reserves(w)
          /\ UNCHANGED <<shared, signed>>
    BY <1>1 DEF Started
  <2>2. PICK coins \in Fundable(w, d) :
          /\ ~Unfinished(w)
          /\ session' = [session EXCEPT ![w] = StartSession(w, NewHalf(w, coins), d)]
          /\ Reserves(w)
          /\ UNCHANGED <<shared, signed>>
    BY <2>1
  <2>3. PICK h : h = NewHalf(w, coins)
    OBVIOUS
  <2>4. /\ h \in Half /\ h.owner = w /\ h.coins = coins
        /\ \A k \in B : SidOf(k) # SidOf(h)
        /\ BuiltHalves(B \cup {h})'
    BY <1>0, <2>2, <2>3, NewHalfIsNew
  <2>5. session'[w] = StartSession(w, h, d)
    BY <1>0, <2>2, <2>3
  <2>6. LET r == session'[w] IN
        /\ r.sid = SidOf(h) /\ r.me = w /\ r.mine = h.coins /\ r.psbt.halves = {h}
        /\ r.stage = "Proposed" /\ r.psbt.shares = {} /\ r.outbox = <<ProposalMessage(r)>>
    <3>1. LET r == StartSession(w, h, d) IN
          /\ r.sid = SidOf(h) /\ r.me = w /\ r.mine = h.coins /\ r.psbt = Proposed(h, d)
          /\ r.stage = "Proposed" /\ r.outbox = <<ProposalMessage(r)>>
      BY StartSessionIs
    <3> QED
      BY <2>5, <3>1 DEF Proposed
  <2>7. KnownSession(B \cup {h}, w, session'[w])
    BY <2>4, <2>6 DEF KnownSession, OneEach, Names
  <2>8. \A k \in DOMAIN session'[w].outbox : session'[w].outbox[k] = Says(session'[w])
    BY <2>6 DEF Says
  <2> QED
    BY <2>2, <2>4, <2>6, <2>7, <2>8 DEF Begun
<1>2. CASE Joined(w)
  <2>1. PICK i \in DOMAIN inbox[w] : \E coins \in Fundable(w, inbox[w][i].psbt.deal) :
          /\ ~HasSession(w)
          /\ Acceptable(w, inbox[w][i])
          /\ session' = [session EXCEPT ![w] = JoinSession(w, inbox[w][i], NewHalf(w, coins))]
          /\ Reserves(w)
          /\ UNCHANGED <<shared, signed>>
    BY <1>2 DEF Joined
  <2>2. PICK coins \in Fundable(w, inbox[w][i].psbt.deal) :
          /\ ~HasSession(w)
          /\ Acceptable(w, inbox[w][i])
          /\ session' = [session EXCEPT ![w] = JoinSession(w, inbox[w][i], NewHalf(w, coins))]
          /\ Reserves(w)
          /\ UNCHANGED <<shared, signed>>
    BY <2>1
  <2>3. PICK h, m : h = NewHalf(w, coins) /\ m = inbox[w][i]
    OBVIOUS
  <2>4. m \in KnownMessages(B) /\ m \in Message
    BY <1>0, <2>3
  <2>5. m.psbt.deal \in Deals
    BY <2>4 DEF Message, Psbt
  <2>6. /\ h \in Half /\ h.owner = w /\ h.coins = coins
        /\ \A k \in B : SidOf(k) # SidOf(h)
        /\ BuiltHalves(B \cup {h})'
    BY SMTT(30), <1>0, <2>2, <2>3, <2>5, NewHalfIsNew
  <2>7. session'[w] = JoinSession(w, m, h)
    BY <1>0, <2>2, <2>3
  <2>8. LET r == session'[w] IN
        /\ r.sid = m.sid /\ r.me = w /\ r.mine = h.coins /\ r.stage = "Active"
        /\ r.psbt.halves = m.psbt.halves \cup {h} /\ r.psbt.shares = {}
        /\ r.outbox = << >>
    BY <2>7, JoinSessionIs
  <2>9. /\ m.kind = "Proposal" /\ m.from # w
        /\ OneEach(B, m.psbt.halves) /\ Names(m.sid, m.psbt.halves)
        /\ \A k \in m.psbt.halves : k.owner # w
    BY <2>2, <2>3, <2>4 DEF Acceptable, ReadableProposal, KnownMessages
  <2>10. OneEach(B \cup {h}, session'[w].psbt.halves)
    <3>1. session'[w].psbt.halves = m.psbt.halves \cup {h}
      BY <2>8
    <3>2. \A k, l \in m.psbt.halves \cup {h} : k.owner = l.owner => k = l
      BY <2>6, <2>9 DEF OneEach
    <3> QED
      BY <2>9, <3>1, <3>2 DEF OneEach
  <2>11. KnownSession(B \cup {h}, w, session'[w])
    BY <2>6, <2>8, <2>9, <2>10 DEF KnownSession, Names
  <2>12. \A k \in session'[w].psbt.halves : k.owner = w => k = h
    BY <2>8, <2>9
  <2>13. \A k \in DOMAIN session'[w].outbox : session'[w].outbox[k] = Says(session'[w])
    BY <2>8
  <2>14. /\ session'[w].stage # "Done" /\ session'[w].psbt.shares = {}
         /\ session'[w].mine = h.coins /\ h \in session'[w].psbt.halves
         /\ session'[w].sid = m.sid
    BY <2>8
  <2>15. /\ ~Unfinished(w) /\ ~HasSession(w) /\ UNCHANGED <<shared, signed>>
         /\ inbox[w][i].kind = "Proposal" /\ inbox[w][i].from # w
    BY <2>2, <2>3, <2>9 DEF Unfinished
  <2> QED
    BY <2>3, <2>6, <2>11, <2>12, <2>13, <2>14, <2>15 DEF Begun
<1> QED
  BY <1>1, <1>2

(* A session that goes on stays known by the same halves.                  *)
LEMMA GoesOnKnown ==
  ASSUME Sound, NEW B, KnownBy(B), NEW w \in Wallets, GoesOn(w)
  PROVE  KnownSession(B, w, session'[w])
<1> DEFINE s == session[w]
           r == session'[w]
<1>1. /\ inbox[w] \in Seq(KnownMessages(B))
      /\ s \in Session /\ Continues(w, s, r) /\ KnownSession(B, w, s)
  BY SessionGoesOn DEF KnownBy, Carried, KnownFiles
<1> HIDE DEF s, r
<1>2. CASE r.psbt.halves = s.psbt.halves
  <2>1. r.stage = "Proposed" => s.stage = "Proposed"
    BY <1>1 DEF Continues, Extends, StageNo, Session, Stage
  <2> QED
    BY <1>1, <1>2, <2>1 DEF KnownSession, Continues, r
<1>3. ASSUME NEW i \in DOMAIN inbox[w], s.stage = "Proposed",
             inbox[w][i].sid = s.sid, s.psbt.halves \subseteq inbox[w][i].psbt.halves,
             r.psbt.halves = inbox[w][i].psbt.halves, r.stage # "Proposed"
      PROVE  KnownSession(B, w, r)
  <2>1. inbox[w][i] \in KnownMessages(B)
    BY <1>1
  <2>2. OneEach(B, r.psbt.halves) /\ Names(s.sid, r.psbt.halves)
    BY <1>3, <2>1 DEF KnownMessages
  <2>3. r.stage = "Proposed" => \A h \in r.psbt.halves : h.owner = w
    BY <1>3
  <2> QED
    BY <1>1, <1>3, <2>2, <2>3 DEF KnownSession, Continues
<1> QED
  BY <1>1, <1>2, <1>3 DEF Continues, r

(* What is known goes on to be known, by one more half at most.            *)
LEMMA KnownSessions ==
  ASSUME Sound, [Next]_vars, NEW B, KnownBy(B)
  PROVE  \E C : /\ B \subseteq C
                /\ BuiltHalves(C)'
                /\ \A w \in Wallets : HasSession(w)' => KnownSession(C, w, session'[w])
<1>0. BuiltHalves(B) /\ \A w \in Wallets : HasSession(w) => KnownSession(B, w, session[w])
  BY DEF KnownBy, KnownFiles
<1>1. CASE Still
  <2>1. BuiltHalves(B)'
    BY <1>0, <1>1 DEF Still, BuiltHalves
  <2> QED
    BY <1>0, <1>1, <2>1 DEF Still, HasSession
<1>2. ASSUME NEW w \in Wallets, Left(w) \/ GoesOn(w)
      PROVE  /\ BuiltHalves(B)'
             /\ \A v \in Wallets : HasSession(v)' => KnownSession(B, v, session'[v])
  <2>1. Changes(w)
    BY <1>2 DEF Changes, GoesOn
  <2>2. BuiltHalves(B)'
    <3>1. \A h \in B : h.owner \in Wallets /\ h.no \in Nat /\ made[h.owner] \in Nat
      BY <1>0 DEF BuiltHalves, Half, Sound, TypeOK
    <3>2. \A h \in B : h.no < made'[h.owner]
      BY <1>0, <2>1, <3>1, OthersStay DEF BuiltHalves
    <3> QED
      BY <1>0, <3>2 DEF BuiltHalves
  <2>3. HasSession(w)' => KnownSession(B, w, session'[w])
    <3>1. CASE Left(w)
      BY <3>1 DEF Left, HasSession, Sound, TypeOK
    <3> QED
      BY <1>2, <3>1, GoesOnKnown
  <2>4. \A v \in Wallets : v # w /\ HasSession(v)' => KnownSession(B, v, session'[v])
    BY <1>0, <2>1, OthersStay DEF HasSession
  <2> QED
    BY <2>2, <2>3, <2>4
<1>3. ASSUME NEW w \in Wallets, Started(w) \/ Joined(w)
      PROVE  \E h : /\ BuiltHalves(B \cup {h})'
                    /\ \A v \in Wallets :
                         HasSession(v)' => KnownSession(B \cup {h}, v, session'[v])
  <2>1. Changes(w)
    BY <1>3 DEF Changes
  <2>2. PICK h : Begun(B, w, h)
    BY <1>3, BeginsKnown
  <2>3. BuiltHalves(B \cup {h})' /\ KnownSession(B \cup {h}, w, session'[w])
    BY <2>2 DEF Begun
  <2>4. \A v \in Wallets : v # w /\ HasSession(v)' => KnownSession(B \cup {h}, v, session'[v])
    <3> SUFFICES ASSUME NEW v \in Wallets, v # w, HasSession(v)'
                 PROVE  KnownSession(B \cup {h}, v, session'[v])
      OBVIOUS
    <3>1. session'[v] = session[v] /\ HasSession(v)
      BY <2>1, OthersStay DEF HasSession
    <3>2. KnownSession(B, v, session[v])
      BY <1>0, <3>1
    <3> QED
      BY <3>1, <3>2, MoreHalves
  <2> QED
    BY <2>3, <2>4
<1>4. \A h : B \subseteq B \cup {h}
  OBVIOUS
<1> QED
  BY <1>1, <1>2, <1>3, <1>4, StepChanges DEF Changes, GoesOn

LEMMA KnownStep ==
  ASSUME Sound, Sound', [Next]_vars, NEW B, KnownBy(B)
  PROVE  \E C : KnownBy(C)'
<1>1. PICK C : /\ B \subseteq C
               /\ BuiltHalves(C)'
               /\ \A w \in Wallets : HasSession(w)' => KnownSession(C, w, session'[w])
  BY KnownSessions
<1>2. /\ Carried(KnownMessages(B)) /\ KnownFiles(B)
      /\ \A x \in shared \cup signed : OneEach(B, x.tx.halves)
  BY DEF KnownBy
<1>3. Carried(KnownMessages(C))'
  <2>1. Carried(KnownMessages(C))
    BY <1>1, <1>2, MoreHalves, MoreCarried
  <2>2. \A w \in Wallets : HasSession(w)' => Says(session'[w]) \in KnownMessages(C)
    BY <1>1, SaysKnown DEF Sound, TypeOK, HasSession
  <2> QED
    BY <2>1, <2>2, CarriedOn
<1>4. KnownFiles(C)'
  <2>1. ASSUME NEW w \in Wallets, NEW r \in kept'[w]
        PROVE  OneEach(C, r.tx.halves) /\ Names(r.sid, r.tx.halves)
    <3>1. CASE r \in kept[w]
      <4>1. OneEach(B, r.tx.halves) /\ Names(r.sid, r.tx.halves)
        BY <1>2, <3>1 DEF KnownFiles
      <4> QED
        BY <1>1, <4>1, MoreHalves
    <3>2. CASE r \notin kept[w]
      <4>1. HasSession(w) /\ r = [sid |-> session[w].sid, tx |-> TxOf(session[w].psbt)]
        BY <3>2, KeptAfter
      <4>2. KnownSession(C, w, session[w])
        BY <1>1, <1>2, <4>1, MoreHalves DEF KnownFiles
      <4>3. r.sid = session[w].sid /\ r.tx.halves = session[w].psbt.halves
        BY <4>1 DEF TxOf
      <4> QED
        BY <4>2, <4>3 DEF KnownSession
    <3> QED
      BY <3>1, <3>2
  <2> QED
    BY <1>1, <2>1 DEF KnownFiles
<1>5. \A x \in shared' \cup signed' : OneEach(C, x.tx.halves)
  <2>1. CASE UNCHANGED <<shared, signed>>
    BY <1>1, <1>2, <2>1, MoreHalves
  <2>2. ASSUME NEW w \in Wallets, Answered(w)
        PROVE  \A x \in shared' \cup signed' : OneEach(C, x.tx.halves)
    <3>1. HasSession(w) /\ \A x \in shared' \cup signed' :
             x \in shared \cup signed \/ x.tx = TxOf(session[w].psbt)
      BY <2>2 DEF Answered, Becomes, Marks
    <3>2. OneEach(C, TxOf(session[w].psbt).halves)
      <4>1. KnownSession(C, w, session[w])
        BY <1>1, <1>2, <3>1, MoreHalves DEF KnownFiles
      <4>2. OneEach(C, session[w].psbt.halves)
        BY <4>1 DEF KnownSession
      <4> QED
        BY <4>2 DEF TxOf
    <3> QED
      BY <1>1, <1>2, <3>1, <3>2, MoreHalves
  <2>3. (\E w \in Wallets : Answered(w)) \/ UNCHANGED <<shared, signed>>
    BY StepChanges DEF Changes, GoesOn, Still, Started, Joined, Left, Heard, Cleared, Ended
  <2> QED
    BY <2>1, <2>2, <2>3
<1> QED
  BY <1>1, <1>3, <1>4, <1>5 DEF KnownBy

-----------------------------------------------------------------------------
(* The owner's session of a half decides which transaction it goes into:   *)
(* when a coin of it has a share, that is the transaction of the session,  *)
(* for as long as the session is about this half.                          *)
SharesBound ==
  \A x \in shared : \A h \in x.tx.halves :
    x.coin \in h.coins /\ HasSession(h.owner) /\ h \in session[h.owner].psbt.halves
    => session[h.owner].stage # "Proposed" /\ TxOf(session[h.owner].psbt) = x.tx

(* A signer adds to its own coins only.                                    *)
LEMMA AnswerAdds ==
  ASSUME NEW s \in Session, NEW answer \in Answers(s)
  PROVE  answer.shares \subseteq s.mine
<1>1. \A shares, sigs : Answer(s, shares, sigs).shares = shares
  BY DEF Answer, Session, Psbt
<1> QED
  BY <1>1 DEF Answers, WholeAnswer, PartialAnswers

(* Which half of the transaction has a coin of this wallet: its own.       *)
LEMMA OwnCoins ==
  ASSUME NEW B, BuiltHalves(B), NEW w \in Wallets, NEW s, KnownSession(B, w, s),
         NEW h \in s.psbt.halves, NEW c \in s.mine, c \in h.coins
  PROVE  h.owner = w
<1>1. PICK k \in s.psbt.halves : k.owner = w /\ k.coins = s.mine
  BY DEF KnownSession
<1>2. h \in B /\ k \in B
  BY DEF KnownSession, OneEach
<1>3. PICK d, e \in Deals : h.coins \in Picks[h.owner][d] /\ k.coins \in Picks[w][e]
  BY <1>1, <1>2 DEF BuiltHalves
<1>4. h.owner \in Wallets /\ c \in h.coins \cap k.coins
  BY <1>1, <1>2 DEF BuiltHalves, Half
<1> QED
  BY <1>3, <1>4, PicksAssumption

(* The transaction of a session that has its halves stays the same.        *)
LEMMA SameTx ==
  ASSUME NEW w, NEW s \in Session, NEW r, Continues(w, s, r), s.stage # "Proposed"
  PROVE  TxOf(r.psbt) = TxOf(s.psbt) /\ r.stage # "Proposed"
BY DEF Continues, TxOf, Extends, StageNo

(* What Answered(w) adds to the shares.                                    *)
LEMMA NewShares ==
  ASSUME Sound, NEW B, KnownBy(B), NEW w \in Wallets, Answered(w)
  PROVE  LET s == session[w] IN
         /\ s.stage # "Proposed" /\ TxOf(session'[w].psbt) = TxOf(s.psbt)
         /\ \A x \in shared' \ shared :
              /\ x.tx = TxOf(s.psbt)
              /\ \A h \in s.psbt.halves : x.coin \in h.coins => h.owner = w
<1> DEFINE s == session[w]
<1>1. /\ s \in Session /\ HasSession(w) /\ Continues(w, s, session'[w])
      /\ KnownSession(B, w, s) /\ BuiltHalves(B)
  BY SessionGoesOn DEF GoesOn, KnownBy, KnownFiles
<1>2. PICK answer \in Answers(s) :
        /\ RespondAccepts(s, answer)
        /\ shared' = shared \cup Marks(answer.shares, TxOf(s.psbt))
  BY DEF Answered
<1>3. s.stage = "Active"
  BY <1>2 DEF RespondAccepts, MyTurn
<1>4. answer.shares \subseteq s.mine
  BY <1>1, AnswerAdds
<1>5. \A x \in shared' \ shared : x.tx = TxOf(s.psbt) /\ x.coin \in s.mine
  BY <1>2, <1>4 DEF Marks
<1> HIDE DEF s
<1>6. \A x \in shared' \ shared : \A h \in s.psbt.halves : x.coin \in h.coins => h.owner = w
  BY <1>1, <1>5, OwnCoins
<1>7. TxOf(session'[w].psbt) = TxOf(s.psbt)
  BY <1>1, <1>3, SameTx
<1> QED
  BY <1>3, <1>5, <1>6, <1>7 DEF s

(* A half of this wallet in its session after a step was there before,     *)
(* unless the send has just begun.                                         *)
LEMMA HalfWasThere ==
  ASSUME Sound, NEW B, KnownBy(B), NEW w \in Wallets, GoesOn(w),
         NEW h \in session'[w].psbt.halves, h.owner = w
  PROVE  h \in session[w].psbt.halves
<1> DEFINE s == session[w]
           r == session'[w]
<1>1. /\ Continues(w, s, r) /\ KnownSession(B, w, s)
      /\ inbox[w] \in Seq(KnownMessages(B))
  BY SessionGoesOn DEF KnownBy, KnownFiles, Carried
<1> HIDE DEF s, r
<1>2. CASE r.psbt.halves = s.psbt.halves
  BY <1>2 DEF s, r
<1>3. ASSUME NEW i \in DOMAIN inbox[w], s.psbt.halves \subseteq inbox[w][i].psbt.halves,
             r.psbt.halves = inbox[w][i].psbt.halves
      PROVE  h \in s.psbt.halves
  <2>1. PICK k \in s.psbt.halves : k.owner = w
    BY <1>1 DEF KnownSession
  <2>2. inbox[w][i] \in KnownMessages(B)
    BY <1>1
  <2>3. h = k
    BY <1>3, <2>1, <2>2 DEF KnownMessages, OneEach, r
  <2> QED
    BY <2>1, <2>3
<1> QED
  BY <1>1, <1>2, <1>3 DEF Continues, s

LEMMA BoundStep ==
  ASSUME Sound, [Next]_vars, NEW B, KnownBy(B), SharesBound
  PROVE  SharesBound'
<1> SUFFICES ASSUME NEW x \in shared', NEW h \in x.tx.halves, x.coin \in h.coins,
                    HasSession(h.owner)', h \in session'[h.owner].psbt.halves
             PROVE  /\ session'[h.owner].stage # "Proposed"
                    /\ TxOf(session'[h.owner].psbt) = x.tx
  BY DEF SharesBound, HasSession
<1> DEFINE w == h.owner
           Goal == session'[w].stage # "Proposed" /\ TxOf(session'[w].psbt) = x.tx
<1>0. /\ BuiltHalves(B) /\ \A y \in shared : OneEach(B, y.tx.halves)
      /\ \A v \in Wallets : HasSession(v) => session[v] \in Session
      /\ \A v \in Wallets : HasSession(v) => KnownSession(B, v, session[v])
  BY DEF KnownBy, KnownFiles, Sound, TypeOK, HasSession
<1>1. CASE x \in shared
  <2>1. h \in B /\ w \in Wallets
    BY <1>0, <1>1 DEF OneEach, BuiltHalves, Half
  <2>2. HasSession(w) /\ h \in session[w].psbt.halves
        => session[w].stage # "Proposed" /\ TxOf(session[w].psbt) = x.tx
    BY <1>1 DEF SharesBound
  <2> HIDE DEF w
  <2>3. CASE session'[w] = session[w]
    BY <2>2, <2>3 DEF HasSession, w
  <2>4. CASE session'[w] # session[w]
    <3>1. Changes(w)
      BY <2>1, <2>4, ChangedBy
    <3>2. CASE Left(w)
      BY <2>1, <3>2 DEF Left, HasSession, Sound, TypeOK, w
    <3>3. CASE Started(w) \/ Joined(w)
      <4>1. PICK k : Begun(B, w, k)
        BY <2>1, <3>3, BeginsKnown
      <4>2. h = k /\ \A l \in B : SidOf(l) # SidOf(k)
        BY <4>1 DEF Begun, w
      <4> QED
        BY <2>1, <4>2
    <3>4. CASE GoesOn(w)
      <4>1. /\ session[w] \in Session /\ HasSession(w)
            /\ Continues(w, session[w], session'[w])
        BY <2>1, <3>4, SessionGoesOn
      <4>2. h \in session[w].psbt.halves
        BY <2>1, <3>4, HalfWasThere DEF w
      <4>3. session[w].stage # "Proposed" /\ TxOf(session[w].psbt) = x.tx
        BY <2>2, <4>1, <4>2
      <4> QED
        BY <4>1, <4>3, SameTx DEF w
    <3> QED
      BY <3>1, <3>2, <3>3, <3>4 DEF Changes, GoesOn, w
  <2> QED
    BY <2>3, <2>4
<1>2. CASE x \notin shared
  <2>1. PICK v \in Wallets : Answered(v)
    BY <1>2, StepChanges DEF Changes, GoesOn, Still, Started, Joined, Left, Heard, Cleared, Ended
  <2>2. /\ session[v].stage # "Proposed"
        /\ TxOf(session'[v].psbt) = TxOf(session[v].psbt)
        /\ x.tx = TxOf(session[v].psbt)
        /\ \A k \in session[v].psbt.halves : x.coin \in k.coins => k.owner = v
    BY <1>2, <2>1, NewShares
  <2>3. x.tx.halves = session[v].psbt.halves
    BY <2>2 DEF TxOf
  <2>4. w = v
    BY <2>2, <2>3
  <2>5. session'[v].stage # "Proposed"
    BY <2>1, <2>2, SessionGoesOn, SameTx DEF GoesOn
  <2> QED
    BY <2>2, <2>4, <2>5
<1> QED
  BY <1>1, <1>2

(* Two shares for coins of one half are shares in one transaction.         *)
SharedOnce == Payment!OneTxPerShare(shared)

LEMMA SharedOnceStep ==
  ASSUME Sound, [Next]_vars, NEW B, KnownBy(B), SharesBound, SharedOnce
  PROVE  SharedOnce'
<1>1. CASE shared' = shared
  BY <1>1 DEF SharedOnce, Payment!OneTxPerShare
<1>2. ASSUME NEW w \in Wallets, Answered(w)
      PROVE  SharedOnce'
  <2> DEFINE s == session[w]
  <2>1. /\ s.stage # "Proposed" /\ HasSession(w)
        /\ \A x \in shared' \ shared :
             /\ x.tx = TxOf(s.psbt)
             /\ \A h \in s.psbt.halves : x.coin \in h.coins => h.owner = w
    BY <1>2, NewShares DEF Answered, Becomes
  <2>2. TxOf(s.psbt).halves = s.psbt.halves
    BY DEF TxOf
  <2> HIDE DEF s
  <2>3. ASSUME NEW x \in shared' \ shared, NEW y \in shared, NEW h \in x.tx.halves \cap y.tx.halves,
               x.coin \in h.coins, y.coin \in h.coins
        PROVE  x.tx = y.tx
    <3>1. h \in s.psbt.halves /\ h.owner = w /\ x.tx = TxOf(s.psbt)
      BY <2>1, <2>2, <2>3
    <3>2. TxOf(s.psbt) = y.tx
      BY <2>1, <2>3, <3>1 DEF SharesBound, s
    <3> QED
      BY <3>1, <3>2
  <2>4. \A x, y \in shared' \ shared : x.tx = y.tx
    BY <2>1
  <2> QED
    BY <2>3, <2>4 DEF SharedOnce, Payment!OneTxPerShare
<1>3. shared' = shared \/ \E w \in Wallets : Answered(w)
  BY StepChanges DEF Changes, GoesOn, Still, Started, Joined, Left, Heard, Cleared, Ended
<1> QED
  BY <1>1, <1>2, <1>3

-----------------------------------------------------------------------------
(* The inductive invariant of this module.                                 *)
HalvesInv ==
  /\ Sound
  /\ \E B : KnownBy(B)
  /\ SharesBound
  /\ SharedOnce

LEMMA InitHalves == Init => HalvesInv
<1> SUFFICES ASSUME Init PROVE HalvesInv
  OBVIOUS
<1>1. KnownBy({})
  <2>1. BuiltHalves({})
    BY DEF BuiltHalves
  <2>2. Carried(KnownMessages({}))
    <3>1. << >> \in Seq(KnownMessages({}))
      BY NoMessages
    <3> QED
      BY <3>1, StartedRun DEF Carried, Init, HasSession
  <2>3. KnownFiles({})
    BY DEF KnownFiles, Init, HasSession
  <2> QED
    BY <2>1, <2>2, <2>3 DEF KnownBy, Init
<1>2. SharesBound /\ SharedOnce
  BY DEF SharesBound, SharedOnce, Payment!OneTxPerShare, Init
<1> QED
  BY <1>1, <1>2, InitSound DEF HalvesInv

LEMMA NextHalves == HalvesInv /\ [Next]_vars => HalvesInv'
<1> SUFFICES ASSUME HalvesInv, [Next]_vars PROVE HalvesInv'
  OBVIOUS
<1>1. Sound /\ SharesBound /\ SharedOnce
  BY DEF HalvesInv
<1>2. Sound'
  BY <1>1, NextSound
<1>3. PICK B : KnownBy(B)
  BY DEF HalvesInv
<1>4. \E C : KnownBy(C)'
  BY <1>1, <1>2, <1>3, KnownStep
<1>5. SharesBound'
  BY <1>1, <1>3, BoundStep
<1>6. SharedOnce'
  BY <1>1, <1>3, SharedOnceStep
<1> QED
  BY <1>2, <1>4, <1>5, <1>6 DEF HalvesInv

LEMMA Halves == Spec => []HalvesInv
BY InitHalves, NextHalves, PTL DEF Spec

-----------------------------------------------------------------------------
(* One transaction for every half, one outcome for every send.             *)

(* Every half in a transaction that has a share or a signature has coins.  *)
LEMMA HalvesHaveCoins ==
  ASSUME NEW B, BuiltHalves(B), NEW h \in B
  PROVE  h.coins # {}
<1>1. h.owner \in Wallets /\ \E d \in Deals : h.coins \in Picks[h.owner][d]
  BY DEF BuiltHalves, Half
<1>2. \A w \in Wallets, d \in Deals : {} \notin Picks[w][d]
  BY PicksAssumption
<1> QED
  BY <1>1, <1>2

LEMMA HalfOnce == HalvesInv => OneTxPerHalf
<1> SUFFICES ASSUME HalvesInv, NEW x \in signed, NEW y \in signed,
                    NEW h \in x.tx.halves \cap y.tx.halves
             PROVE  x.tx = y.tx
  BY DEF OneTxPerHalf
<1>1. PICK B : KnownBy(B)
  BY DEF HalvesInv
<1>2. PICK c : c \in h.coins
  BY <1>1, HalvesHaveCoins DEF KnownBy, OneEach
<1>3. /\ [coin |-> c, tx |-> x.tx] \in shared
      /\ [coin |-> c, tx |-> y.tx] \in shared
  BY <1>2 DEF HalvesInv, Sound, SignedOnlyWhenComplete, Marks, InputsOf
<1> QED
  BY <1>2, <1>3 DEF HalvesInv, SharedOnce, Payment!OneTxPerShare

(* Two transactions the network took with a half in common are one.        *)
LEMMA PaidOnce ==
  ASSUME HalvesInv, NEW B, BuiltHalves(B), NEW t \in chain, NEW u \in chain,
         NEW h \in B, h \in t.halves \cap u.halves
  PROVE  t = u
<1>1. PICK c : c \in h.coins
  BY HalvesHaveCoins
<1>2. [coin |-> c, tx |-> t] \in signed /\ [coin |-> c, tx |-> u] \in signed
  BY <1>1 DEF HalvesInv, Sound, PaidByConsent, Marks, InputsOf
<1>3. OneTxPerHalf
  BY HalfOnce
<1> QED
  BY <1>2, <1>3 DEF OneTxPerHalf

(* Whatever is given up, joined again or repeated: the halves a wallet     *)
(* builds (WalletLink::fund) are signed into one transaction at most, each.*)
THEOREM HalfSignedOnce == Spec => []OneTxPerHalf
BY Halves, HalfOnce, PTL

LEMMA OutcomeIsOne == HalvesInv => SameOutcome
<1> SUFFICES ASSUME HalvesInv, NEW w \in Wallets, NEW v \in Wallets
             PROVE  /\ \A r \in kept[w], q \in kept[v] : r.sid = q.sid => r.tx = q.tx
                    /\ HasSession(w) =>
                         \A q \in kept[v] : q.sid = session[w].sid => session[w].txid \subseteq {q.tx}
  BY DEF SameOutcome
<1>1. PICK B : KnownBy(B)
  BY DEF HalvesInv
<1>2. BuiltHalves(B) /\ \A h, k \in B : SidOf(h) = SidOf(k) => h = k
  BY <1>1 DEF KnownBy, BuiltHalves
<1>3. \A t, u \in chain : \A sid :
        /\ OneEach(B, t.halves) /\ Names(sid, t.halves)
        /\ OneEach(B, u.halves) /\ Names(sid, u.halves)
        => t = u
  <2> SUFFICES ASSUME NEW t \in chain, NEW u \in chain, NEW sid,
                      OneEach(B, t.halves), Names(sid, t.halves),
                      OneEach(B, u.halves), Names(sid, u.halves)
               PROVE  t = u
    OBVIOUS
  <2>1. PICK h \in t.halves, k \in u.halves : SidOf(h) = sid /\ SidOf(k) = sid
    BY DEF Names
  <2>2. h \in B /\ k \in B
    BY DEF OneEach
  <2>3. h = k
    BY <1>2, <2>1, <2>2
  <2> QED
    BY <1>2, <2>2, <2>3, PaidOnce
<1>4. \A x \in Wallets : \A r \in kept[x] :
        r.tx \in chain /\ OneEach(B, r.tx.halves) /\ Names(r.sid, r.tx.halves)
  BY <1>1 DEF HalvesInv, Sound, SoundFiles, KnownBy, KnownFiles
<1>5. ASSUME HasSession(w), NEW t \in session[w].txid
      PROVE  t \in chain /\ OneEach(B, t.halves) /\ Names(session[w].sid, t.halves)
  <2>1. session[w] \in SoundSession(shared, signed, chain)
    BY <1>5, SessionSound DEF HalvesInv
  <2>2. t = TxOf(session[w].psbt) /\ t \in chain
    BY <1>5, <2>1, SessionParts
  <2>3. t.halves = session[w].psbt.halves
    BY <2>2 DEF TxOf
  <2>4. KnownSession(B, w, session[w])
    BY <1>1, <1>5 DEF KnownBy, KnownFiles
  <2> QED
    BY <2>2, <2>3, <2>4 DEF KnownSession
<1> QED
  BY ZenonT(30), <1>3, <1>4, <1>5

(* What two wallets record of one shared send (Store::retire, the txid of  *)
(* Session) is one transaction.                                            *)
THEOREM OneOutcome == Spec => []SameOutcome
BY Halves, OutcomeIsOne, PTL

-----------------------------------------------------------------------------
(* What no step takes back.                                                *)

LEMMA StepExtends ==
  ASSUME HalvesInv, [Next]_vars, NEW w \in Wallets,
         HasSession(w), HasSession(w)', session[w].sid = session'[w].sid
  PROVE  Extends(session[w], session'[w])
<1>0. PICK B : KnownBy(B)
  BY DEF HalvesInv
<1>1. Sound /\ session[w] \in Session /\ KnownSession(B, w, session[w])
  BY <1>0 DEF HalvesInv, Sound, TypeOK, HasSession, KnownBy, KnownFiles
<1>2. CASE session'[w] = session[w]
  BY <1>1, <1>2 DEF Extends, StageNo, Session, Stage
<1>3. CASE session'[w] # session[w]
  <2>1. Changes(w)
    BY <1>1, <1>3, ChangedBy
  <2>2. CASE Left(w)
    BY <1>1, <2>2 DEF Left, HasSession, Sound, TypeOK
  <2>3. CASE Started(w) \/ Joined(w)
    <3>1. PICK h : Begun(B, w, h)
      BY <1>0, <1>1, <2>3, BeginsKnown
    <3>2. session'[w].sid = SidOf(h) /\ \A k \in B : SidOf(k) # SidOf(h)
      BY <3>1 DEF Begun
    <3> QED
      BY <1>1, <3>2 DEF KnownSession, Names, OneEach
  <2>4. CASE GoesOn(w)
    BY <1>1, <2>4, SessionGoesOn DEF Continues
  <2> QED
    BY <2>1, <2>2, <2>3, <2>4 DEF Changes, GoesOn
<1> QED
  BY <1>2, <1>3

(* Session::receive, respond and finish add to a session and never take a  *)
(* share, a signature or the transaction itself back.                      *)
THEOREM SessionsOnlyGrow == Spec => NothingTakenBack
<1>1. HalvesInv /\ [Next]_vars =>
        [\A w \in Wallets :
           HasSession(w) /\ HasSession(w)' /\ session[w].sid = session'[w].sid
           => Extends(session[w], session'[w])]_vars
  BY StepExtends
<1> QED
  BY <1>1, Halves, PTL DEF Spec, NothingTakenBack

(* A session that says Done stays the send it is.                          *)
LEMMA DoneStays ==
  ASSUME Sound, NEW w \in Wallets, GoesOn(w), session[w].stage = "Done"
  PROVE  session'[w].txid = session[w].txid
<1> DEFINE s == session[w]
<1>0. /\ session \in [Wallets -> Session \cup {NoSession}]
      /\ s \in Session
  BY SessionGoesOn DEF Sound, TypeOK
<1>1. CASE Heard(w)
  <2>1. PICK i \in DOMAIN inbox[w] : session'[w] = Received(s, inbox[w][i])
    BY <1>0, <1>1 DEF Heard, Becomes
  <2>2. Received(s, inbox[w][i]) = s
    BY DEF Received
  <2> QED
    BY <2>1, <2>2
<1>2. CASE Cleared(w)
  <2>1. session'[w] = [s EXCEPT !.outbox = << >>]
    BY <1>0, <1>2 DEF Cleared, Becomes
  <2> QED
    BY <1>0, <2>1 DEF Session
<1>3. CASE Ended(w) \/ Answered(w)
  BY <1>3 DEF Ended, Answered, RespondAccepts, MyTurn
<1> QED
  BY <1>1, <1>2, <1>3 DEF GoesOn

(* What a session that is retired says is in its record.                   *)
LEMMA StepRecords ==
  ASSUME Sound, [Next]_vars, NEW w \in Wallets
  PROVE  Recorded(w) \subseteq Recorded(w)'
<1>0. /\ session \in [Wallets -> Session \cup {NoSession}]
      /\ kept \in [Wallets -> SUBSET Record] /\ kept[w] \subseteq kept'[w]
  BY KeptAfter DEF Sound, TypeOK
<1> DEFINE mine == {[sid |-> session[w].sid, tx |-> t] : t \in session[w].txid}
<1>1. ASSUME HasSession(w) PROVE mine \subseteq Recorded(w)'
  <2>1. CASE session'[w] = session[w]
    BY <1>1, <2>1 DEF Recorded, HasSession
  <2>2. CASE session[w].stage # "Done"
    <3>1. session[w].txid = {}
      BY <1>1, <2>2, SessionSound, SessionParts
    <3> QED
      BY <3>1
  <2>3. CASE session'[w] # session[w] /\ session[w].stage = "Done"
    <3>1. Changes(w)
      BY <2>3, ChangedBy
    <3>2. CASE Started(w) \/ Left(w)
      <4>1. Retire(w)
        BY <1>1, <2>3, <3>2 DEF Started, Left, GiveUp, Unfinished
      <4>2. mine \subseteq kept'[w]
        BY <1>0, <1>1, <2>3, <4>1 DEF Retire, Unfinished
      <4> QED
        BY <4>2 DEF Recorded
    <3>3. CASE Joined(w)
      BY <1>1, <3>3 DEF Joined
    <3>4. CASE GoesOn(w)
      <4>1. session'[w].txid = session[w].txid
        BY <2>3, <3>4, DoneStays
      <4>2. session'[w].sid = session[w].sid
        BY <3>4, SessionGoesOn DEF Continues
      <4>3. HasSession(w)'
        BY <3>4, GoesOnType
      <4> QED
        BY <4>1, <4>2, <4>3 DEF Recorded
    <3> QED
      BY <3>1, <3>2, <3>3, <3>4 DEF Changes
  <2> QED
    BY <2>1, <2>2, <2>3
<1> QED
  BY <1>0, <1>1 DEF Recorded, HasSession

(* Store::retire: whichever command comes next, the transaction a finished *)
(* send became stays on record.                                            *)
THEOREM RecordsStay == Spec => RecordsKept
<1>1. Sound /\ [Next]_vars => [\A w \in Wallets : Recorded(w) \subseteq Recorded(w)']_vars
  BY StepRecords
<1> QED
  BY <1>1, Soundness, PTL DEF Spec, RecordsKept

-----------------------------------------------------------------------------
(* SharedSend implements SharedPayment.                                    *)

(* The network takes a transaction in two kinds of step only.              *)
Pays(w) ==
  /\ HasSession(w) /\ Ready(session[w])
  /\ Takes(TxOf(session[w].psbt))
  /\ chain' = chain \cup {TxOf(session[w].psbt)}
  /\ UNCHANGED <<session, kept, shared, signed>>

LEMMA ChainAfter ==
  ASSUME [Next]_vars
  PROVE  chain' = chain \/ \E w \in Wallets : Pays(w)
<1> USE DEF disk, world, history
<1>1. ASSUME Block \/ UNCHANGED vars PROVE chain' = chain
  BY <1>1 DEF Block, vars
<1>2. ASSUME NEW w \in Wallets, Users(w) PROVE chain' = chain
  BY <1>2 DEF Users, ResumeStart, StartNew, StartFails, RunJoin, GiveUp, Sync
<1>3. ASSUME NEW w \in Wallets, Broadcast(w) \/ BroadcastUnanswered(w) PROVE Pays(w)
  BY <1>3 DEF Broadcast, BroadcastUnanswered, Broadcasting, Pays
<1>4. ASSUME NEW w \in Wallets,
             \/ SendOne(w) \/ ClearOutbox(w) \/ HandleMessage(w) \/ DropMessage(w)
             \/ JoinProposal(w) \/ JoinFails(w) \/ EndDone(w) \/ Grace(w)
             \/ BroadcastRefused(w) \/ Finish(w) \/ Visit(w) \/ AnswerRefused(w)
             \/ Receive(w) \/ StoreBatch(w) \/ Stop(w)
      PROVE  chain' = chain
  BY <1>4 DEF SendOne, ClearOutbox, HandleMessage, DropMessage, JoinProposal, JoinFails,
              EndDone, Grace, BroadcastRefused, Finish, Visit, AnswerRefused, Receive,
              StoreBatch, Stop
<1> QED
  BY <1>1, <1>2, <1>3, <1>4 DEF Next, Step

(* What a wallet records as paid grows by what its session says then.      *)
DoneOf(w) == {r.tx : r \in Recorded(w)}

LEMMA DoneAfter ==
  ASSUME Sound, [Next]_vars, NEW w \in Wallets
  PROVE  /\ HasSession(w)' => DoneOf(w)' = DoneOf(w) \cup session'[w].txid
         /\ ~HasSession(w)' => DoneOf(w)' = DoneOf(w)
         /\ session'[w] = session[w] => DoneOf(w)' = DoneOf(w)
<1> DEFINE said == {[sid |-> session'[w].sid, tx |-> t] : t \in session'[w].txid}
<1>1. Recorded(w) \subseteq Recorded(w)'
  BY StepRecords
<1>2. kept'[w] \subseteq Recorded(w)
  <2> SUFFICES ASSUME NEW r \in kept'[w], r \notin kept[w]
               PROVE  r \in Recorded(w)
    BY DEF Recorded
  <2>1. /\ HasSession(w) /\ session[w].stage = "Done"
        /\ r = [sid |-> session[w].sid, tx |-> TxOf(session[w].psbt)]
    BY KeptAfter
  <2>2. session[w].txid = {TxOf(session[w].psbt)}
    BY <2>1, SessionSound, SessionParts
  <2> QED
    BY <2>1, <2>2 DEF Recorded
<1>3. /\ HasSession(w)' => Recorded(w)' = kept'[w] \cup said
      /\ ~HasSession(w)' => Recorded(w)' = kept'[w]
  BY DEF Recorded, HasSession
<1>4. {r.tx : r \in said} = session'[w].txid
  <2>1. \A t \in session'[w].txid : \E r \in said : r.tx = t
    <3> SUFFICES ASSUME NEW t \in session'[w].txid
                 PROVE  \E r \in said : r.tx = t
      OBVIOUS
    <3>1. [sid |-> session'[w].sid, tx |-> t] \in said
      OBVIOUS
    <3>2. [sid |-> session'[w].sid, tx |-> t].tx = t
      OBVIOUS
    <3> QED
      BY <3>1, <3>2
  <2>2. \A r \in said : r.tx \in session'[w].txid
    OBVIOUS
  <2> HIDE DEF said
  <2> QED
    BY <2>1, <2>2
<1> HIDE DEF said
<1>5. CASE HasSession(w)'
  <2>1. Recorded(w)' = Recorded(w) \cup said
    BY <1>1, <1>2, <1>3, <1>5
  <2>2. DoneOf(w)' = DoneOf(w) \cup session'[w].txid
    BY <1>4, <2>1 DEF DoneOf
  <2>3. session'[w] = session[w] => session'[w].txid \subseteq DoneOf(w)
    <3> SUFFICES ASSUME session'[w] = session[w], NEW t \in session[w].txid
                 PROVE  t \in DoneOf(w)
      OBVIOUS
    <3>1. [sid |-> session[w].sid, tx |-> t] \in Recorded(w)
      BY <1>5 DEF Recorded, HasSession
    <3> QED
      BY <3>1 DEF DoneOf
  <2> QED
    BY <1>5, <2>2, <2>3
<1>6. CASE ~HasSession(w)'
  BY <1>1, <1>2, <1>3, <1>6 DEF DoneOf
<1> QED
  BY <1>5, <1>6

LEMMA InitPayment == Init => Payment!Init
<1> SUFFICES ASSUME Init PROVE Payment!Init
  OBVIOUS
<1>1. \A w \in Wallets : Recorded(w) = {}
  BY DEF Init, Recorded, HasSession
<1> QED
  BY <1>1 DEF Init, Payment!Init

(* The visits: a signer's answer.                                          *)
LEMMA VisitPayment ==
  ASSUME HalvesInv, [Next]_vars, chain' = chain, NEW w \in Wallets, Answered(w)
  PROVE  [Payment!Next]_(Payment!vars)
<1> DEFINE s == session[w]
           t == TxOf(s.psbt)
<1>0. /\ Sound /\ Sound' /\ HalvesInv'
      /\ s \in SoundSession(shared, signed, chain)
      /\ session \in [Wallets -> Session \cup {NoSession}]
  BY NextHalves, SessionSound, SessionGoesOn DEF HalvesInv, GoesOn, Sound, TypeOK
<1>1. PICK answer \in Answers(s) :
        /\ RespondAccepts(s, answer)
        /\ session'[w] = Responded(s, answer)
        /\ shared' = shared \cup Marks(answer.shares, t)
        /\ signed' = signed \cup Marks(answer.sigs, t)
  BY <1>0 DEF Answered, Becomes
<1>2. answer.shares \subseteq InputsOf(s.psbt) /\ answer.sigs \subseteq InputsOf(s.psbt)
  BY <1>0, <1>1, SessionParts DEF RespondAccepts, AbsorbAccepts
<1>3. Payment!InputsOf(t) = InputsOf(s.psbt) /\ InputsOf(t) = InputsOf(s.psbt)
  BY DEF Payment!InputsOf, InputsOf, TxOf
<1>4. \A v \in Wallets : DoneOf(v)' = DoneOf(v)
  <2>1. session'[w].txid = {} /\ \A v \in Wallets \ {w} : session'[v] = session[v]
    <3>1. s.stage = "Active" /\ s.txid = {} /\ s \in Session
      BY <1>0, <1>1, SessionParts DEF RespondAccepts, MyTurn
    <3>2. answer \in Psbt
      BY <3>1, AnswerType
    <3>3. session'[w].txid = {}
      <4> HIDE DEF s
      <4> QED
        BY <1>1, <3>1, <3>2, RespondedKeeps
    <3> QED
      BY <1>0, <3>3, OthersStay DEF Changes, GoesOn
  <2> QED
    BY <1>0, <2>1, DoneAfter
<1>5. UNCHANGED [v \in Wallets |-> {r.tx : r \in Recorded(v)}]
  BY <1>4 DEF DoneOf
<1> HIDE DEF t
<1>6. CASE answer.shares \cup answer.sigs = {}
  BY <1>1, <1>5, <1>6 DEF Marks, Payment!vars
<1>7. CASE answer.shares \cup answer.sigs # {}
  <2>1. PICK x \in shared' \cup signed' : x.tx = t
    <3>1. PICK c : c \in answer.shares \cup answer.sigs
      BY <1>7
    <3>2. [coin |-> c, tx |-> t] \in shared' \cup signed'
      BY <1>1, <3>1 DEF Marks
    <3>3. [coin |-> c, tx |-> t].tx = t
      OBVIOUS
    <3> QED
      BY <3>2, <3>3
  <2>2. answer.sigs # {} => Marks(InputsOf(t), t) \subseteq shared'
    <3> SUFFICES ASSUME NEW c \in answer.sigs
                 PROVE  Marks(InputsOf(t), t) \subseteq shared'
      OBVIOUS
    <3>1. [coin |-> c, tx |-> t] \in signed'
      BY <1>1 DEF Marks
    <3> QED
      BY <1>0, <3>1 DEF Sound, SignedOnlyWhenComplete
  <2>3. Payment!OneTxPerShare(shared')
    BY <1>0 DEF HalvesInv, SharedOnce, Payment!OneTxPerShare
  <2>4. \A c, u : Payment!Marks(c, u) = Marks(c, u)
    BY DEF Payment!Marks, Marks
  <2>5. /\ answer.shares \in SUBSET Payment!InputsOf(x.tx)
        /\ answer.sigs \in SUBSET Payment!InputsOf(x.tx)
    BY <1>2, <1>3, <2>1
  <2>6. /\ shared' = shared \cup Payment!Marks(answer.shares, x.tx)
        /\ signed' = signed \cup Payment!Marks(answer.sigs, x.tx)
        /\ answer.sigs # {} => Payment!Marks(Payment!InputsOf(x.tx), x.tx) \subseteq shared'
    BY <1>1, <1>3, <2>1, <2>2, <2>4
  <2>7. Payment!Visit
    BY <1>5, <2>1, <2>3, <2>5, <2>6 DEF Payment!Visit
  <2> QED
    BY <2>7 DEF Payment!Next
<1> QED
  BY <1>6, <1>7

LEMMA NextPayment == HalvesInv /\ [Next]_vars => [Payment!Next]_(Payment!vars)
<1> SUFFICES ASSUME HalvesInv, [Next]_vars PROVE [Payment!Next]_(Payment!vars)
  OBVIOUS
<1>0. Sound /\ Sound'
  BY NextHalves DEF HalvesInv
<1>1. ASSUME NEW w \in Wallets, Pays(w)
      PROVE  Payment!Pay
  <2> DEFINE t == TxOf(session[w].psbt)
  <2>1. /\ chain' = chain \cup {t} /\ UNCHANGED <<shared, signed>>
        /\ \A u \in chain : u # t => InputsOf(u) \cap InputsOf(t) = {}
    BY <1>1 DEF Pays, Takes
  <2>2. Marks(InputsOf(t), t) \subseteq signed
    <3>1. session[w].psbt \in SoundPsbt(shared, signed)
      BY <1>0, <1>1, SessionSound, SessionParts DEF Pays
    <3>2. InputsOf(t) = session[w].psbt.sigs
      BY <1>1 DEF Pays, Ready, InputsOf, TxOf
    <3> QED
      BY <3>1, <3>2 DEF SoundPsbt
  <2>3. \A v \in Wallets : DoneOf(v)' = DoneOf(v)
    BY <1>0, <1>1, DoneAfter DEF Pays
  <2>4. UNCHANGED [v \in Wallets |-> {r.tx : r \in Recorded(v)}]
    BY <2>3 DEF DoneOf
  <2>5. \A u : Payment!InputsOf(u) = InputsOf(u) /\ Payment!Marks(InputsOf(u), u) = Marks(InputsOf(u), u)
    BY DEF Payment!InputsOf, InputsOf, Payment!Marks, Marks
  <2> HIDE DEF t
  <2> QED
    BY <2>1, <2>2, <2>4, <2>5 DEF Payment!Pay
<1>2. ASSUME chain' = chain, UNCHANGED <<shared, signed>>
      PROVE  [Payment!Next]_(Payment!vars)
  <2> DEFINE done == [v \in Wallets |-> {r.tx : r \in Recorded(v)}]
  <2>1. \A v \in Wallets : done[v] = DoneOf(v) /\ done'[v] = DoneOf(v)'
    BY DEF DoneOf
  <2>2. CASE \A v \in Wallets : DoneOf(v)' = DoneOf(v)
    <3>1. done' = done
      BY <2>1, <2>2
    <3> QED
      BY <1>2, <3>1 DEF Payment!vars
  <2>3. ASSUME NEW w \in Wallets, DoneOf(w)' # DoneOf(w)
        PROVE  Payment!Learn
    <3>1. HasSession(w)' /\ session'[w] # session[w]
          /\ DoneOf(w)' = DoneOf(w) \cup session'[w].txid
      BY <1>0, <2>3, DoneAfter
    <3>2. \A v \in Wallets \ {w} : session'[v] = session[v]
      BY <1>0, <3>1, ChangedBy, OthersStay
    <3>3. \A v \in Wallets \ {w} : DoneOf(v)' = DoneOf(v)
      BY <1>0, <3>2, DoneAfter
    <3>4. PICK t \in chain : session'[w].txid = {t}
      <4>1. session'[w] \in SoundSession(shared', signed', chain')
        BY <1>0, <3>1 DEF Sound, SoundFiles, HasSession
      <4>2. session'[w].txid # {}
        BY <2>3, <3>1
      <4>3. session'[w].txid = {TxOf(session'[w].psbt)} /\ session'[w].txid \subseteq chain'
        BY <4>1, <4>2, SessionParts
      <4> QED
        BY <1>2, <4>3
    <3>5. done' = [done EXCEPT ![w] = @ \cup {t}]
      BY <2>1, <3>1, <3>3, <3>4
    <3> QED
      BY <1>2, <3>5 DEF Payment!Learn
  <2> QED
    BY <2>2, <2>3 DEF Payment!Next
<1>3. (\E w \in Wallets : Answered(w)) \/ UNCHANGED <<shared, signed>>
  BY <1>0, StepChanges DEF Changes, GoesOn, Still, Started, Joined, Left, Heard, Cleared, Ended
<1>4. (\E w \in Wallets : Pays(w)) \/ chain' = chain
  BY ChainAfter
<1> QED
  BY <1>1, <1>2, <1>3, <1>4, VisitPayment DEF Payment!Next

(* The session files, messages and commands of any number of wallets do    *)
(* what the three steps of SharedPayment allow and nothing else.           *)
THEOREM PaymentImplemented == Spec => ImplementsPayment
BY InitPayment, NextPayment, Halves, PTL DEF Spec, ImplementsPayment, Payment!Spec

-----------------------------------------------------------------------------
(* The order of the messages.  What is on its way to a wallet, in its      *)
(* inbox, in the memory of its command and in the channel, is one queue;   *)
(* messages can be lost from it, but never overtake each other.            *)

(* q is p without some of its elements, those at gone among them.          *)
Thinned(q, p, gone) ==
  \E f \in [DOMAIN q -> DOMAIN p \ gone] :
    /\ \A i, j \in DOMAIN q : i < j => f[i] < f[j]
    /\ \A i \in DOMAIN q : q[i] = p[f[i]]

LEMMA ConcatIs ==
  ASSUME NEW S, NEW s \in Seq(S), NEW t \in Seq(S)
  PROVE  /\ s \o t \in Seq(S) /\ Len(s \o t) = Len(s) + Len(t)
         /\ \A k \in 1..Len(s) : (s \o t)[k] = s[k]
         /\ \A k \in 1..Len(t) : (s \o t)[k + Len(s)] = t[k]
OBVIOUS

LEMMA RemoveAtIs ==
  ASSUME NEW S, NEW s \in Seq(S), NEW i \in DOMAIN s
  PROVE  /\ RemoveAt(s, i) \in Seq(S) /\ Len(RemoveAt(s, i)) = Len(s) - 1
         /\ \A k \in 1..i-1 : RemoveAt(s, i)[k] = s[k]
         /\ \A k \in i..Len(s)-1 : RemoveAt(s, i)[k] = s[k + 1]
<1> DEFINE x == SubSeq(s, 1, i-1)
           y == SubSeq(s, i+1, Len(s))
<1>0. i \in 1..Len(s) /\ Len(s) \in Nat
  OBVIOUS
<1>1. /\ x \in Seq(S) /\ y \in Seq(S) /\ Len(x) = i-1 /\ Len(y) = Len(s)-i
      /\ \A k \in 1..i-1 : x[k] = s[k]
      /\ \A k \in 1..Len(s)-i : y[k] = s[k+i]
  BY <1>0
<1>2. RemoveAt(s, i) = x \o y
  BY DEF RemoveAt
<1> HIDE DEF x, y
<1>3. x \o y \in Seq(S) /\ Len(x \o y) = Len(s) - 1
  BY <1>0, <1>1
<1>4. \A k \in 1..i-1 : (x \o y)[k] = s[k]
  BY <1>0, <1>1, ConcatIs
<1>5. ASSUME NEW k \in i..Len(s)-1 PROVE (x \o y)[k] = s[k + 1]
  <2>1. k-(i-1) \in 1..Len(y) /\ k-(i-1)+i = k+1 /\ k-(i-1)+Len(x) = k
    <3>1. i \in Int /\ k \in Int /\ Len(s) \in Int /\ i <= k /\ k <= Len(s)-1
      BY <1>0
    <3>2. Len(x) = i-1 /\ Len(y) = Len(s)-i
      BY <1>1
    <3>3. \A a, b, n \in Int : a <= b /\ b <= n-1 =>
            b-(a-1) \in 1..n-a /\ b-(a-1)+a = b+1 /\ b-(a-1)+(a-1) = b
      OBVIOUS
    <3>4. k-(i-1) \in 1..Len(s)-i /\ k-(i-1)+i = k+1 /\ k-(i-1)+(i-1) = k
      BY <3>1, <3>3
    <3> QED
      BY <3>2, <3>4
  <2>2. PICK l \in 1..Len(y) : l = k-(i-1) /\ l+i = k+1 /\ l+Len(x) = k
    BY <2>1
  <2>3. (x \o y)[l + Len(x)] = y[l]
    <3>1. x \in Seq(S) /\ y \in Seq(S) /\ l \in 1..Len(y)
      BY <1>1
    <3> QED
      BY <3>1, ConcatIs
  <2>4. y[l] = s[l+i]
    BY <1>1, <2>2
  <2> QED
    BY <2>2, <2>3, <2>4
<1> QED
  BY <1>2, <1>3, <1>4, <1>5

LEMMA ThinnedTake ==
  ASSUME NEW S, NEW s \in Seq(S), NEW t \in Seq(S), NEW i \in DOMAIN s
  PROVE  Thinned(RemoveAt(s, i) \o t, s \o t, {i})
<1> DEFINE r == RemoveAt(s, i)
           q == r \o t
           p == s \o t
           n == Len(s)
           f == [k \in DOMAIN q |-> IF k < i THEN k ELSE k + 1]
<1>0. i \in 1..n /\ n \in Nat /\ Len(t) \in Nat
  OBVIOUS
<1>1. /\ r \in Seq(S) /\ Len(r) = n - 1
      /\ \A k \in 1..i-1 : r[k] = s[k]
      /\ \A k \in i..n-1 : r[k] = s[k + 1]
  BY RemoveAtIs
<1> HIDE DEF r, n
<1>2. /\ DOMAIN q = 1..n-1+Len(t) /\ DOMAIN p = 1..n+Len(t)
      /\ \A k \in 1..n : p[k] = s[k]
      /\ \A k \in 1..Len(t) : p[k+n] = t[k]
      /\ \A k \in 1..n-1 : q[k] = r[k]
      /\ \A k \in 1..Len(t) : q[k+(n-1)] = t[k]
  <2>1. DOMAIN q = 1..Len(r)+Len(t) /\ DOMAIN p = 1..Len(s)+Len(t)
    <3>1. /\ q \in Seq(S) /\ Len(q) = Len(r)+Len(t)
          /\ p \in Seq(S) /\ Len(p) = Len(s)+Len(t)
      BY <1>1, ConcatIs
    <3> HIDE DEF q, p
    <3> QED
      BY <3>1
  <2>2. /\ \A k \in 1..Len(r) : q[k] = r[k]
        /\ \A k \in 1..Len(t) : q[k+Len(r)] = t[k]
    BY <1>1, ConcatIs
  <2>3. /\ \A k \in 1..Len(s) : p[k] = s[k]
        /\ \A k \in 1..Len(t) : p[k+Len(s)] = t[k]
    BY ConcatIs
  <2> HIDE DEF q, p
  <2> QED
    BY <1>0, <1>1, <2>1, <2>2, <2>3 DEF n
<1> HIDE DEF q, p
<1>3. /\ f \in [DOMAIN q -> DOMAIN p \ {i}]
      /\ \A k, j \in DOMAIN q : k < j => f[k] < f[j]
  <2>1. \A k \in DOMAIN q : (IF k < i THEN k ELSE k + 1) \in DOMAIN p \ {i}
    BY <1>0, <1>2
  <2>2. f \in [DOMAIN q -> DOMAIN p \ {i}]
    BY <2>1
  <2>3. \A k, j \in DOMAIN q : k < j => f[k] < f[j]
    BY <1>0, <1>2
  <2> QED
    BY <2>2, <2>3
<1>4. ASSUME NEW k \in DOMAIN q PROVE q[k] = p[f[k]]
  <2>1. CASE k < i
    <3>1. k \in 1..i-1 /\ k \in 1..n-1 /\ k \in 1..n
      BY <1>0, <1>2, <2>1
    <3> QED
      BY <1>1, <1>2, <2>1, <3>1
  <2>2. CASE k >= i /\ k <= n-1
    BY <1>0, <1>1, <1>2, <2>2
  <2>3. CASE k > n-1
    <3>1. PICK l \in 1..Len(t) : l+(n-1) = k /\ l+n = k+1
      <4>1. k-(n-1) \in 1..Len(t) /\ k-(n-1)+(n-1) = k /\ k-(n-1)+n = k+1
        BY <1>0, <1>2, <2>3
      <4> QED
        BY <4>1
    <3>2. q[k] = t[l] /\ p[k+1] = t[l]
      <4>1. q[l+(n-1)] = t[l] /\ p[l+n] = t[l]
        BY <1>2
      <4> QED
        BY <3>1, <4>1
    <3>3. f[k] = k+1
      BY <1>0, <1>2, <2>3
    <3> QED
      BY <3>2, <3>3
  <2> QED
    BY <1>0, <1>2, <2>1, <2>2, <2>3
<1> HIDE DEF f
<1> QED
  BY <1>3, <1>4 DEF Thinned, q, p, r, n

LEMMA ThinnedDrop ==
  ASSUME NEW S, NEW s \in Seq(S), NEW t \in Seq(S), NEW u \in Seq(S)
  PROVE  Thinned(s \o u, s \o (t \o u), {})
<1> DEFINE q == s \o u
           p == s \o (t \o u)
           f == [k \in DOMAIN q |-> IF k <= Len(s) THEN k ELSE k + Len(t)]
<1>0. Len(s) \in Nat /\ Len(t) \in Nat /\ Len(u) \in Nat
  OBVIOUS
<1>1. /\ DOMAIN q = 1..Len(s)+Len(u)
      /\ \A k \in DOMAIN q : q[k] = IF k <= Len(s) THEN s[k] ELSE u[k-Len(s)]
  OBVIOUS
<1>2. /\ DOMAIN p = 1..Len(s)+Len(t)+Len(u)
      /\ \A k \in DOMAIN p : p[k] = IF k <= Len(s) THEN s[k]
                                     ELSE IF k <= Len(s) + Len(t) THEN t[k-Len(s)]
                                     ELSE u[k-Len(s)-Len(t)]
  OBVIOUS
<1> HIDE DEF q, p
<1>3. /\ f \in [DOMAIN q -> DOMAIN p \ {}]
      /\ \A k, j \in DOMAIN q : k < j => f[k] < f[j]
  BY <1>0, <1>1, <1>2
<1>4. \A k \in DOMAIN q : q[k] = p[f[k]]
  BY <1>0, <1>1, <1>2
<1> HIDE DEF f
<1> QED
  BY <1>3, <1>4 DEF Thinned, q, p

LEMMA ThinnedSame ==
  ASSUME NEW S, NEW s \in Seq(S)
  PROVE  Thinned(s, s, {})
<1> DEFINE f == [k \in DOMAIN s |-> k]
<1>1. f \in [DOMAIN s -> DOMAIN s \ {}] /\ \A k, j \in DOMAIN s : k < j => f[k] < f[j]
  OBVIOUS
<1>2. \A k \in DOMAIN s : s[k] = s[f[k]]
  OBVIOUS
<1> HIDE DEF f
<1> QED
  BY <1>1, <1>2 DEF Thinned

LEMMA ThinnedLess ==
  ASSUME NEW q, NEW p, NEW gone, Thinned(q, p, gone)
  PROVE  Thinned(q, p, {})
BY DEF Thinned

(* Messages that are stored stay where they are among all others.          *)
LEMMA MovedUp ==
  ASSUME NEW S, NEW s \in Seq(S), NEW t \in Seq(S), NEW u \in Seq(S)
  PROVE  s \o (t \o u) = (s \o t) \o (<< >> \o u)
OBVIOUS

(* The messages on their way to w, in the order w will act on them.        *)
Waiting(w) == inbox[w] \o (run[w].hand \o channel[w])

(* A proposal m does not bring, among these halves, another wallet's half  *)
(* that has one of these shares.                                           *)
Fresh(w, m, halves, shares) ==
  m.kind = "Proposal" =>
    \A h \in m.psbt.halves \cap halves : h.owner # w => h.coins \cap shares = {}

LEMMA FewerWait ==
  ASSUME Sound, [Next]_vars, NEW w \in Wallets,
         ~\E v \in Wallets \ {w} : SentBy(v, w)
  PROVE  Thinned(Waiting(w)', Waiting(w), {})
<1> DEFINE i == inbox[w]
           h == run[w].hand
           c == channel[w]
<1>0. /\ i \in Seq(Message) /\ h \in Seq(Message) /\ c \in Seq(Message)
      /\ << >> \in Seq(Message)
      /\ h \o c \in Seq(Message) /\ i \o (h \o c) \in Seq(Message)
  BY NoMessages, ConcatType DEF Sound, TypeOK, Run
<1>1. \A x \in Seq(Message) : x \o << >> = x /\ << >> \o x = x
  OBVIOUS
<1>6. \A x, y, z \in Seq(Message) : x \o (y \o z) = (x \o y) \o (<< >> \o z)
  BY MovedUp
<1>7. Waiting(w) \in Seq(Message)
  BY <1>0 DEF Waiting
<1>8. i \o (h \o c) = (i \o h) \o (<< >> \o c)
  <2> HIDE DEF i, h, c
  <2>1. i \in Seq(Message) /\ h \in Seq(Message) /\ c \in Seq(Message)
    BY <1>0
  <2> QED
    BY <1>6, <2>1
<1>2. CASE StayOrGo(w)
  <2>1. Waiting(w)' \in {i \o (h \o c), << >> \o (h \o c), i \o (<< >> \o c), << >> \o (<< >> \o c)}
    BY <1>2 DEF StayOrGo, Waiting
  <2>2. Waiting(w)' \in {i \o (h \o c), h \o c, i \o c, c}
    BY <1>0, <1>1, <2>1
  <2>3. Thinned(i \o (h \o c), i \o (h \o c), {})
    BY <1>0, ThinnedSame
  <2>4. Thinned(h \o c, i \o (h \o c), {})
    <3>1. Thinned(<< >> \o (h \o c), << >> \o (i \o (h \o c)), {})
      BY <1>0, ThinnedDrop
    <3> QED
      BY <1>0, <1>1, <3>1
  <2>5. Thinned(i \o c, i \o (h \o c), {})
    BY <1>0, ThinnedDrop
  <2>6. Thinned(c, i \o (h \o c), {})
    <3>1. Thinned(<< >> \o c, << >> \o ((i \o h) \o c), {})
      BY <1>0, ThinnedDrop, ConcatType
    <3>2. i \o (h \o c) = (i \o h) \o c /\ i \o h \in Seq(Message)
      BY <1>0, <1>1, <1>8, ConcatType
    <3>3. << >> \o c = c /\ << >> \o ((i \o h) \o c) = (i \o h) \o c
      BY <1>0, <1>1, <3>2, ConcatType
    <3> QED
      BY <3>1, <3>2, <3>3
  <2> HIDE DEF i, h, c
  <2> QED
    BY <2>2, <2>3, <2>4, <2>5, <2>6 DEF Waiting, i, h, c
<1>3. CASE OneTaken(w)
  <2>1. PICK k \in DOMAIN i : /\ inbox'[w] = RemoveAt(i, k)
                              /\ run'[w].hand = h /\ channel'[w] = c
    BY <1>3 DEF OneTaken
  <2>2. Thinned(RemoveAt(i, k) \o (h \o c), i \o (h \o c), {k})
    BY <1>0, ThinnedTake
  <2>3. Thinned(RemoveAt(i, k) \o (h \o c), i \o (h \o c), {})
    <3>1. \A q, p, g : Thinned(q, p, g) => Thinned(q, p, {})
      BY ThinnedLess
    <3> QED
      BY <2>2, <3>1
  <2> QED
    BY <2>1, <2>3 DEF Waiting
<1>4. CASE Returned(w)
  <2>1. Waiting(w)' = i \o (c \o << >>) /\ Waiting(w) = i \o (<< >> \o c)
    BY <1>4 DEF Returned, Waiting
  <2>2. i \o (c \o << >>) = i \o (<< >> \o c) /\ Waiting(w) \in Seq(Message)
    BY <1>0, <1>1, <2>1, ConcatType
  <2> QED
    BY <2>1, <2>2, ThinnedSame
<1>5. CASE Stored(w)
  <2>1. Waiting(w)' = (i \o h) \o (<< >> \o c) /\ Waiting(w) = i \o (h \o c)
    BY <1>5 DEF Stored, Waiting
  <2>2. Waiting(w)' = Waiting(w) /\ Waiting(w) \in Seq(Message)
    <3> HIDE DEF i, h, c
    <3> QED
      BY <1>7, <1>8, <2>1
  <2> QED
    BY <2>2, ThinnedSame
<1> QED
  BY <1>2, <1>3, <1>4, <1>5, MessagesMove

(* ... or one more message waits, behind all others.                       *)
LEMMA OneMoreWaits ==
  ASSUME Sound, NEW w \in Wallets, NEW v \in Wallets, SentBy(v, w)
  PROVE  \E k \in DOMAIN session[v].outbox :
           /\ session[v].outbox[k] \in Message
           /\ Waiting(w) \in Seq(Message)
           /\ Waiting(w)' = Append(Waiting(w), session[v].outbox[k])
<1>0. /\ inbox[w] \in Seq(Message) /\ run[w].hand \in Seq(Message) /\ channel[w] \in Seq(Message)
      /\ session[v].outbox \in Seq(Message)
  BY DEF Sound, TypeOK, Run, SentBy, HasSession, Session
<1>1. PICK k \in DOMAIN session[v].outbox :
        channel'[w] = Append(channel[w], session[v].outbox[k])
  BY DEF SentBy
<1> DEFINE m == session[v].outbox[k]
<1>2. m \in Message
  BY <1>0
<1>3. Waiting(w)' = inbox[w] \o (run[w].hand \o Append(channel[w], m))
  BY <1>1 DEF SentBy, Waiting
<1> HIDE DEF m
<1>4. Waiting(w)' = Append(Waiting(w), m)
  <2>1. \A x, y, z \in Seq(Message) : \A e \in Message :
          x \o (y \o Append(z, e)) = Append(x \o (y \o z), e)
    BY SMTT(30)
  <2>2. inbox[w] \o (run[w].hand \o Append(channel[w], m))
          = Append(inbox[w] \o (run[w].hand \o channel[w]), m)
    BY ZenonT(30), <1>0, <1>2, <2>1
  <2> QED
    BY <1>3, <2>2 DEF Waiting
<1>5. Waiting(w) \in Seq(Message)
  BY <1>0, ConcatType DEF Waiting
<1> QED
  BY <1>2, <1>4, <1>5 DEF m

(* The message a session hears is the first that waits.                    *)
LEMMA FirstHeard ==
  ASSUME Sound, NEW w \in Wallets, Heard(w)
  PROVE  /\ 1 \in DOMAIN Waiting(w) /\ Waiting(w)[1] = inbox[w][1] /\ 1 \in DOMAIN inbox[w]
         /\ session'[w] = Received(session[w], Waiting(w)[1])
         /\ Thinned(Waiting(w)', Waiting(w), {1})
<1>0. /\ inbox[w] \in Seq(Message) /\ run[w].hand \in Seq(Message) /\ channel[w] \in Seq(Message)
      /\ session \in [Wallets -> Session \cup {NoSession}]
  BY DEF Sound, TypeOK, Run
<1>1. /\ 1 \in DOMAIN inbox[w]
      /\ session'[w] = Received(session[w], inbox[w][1])
      /\ inbox'[w] = RemoveAt(inbox[w], 1)
      /\ run'[w].hand = run[w].hand /\ channel'[w] = channel[w]
  BY <1>0 DEF Heard, Becomes
<1> DEFINE t == run[w].hand \o channel[w]
<1>2. t \in Seq(Message)
  BY <1>0, ConcatType
<1>3. Waiting(w) = inbox[w] \o t /\ Waiting(w)' = RemoveAt(inbox[w], 1) \o t
  BY <1>1 DEF Waiting
<1> HIDE DEF t
<1>4. Thinned(Waiting(w)', Waiting(w), {1})
  BY <1>0, <1>1, <1>2, <1>3, ThinnedTake
<1>5. 1 \in DOMAIN Waiting(w) /\ Waiting(w)[1] = inbox[w][1]
  BY <1>0, <1>1, <1>2, <1>3
<1> QED
  BY <1>1, <1>4, <1>5

-----------------------------------------------------------------------------
(* What the order of the messages is good for.  The proposal of a send is  *)
(* sent before the proposer gives a share for it, and messages keep their  *)
(* order, so no proposal is behind a message, a session or a record that   *)
(* has shares on the proposer's half.                                      *)

InTurn ==
  \A w \in Wallets : \A i, j \in DOMAIN Waiting(w) : i < j =>
    Fresh(w, Waiting(w)[j], Waiting(w)[i].psbt.halves, Waiting(w)[i].psbt.shares)

HeldFirst ==
  \A w \in Wallets : HasSession(w) => \A j \in DOMAIN Waiting(w) :
    Fresh(w, Waiting(w)[j], session[w].psbt.halves, session[w].psbt.shares)

KeptLast ==
  \A w \in Wallets : \A r \in kept[w] : \A j \in DOMAIN Waiting(w) :
    Fresh(w, Waiting(w)[j], r.tx.halves, Coins)

(* A proposal is owed only while the session has no more than it says.     *)
Proposing ==
  \A w \in Wallets : HasSession(w) => \A k \in DOMAIN session[w].outbox :
    session[w].outbox[k].kind = "Proposal" =>
      /\ session[w].stage = "Proposed"
      /\ session[w].outbox[k].psbt.halves \subseteq session[w].psbt.halves

(* Nothing ends or is broadcast without every share.                       *)
DoneComplete ==
  \A w \in Wallets : HasSession(w) /\ (session[w].stage = "Done" \/ run[w].pushed)
    => session[w].psbt.script

(* receive: a half and a share on it come from what was held or from the   *)
(* message, and a session only ends with the script.                       *)
LEMMA ReceivedFrom ==
  ASSUME NEW s \in Session, NEW m \in Message,
         s.stage = "Proposed" => s.psbt.shares = {}
  PROVE  LET r == Received(s, m) IN
         /\ \A c \in r.psbt.shares :
              \/ c \in s.psbt.shares /\ r.psbt.halves = s.psbt.halves
              \/ c \in m.psbt.shares /\ r.psbt.halves = m.psbt.halves
         /\ r.stage = "Done" => r = s \/ r.psbt.script
<1> DEFINE base == UpdateBase(s, m)
           next == Absorbed(base, m.psbt)
           u == Updated(s, m)
           From(r) == \A c \in r.psbt.shares :
                        \/ c \in s.psbt.shares /\ r.psbt.halves = s.psbt.halves
                        \/ c \in m.psbt.shares /\ r.psbt.halves = m.psbt.halves
<1>0. s.psbt \in Psbt /\ m.psbt \in Psbt
  BY DEF Session, Message
<1>1. From(s)
  OBVIOUS
<1>2. ASSUME UpdateAccepts(s, m) PROVE From(u)
  <2>1. /\ base \in Psbt /\ base.shares = s.psbt.shares
        /\ base.halves = m.psbt.halves
        /\ s.stage # "Proposed" => base.halves = s.psbt.halves
    <3>1. base.halves = m.psbt.halves
      BY <1>2 DEF UpdateAccepts, AbsorbAccepts, SameSkeleton
    <3> QED
      BY <1>0, <3>1 DEF UpdateBase, AdoptedPsbt, Psbt
  <2> HIDE DEF base
  <2>2. next.shares = base.shares \cup m.psbt.shares /\ next.halves = base.halves
    BY <1>0, <2>1 DEF Absorbed, Psbt
  <2>3. u = s \/ u.psbt = next
    <3>1. u = IF s.stage = "Active" /\ next = s.psbt
              THEN s
              ELSE [s EXCEPT !.psbt = next, !.stage = "Active",
                             !.newest = "Theirs", !.peer = {m.from}]
      BY DEF Updated, base
    <3> HIDE DEF next, u
    <3> QED
      BY <3>1 DEF Session
  <2> HIDE DEF next, u
  <2>4. CASE u = s
    BY <1>1, <2>4
  <2>5. CASE u.psbt = next
    BY <2>1, <2>2, <2>5
  <2> QED
    BY <2>3, <2>4, <2>5
<1>3. CASE m.kind = "Update" /\ ForThisSend(s, m) /\ s.stage # "Done" /\ UpdateAccepts(s, m)
  <2>1. Received(s, m) = u /\ u.stage = "Active"
    BY <1>3, UpdatedKeeps DEF Received
  <2> QED
    BY <1>2, <1>3, <2>1
<1>4. CASE m.kind = "Done" /\ ForThisSend(s, m) /\ s.stage = "Active" /\ DoneAccepts(s, m)
  <2>1. UpdateAccepts(s, m) /\ u.psbt.script
    BY <1>4 DEF DoneAccepts, HasTx
  <2>2. Received(s, m) = [u EXCEPT !.stage = "Done", !.txid = m.txid]
    BY <1>4 DEF Received, DoneTaken
  <2>3. u = s \/ \E p : u = [s EXCEPT !.psbt = p, !.stage = "Active",
                                    !.newest = "Theirs", !.peer = {m.from}]
    BY DEF Updated
  <2>4. [u EXCEPT !.stage = "Done", !.txid = m.txid].psbt = u.psbt
    <3>1. CASE u = s
      BY <3>1 DEF Session
    <3>2. CASE u # s
      BY <2>3, <3>2 DEF Session
    <3> QED
      BY <3>1, <3>2
  <2> HIDE DEF u
  <2>5. From(u)
    BY <1>2, <2>1
  <2> QED
    BY <2>1, <2>2, <2>4, <2>5
<1>5. CASE Received(s, m) = s
  BY <1>1, <1>5
<1> QED
  BY <1>3, <1>4, <1>5 DEF Received

(* A step of w in which its command has just broadcast.                    *)
LEMMA PushedAfter ==
  ASSUME Sound, [Next]_vars, NEW w \in Wallets, run'[w].pushed
  PROVE  /\ session'[w] = session[w]
         /\ run[w].pushed \/ FinalizeAccepts(session[w].psbt)
<1> USE DEF disk, world, history, SetSession
<1>0. /\ session \in [Wallets -> Session \cup {NoSession}]
      /\ run \in [Wallets -> Run]
  BY DEF Sound, TypeOK
<1>1. CASE Block \/ UNCHANGED vars
  BY <1>1 DEF Block, vars
<1>2. ASSUME NEW v \in Wallets, Users(v)
      PROVE  session'[w] = session[w] /\ run[w].pushed
  <2>1. CASE Sync(v)
    BY <2>1 DEF Sync
  <2>2. CASE GiveUp(v)
    <3>1. v # w
      BY <2>2 DEF GiveUp, Sound, SoundTransit
    <3> QED
      BY <1>0, <2>2, <3>1 DEF GiveUp
  <2>3. ASSUME NEW d \in Deals, StartFails(v, d)
        PROVE  session'[w] = session[w] /\ run[w].pushed
    <3>1. v # w
      BY <2>3 DEF StartFails, Sound, SoundTransit
    <3> QED
      BY <1>0, <2>3, <3>1 DEF StartFails
  <2>4. ASSUME NEW d \in Deals, ResumeStart(v, d) \/ StartNew(v, d)
        PROVE  session'[w] = session[w] /\ run[w].pushed
    <3>1. v # w
      BY <1>0, <2>4, StartedRun DEF ResumeStart, StartNew
    <3> QED
      BY <1>0, <2>4, <3>1 DEF ResumeStart, StartNew
  <2>5. CASE RunJoin(v)
    <3>1. v # w
      BY <1>0, <2>5, StartedRun DEF RunJoin
    <3> QED
      BY <1>0, <2>5, <3>1 DEF RunJoin
  <2> QED
    BY <1>2, <2>1, <2>2, <2>3, <2>4, <2>5 DEF Users
<1>3. ASSUME NEW v \in Wallets, Step(v) \/ Stop(v), v # w
      PROVE  session'[w] = session[w] /\ run[w].pushed
  <2>1. /\ session' = session \/ \E s : session' = [session EXCEPT ![v] = s]
        /\ run' = run \/ \E r : run' = [run EXCEPT ![v] = r]
    <3>1. CASE Stop(v)
      BY <3>1 DEF Stop, EndInError
    <3>2. CASE \/ SendOne(v) \/ ClearOutbox(v) \/ HandleMessage(v) \/ DropMessage(v)
               \/ JoinProposal(v) \/ JoinFails(v) \/ EndDone(v)
      BY <3>2 DEF SendOne, ClearOutbox, HandleMessage, DropMessage, JoinProposal,
                  JoinFails, EndDone
    <3>3. CASE \/ Grace(v) \/ Broadcast(v) \/ BroadcastRefused(v) \/ BroadcastUnanswered(v)
               \/ Finish(v)
      BY <3>3 DEF Grace, Broadcast, BroadcastRefused, BroadcastUnanswered, Finish, EndInError
    <3>4. CASE Visit(v) \/ AnswerRefused(v) \/ Receive(v) \/ StoreBatch(v)
      BY <3>4 DEF Visit, AnswerRefused, Receive, StoreBatch, EndInError
    <3> QED
      BY <1>3, <3>1, <3>2, <3>3, <3>4 DEF Step
  <2> QED
    BY <1>0, <1>3, <2>1
<1>4. ASSUME Step(w) \/ Stop(w)
      PROVE  session'[w] = session[w] /\ (run[w].pushed \/ FinalizeAccepts(session[w].psbt))
  <2>1. CASE Stop(w)
    BY <1>0, <2>1, StartedRun DEF Stop, EndInError
  <2>2. CASE HandleMessage(w) \/ JoinProposal(w)
    BY <2>2 DEF HandleMessage, JoinProposal, Handling, AtStep
  <2>3. CASE SendOne(w) \/ DropMessage(w) \/ Grace(w) \/ Receive(w) \/ StoreBatch(w)
    BY ZenonT(30), <1>0, <2>3 DEF SendOne, DropMessage, Grace, Receive, StoreBatch, Run
  <2>4. CASE JoinFails(w) \/ EndDone(w) \/ BroadcastRefused(w) \/ BroadcastUnanswered(w)
    BY <1>0, <2>4, StartedRun
       DEF JoinFails, EndDone, BroadcastRefused, BroadcastUnanswered, EndInError
  <2>5. CASE Broadcast(w)
    BY <2>5 DEF Broadcast, Broadcasting
  <2>6. CASE Finish(w)
    BY <1>0, <2>6 DEF Finish, Run
  <2>7. CASE ClearOutbox(w)
    BY <1>0, <2>7 DEF ClearOutbox, AtStep, Run
  <2>8. CASE Visit(w)
    BY <1>0, <2>8 DEF Visit, SignersTurn, Quiet, AtStep, Run
  <2>9. CASE AnswerRefused(w)
    BY <1>0, <2>9, StartedRun DEF AnswerRefused, SignersTurn, Quiet, AtStep, Run, EndInError
  <2> QED
    BY <1>4, <2>1, <2>2, <2>3, <2>4, <2>5, <2>6, <2>7, <2>8, <2>9 DEF Step
<1> QED
  BY <1>1, <1>2, <1>3, <1>4 DEF Next

(* Nothing new to keep apart: the messages that are left keep their order. *)
LEMMA InTurnThinned ==
  ASSUME NEW w, NEW q, NEW p, NEW gone, Thinned(q, p, gone),
         \A i, j \in DOMAIN p : i < j => Fresh(w, p[j], p[i].psbt.halves, p[i].psbt.shares)
  PROVE  \A i, j \in DOMAIN q : i < j => Fresh(w, q[j], q[i].psbt.halves, q[i].psbt.shares)
<1>1. PICK f \in [DOMAIN q -> DOMAIN p \ gone] :
        /\ \A i, j \in DOMAIN q : i < j => f[i] < f[j]
        /\ \A i \in DOMAIN q : q[i] = p[f[i]]
  BY DEF Thinned
<1>2. SUFFICES ASSUME NEW i \in DOMAIN q, NEW j \in DOMAIN q, i < j
               PROVE  Fresh(w, q[j], q[i].psbt.halves, q[i].psbt.shares)
  OBVIOUS
<1>3. f[i] \in DOMAIN p /\ f[j] \in DOMAIN p /\ f[i] < f[j]
  BY <1>1, <1>2
<1>4. Fresh(w, p[f[j]], p[f[i]].psbt.halves, p[f[i]].psbt.shares)
  BY <1>3
<1> QED
  BY <1>1, <1>4

LEMMA ThinnedFrom ==
  ASSUME NEW q, NEW p, NEW gone, Thinned(q, p, gone), NEW j \in DOMAIN q
  PROVE  \E i \in DOMAIN p \ gone : q[j] = p[i]
BY DEF Thinned

(* A proposal that is sent is before every share on the proposer's half.   *)
LEMMA SentIsFresh ==
  ASSUME Sound, NEW B, KnownBy(B), SharesBound, Proposing,
         NEW w \in Wallets, NEW v \in Wallets, SentBy(v, w), NEW k \in DOMAIN session[v].outbox,
         NEW t, NEW coins, Marks(coins, t) \subseteq shared
  PROVE  Fresh(w, session[v].outbox[k], t.halves, coins)
<1> DEFINE m == session[v].outbox[k]
<1>1. SUFFICES ASSUME m.kind = "Proposal", NEW h \in m.psbt.halves \cap t.halves,
                      NEW c \in h.coins \cap coins
               PROVE  FALSE
  BY DEF Fresh
<1>2. /\ HasSession(v) /\ session[v].stage = "Proposed" /\ h \in session[v].psbt.halves
      /\ KnownSession(B, v, session[v])
  BY <1>1 DEF SentBy, Proposing, KnownBy, KnownFiles
<1>3. h.owner = v
  BY <1>2 DEF KnownSession
<1>4. [coin |-> c, tx |-> t] \in shared
  BY DEF Marks
<1>5. session[v].stage # "Proposed"
  BY <1>2, <1>3, <1>4 DEF SharesBound
<1> QED
  BY <1>2, <1>5

(* The shares of a message, a session and a record are in the history.     *)
LEMMA SharesAreGiven ==
  ASSUME Sound, NEW w \in Wallets
  PROVE  /\ \A i \in DOMAIN Waiting(w) :
              /\ Waiting(w)[i] \in SoundMessage(shared, signed, chain)
              /\ Marks(Waiting(w)[i].psbt.shares, TxOf(Waiting(w)[i].psbt)) \subseteq shared
         /\ HasSession(w) =>
              Marks(session[w].psbt.shares, TxOf(session[w].psbt)) \subseteq shared
         /\ \A r \in kept[w] : Marks(InputsOf(r.tx), r.tx) \subseteq shared
<1> DEFINE SM == SoundMessage(shared, signed, chain)
<1>1. Waiting(w) \in Seq(SM)
  <2>1. inbox[w] \in Seq(SM) /\ run[w].hand \in Seq(SM) /\ channel[w] \in Seq(SM)
    BY DEF Sound, SoundFiles, SoundTransit
  <2> HIDE DEF SM
  <2> QED
    BY <2>1, ConcatType DEF Waiting
<1>2. \A m \in SM : Marks(m.psbt.shares, TxOf(m.psbt)) \subseteq shared
  BY DEF SoundMessage, SoundPsbt
<1>3. \A i \in DOMAIN Waiting(w) : Waiting(w)[i] \in SM
  <2> HIDE DEF SM
  <2> QED
    BY <1>1
<1>4. HasSession(w) => Marks(session[w].psbt.shares, TxOf(session[w].psbt)) \subseteq shared
  <2>1. HasSession(w) => session[w].psbt \in SoundPsbt(shared, signed)
    BY SessionSound DEF SoundSession
  <2> QED
    BY <2>1 DEF SoundPsbt
<1>5. ASSUME NEW r \in kept[w] PROVE Marks(InputsOf(r.tx), r.tx) \subseteq shared
  <2>1. r.tx \in chain
    BY DEF Sound, SoundFiles
  <2>2. Marks(InputsOf(r.tx), r.tx) \subseteq signed
    BY <2>1 DEF Sound, PaidByConsent
  <2>3. \A c \in InputsOf(r.tx) : [coin |-> c, tx |-> r.tx] \in signed
    BY <2>2 DEF Marks
  <2>4. ASSUME NEW c \in InputsOf(r.tx) PROVE Marks(InputsOf(r.tx), r.tx) \subseteq shared
    <3>1. PICK x \in signed : x.tx = r.tx
      BY <2>3
    <3> QED
      BY <3>1 DEF Sound, SignedOnlyWhenComplete
  <2>5. Marks({}, r.tx) = {}
    BY DEF Marks
  <2> QED
    BY <2>4, <2>5
<1> QED
  BY <1>2, <1>3, <1>4, <1>5

LEMMA InTurnStep ==
  ASSUME Sound, [Next]_vars, NEW B, KnownBy(B), SharesBound, Proposing, InTurn
  PROVE  InTurn'
<1> SUFFICES ASSUME NEW w \in Wallets
             PROVE  \A i, j \in DOMAIN Waiting(w)' : i < j =>
                      Fresh(w, Waiting(w)'[j], Waiting(w)'[i].psbt.halves, Waiting(w)'[i].psbt.shares)
  BY DEF InTurn, Waiting, Fresh
<1>0. \A i, j \in DOMAIN Waiting(w) : i < j =>
        Fresh(w, Waiting(w)[j], Waiting(w)[i].psbt.halves, Waiting(w)[i].psbt.shares)
  BY DEF InTurn
<1>1. CASE ~\E v \in Wallets \ {w} : SentBy(v, w)
  BY <1>0, <1>1, FewerWait, InTurnThinned
<1>2. ASSUME NEW v \in Wallets \ {w}, SentBy(v, w)
      PROVE  \A i, j \in DOMAIN Waiting(w)' : i < j =>
               Fresh(w, Waiting(w)'[j], Waiting(w)'[i].psbt.halves, Waiting(w)'[i].psbt.shares)
  <2> DEFINE p == Waiting(w)
             q == Waiting(w)'
  <2>1. PICK k \in DOMAIN session[v].outbox :
          p \in Seq(Message) /\ session[v].outbox[k] \in Message
          /\ q = Append(p, session[v].outbox[k])
    BY <1>2, OneMoreWaits
  <2>2. \A i \in DOMAIN p :
          /\ Marks(p[i].psbt.shares, TxOf(p[i].psbt)) \subseteq shared
          /\ TxOf(p[i].psbt).halves = p[i].psbt.halves
    BY SharesAreGiven DEF TxOf
  <2>3. \A i \in DOMAIN p :
          Fresh(w, session[v].outbox[k], p[i].psbt.halves, p[i].psbt.shares)
    <3> SUFFICES ASSUME NEW i \in DOMAIN p
                 PROVE  Fresh(w, session[v].outbox[k], p[i].psbt.halves, p[i].psbt.shares)
      OBVIOUS
    <3>1. Fresh(w, session[v].outbox[k], TxOf(p[i].psbt).halves, p[i].psbt.shares)
      BY <1>2, <2>2, SentIsFresh
    <3> QED
      BY <2>2, <3>1
  <2> DEFINE m == session[v].outbox[k]
  <2> HIDE DEF p, q, m
  <2>4. /\ DOMAIN q = 1..Len(p)+1 /\ DOMAIN p = 1..Len(p) /\ Len(p) \in Nat
        /\ q[Len(p)+1] = m /\ \A i \in 1..Len(p) : q[i] = p[i]
    BY <2>1 DEF m
  <2>5. \A i, j \in DOMAIN p : i < j => Fresh(w, p[j], p[i].psbt.halves, p[i].psbt.shares)
    BY <1>0 DEF p
  <2>6. SUFFICES ASSUME NEW i \in DOMAIN q, NEW j \in DOMAIN q, i < j
                 PROVE  Fresh(w, q[j], q[i].psbt.halves, q[i].psbt.shares)
    BY DEF q
  <2>7. i \in DOMAIN p /\ q[i] = p[i]
    BY <2>4, <2>6
  <2>8. CASE j \in DOMAIN p
    BY <2>4, <2>5, <2>6, <2>7, <2>8
  <2>9. CASE j \notin DOMAIN p
    <3>1. q[j] = m
      BY <2>4, <2>9
    <3> QED
      BY <2>3, <2>7, <3>1 DEF m
  <2> QED
    BY <2>8, <2>9
<1> QED
  BY <1>1, <1>2

(* A message that waits after a step waited before, or was just sent.      *)
LEMMA WaitingFrom ==
  ASSUME Sound, [Next]_vars, NEW w \in Wallets, NEW j \in DOMAIN Waiting(w)'
  PROVE  \/ \E i \in DOMAIN Waiting(w) : Waiting(w)'[j] = Waiting(w)[i]
         \/ \E v \in Wallets : /\ SentBy(v, w)
                               /\ \E k \in DOMAIN session[v].outbox :
                                    Waiting(w)'[j] = session[v].outbox[k]
<1>1. CASE ~\E v \in Wallets \ {w} : SentBy(v, w)
  BY <1>1, FewerWait, ThinnedFrom
<1>2. ASSUME NEW v \in Wallets \ {w}, SentBy(v, w)
      PROVE  \/ \E i \in DOMAIN Waiting(w) : Waiting(w)'[j] = Waiting(w)[i]
             \/ \E k \in DOMAIN session[v].outbox : Waiting(w)'[j] = session[v].outbox[k]
  <2>1. PICK k \in DOMAIN session[v].outbox :
          Waiting(w) \in Seq(Message) /\ session[v].outbox[k] \in Message
          /\ Waiting(w)' = Append(Waiting(w), session[v].outbox[k])
    BY <1>2, OneMoreWaits
  <2> DEFINE m == session[v].outbox[k]
             p == Waiting(w)
             q == Waiting(w)'
  <2> HIDE DEF m, p, q
  <2>2. /\ DOMAIN q = 1..Len(p)+1 /\ DOMAIN p = 1..Len(p) /\ Len(p) \in Nat
        /\ q[Len(p)+1] = m /\ \A i \in 1..Len(p) : q[i] = p[i]
    BY <2>1 DEF m, p, q
  <2>3. q[j] = m \/ \E i \in DOMAIN p : q[j] = p[i]
    BY <2>2 DEF q
  <2> QED
    BY <2>3 DEF m, p, q
<1> QED
  BY <1>1, <1>2

LEMMA KeptLastStep ==
  ASSUME Sound, [Next]_vars, NEW B, KnownBy(B), SharesBound, Proposing,
         HeldFirst, DoneComplete, KeptLast
  PROVE  KeptLast'
<1> SUFFICES ASSUME NEW w \in Wallets, NEW r \in kept'[w], NEW j \in DOMAIN Waiting(w)'
             PROVE  Fresh(w, Waiting(w)'[j], r.tx.halves, Coins)
  BY DEF KeptLast, Fresh
<1>1. ASSUME NEW i \in DOMAIN Waiting(w)
      PROVE  Fresh(w, Waiting(w)[i], r.tx.halves, Coins)
  <2>1. CASE r \in kept[w]
    BY <2>1 DEF KeptLast
  <2>2. CASE r \notin kept[w]
    <3> DEFINE s == session[w]
    <3>1. HasSession(w) /\ s.stage = "Done" /\ r.tx = TxOf(s.psbt)
      BY <2>2, KeptAfter
    <3>2. InputsOf(s.psbt) \subseteq s.psbt.shares
      <4>1. s.psbt.script
        BY <3>1 DEF DoneComplete
      <4>2. s.psbt \in SoundPsbt(shared, signed)
        BY <3>1, SessionSound DEF SoundSession
      <4> QED
        BY <4>1, <4>2 DEF SoundPsbt, SharesComplete
    <3>3. Fresh(w, Waiting(w)[i], s.psbt.halves, s.psbt.shares)
      BY <3>1 DEF HeldFirst
    <3>4. r.tx.halves = s.psbt.halves /\ \A h \in s.psbt.halves : h.coins \subseteq s.psbt.shares
      BY <3>1, <3>2 DEF TxOf, InputsOf
    <3> QED
      BY <3>3, <3>4 DEF Fresh
  <2> QED
    BY <2>1, <2>2
<1>2. ASSUME NEW v \in Wallets, SentBy(v, w), NEW k \in DOMAIN session[v].outbox
      PROVE  Fresh(w, session[v].outbox[k], r.tx.halves, Coins)
  <2>1. r \in kept[w] /\ r.tx.halves \subseteq Half
    BY <1>2 DEF SentBy, Sound, TypeOK, Record, Tx
  <2>2. Marks(InputsOf(r.tx), r.tx) \subseteq shared
    BY <2>1, SharesAreGiven
  <2>3. Fresh(w, session[v].outbox[k], r.tx.halves, InputsOf(r.tx))
    BY <1>2, <2>2, SentIsFresh
  <2>4. \A h \in r.tx.halves : h.coins \subseteq InputsOf(r.tx)
    BY DEF InputsOf
  <2> QED
    BY <2>3, <2>4 DEF Fresh
<1> QED
  BY <1>1, <1>2, WaitingFrom

(* A session before its transaction is complete has no shares.             *)
LEMMA ProposedIsBare ==
  ASSUME Sound, NEW w \in Wallets, HasSession(w), session[w].stage = "Proposed"
  PROVE  session[w].psbt.shares = {}
BY SessionSound DEF SoundSession, SoundPsbt

LEMMA HeldFirstStep ==
  ASSUME Sound, [Next]_vars, NEW B, KnownBy(B), SharesBound, Proposing, InTurn, HeldFirst
  PROVE  HeldFirst'
<1> SUFFICES ASSUME NEW w \in Wallets, HasSession(w)', NEW j \in DOMAIN Waiting(w)'
             PROVE  Fresh(w, Waiting(w)'[j], session'[w].psbt.halves, session'[w].psbt.shares)
  BY DEF HeldFirst, Fresh, HasSession
<1> DEFINE s == session[w]
           r == session'[w]
           m == Waiting(w)'[j]
<1>0. session \in [Wallets -> Session \cup {NoSession}]
  BY DEF Sound, TypeOK
<1>1. CASE r.psbt.shares = {}
  BY <1>1 DEF Fresh
<1>2. ASSUME NEW v \in Wallets, SentBy(v, w), NEW k \in DOMAIN session[v].outbox,
             m = session[v].outbox[k]
      PROVE  Fresh(w, m, r.psbt.halves, r.psbt.shares)
  <2>1. r = s /\ HasSession(w)
    BY <1>2 DEF SentBy, HasSession
  <2>2. Marks(s.psbt.shares, TxOf(s.psbt)) \subseteq shared
    BY <2>1, SharesAreGiven
  <2>3. Fresh(w, m, TxOf(s.psbt).halves, s.psbt.shares)
    BY <1>2, <2>2, SentIsFresh
  <2> QED
    BY <2>1, <2>3 DEF TxOf
<1>3. ASSUME NEW i \in DOMAIN Waiting(w), m = Waiting(w)[i], r.psbt.shares # {}, ~Heard(w)
      PROVE  Fresh(w, m, r.psbt.halves, r.psbt.shares)
  <2>1. CASE r = s
    BY <1>3, <2>1 DEF HeldFirst, HasSession
  <2>2. CASE r # s
    <3>1. Changes(w)
      BY <2>2, ChangedBy
    <3>2. ~Left(w)
      BY <1>0 DEF Left, HasSession
    <3>3. ~(Started(w) \/ Joined(w))
      BY <1>3, BeginsKnown DEF Begun
    <3>4. HasSession(w) /\ (Cleared(w) \/ Ended(w) \/ Answered(w))
      BY <1>3, <3>1, <3>2, <3>3 DEF Changes, GoesOn, Cleared, Ended, Answered, Becomes
    <3>5. Fresh(w, m, s.psbt.halves, s.psbt.shares) /\ s \in Session
      BY <1>0, <1>3, <3>4 DEF HeldFirst, HasSession
    <3>6. CASE Cleared(w)
      <4>1. r = [s EXCEPT !.outbox = << >>]
        BY <1>0, <3>6 DEF Cleared, Becomes
      <4> HIDE DEF s, m
      <4>2. r.psbt = s.psbt
        BY <3>5, <4>1 DEF Session
      <4> QED
        BY <3>5, <4>2
    <3>7. CASE Ended(w)
      <4>1. r = Finished(s)
        BY <1>0, <3>7 DEF Ended, Becomes
      <4> HIDE DEF s, m
      <4>2. r.psbt = s.psbt
        BY <3>5, <4>1, FinishedKeeps
      <4> QED
        BY <3>5, <4>2
    <3>8. CASE Answered(w)
      <4>1. PICK answer \in Answers(s) : RespondAccepts(s, answer) /\ r = Responded(s, answer)
        BY <1>0, <3>8 DEF Answered, Becomes
      <4>2. answer.shares \subseteq s.mine /\ answer \in Psbt
        BY <3>5, <4>1, AnswerAdds, AnswerType
      <4>3. r.psbt = Absorbed(s.psbt, answer)
        BY <3>5, <4>1, <4>2, RespondedKeeps
      <4>4. r.psbt.halves = s.psbt.halves /\ r.psbt.shares = s.psbt.shares \cup answer.shares
        BY <3>5, <4>3 DEF Absorbed, Session, Psbt
      <4>5. KnownSession(B, w, s) /\ BuiltHalves(B)
        BY <3>4 DEF KnownBy, KnownFiles
      <4>6. \A h \in s.psbt.halves : h.owner # w => h.coins \cap answer.shares = {}
        BY <4>2, <4>5, OwnCoins
      <4> QED
        BY <3>5, <4>4, <4>6 DEF Fresh
    <3> QED
      BY <3>4, <3>6, <3>7, <3>8
  <2> QED
    BY <2>1, <2>2
<1>4. ASSUME Heard(w)
      PROVE  Fresh(w, m, r.psbt.halves, r.psbt.shares)
  <2>1. /\ 1 \in DOMAIN Waiting(w) /\ r = Received(s, Waiting(w)[1])
        /\ Thinned(Waiting(w)', Waiting(w), {1})
    BY <1>4, FirstHeard
  <2>2. PICK i \in DOMAIN Waiting(w) \ {1} : m = Waiting(w)[i]
    BY <2>1, ThinnedFrom
  <2>3. 1 < i
    <3>1. Waiting(w) \in Seq(Message)
      <4>1. /\ inbox[w] \in Seq(Message) /\ run[w].hand \in Seq(Message)
            /\ channel[w] \in Seq(Message)
        BY DEF Sound, TypeOK, Run
      <4> QED
        BY <4>1, ConcatType DEF Waiting
    <3> QED
      BY <2>2, <3>1
  <2> DEFINE f == Waiting(w)[1]
  <2>4. HasSession(w) /\ s \in Session
    BY <1>0, <1>4 DEF Heard, Becomes, HasSession
  <2>5. /\ Fresh(w, m, f.psbt.halves, f.psbt.shares)
        /\ Fresh(w, m, s.psbt.halves, s.psbt.shares)
    BY <2>1, <2>2, <2>3, <2>4 DEF InTurn, HeldFirst
  <2>6. f \in Message
    BY <2>1, SharesAreGiven DEF SoundMessage
  <2>7. s.stage = "Proposed" => s.psbt.shares = {}
    BY <2>4, ProposedIsBare
  <2> HIDE DEF s, f, m
  <2>8. \A c \in r.psbt.shares :
              \/ c \in s.psbt.shares /\ r.psbt.halves = s.psbt.halves
              \/ c \in f.psbt.shares /\ r.psbt.halves = f.psbt.halves
    BY <2>1, <2>4, <2>6, <2>7, ReceivedFrom DEF f
  <2> QED
    BY <2>5, <2>8 DEF Fresh
<1> QED
  BY <1>1, <1>2, <1>3, <1>4, WaitingFrom

LEMMA ProposingStep ==
  ASSUME Sound, [Next]_vars, NEW B, KnownBy(B), Proposing
  PROVE  Proposing'
<1> SUFFICES ASSUME NEW w \in Wallets, HasSession(w)', NEW k \in DOMAIN session'[w].outbox,
                    session'[w].outbox[k].kind = "Proposal"
             PROVE  /\ session'[w].stage = "Proposed"
                    /\ session'[w].outbox[k].psbt.halves \subseteq session'[w].psbt.halves
  BY DEF Proposing, HasSession
<1> DEFINE s == session[w]
           r == session'[w]
<1>0. session \in [Wallets -> Session \cup {NoSession}]
  BY DEF Sound, TypeOK
<1>1. CASE r = s
  BY <1>1 DEF Proposing, HasSession
<1>2. CASE r # s
  <2>1. Changes(w) /\ ~Left(w)
    BY <1>0, <1>2, ChangedBy DEF Left, HasSession
  <2>2. CASE Started(w) \/ Joined(w)
    <3>1. r.outbox[k] = Says(r)
      BY ZenonT(30), <2>2, BeginsKnown DEF Begun
    <3> HIDE DEF r
    <3> QED
      BY <3>1 DEF Says, ProposalMessage, UpdateMessage, DoneMessage, r
  <2>3. CASE GoesOn(w)
    <3>1. HasSession(w) /\ s \in Session /\ s.outbox \in Seq(Message) /\ inbox[w] \in Seq(Message)
      BY <1>0, <2>3, SessionGoesOn DEF Session, Sound, TypeOK
    <3>2. r.outbox # << >>
      OBVIOUS
    <3>3. ~Heard(w)
      <4> SUFFICES ASSUME Heard(w) PROVE FALSE
        OBVIOUS
      <4>1. s.outbox = << >> /\ \E i \in DOMAIN inbox[w] : r = Received(s, inbox[w][i])
        BY <1>0 DEF Heard, Becomes
      <4> HIDE DEF s
      <4>2. r.outbox = s.outbox
        BY <3>1, <4>1, ReceivedKeeps
      <4> QED
        BY <3>2, <4>1, <4>2
    <3>4. ~Cleared(w)
      <4> SUFFICES ASSUME Cleared(w) PROVE FALSE
        OBVIOUS
      <4>1. r = [s EXCEPT !.outbox = << >>]
        BY <1>0 DEF Cleared, Becomes
      <4> HIDE DEF s
      <4> QED
        BY <3>1, <3>2, <4>1 DEF Session
    <3>5. \E m : s.stage # "Proposed" /\ m.kind # "Proposal" /\ r.outbox = Append(s.outbox, m)
      <4>1. CASE Ended(w)
        <5>1. r = Finished(s) /\ s.stage = "Active"
          BY <1>0, <4>1 DEF Ended, Becomes
        <5> HIDE DEF s
        <5> QED
          BY <3>1, <5>1, FinishedKeeps DEF DoneMessage
      <4>2. CASE Answered(w)
        <5>1. PICK answer \in Answers(s) : RespondAccepts(s, answer) /\ r = Responded(s, answer)
          BY <1>0, <4>2 DEF Answered, Becomes
        <5>2. answer \in Psbt
          BY <3>1, AnswerType
        <5> HIDE DEF s
        <5>3. s.stage = "Active" /\ r.outbox = Append(s.outbox, UpdateMessage(r))
          BY <3>1, <5>1, <5>2, RespondedKeeps
        <5>4. UpdateMessage(r).kind = "Update"
          BY DEF UpdateMessage
        <5> QED
          BY <5>3, <5>4
      <4> QED
        BY <2>3, <3>3, <3>4, <4>1, <4>2 DEF GoesOn
    <3>6. PICK m : s.stage # "Proposed" /\ m.kind # "Proposal" /\ r.outbox = Append(s.outbox, m)
      BY <3>5
    <3>7. \A i \in DOMAIN s.outbox : s.outbox[i].kind # "Proposal"
      BY <3>1, <3>6 DEF Proposing
    <3> DEFINE o == s.outbox
    <3>8. o \in Seq(Message) /\ k \in DOMAIN Append(o, m)
      BY <3>1, <3>6
    <3> HIDE DEF o
    <3>9. Append(o, m)[k] = m \/ \E i \in DOMAIN o : Append(o, m)[k] = o[i]
      BY <3>8
    <3> QED
      BY <3>6, <3>7, <3>9 DEF o
  <2> QED
    BY <2>1, <2>2, <2>3 DEF Changes, GoesOn
<1> QED
  BY <1>1, <1>2

LEMMA DoneCompleteStep ==
  ASSUME Sound, [Next]_vars, NEW B, KnownBy(B), DoneComplete
  PROVE  DoneComplete'
<1> SUFFICES ASSUME NEW w \in Wallets, HasSession(w)',
                    session'[w].stage = "Done" \/ run'[w].pushed
             PROVE  session'[w].psbt.script
  BY DEF DoneComplete, HasSession
<1> DEFINE s == session[w]
           r == session'[w]
<1>0. session \in [Wallets -> Session \cup {NoSession}]
  BY DEF Sound, TypeOK
<1>1. CASE r = s
  BY <1>1, PushedAfter DEF DoneComplete, HasSession, FinalizeAccepts, HasTx
<1>2. CASE r # s
  <2>1. Changes(w) /\ ~Left(w)
    BY <1>0, <1>2, ChangedBy DEF Left, HasSession
  <2>2. r.stage = "Done"
    BY <1>2, PushedAfter
  <2>3. ~(Started(w) \/ Joined(w))
    BY <2>2, BeginsKnown DEF Begun
  <2>4. GoesOn(w)
    BY <2>1, <2>3 DEF Changes
  <2>5. HasSession(w) /\ s \in Session /\ inbox[w] \in Seq(Message)
    BY <2>4, SessionGoesOn DEF Sound, TypeOK
  <2>6. CASE Heard(w)
    <3>1. PICK i \in DOMAIN inbox[w] : r = Received(s, inbox[w][i])
      BY <1>0, <2>6 DEF Heard, Becomes
    <3>2. s.stage = "Proposed" => s.psbt.shares = {}
      BY <2>5, ProposedIsBare
    <3>3. inbox[w][i] \in Message
      BY <2>5
    <3> HIDE DEF s
    <3> QED
      BY <1>2, <2>2, <2>5, <3>1, <3>2, <3>3, ReceivedFrom
  <2>7. CASE Cleared(w)
    <3>1. r = [s EXCEPT !.outbox = << >>]
      BY <1>0, <2>7 DEF Cleared, Becomes
    <3>2. s.stage = "Done" => s.psbt.script
      BY <2>5 DEF DoneComplete
    <3> HIDE DEF s
    <3> QED
      BY <2>2, <2>5, <3>1, <3>2 DEF Session
  <2>8. CASE Ended(w)
    <3>1. r = Finished(s) /\ s.psbt.script
      BY <1>0, <2>5, <2>8 DEF Ended, Becomes, DoneComplete
    <3> HIDE DEF s
    <3> QED
      BY <2>5, <3>1, FinishedKeeps
  <2>9. CASE Answered(w)
    <3>1. PICK answer \in Answers(s) : RespondAccepts(s, answer) /\ r = Responded(s, answer)
      BY <1>0, <2>9 DEF Answered, Becomes
    <3>2. answer \in Psbt
      BY <2>5, AnswerType
    <3> HIDE DEF s
    <3> QED
      BY <2>2, <2>5, <3>1, <3>2, RespondedKeeps
  <2> QED
    BY <2>4, <2>6, <2>7, <2>8, <2>9 DEF GoesOn
<1> QED
  BY <1>1, <1>2

LEMMA NeverRejoinedStep ==
  ASSUME Sound, [Next]_vars, NEW B, KnownBy(B), KeptLast, NeverRejoined
  PROVE  NeverRejoined'
<1> SUFFICES ASSUME NEW w \in Wallets, HasSession(w)', session'[w].stage # "Done",
                    NEW r \in kept'[w], r.sid = session'[w].sid
             PROVE  FALSE
  BY DEF NeverRejoined, Unfinished, HasSession
<1>0. /\ session \in [Wallets -> Session \cup {NoSession}]
      /\ BuiltHalves(B)
      /\ HasSession(w) => KnownSession(B, w, session[w])
      /\ \A q \in kept[w] : OneEach(B, q.tx.halves) /\ Names(q.sid, q.tx.halves)
      /\ inbox[w] \in Seq(KnownMessages(B))
  BY DEF Sound, TypeOK, KnownBy, KnownFiles, Carried
<1>1. CASE session'[w] = session[w] \/ GoesOn(w)
  <2>1. HasSession(w) /\ session[w].sid = session'[w].sid /\ session[w].stage # "Done"
    <3>1. CASE session'[w] = session[w]
      BY <3>1 DEF HasSession
    <3>2. CASE GoesOn(w)
      <4>1. /\ HasSession(w) /\ session[w] \in Session
            /\ Continues(w, session[w], session'[w]) /\ session'[w] \in Session
        BY <3>2, SessionGoesOn, GoesOnType
      <4> QED
        BY <4>1 DEF Continues, Extends, StageNo, Session, Stage
    <3> QED
      BY <1>1, <3>1, <3>2
  <2>2. r \in kept[w]
    BY <2>1, KeptAfter
  <2> QED
    BY <2>1, <2>2 DEF NeverRejoined, Unfinished
<1>2. CASE session'[w] # session[w] /\ ~GoesOn(w)
  <2>1. Started(w) \/ Joined(w)
    BY <1>0, <1>2, ChangedBy DEF Changes, Left, HasSession
  <2>2. PICK h : Begun(B, w, h)
    BY <2>1, BeginsKnown
  <2>3. OneEach(B, r.tx.halves) /\ Names(r.sid, r.tx.halves)
    <3>1. CASE r \in kept[w]
      BY <1>0, <3>1
    <3>2. CASE r \notin kept[w]
      <4>1. HasSession(w) /\ r.sid = session[w].sid /\ r.tx = TxOf(session[w].psbt)
        BY <3>2, KeptAfter
      <4> QED
        BY <1>0, <4>1 DEF KnownSession, TxOf
    <3> QED
      BY <3>1, <3>2
  <2>4. PICK k \in r.tx.halves : SidOf(k) = r.sid /\ k \in B
    BY <2>3 DEF OneEach, Names
  <2>5. session'[w].sid # SidOf(h)
    BY <2>2, <2>4 DEF Begun
  <2>6. PICK i \in DOMAIN inbox[w] :
          /\ ~HasSession(w)
          /\ inbox[w][i].kind = "Proposal" /\ inbox[w][i].from # w
          /\ session'[w].sid = inbox[w][i].sid
    BY <2>2, <2>5 DEF Begun
  <2> DEFINE m == inbox[w][i]
  <2>7. m \in KnownMessages(B)
    BY <1>0
  <2>8. PICK g \in m.psbt.halves : SidOf(g) = m.sid /\ g \in B /\ g.owner = m.from
    BY <2>6, <2>7 DEF KnownMessages, OneEach, Names
  <2>9. g = k
    BY <1>0, <2>4, <2>6, <2>8 DEF BuiltHalves
  <2>10. \E j \in DOMAIN Waiting(w) : Waiting(w)[j] = m
    <3> DEFINE t == run[w].hand \o channel[w]
    <3>1. t \in Seq(Message) /\ inbox[w] \in Seq(Message)
      BY ConcatType DEF Sound, TypeOK, Run
    <3>2. Waiting(w) = inbox[w] \o t
      BY DEF Waiting
    <3> HIDE DEF t
    <3>3. i \in DOMAIN Waiting(w) /\ Waiting(w)[i] = m
      BY <3>1, <3>2
    <3> QED
      BY <3>3
  <2>11. r \in kept[w]
    BY <2>6, KeptAfter
  <2>12. Fresh(w, m, r.tx.halves, Coins)
    BY <2>10, <2>11 DEF KeptLast
  <2>13. g.coins \cap Coins = {}
    BY <2>4, <2>6, <2>8, <2>9, <2>12 DEF Fresh
  <2>14. g.coins \subseteq Coins /\ g.coins # {}
    BY <1>0, <2>8, HalvesHaveCoins DEF BuiltHalves, Half
  <2> QED
    BY <2>13, <2>14
<1> QED
  BY <1>1, <1>2

(* The inductive invariant of this part.                                   *)
OrderInv ==
  /\ HalvesInv
  /\ InTurn /\ HeldFirst /\ KeptLast
  /\ Proposing /\ DoneComplete
  /\ NeverRejoined

LEMMA InitOrder == Init => OrderInv
<1> SUFFICES ASSUME Init PROVE OrderInv
  OBVIOUS
<1>1. \A w \in Wallets : ~HasSession(w) /\ kept[w] = {} /\ DOMAIN Waiting(w) = {}
  BY StartedRun DEF Init, HasSession, Waiting
<1> QED
  BY <1>1, InitHalves
     DEF OrderInv, InTurn, HeldFirst, KeptLast, Proposing, DoneComplete, NeverRejoined, Unfinished

LEMMA NextOrder == OrderInv /\ [Next]_vars => OrderInv'
<1> SUFFICES ASSUME OrderInv, [Next]_vars PROVE OrderInv'
  OBVIOUS
<1>1. /\ HalvesInv /\ Sound /\ SharesBound /\ InTurn /\ HeldFirst /\ KeptLast
      /\ Proposing /\ DoneComplete /\ NeverRejoined
  BY DEF OrderInv, HalvesInv
<1>2. HalvesInv' /\ Sound'
  BY <1>1, NextHalves DEF HalvesInv
<1>3. PICK B : KnownBy(B)
  BY <1>1 DEF HalvesInv
<1>4. InTurn'
  BY <1>1, <1>3, InTurnStep
<1>5. HeldFirst'
  BY <1>1, <1>3, HeldFirstStep
<1>6. KeptLast'
  BY <1>1, <1>3, KeptLastStep
<1>7. Proposing'
  BY <1>1, <1>3, ProposingStep
<1>8. DoneComplete'
  BY <1>1, <1>3, DoneCompleteStep
<1>9. NeverRejoined'
  BY <1>1, <1>3, NeverRejoinedStep
<1> QED
  BY <1>2, <1>4, <1>5, <1>6, <1>7, <1>8, <1>9 DEF OrderInv

(* A proposal that was sent twice, or is read late, is not joined again    *)
(* when its send has ended: messages keep their order, so the wallet that  *)
(* recorded the send has all its proposals behind it.                      *)
THEOREM NeverJoinedAgain == Spec => []NeverRejoined
<1>1. OrderInv => NeverRejoined
  BY DEF OrderInv
<1> QED
  BY <1>1, InitOrder, NextOrder, PTL DEF Spec

-----------------------------------------------------------------------------
(* The signers take turns.  A session or a message is whole when it has    *)
(* every share and every signature given in its transaction so far.  A     *)
(* wallet that has the turn is whole, the other one that holds the         *)
(* transaction has handed the turn over, and a message that is not whole   *)
(* has nothing for anyone who holds it.                                    *)

On(s) == s.stage # "Proposed"

Whole(p, sh, sg) ==
  /\ \A x \in sh : x.tx = TxOf(p) => x.coin \in p.shares
  /\ \A x \in sg : x.tx = TxOf(p) => x.coin \in p.sigs

Within(p, q) == p.shares \subseteq q.shares /\ p.sigs \subseteq q.sigs

Unmarked(t, sh, sg) == \A x \in sh \cup sg : x.tx # t

TwoHalves(halves) == \E h, k \in halves : halves \subseteq {h, k}

(* One session: a wallet that just joined is the first to visit a signer.  *)
InHand(s, sh, sg) ==
  /\ TwoHalves(s.psbt.halves)
  /\ On(s) =>
       /\ SharesComplete(s.psbt) => s.psbt.script
       /\ s.newest # "Mine" => Whole(s.psbt, sh, sg)
       /\ s.newest = "Joined" => Unmarked(TxOf(s.psbt), sh, sg)

(* Two sessions, of the same transaction or, while s is only proposed, of  *)
(* one that a wallet made of the proposal.                                 *)
InTurns(s, r, sh, sg) ==
  /\ On(s) /\ On(r) /\ TxOf(s.psbt) = TxOf(r.psbt) =>
       /\ s.newest # "Joined"
       /\ Whole(s.psbt, sh, sg) \/ Whole(r.psbt, sh, sg)
       /\ s.newest # "Mine" => r.newest = "Mine" /\ Whole(r.psbt, sh, sg)
  /\ ~On(s) /\ s.psbt.halves \cap r.psbt.halves # {} =>
       /\ r.sid = s.sid
       /\ Whole(r.psbt, sh, sg) /\ r.newest # "Theirs"

(* A message and a session.                                                *)
NoNews(m, s, sh, sg) ==
  /\ m.kind # "Proposal" /\ On(s) /\ TxOf(m.psbt) = TxOf(s.psbt) =>
       s.newest # "Joined" /\ (Whole(m.psbt, sh, sg) \/ Within(m.psbt, s.psbt))
  /\ ~On(s) /\ s.psbt.halves \cap m.psbt.halves # {} =>
       m.sid = s.sid /\ (m.kind # "Proposal" => Whole(m.psbt, sh, sg))

(* What is whole has all that any other state of the transaction has.      *)
LEMMA WholeHasAll ==
  ASSUME NEW sh, NEW sg, NEW p \in SoundPsbt(sh, sg), NEW q,
         TxOf(p) = TxOf(q), Whole(q, sh, sg)
  PROVE  Within(p, q)
<1>1. Marks(p.shares, TxOf(p)) \subseteq sh /\ Marks(p.sigs, TxOf(p)) \subseteq sg
  BY DEF SoundPsbt
<1>2. /\ \A c \in p.shares : [coin |-> c, tx |-> TxOf(p)] \in sh
      /\ \A c \in p.sigs : [coin |-> c, tx |-> TxOf(p)] \in sg
  BY <1>1 DEF Marks
<1>3. \A c : [coin |-> c, tx |-> TxOf(p)].coin = c /\ [coin |-> c, tx |-> TxOf(p)].tx = TxOf(p)
  OBVIOUS
<1> QED
  BY <1>2, <1>3 DEF Whole, Within

(* ... and stays so when it takes more in.                                 *)
LEMMA WholeGrows ==
  ASSUME NEW sh, NEW sg, NEW p, NEW q, TxOf(p) = TxOf(q), Within(p, q), Whole(p, sh, sg)
  PROVE  Whole(q, sh, sg)
BY DEF Whole, Within

(* In a transaction nobody gave anything in, every state is whole.         *)
LEMMA NothingInUnmarked ==
  ASSUME NEW sh, NEW sg, NEW p, Unmarked(TxOf(p), sh, sg)
  PROVE  Whole(p, sh, sg)
BY DEF Whole, Unmarked

(* absorb.                                                                 *)
LEMMA AbsorbedIs ==
  ASSUME NEW p \in Psbt, NEW q \in Psbt
  PROVE  LET r == Absorbed(p, q) IN
         /\ r \in Psbt /\ TxOf(r) = TxOf(p) /\ r.halves = p.halves
         /\ r.shares = p.shares \cup q.shares /\ r.sigs = p.sigs \cup q.sigs
         /\ SharesComplete(r) => r.script
         /\ (Within(q, p) /\ (SharesComplete(p) => p.script)) => r = p
<1> DEFINE r == Absorbed(p, q)
<1>0. PICK b \in BOOLEAN : b = (p.script \/ InputsOf(p) \subseteq p.shares \cup q.shares)
  OBVIOUS
<1>1. /\ r \in Psbt /\ r.deal = p.deal /\ r.halves = p.halves /\ r.open = p.open
      /\ r.shares = p.shares \cup q.shares /\ r.sigs = p.sigs \cup q.sigs
      /\ r.script = b
  <2>1. r = [p EXCEPT !.shares = p.shares \cup q.shares, !.script = b,
                      !.sigs = p.sigs \cup q.sigs]
    BY <1>0 DEF Absorbed
  <2> HIDE DEF r
  <2> QED
    BY <2>1 DEF Psbt
<1>2. p \in Psbt /\ p.script \in BOOLEAN
  BY DEF Psbt
<1> HIDE DEF r
<1>3. InputsOf(r) = InputsOf(p)
  BY <1>1 DEF InputsOf
<1>4. ASSUME Within(q, p), SharesComplete(p) => p.script PROVE r = p
  <2>1. r.shares = p.shares /\ r.sigs = p.sigs
    BY <1>1, <1>4 DEF Within
  <2>2. r.script = p.script
    BY <1>0, <1>1, <1>2, <1>4, <2>1 DEF SharesComplete
  <2> QED
    BY <1>1, <1>2, <2>1, <2>2 DEF Psbt
<1> QED
  BY <1>0, <1>1, <1>3, <1>4 DEF TxOf, SharesComplete, r

(* receive, when the session holds the transaction: the message has        *)
(* nothing it lacks, or it gets everything in it and the turn.             *)
Learns(s, m, r) ==
  /\ m.kind # "Proposal" /\ TxOf(m.psbt) = TxOf(s.psbt)
  /\ ~Within(m.psbt, s.psbt)
  /\ r.newest = "Theirs" /\ TxOf(r.psbt) = TxOf(s.psbt)
  /\ Within(m.psbt, r.psbt) /\ Within(s.psbt, r.psbt)
  /\ SharesComplete(r.psbt) => r.psbt.script

LEMMA ReceivedOn ==
  ASSUME NEW s \in Session, NEW m \in Message, On(s),
         SharesComplete(s.psbt) => s.psbt.script
  PROVE  LET r == Received(s, m) IN
         \/ r.psbt = s.psbt /\ r.newest = s.newest
         \/ Learns(s, m, r)
<1> DEFINE u == Updated(s, m)
           next == Absorbed(s.psbt, m.psbt)
           t == [s EXCEPT !.psbt = next, !.stage = "Active",
                          !.newest = "Theirs", !.peer = {m.from}]
           Told(r) == \/ r.psbt = s.psbt /\ r.newest = s.newest
                      \/ Learns(s, m, r)
<1>0. s.psbt \in Psbt /\ m.psbt \in Psbt
  BY DEF Session, Message
<1>1. ASSUME s.stage = "Active", UpdateAccepts(s, m), m.kind # "Proposal"
      PROVE  Told(u)
  <2>1. TxOf(m.psbt) = TxOf(s.psbt)
    BY <1>1 DEF UpdateAccepts, UpdateBase, AbsorbAccepts, SameSkeleton, TxOf
  <2>2. u = IF next = s.psbt THEN s ELSE t
    BY <1>1 DEF Updated, UpdateBase
  <2>3. t.psbt = next /\ t.newest = "Theirs"
    BY DEF Session
  <2>4. /\ TxOf(next) = TxOf(s.psbt)
        /\ next.shares = s.psbt.shares \cup m.psbt.shares
        /\ next.sigs = s.psbt.sigs \cup m.psbt.sigs
        /\ SharesComplete(next) => next.script
        /\ Within(m.psbt, s.psbt) => next = s.psbt
    BY <1>0, AbsorbedIs
  <2> HIDE DEF t, next, u
  <2>5. CASE next = s.psbt
    BY <2>2, <2>5
  <2>6. CASE next # s.psbt
    BY <1>1, <2>1, <2>2, <2>3, <2>4, <2>6 DEF Learns, Within
  <2> QED
    BY <2>5, <2>6
<1>2. CASE m.kind = "Update" /\ ForThisSend(s, m) /\ s.stage # "Done" /\ UpdateAccepts(s, m)
  <2>1. s.stage = "Active" /\ Received(s, m) = u
    BY <1>2 DEF On, Session, Stage, Received
  <2> QED
    BY <1>1, <1>2, <2>1
<1>3. CASE m.kind = "Done" /\ ForThisSend(s, m) /\ s.stage = "Active" /\ DoneAccepts(s, m)
  <2>1. /\ Received(s, m) = [u EXCEPT !.stage = "Done", !.txid = m.txid]
        /\ UpdateAccepts(s, m) /\ m.kind # "Proposal"
    BY <1>3 DEF Received, DoneTaken, DoneAccepts
  <2>2. u = s \/ u = [s EXCEPT !.psbt = u.psbt, !.stage = "Active",
                              !.newest = "Theirs", !.peer = {m.from}]
    BY DEF Updated, Session
  <2>3. /\ [u EXCEPT !.stage = "Done", !.txid = m.txid].psbt = u.psbt
        /\ [u EXCEPT !.stage = "Done", !.txid = m.txid].newest = u.newest
    <3>1. CASE u = s
      BY <3>1 DEF Session
    <3>2. CASE u # s
      BY <2>2, <3>2 DEF Session
    <3> QED
      BY <3>1, <3>2
  <2> HIDE DEF u
  <2>4. Told(u)
    BY <1>1, <1>3, <2>1
  <2> QED
    BY <2>1, <2>3, <2>4 DEF Learns
<1>4. CASE Received(s, m) = s
  BY <1>4
<1> QED
  BY <1>2, <1>3, <1>4 DEF Received

(* receive, while the session is only proposed: it gets to hold the        *)
(* transaction of the message, and everything in it.                       *)
Adopts(s, m, r) ==
  /\ m.kind # "Proposal" /\ m.sid = s.sid
  /\ s.psbt.halves \subseteq m.psbt.halves
  /\ On(r) /\ r.newest = "Theirs" /\ TxOf(r.psbt) = TxOf(m.psbt)
  /\ Within(m.psbt, r.psbt)
  /\ SharesComplete(r.psbt) => r.psbt.script

LEMMA ReceivedProposed ==
  ASSUME NEW s \in Session, NEW m \in Message, ~On(s)
  PROVE  Received(s, m) = s \/ Adopts(s, m, Received(s, m))
<1> DEFINE base == AdoptedPsbt(s.psbt, m.psbt)
           next == Absorbed(base, m.psbt)
           t == [s EXCEPT !.psbt = next, !.stage = "Active",
                          !.newest = "Theirs", !.peer = {m.from}]
<1>0. s.psbt \in Psbt /\ m.psbt \in Psbt /\ s.stage = "Proposed"
  BY DEF Session, Message, On
<1>1. CASE m.kind = "Update" /\ ForThisSend(s, m) /\ UpdateAccepts(s, m)
  <2>1. Received(s, m) = t /\ m.sid = s.sid
    BY <1>0, <1>1 DEF Received, ForThisSend, Updated, UpdateBase
  <2>2. t.psbt = next /\ t.newest = "Theirs" /\ t.stage = "Active"
    BY DEF Session
  <2>3. /\ s.psbt.halves \subseteq m.psbt.halves
        /\ base.deal = m.psbt.deal /\ base.halves = m.psbt.halves
    BY <1>0, <1>1 DEF UpdateAccepts, UpdateBase, AdoptAccepts, AbsorbAccepts, SameSkeleton
  <2>4. base \in Psbt
    BY <1>0 DEF AdoptedPsbt, Psbt
  <2> HIDE DEF base
  <2>5. /\ TxOf(next) = TxOf(base) /\ next.shares = base.shares \cup m.psbt.shares
        /\ next.sigs = base.sigs \cup m.psbt.sigs
        /\ SharesComplete(next) => next.script
    BY <1>0, <2>4, AbsorbedIs
  <2>6. TxOf(base) = TxOf(m.psbt)
    BY <2>3 DEF TxOf
  <2> HIDE DEF next, t
  <2> QED
    BY <1>1, <2>1, <2>2, <2>3, <2>5, <2>6 DEF Adopts, On, Within
<1>2. CASE ~(m.kind = "Update" /\ ForThisSend(s, m) /\ UpdateAccepts(s, m))
  BY <1>0, <1>2 DEF Received
<1> QED
  BY <1>1, <1>2

(* respond.                                                                *)
Given(sh, answer, t) == sh \cup Marks(answer, t)

LEMMA RespondedIs ==
  ASSUME NEW sh, NEW sg, NEW s \in Session, NEW answer \in Psbt, RespondAccepts(s, answer)
  PROVE  LET r == Responded(s, answer)
             t == TxOf(s.psbt)
         IN  /\ On(s) /\ s.newest # "Mine"
             /\ On(r) /\ r.newest = "Mine" /\ TxOf(r.psbt) = t
             /\ Within(s.psbt, r.psbt)
             /\ SharesComplete(r.psbt) => r.psbt.script
             /\ Whole(s.psbt, sh, sg) =>
                  Whole(r.psbt, Given(sh, answer.shares, t), Given(sg, answer.sigs, t))
<1> DEFINE r == Responded(s, answer)
           next == Absorbed(s.psbt, answer)
<1>1. /\ s.stage = "Active" /\ s.newest # "Mine" /\ r.stage = "Active" /\ r.newest = "Mine"
      /\ r.psbt = next
  BY RespondedKeeps DEF RespondAccepts, MyTurn
<1>2. s.psbt \in Psbt
  BY DEF Session
<1>3. /\ TxOf(next) = TxOf(s.psbt)
      /\ next.shares = s.psbt.shares \cup answer.shares
      /\ next.sigs = s.psbt.sigs \cup answer.sigs
      /\ SharesComplete(next) => next.script
  BY <1>2, AbsorbedIs
<1> HIDE DEF r, next
<1>4. Whole(s.psbt, sh, sg) =>
        Whole(next, Given(sh, answer.shares, TxOf(s.psbt)), Given(sg, answer.sigs, TxOf(s.psbt)))
  BY <1>3 DEF Whole, Given, Marks
<1> QED
  BY <1>1, <1>3, <1>4 DEF On, Within, r

-----------------------------------------------------------------------------
(* What each of these does to the turns.  v is the session of another      *)
(* wallet, n a message that is somewhere.                                  *)

(* A wallet that took news in has the turn, and is whole.                  *)
LEMMA LearnsTurns ==
  ASSUME NEW sh, NEW sg, NEW s, NEW m, NEW r, Learns(s, m, r),
         On(s), On(r), r.sid = s.sid, m.psbt \in SoundPsbt(sh, sg),
         InHand(s, sh, sg), NoNews(m, s, sh, sg)
  PROVE  /\ InHand(r, sh, sg)
         /\ \A v : InTurns(s, v, sh, sg) /\ InTurns(v, s, sh, sg)
                   => InTurns(r, v, sh, sg) /\ InTurns(v, r, sh, sg)
         /\ \A n : NoNews(n, s, sh, sg) => NoNews(n, r, sh, sg)
<1>1. /\ TxOf(m.psbt) = TxOf(s.psbt) /\ TxOf(r.psbt) = TxOf(s.psbt)
      /\ ~Within(m.psbt, s.psbt) /\ r.newest = "Theirs"
      /\ Within(m.psbt, r.psbt) /\ Within(s.psbt, r.psbt)
      /\ SharesComplete(r.psbt) => r.psbt.script
      /\ r.psbt.halves = s.psbt.halves
  BY DEF Learns, TxOf
<1>2. Whole(m.psbt, sh, sg)
  BY <1>1 DEF NoNews, Learns
<1>3. Whole(r.psbt, sh, sg)
  BY <1>1, <1>2, WholeGrows
<1>4. ~Whole(s.psbt, sh, sg)
  BY <1>1, WholeHasAll
<1>5. InHand(r, sh, sg)
  BY <1>1, <1>3 DEF InHand
<1>6. ASSUME NEW v, InTurns(s, v, sh, sg), InTurns(v, s, sh, sg)
      PROVE  InTurns(r, v, sh, sg) /\ InTurns(v, r, sh, sg)
  BY <1>1, <1>3, <1>4, <1>6 DEF InTurns
<1>7. ASSUME NEW n, NoNews(n, s, sh, sg) PROVE NoNews(n, r, sh, sg)
  BY <1>1, <1>7 DEF NoNews, Within
<1> QED
  BY <1>5, <1>6, <1>7

(* So has the wallet that proposed, when it adopts the joined transaction. *)
LEMMA AdoptsTurns ==
  ASSUME NEW sh, NEW sg, NEW s, NEW m, NEW r, Adopts(s, m, r),
         ~On(s), s.psbt.halves # {}, r.sid = s.sid,
         TwoHalves(m.psbt.halves), NoNews(m, s, sh, sg)
  PROVE  /\ InHand(r, sh, sg)
         /\ \A v \in Session :
              InTurns(s, v, sh, sg) /\ NoNews(m, v, sh, sg) /\ (~On(v) => v.sid # s.sid)
              => InTurns(r, v, sh, sg) /\ InTurns(v, r, sh, sg)
         /\ \A n : NoNews(n, s, sh, sg) => NoNews(n, r, sh, sg)
<1>1. /\ m.kind # "Proposal" /\ m.sid = s.sid /\ On(r) /\ r.newest = "Theirs"
      /\ TxOf(r.psbt) = TxOf(m.psbt) /\ Within(m.psbt, r.psbt)
      /\ SharesComplete(r.psbt) => r.psbt.script
      /\ r.psbt.halves = m.psbt.halves
  BY DEF Adopts, TxOf
<1>2. PICK h \in s.psbt.halves : h \in m.psbt.halves
  BY DEF Adopts
<1>3. Whole(m.psbt, sh, sg) /\ Whole(r.psbt, sh, sg)
  BY <1>1, <1>2, WholeGrows DEF NoNews
<1>4. InHand(r, sh, sg)
  BY <1>1, <1>3 DEF InHand
<1>5. ASSUME NEW v \in Session, InTurns(s, v, sh, sg), NoNews(m, v, sh, sg), ~On(v) => v.sid # s.sid
      PROVE  InTurns(r, v, sh, sg) /\ InTurns(v, r, sh, sg)
  <2>1. CASE On(v)
    <3>1. TxOf(v.psbt) = TxOf(r.psbt) => h \in v.psbt.halves
      BY <1>1, <1>2 DEF TxOf
    <3>2. TxOf(v.psbt) = TxOf(r.psbt) =>
            Whole(v.psbt, sh, sg) /\ v.newest # "Theirs" /\ v.newest # "Joined"
      BY <1>1, <1>2, <1>5, <2>1, <3>1 DEF InTurns, NoNews
    <3>3. v.newest \in Newest
      BY DEF Session
    <3> QED
      BY <1>1, <1>3, <2>1, <3>2, <3>3 DEF InTurns, Newest
  <2>2. CASE ~On(v)
    BY <1>1, <1>5, <2>2 DEF InTurns, NoNews
  <2> QED
    BY <2>1, <2>2
<1>6. ASSUME NEW n, NoNews(n, s, sh, sg) PROVE NoNews(n, r, sh, sg)
  <2>1. TxOf(n.psbt) = TxOf(r.psbt) => h \in n.psbt.halves
    BY <1>1, <1>2 DEF TxOf
  <2> QED
    BY <1>1, <1>2, <1>6, <2>1 DEF NoNews
<1> QED
  BY <1>4, <1>5, <1>6

(* Only the outbox, the stage from active to done, or what the turns are   *)
(* not about changes.                                                      *)
SameTurn(s, r) ==
  /\ r.psbt = s.psbt /\ r.newest = s.newest /\ r.sid = s.sid
  /\ On(r) = On(s)

(* The stage or the outbox changes, not the turn.                          *)
LEMMA SameTurns ==
  ASSUME NEW sh, NEW sg, NEW s, NEW r, SameTurn(s, r)
  PROVE  /\ InHand(s, sh, sg) => InHand(r, sh, sg)
         /\ \A v : InTurns(s, v, sh, sg) /\ InTurns(v, s, sh, sg)
                   => InTurns(r, v, sh, sg) /\ InTurns(v, r, sh, sg)
         /\ \A n : NoNews(n, s, sh, sg) => NoNews(n, r, sh, sg)
<1>1. r.psbt = s.psbt /\ r.newest = s.newest /\ r.sid = s.sid /\ (On(r) <=> On(s))
  BY DEF SameTurn
<1> QED
  BY <1>1 DEF InHand, InTurns, NoNews

(* New marks in another transaction make no state less whole.              *)
LEMMA MarksElsewhere ==
  ASSUME NEW sh, NEW sg, NEW a, NEW b, NEW t, NEW p, TxOf(p) # t
  PROVE  /\ Whole(p, sh, sg) => Whole(p, Given(sh, a, t), Given(sg, b, t))
         /\ Unmarked(TxOf(p), sh, sg) => Unmarked(TxOf(p), Given(sh, a, t), Given(sg, b, t))
<1>1. /\ \A x \in Given(sh, a, t) : x \in sh \/ x.tx = t
      /\ \A x \in Given(sg, b, t) : x \in sg \/ x.tx = t
  BY DEF Given, Marks
<1> QED
  BY <1>1 DEF Whole, Unmarked

(* A visit to the signer, from s to r: no other wallet has the turn.       *)
Visited(s, r, t, sh, sg, a, b) ==
  /\ On(s) /\ s.newest # "Mine" /\ TxOf(s.psbt) = t
  /\ On(r) /\ r.newest = "Mine" /\ TxOf(r.psbt) = t /\ r.sid = s.sid
  /\ Within(s.psbt, r.psbt)
  /\ SharesComplete(r.psbt) => r.psbt.script
  /\ Whole(s.psbt, sh, sg)
  /\ Whole(r.psbt, Given(sh, a, t), Given(sg, b, t))

(* The turn is handed over with all that was given.                        *)
LEMMA VisitTurns ==
  ASSUME NEW s, NEW r, NEW t, NEW sh, NEW sg, NEW a, NEW b, Visited(s, r, t, sh, sg, a, b),
         InHand(s, sh, sg)
  PROVE  LET sh1 == Given(sh, a, t)
             sg1 == Given(sg, b, t)
         IN  /\ InHand(r, sh1, sg1)
             /\ \A v : InTurns(s, v, sh, sg) /\ InTurns(v, s, sh, sg)
                       => InTurns(r, v, sh1, sg1) /\ InTurns(v, r, sh1, sg1)
             /\ \A v : InTurns(s, v, sh, sg) /\ InHand(v, sh, sg) => InHand(v, sh1, sg1)
             /\ \A n : NoNews(n, s, sh, sg) /\ n.psbt \in SoundPsbt(sh, sg)
                       => NoNews(n, r, sh1, sg1)
<1> DEFINE sh1 == Given(sh, a, t)
           sg1 == Given(sg, b, t)
<1>0. /\ On(s) /\ s.newest # "Mine" /\ TxOf(s.psbt) = t
      /\ On(r) /\ r.newest = "Mine" /\ TxOf(r.psbt) = t /\ r.sid = s.sid
      /\ Within(s.psbt, r.psbt)
      /\ SharesComplete(r.psbt) => r.psbt.script
      /\ Whole(s.psbt, sh, sg) /\ Whole(r.psbt, sh1, sg1)
      /\ r.psbt.halves = s.psbt.halves
  BY DEF Visited, TxOf
<1>1. /\ \A p : TxOf(p) # t /\ Whole(p, sh, sg) => Whole(p, sh1, sg1)
      /\ \A p : TxOf(p) # t /\ Unmarked(TxOf(p), sh, sg) => Unmarked(TxOf(p), sh1, sg1)
  BY MarksElsewhere
<1> HIDE DEF sh1, sg1
<1>2. InHand(r, sh1, sg1)
  BY <1>0 DEF InHand
<1>3. ASSUME NEW v, InTurns(s, v, sh, sg), InTurns(v, s, sh, sg)
      PROVE  InTurns(r, v, sh1, sg1) /\ InTurns(v, r, sh1, sg1)
  <2>1. On(v) /\ TxOf(v.psbt) = t => v.newest = "Mine"
    BY <1>0, <1>3 DEF InTurns
  <2>2. ~On(v) /\ v.psbt.halves \cap r.psbt.halves # {} => r.sid = v.sid
    BY <1>0, <1>3 DEF InTurns
  <2> QED
    BY <1>0, <2>1, <2>2 DEF InTurns
<1>4. ASSUME NEW v, InTurns(s, v, sh, sg), InHand(v, sh, sg)
      PROVE  InHand(v, sh1, sg1)
  <2>1. CASE TxOf(v.psbt) = t
    <3>1. On(v) => v.newest = "Mine"
      BY <1>0, <1>4, <2>1 DEF InTurns
    <3> QED
      BY <1>4, <3>1 DEF InHand
  <2>2. CASE TxOf(v.psbt) # t
    BY <1>1, <1>4, <2>2 DEF InHand
  <2> QED
    BY <2>1, <2>2
<1>5. ASSUME NEW n, NoNews(n, s, sh, sg), n.psbt \in SoundPsbt(sh, sg)
      PROVE  NoNews(n, r, sh1, sg1)
  <2>1. TxOf(n.psbt) = t => Within(n.psbt, s.psbt)
    BY <1>0, <1>5, WholeHasAll
  <2>2. TxOf(n.psbt) = t => Within(n.psbt, r.psbt)
    BY <1>0, <2>1 DEF Within
  <2> QED
    BY <1>0, <2>2 DEF NoNews
<1> QED
  BY <1>2, <1>3, <1>4, <1>5 DEF sh1, sg1

(* ... and the sessions and messages beside it.                            *)
LEMMA BesideVisit ==
  ASSUME NEW s, NEW r, NEW t, NEW sh, NEW sg, NEW a, NEW b, Visited(s, r, t, sh, sg, a, b),
         s.newest \in Newest
  PROVE  LET sh1 == Given(sh, a, t)
             sg1 == Given(sg, b, t)
         IN  /\ \A u, v : /\ InTurns(u, v, sh, sg)
                          /\ TxOf(v.psbt) = t =>
                               /\ TxOf(u.psbt) # t
                               /\ ~On(u) => u.psbt.halves \cap v.psbt.halves = {}
                          => InTurns(u, v, sh1, sg1)
             /\ \A v, n : /\ InTurns(s, v, sh, sg) /\ InTurns(v, s, sh, sg)
                          /\ NoNews(n, s, sh, sg) /\ NoNews(n, v, sh, sg)
                          /\ n.psbt \in SoundPsbt(sh, sg)
                          => NoNews(n, v, sh1, sg1)
<1> DEFINE sh1 == Given(sh, a, t)
           sg1 == Given(sg, b, t)
<1>0. /\ On(s) /\ s.newest # "Mine" /\ TxOf(s.psbt) = t /\ Whole(s.psbt, sh, sg)
  BY DEF Visited
<1>1. \A p : TxOf(p) # t /\ Whole(p, sh, sg) => Whole(p, sh1, sg1)
  BY MarksElsewhere
<1> HIDE DEF sh1, sg1
<1>2. ASSUME NEW u, NEW v, InTurns(u, v, sh, sg),
             TxOf(v.psbt) = t => /\ TxOf(u.psbt) # t
                                 /\ ~On(u) => u.psbt.halves \cap v.psbt.halves = {}
      PROVE  InTurns(u, v, sh1, sg1)
  <2>1. CASE TxOf(v.psbt) = t
    BY <1>2, <2>1 DEF InTurns
  <2>2. CASE TxOf(v.psbt) # t
    <3>1. Whole(v.psbt, sh, sg) => Whole(v.psbt, sh1, sg1)
      BY <1>1, <2>2
    <3>2. TxOf(u.psbt) = TxOf(v.psbt) /\ Whole(u.psbt, sh, sg) => Whole(u.psbt, sh1, sg1)
      BY <1>1, <2>2
    <3> QED
      BY <1>2, <3>1, <3>2 DEF InTurns
  <2> QED
    BY <2>1, <2>2
<1>3. ASSUME NEW v, NEW n, InTurns(s, v, sh, sg), InTurns(v, s, sh, sg),
             NoNews(n, s, sh, sg), NoNews(n, v, sh, sg), n.psbt \in SoundPsbt(sh, sg)
      PROVE  NoNews(n, v, sh1, sg1)
  <2>1. CASE TxOf(n.psbt) # t
    <3>1. Whole(n.psbt, sh, sg) => Whole(n.psbt, sh1, sg1)
      BY <1>1, <2>1
    <3> QED
      BY <1>3, <3>1 DEF NoNews
  <2>2. CASE TxOf(n.psbt) = t /\ On(v)
    <3>1. TxOf(v.psbt) = t => v.newest = "Mine" /\ Whole(v.psbt, sh, sg)
      BY <1>0, <1>3, <2>2 DEF InTurns
    <3>2. TxOf(v.psbt) = t => Within(n.psbt, v.psbt)
      BY <1>3, <2>2, <3>1, WholeHasAll
    <3> QED
      BY <2>2, <3>1, <3>2 DEF NoNews
  <2>3. CASE TxOf(n.psbt) = t /\ ~On(v)
    <3>1. n.psbt.halves = s.psbt.halves
      BY <1>0, <2>3 DEF TxOf
    <3>2. v.psbt.halves \cap n.psbt.halves # {} => s.newest # "Theirs"
      BY <1>3, <2>3, <3>1 DEF InTurns
    <3>3. n.kind # "Proposal" => s.newest # "Joined"
      BY <1>0, <1>3, <2>3 DEF NoNews
    <3> QED
      BY <1>0, <1>3, <2>3, <3>2, <3>3 DEF NoNews, Newest
  <2> QED
    BY <2>1, <2>2, <2>3
<1> QED
  BY <1>2, <1>3 DEF sh1, sg1

(* A send that begins: h is the new half, and a wallet that joins adds it  *)
(* to the proposal m.                                                      *)
Opens(r, h, m) ==
  \/ ~On(r) /\ r.psbt.halves = {h}
  \/ /\ On(r) /\ r.newest = "Joined" /\ r.sid = m.sid
     /\ \E k : m.psbt.halves \subseteq {k}
     /\ r.psbt.halves = m.psbt.halves \cup {h}
     /\ ~SharesComplete(r.psbt)

(* Nothing was given in the transaction of a send that begins.             *)
LEMMA OpensTurns ==
  ASSUME NEW sh, NEW sg, NEW r, NEW h, NEW m, Opens(r, h, m),
         \A x \in sh \cup sg : h \notin x.tx.halves
  PROVE  /\ InHand(r, sh, sg)
         /\ \A v : h \notin v.psbt.halves /\ (On(r) => NoNews(m, v, sh, sg))
                   => InTurns(r, v, sh, sg) /\ InTurns(v, r, sh, sg)
         /\ \A n : h \notin n.psbt.halves => NoNews(n, r, sh, sg)
<1>1. h \in r.psbt.halves /\ TxOf(r.psbt).halves = r.psbt.halves
  BY DEF Opens, TxOf
<1>2. Unmarked(TxOf(r.psbt), sh, sg)
  BY <1>1 DEF Unmarked
<1>3. Whole(r.psbt, sh, sg)
  BY <1>2, NothingInUnmarked
<1>4. \A p : h \notin p.halves => TxOf(p) # TxOf(r.psbt)
  BY <1>1 DEF TxOf
<1>5. TwoHalves(r.psbt.halves)
  <2>1. CASE r.psbt.halves = {h}
    BY <2>1 DEF TwoHalves
  <2>2. CASE \E k : m.psbt.halves \subseteq {k} /\ r.psbt.halves = m.psbt.halves \cup {h}
    BY <2>2 DEF TwoHalves
  <2> QED
    BY <2>1, <2>2 DEF Opens
<1>6. InHand(r, sh, sg)
  BY <1>2, <1>3, <1>5 DEF InHand, Opens
<1>7. ASSUME NEW v, h \notin v.psbt.halves, On(r) => NoNews(m, v, sh, sg)
      PROVE  InTurns(r, v, sh, sg) /\ InTurns(v, r, sh, sg)
  <2>1. TxOf(v.psbt) # TxOf(r.psbt)
    BY <1>4, <1>7
  <2>2. CASE On(r)
    <3>1. /\ r.newest = "Joined" /\ r.sid = m.sid
          /\ r.psbt.halves = m.psbt.halves \cup {h}
      BY <2>2 DEF Opens
    <3>2. v.psbt.halves \cap r.psbt.halves # {} => v.psbt.halves \cap m.psbt.halves # {}
      BY <1>7, <3>1
    <3>3. ~On(v) /\ v.psbt.halves \cap r.psbt.halves # {} => r.sid = v.sid
      BY <1>7, <2>2, <3>1, <3>2 DEF NoNews
    <3> QED
      BY <1>3, <2>1, <2>2, <3>1, <3>3 DEF InTurns
  <2>3. CASE ~On(r)
    <3>1. r.psbt.halves = {h}
      BY <2>3 DEF Opens
    <3>2. r.psbt.halves \cap v.psbt.halves = {} /\ v.psbt.halves \cap r.psbt.halves = {}
      BY <1>7, <3>1
    <3> QED
      BY <2>3, <3>2 DEF InTurns
  <2> QED
    BY <2>2, <2>3
<1>8. ASSUME NEW n, h \notin n.psbt.halves PROVE NoNews(n, r, sh, sg)
  <2>1. TxOf(n.psbt) # TxOf(r.psbt)
    BY <1>4, <1>8
  <2>2. ~On(r) => r.psbt.halves \cap n.psbt.halves = {}
    BY <1>8 DEF Opens
  <2> QED
    BY <2>1, <2>2 DEF NoNews
<1> QED
  BY <1>6, <1>7, <1>8

(* What a session says is whole, or has nothing for the others.            *)
LEMMA SaysNoNews ==
  ASSUME NEW sh, NEW sg, NEW r, r.psbt \in SoundPsbt(sh, sg), r.newest # "Joined"
  PROVE  /\ NoNews(Says(r), r, sh, sg)
         /\ \A v : InTurns(r, v, sh, sg) /\ InTurns(v, r, sh, sg)
                   => NoNews(Says(r), v, sh, sg)
<1> DEFINE m == Says(r)
<1>1. /\ m.psbt = r.psbt /\ m.sid = r.sid
      /\ m.kind # "Proposal" <=> On(r)
  BY DEF Says, ProposalMessage, UpdateMessage, DoneMessage, On
<1> HIDE DEF m
<1>2. NoNews(m, r, sh, sg)
  BY <1>1 DEF NoNews, Within
<1>3. ASSUME NEW v, InTurns(r, v, sh, sg), InTurns(v, r, sh, sg)
      PROVE  NoNews(m, v, sh, sg)
  <2>1. TxOf(r.psbt) = TxOf(v.psbt) /\ Whole(v.psbt, sh, sg) => Within(r.psbt, v.psbt)
    BY WholeHasAll
  <2>2. On(r) /\ On(v) /\ TxOf(v.psbt) = TxOf(r.psbt) =>
          v.newest # "Joined" /\ (Whole(r.psbt, sh, sg) \/ Whole(v.psbt, sh, sg))
    BY <1>3 DEF InTurns
  <2>3. ~On(v) /\ v.psbt.halves \cap r.psbt.halves # {} => r.sid = v.sid /\ Whole(r.psbt, sh, sg)
    BY <1>3 DEF InTurns
  <2> QED
    BY <1>1, <2>1, <2>2, <2>3 DEF NoNews
<1> QED
  BY <1>2, <1>3 DEF m

(* No third wallet has a half in a transaction of two.                     *)
LEMMA NoThird ==
  ASSUME NEW halves, TwoHalves(halves),
         NEW h \in halves, NEW k \in halves, NEW l \in halves,
         h.owner # k.owner, h.owner # l.owner, k.owner # l.owner
  PROVE  FALSE
BY DEF TwoHalves

-----------------------------------------------------------------------------
(* The turns of all wallets; f stands for the session files.               *)

FilesInTurn(f, sh, sg) ==
  /\ \A w \in Wallets : f[w] # NoSession => InHand(f[w], sh, sg)
  /\ \A w, v \in Wallets : w # v /\ f[w] # NoSession /\ f[v] # NoSession
                           => InTurns(f[w], f[v], sh, sg)

Noted(f, sh, sg) ==
  {m \in Message :
     /\ TwoHalves(m.psbt.halves)
     /\ \A w \in Wallets : f[w] # NoSession => NoNews(m, f[w], sh, sg)}

(* A step that changes the session of p alone, and gives no marks.         *)
Fits(r, p, f, sh, sg, old) ==
  /\ InHand(r, sh, sg)
  /\ \A v \in Wallets \ {p} :
       f[v] # NoSession => InTurns(r, f[v], sh, sg) /\ InTurns(f[v], r, sh, sg)
  /\ \A n \in old : NoNews(n, r, sh, sg)

(* It is enough that the wallet that moves fits among the others.          *)
LEMMA OneChanges ==
  ASSUME NEW f, NEW g, NEW sh, NEW sg, NEW old, NEW p \in Wallets,
         FilesInTurn(f, sh, sg), old \subseteq Noted(f, sh, sg),
         \A v \in Wallets \ {p} : g[v] = f[v],
         g[p] # NoSession => Fits(g[p], p, f, sh, sg, old)
  PROVE  FilesInTurn(g, sh, sg) /\ old \subseteq Noted(g, sh, sg)
<1>1. ASSUME NEW w \in Wallets, g[w] # NoSession
      PROVE  /\ InHand(g[w], sh, sg) /\ \A n \in old : NoNews(n, g[w], sh, sg)
             /\ \A v \in Wallets \ {w} : g[v] # NoSession => InTurns(g[w], g[v], sh, sg)
  <2>1. CASE w = p
    BY <1>1, <2>1 DEF Fits
  <2>2. CASE w # p
    <3>1. g[w] = f[w] /\ InHand(f[w], sh, sg) /\ \A n \in old : NoNews(n, f[w], sh, sg)
      BY <1>1, <2>2 DEF FilesInTurn, Noted
    <3>2. ASSUME NEW v \in Wallets \ {w}, g[v] # NoSession
          PROVE  InTurns(g[w], g[v], sh, sg)
      <4>1. CASE v = p
        BY <1>1, <2>2, <3>1, <3>2, <4>1 DEF Fits
      <4>2. CASE v # p
        BY <1>1, <2>2, <3>1, <3>2, <4>2 DEF FilesInTurn
      <4> QED
        BY <4>1, <4>2
    <3> QED
      BY <3>1, <3>2
  <2> QED
    BY <2>1, <2>2
<1>2. FilesInTurn(g, sh, sg)
  BY <1>1 DEF FilesInTurn
<1>3. old \subseteq Noted(g, sh, sg)
  BY <1>1 DEF Noted
<1> QED
  BY <1>2, <1>3

(* A message that is in two sets of messages wherever it is.               *)
LEMMA SeqBoth ==
  ASSUME NEW S, NEW T, NEW q, q \in Seq(S), q \in Seq(T)
  PROVE  q \in Seq(S \cap T)
OBVIOUS

LEMMA CarriedBoth ==
  ASSUME NEW S, NEW T, Carried(S), Carried(T)
  PROVE  Carried(S \cap T)
BY SeqBoth DEF Carried

(* The messages that are somewhere are sound.                              *)
LEMMA CarriedSound ==
  ASSUME Sound
  PROVE  Carried(SoundMessage(shared, signed, chain))
<1>1. \A w \in Wallets : HasSession(w) =>
        session[w].outbox \in Seq(SoundMessage(shared, signed, chain))
  BY SessionSound, SessionParts
<1> QED
  BY <1>1 DEF Carried, Sound, SoundFiles, SoundTransit

(* What is known of the messages while p takes a step.                     *)
Earlier(B) == KnownMessages(B) \cap SoundMessage(shared, signed, chain)
              \cap Noted(session, shared, signed)

Turns(B) ==
  /\ Sound /\ KnownBy(B)
  /\ FilesInTurn(session, shared, signed)
  /\ Carried(Noted(session, shared, signed))

LEMMA CarriedEarlier ==
  ASSUME NEW B, Turns(B)
  PROVE  Carried(Earlier(B))
<1>1. Carried(KnownMessages(B) \cap SoundMessage(shared, signed, chain))
  BY CarriedSound, CarriedBoth DEF Turns, KnownBy
<1> QED
  BY <1>1, CarriedBoth DEF Turns, Earlier

FitsNow(B, p, r) == Fits(r, p, session, shared, signed, Earlier(B))

(* The session goes on without a change of the turns.                      *)
LEMMA FitsSame ==
  ASSUME NEW B, Turns(B), NEW p \in Wallets, HasSession(p), NEW r, SameTurn(session[p], r)
  PROVE  FitsNow(B, p, r)
<1> DEFINE s == session[p]
<1>1. /\ InHand(s, shared, signed)
      /\ \A v \in Wallets \ {p} : session[v] # NoSession =>
           InTurns(s, session[v], shared, signed) /\ InTurns(session[v], s, shared, signed)
      /\ \A n \in Earlier(B) : NoNews(n, s, shared, signed)
  BY DEF Turns, FilesInTurn, HasSession, Earlier, Noted
<1> HIDE DEF s
<1> QED
  BY <1>1, SameTurns DEF FitsNow, Fits, s

(* Two wallets do not propose one send.                                    *)
LEMMA OneProposes ==
  ASSUME NEW B, NEW w, NEW v, w # v, NEW s, NEW r, KnownSession(B, w, s), KnownSession(B, v, r),
         ~On(s), ~On(r)
  PROVE  s.sid # r.sid
<1>1. PICK h \in s.psbt.halves, k \in r.psbt.halves : SidOf(h) = s.sid /\ SidOf(k) = r.sid
  BY DEF KnownSession, Names
<1>2. h.owner = w /\ k.owner = v
  BY DEF KnownSession, On
<1> QED
  BY <1>1, <1>2 DEF SidOf

(* A message is received.                                                  *)
LEMMA FitsHeard ==
  ASSUME NEW B, Turns(B), NEW p \in Wallets, Heard(p)
  PROVE  FitsNow(B, p, session'[p])
<1> DEFINE s == session[p]
           r == session'[p]
<1>0. session \in [Wallets -> Session \cup {NoSession}] /\ inbox[p] \in Seq(Earlier(B)) /\ Sound
  BY CarriedEarlier DEF Turns, Sound, TypeOK, Carried
<1>1. /\ HasSession(p) /\ s \in Session /\ Continues(p, s, r) /\ KnownSession(B, p, s)
  BY <1>0, SessionGoesOn DEF Turns, GoesOn, KnownBy, KnownFiles
<1>2. PICK m \in Earlier(B) : r = Received(s, m)
  <2>1. PICK i \in DOMAIN inbox[p] : Becomes(p, Received(s, inbox[p][i]))
    BY DEF Heard
  <2>2. inbox[p][i] \in Earlier(B) /\ r = Received(s, inbox[p][i])
    BY <1>0, <2>1 DEF Becomes
  <2> QED
    BY <2>2
<1>3. /\ m \in Message /\ m.psbt \in SoundPsbt(shared, signed)
      /\ TwoHalves(m.psbt.halves)
      /\ \A v \in Wallets : HasSession(v) => NoNews(m, session[v], shared, signed)
  BY <1>2 DEF Earlier, Noted, SoundMessage, HasSession
<1>4. /\ InHand(s, shared, signed)
      /\ \A v \in Wallets \ {p} : HasSession(v) =>
           InTurns(s, session[v], shared, signed) /\ InTurns(session[v], s, shared, signed)
      /\ \A n \in Earlier(B) : NoNews(n, s, shared, signed)
  BY <1>1 DEF Turns, FilesInTurn, HasSession, Earlier, Noted
<1>5. r.sid = s.sid
  BY <1>1 DEF Continues
<1>6. CASE On(s)
  <2>1. On(r)
    BY <1>1, <1>6, SameTx DEF On
  <2>2. CASE r.psbt = s.psbt /\ r.newest = s.newest
    BY <1>1, <1>5, <1>6, <2>1, <2>2, FitsSame DEF SameTurn, On
  <2>3. CASE Learns(s, m, r)
    <3>1. NoNews(m, s, shared, signed)
      BY <1>2, <1>4
    <3> HIDE DEF s, r
    <3> QED
      BY <1>3, <1>4, <1>5, <1>6, <2>1, <2>3, <3>1, LearnsTurns DEF FitsNow, Fits, HasSession, s, r
  <2>4. SharesComplete(s.psbt) => s.psbt.script
    BY <1>4, <1>6 DEF InHand
  <2> QED
    BY <1>1, <1>2, <1>3, <1>6, <2>2, <2>3, <2>4, ReceivedOn
<1>7. CASE ~On(s)
  <2>1. CASE r = s
    BY <1>1, <2>1, FitsSame DEF SameTurn
  <2>2. CASE Adopts(s, m, r)
    <3>1. NoNews(m, s, shared, signed)
      BY <1>2, <1>4
    <3>2. s.psbt.halves # {}
      BY <1>1 DEF KnownSession
    <3>3. ASSUME NEW v \in Wallets \ {p}, HasSession(v)
          PROVE  /\ session[v] \in Session
                 /\ ~On(session[v]) => session[v].sid # s.sid
      <4>1. KnownSession(B, v, session[v]) /\ session[v] \in Session
        BY <1>0, <3>3 DEF Turns, KnownBy, KnownFiles, HasSession
      <4> QED
        BY <1>1, <1>7, <4>1, OneProposes
    <3> HIDE DEF s, r
    <3> QED
      BY <1>3, <1>4, <1>5, <1>7, <2>2, <3>1, <3>2, <3>3, AdoptsTurns
         DEF FitsNow, Fits, HasSession, s, r
  <2> QED
    BY <1>1, <1>2, <1>3, <1>7, <2>1, <2>2, ReceivedProposed
<1> QED
  BY <1>6, <1>7

(* The outbox is cleared, or the transaction was broadcast.                *)
LEMMA FitsOn ==
  ASSUME NEW B, Turns(B), NEW p \in Wallets, Cleared(p) \/ Ended(p)
  PROVE  FitsNow(B, p, session'[p])
<1> DEFINE s == session[p]
           r == session'[p]
<1>1. /\ session \in [Wallets -> Session \cup {NoSession}]
      /\ HasSession(p) /\ s \in Session
  BY DEF Turns, Sound, TypeOK, HasSession, Cleared, Ended, Becomes
<1>2. CASE Cleared(p)
  <2>1. r = [s EXCEPT !.outbox = << >>]
    BY <1>1, <1>2 DEF Cleared, Becomes
  <2>2. SameTurn(s, r)
    <3> HIDE DEF s
    <3> QED
      BY <1>1, <2>1 DEF SameTurn, On, Session
  <2> QED
    BY <1>1, <2>2, FitsSame
<1>3. CASE Ended(p)
  <2>1. r = Finished(s) /\ s.stage = "Active"
    BY <1>1, <1>3 DEF Ended, Becomes
  <2>2. SameTurn(s, r)
    <3> HIDE DEF s
    <3> QED
      BY <1>1, <2>1, FinishedKeeps DEF SameTurn, On
  <2> QED
    BY <1>1, <2>2, FitsSame
<1> QED
  BY <1>2, <1>3

(* A half that was not built before is in nothing that is known.           *)
LEMMA NotYetNamed ==
  ASSUME NEW B, Turns(B), NEW h, \A k \in B : SidOf(k) # SidOf(h)
  PROVE  /\ \A x \in shared \cup signed : h \notin x.tx.halves
         /\ \A v \in Wallets : HasSession(v) => h \notin session[v].psbt.halves
         /\ \A n \in Earlier(B) : h \notin n.psbt.halves
<1>1. h \notin B
  OBVIOUS
<1> QED
  BY <1>1 DEF Turns, KnownBy, KnownFiles, KnownSession, Earlier, KnownMessages, OneEach

(* A send is started or joined.                                            *)
LEMMA FitsBegun ==
  ASSUME NEW B, Turns(B), NEW p \in Wallets, Started(p) \/ Joined(p)
  PROVE  FitsNow(B, p, session'[p])
<1> DEFINE r == session'[p]
<1>0. /\ session \in [Wallets -> Session \cup {NoSession}] /\ Sound /\ KnownBy(B)
      /\ inbox[p] \in Seq(Earlier(B)) /\ made \in [Wallets -> Nat]
  BY CarriedEarlier DEF Turns, Sound, TypeOK, Carried
<1>1. PICK h : Begun(B, p, h)
  BY <1>0, BeginsKnown
<1>2. /\ h \in r.psbt.halves /\ \A k \in r.psbt.halves : k.owner = p => k = h
      /\ KnownSession(B \cup {h}, p, r) /\ r.psbt.shares = {}
      /\ \A k \in B : SidOf(k) # SidOf(h)
  BY <1>1 DEF Begun
<1>3. \E m \in Earlier(B) \cup {0} : Opens(r, h, m) /\ (On(r) => m \in Earlier(B))
  <2>1. CASE Started(p)
    <3>1. PICK d \in Deals : \E coins \in Fundable(p, d) :
            session' = [session EXCEPT ![p] = StartSession(p, NewHalf(p, coins), d)]
      BY <2>1 DEF Started
    <3>2. PICK coins \in Fundable(p, d) :
            session' = [session EXCEPT ![p] = StartSession(p, NewHalf(p, coins), d)]
      BY <3>1
    <3>3. r = StartSession(p, NewHalf(p, coins), d)
      BY <1>0, <3>2
    <3>4. r.stage = "Proposed"
      BY <3>3, StartSessionIs
    <3> HIDE DEF r
    <3>5. r.psbt.halves = {h}
      BY <1>2, <3>4 DEF KnownSession
    <3> QED
      BY <3>4, <3>5 DEF Opens, On
  <2>2. CASE Joined(p)
    <3>1. PICK i \in DOMAIN inbox[p] : \E coins \in Fundable(p, inbox[p][i].psbt.deal) :
            /\ Acceptable(p, inbox[p][i])
            /\ session' = [session EXCEPT ![p] = JoinSession(p, inbox[p][i], NewHalf(p, coins))]
      BY <2>2 DEF Joined
    <3>2. PICK m : m = inbox[p][i]
      OBVIOUS
    <3>3. PICK coins \in Fundable(p, m.psbt.deal) :
            session' = [session EXCEPT ![p] = JoinSession(p, m, NewHalf(p, coins))]
      BY <3>1, <3>2
    <3>4. m \in Earlier(B) /\ r = JoinSession(p, m, NewHalf(p, coins))
      BY <1>0, <3>2, <3>3
    <3>5. /\ r.sid = m.sid /\ r.stage = "Active" /\ r.newest = "Joined"
          /\ r.psbt.halves = m.psbt.halves \cup {NewHalf(p, coins)}
      BY <3>4, JoinSessionIs
    <3>6. NewHalf(p, coins) = h
      <4>1. NewHalf(p, coins).owner = p
        BY DEF NewHalf
      <4> QED
        BY <1>2, <3>5, <4>1
    <3> HIDE DEF r
    <3>7. \E k : m.psbt.halves \subseteq {k}
      <4>1. /\ \A k \in m.psbt.halves : k.owner = m.from
            /\ \A k, l \in m.psbt.halves : k.owner = l.owner => k = l
        BY <3>1, <3>2, <3>4 DEF Earlier, KnownMessages, OneEach, Acceptable, ReadableProposal
      <4> QED
        BY <4>1
    <3>8. ~SharesComplete(r.psbt)
      <4>1. InputsOf(m.psbt) # {}
        BY <3>1, <3>2 DEF Acceptable, ReadableProposal
      <4>2. InputsOf(m.psbt) \subseteq InputsOf(r.psbt)
        BY <3>5 DEF InputsOf
      <4> QED
        BY <1>2, <4>1, <4>2 DEF SharesComplete
    <3> QED
      BY <3>4, <3>5, <3>6, <3>7, <3>8 DEF Opens, On
  <2> QED
    BY <2>1, <2>2
<1>4. PICK m : Opens(r, h, m) /\ (On(r) => m \in Earlier(B))
  BY <1>3
<1>5. \A v \in Wallets : HasSession(v) /\ On(r) => NoNews(m, session[v], shared, signed)
  BY <1>4 DEF Earlier, Noted, HasSession
<1> HIDE DEF r
<1>6. /\ \A x \in shared \cup signed : h \notin x.tx.halves
      /\ \A v \in Wallets : HasSession(v) => h \notin session[v].psbt.halves
      /\ \A n \in Earlier(B) : h \notin n.psbt.halves
  BY <1>2, NotYetNamed
<1> QED
  BY <1>4, <1>5, <1>6, OpensTurns DEF FitsNow, Fits, HasSession, r

(* All steps but a visit to a signer.                                      *)
LEMMA TurnsKept ==
  ASSUME NEW B, Turns(B), NEW p \in Wallets, Changes(p), ~Answered(p)
  PROVE  /\ FilesInTurn(session', shared', signed')
         /\ Earlier(B) \subseteq Noted(session', shared', signed')
<1>0. /\ session \in [Wallets -> Session \cup {NoSession}] /\ Sound
      /\ FilesInTurn(session, shared, signed)
      /\ Earlier(B) \subseteq Noted(session, shared, signed)
  BY DEF Turns, Sound, TypeOK, Earlier
<1>1. shared' = shared /\ signed' = signed
  BY DEF Changes, GoesOn, Started, Joined, Left, Heard, Cleared, Ended
<1>2. \A v \in Wallets \ {p} : session'[v] = session[v]
  BY <1>0, OthersStay
<1>3. session'[p] # NoSession => Fits(session'[p], p, session, shared, signed, Earlier(B))
  <2>1. CASE Left(p)
    BY <1>0, <2>1 DEF Left
  <2>2. CASE ~Left(p)
    <3>1. FitsNow(B, p, session'[p])
      BY <2>2, FitsHeard, FitsOn, FitsBegun DEF Changes, GoesOn
    <3> QED
      BY <3>1 DEF FitsNow
  <2> QED
    BY <2>1, <2>2
<1>4. PICK g : g = session'
  OBVIOUS
<1>5. FilesInTurn(g, shared, signed) /\ Earlier(B) \subseteq Noted(g, shared, signed)
  BY <1>0, <1>2, <1>3, <1>4, OneChanges
<1> QED
  BY <1>1, <1>4, <1>5

(* Who holds the transaction a signer is visited for: nobody but its two   *)
(* wallets.                                                                *)
LEMMA TwoWallets ==
  ASSUME NEW B, Turns(B), NEW p \in Wallets, HasSession(p),
         NEW u \in Wallets \ {p}, NEW v \in Wallets \ {p}, u # v, HasSession(u), HasSession(v),
         TxOf(session[v].psbt) = TxOf(session[p].psbt)
  PROVE  /\ TxOf(session[u].psbt) # TxOf(session[p].psbt)
         /\ ~On(session[u]) => session[u].psbt.halves \cap session[v].psbt.halves = {}
<1> DEFINE H == session[p].psbt.halves
<1>1. /\ KnownSession(B, p, session[p]) /\ KnownSession(B, u, session[u])
      /\ KnownSession(B, v, session[v]) /\ TwoHalves(H)
  BY DEF Turns, KnownBy, KnownFiles, FilesInTurn, InHand, HasSession
<1>2. session[v].psbt.halves = H
  BY DEF TxOf
<1>3. PICK h \in H, k \in H : h.owner = p /\ k.owner = v
  BY <1>1, <1>2 DEF KnownSession
<1> HIDE DEF H
<1>4. \A l \in H : l.owner # u
  BY <1>1, <1>3, NoThird
<1>5. TxOf(session[u].psbt) # TxOf(session[p].psbt)
  <2>1. PICK l \in session[u].psbt.halves : l.owner = u
    BY <1>1 DEF KnownSession
  <2> QED
    BY <1>4, <2>1 DEF TxOf, H
<1>6. ~On(session[u]) => session[u].psbt.halves \cap session[v].psbt.halves = {}
  BY <1>1, <1>2, <1>4 DEF KnownSession, On
<1> QED
  BY <1>5, <1>6

(* What respond does is a visit.                                           *)
LEMMA VisitIs ==
  ASSUME NEW B, Turns(B), NEW p \in Wallets, Answered(p)
  PROVE  /\ HasSession(p) /\ session[p].newest \in Newest
         /\ InHand(session[p], shared, signed)
         /\ \E a, b : LET t == TxOf(session[p].psbt) IN
              /\ shared' = Given(shared, a, t) /\ signed' = Given(signed, b, t)
              /\ Visited(session[p], session'[p], t, shared, signed, a, b)
<1> DEFINE s == session[p]
           r == session'[p]
<1>0. session \in [Wallets -> Session \cup {NoSession}] /\ Sound
  BY DEF Turns, Sound, TypeOK
<1>1. PICK answer \in Answers(s) :
        /\ RespondAccepts(s, answer)
        /\ Becomes(p, Responded(s, answer))
        /\ shared' = Given(shared, answer.shares, TxOf(s.psbt))
        /\ signed' = Given(signed, answer.sigs, TxOf(s.psbt))
  BY DEF Answered, Given
<1>2. /\ HasSession(p) /\ s \in Session /\ r = Responded(s, answer) /\ answer \in Psbt
  BY <1>0, <1>1, AnswerType DEF Becomes, HasSession
<1>3. InHand(s, shared, signed)
  BY <1>2 DEF Turns, FilesInTurn, HasSession
<1>4. s.newest \in Newest
  BY <1>2 DEF Session
<1>5. r.sid = s.sid
  BY <1>1, <1>2, RespondedKeeps
<1> HIDE DEF s, r
<1>6. Visited(s, r, TxOf(s.psbt), shared, signed, answer.shares, answer.sigs)
  <2>1. /\ On(s) /\ s.newest # "Mine"
        /\ On(r) /\ r.newest = "Mine" /\ TxOf(r.psbt) = TxOf(s.psbt)
        /\ Within(s.psbt, r.psbt)
        /\ SharesComplete(r.psbt) => r.psbt.script
        /\ Whole(s.psbt, shared, signed) =>
             Whole(r.psbt, Given(shared, answer.shares, TxOf(s.psbt)),
                           Given(signed, answer.sigs, TxOf(s.psbt)))
    BY <1>1, <1>2, RespondedIs
  <2>2. Whole(s.psbt, shared, signed)
    BY <1>3, <2>1 DEF InHand
  <2> QED
    BY <1>5, <2>1, <2>2 DEF Visited
<1>7. \E a, b : /\ shared' = Given(shared, a, TxOf(s.psbt)) /\ signed' = Given(signed, b, TxOf(s.psbt))
                /\ Visited(s, r, TxOf(s.psbt), shared, signed, a, b)
  BY <1>1, <1>6
<1> QED
  BY <1>2, <1>3, <1>4, <1>7 DEF s, r

(* A visit to a signer leaves the files and the messages in turn.          *)
LEMMA TurnsVisited ==
  ASSUME NEW B, Turns(B), NEW p \in Wallets, Answered(p)
  PROVE  /\ FilesInTurn(session', shared', signed')
         /\ Earlier(B) \subseteq Noted(session', shared', signed')
<1> DEFINE s == session[p]
           r == session'[p]
           t == TxOf(s.psbt)
<1>0. /\ FilesInTurn(session, shared, signed) /\ Sound
      /\ Earlier(B) \subseteq Noted(session, shared, signed)
      /\ \A n \in Earlier(B) : n.psbt \in SoundPsbt(shared, signed)
  BY DEF Turns, Earlier, SoundMessage
<1>1. HasSession(p) /\ s.newest \in Newest /\ InHand(s, shared, signed)
  BY VisitIs
<1>2. PICK a, b : /\ shared' = Given(shared, a, t) /\ signed' = Given(signed, b, t)
                  /\ Visited(s, r, t, shared, signed, a, b)
  BY VisitIs
<1>3. PICK g, sh1, sg1 : g = session' /\ sh1 = Given(shared, a, t) /\ sg1 = Given(signed, b, t)
  OBVIOUS
<1>4. /\ \A v \in Wallets \ {p} : g[v] = session[v]
      /\ g[p] = r
  BY <1>0, <1>3, OthersStay DEF Changes, GoesOn
<1>5. \A v \in Wallets \ {p} : HasSession(v) =>
        /\ InTurns(s, session[v], shared, signed) /\ InTurns(session[v], s, shared, signed)
        /\ InHand(session[v], shared, signed)
  BY <1>0, <1>1 DEF FilesInTurn, HasSession
<1>6. \A n \in Earlier(B) : /\ NoNews(n, s, shared, signed)
                            /\ \A v \in Wallets : HasSession(v) =>
                                 NoNews(n, session[v], shared, signed)
  BY <1>0, <1>1 DEF Noted, HasSession
<1>7. \A u, v \in Wallets \ {p} : u # v /\ HasSession(u) /\ HasSession(v) /\ TxOf(session[v].psbt) = t =>
        /\ TxOf(session[u].psbt) # t
        /\ ~On(session[u]) => session[u].psbt.halves \cap session[v].psbt.halves = {}
  BY <1>1, TwoWallets
<1> HIDE DEF s, r, t
<1>8. /\ InHand(r, sh1, sg1)
      /\ \A v : InTurns(s, v, shared, signed) /\ InTurns(v, s, shared, signed)
                => InTurns(r, v, sh1, sg1) /\ InTurns(v, r, sh1, sg1)
      /\ \A v : InTurns(s, v, shared, signed) /\ InHand(v, shared, signed) => InHand(v, sh1, sg1)
      /\ \A n : NoNews(n, s, shared, signed) /\ n.psbt \in SoundPsbt(shared, signed)
                => NoNews(n, r, sh1, sg1)
  BY <1>1, <1>2, <1>3, VisitTurns
<1>9. /\ \A u, v : /\ InTurns(u, v, shared, signed)
                   /\ TxOf(v.psbt) = t =>
                        /\ TxOf(u.psbt) # t
                        /\ ~On(u) => u.psbt.halves \cap v.psbt.halves = {}
                   => InTurns(u, v, sh1, sg1)
      /\ \A v, n : /\ InTurns(s, v, shared, signed) /\ InTurns(v, s, shared, signed)
                   /\ NoNews(n, s, shared, signed) /\ NoNews(n, v, shared, signed)
                   /\ n.psbt \in SoundPsbt(shared, signed)
                   => NoNews(n, v, sh1, sg1)
  BY <1>1, <1>2, <1>3, BesideVisit
<1>10. ASSUME NEW w \in Wallets, g[w] # NoSession
       PROVE  /\ InHand(g[w], sh1, sg1) /\ \A n \in Earlier(B) : NoNews(n, g[w], sh1, sg1)
              /\ \A v \in Wallets \ {w} : g[v] # NoSession => InTurns(g[w], g[v], sh1, sg1)
  <2>1. CASE w = p
    BY <1>0, <1>4, <1>5, <1>6, <1>8, <2>1 DEF HasSession
  <2>2. CASE w # p
    <3>1. g[w] = session[w] /\ HasSession(w)
      BY <1>4, <1>10, <2>2 DEF HasSession
    <3>2. InHand(g[w], sh1, sg1)
      BY <1>5, <1>8, <2>2, <3>1
    <3>3. \A n \in Earlier(B) : NoNews(n, g[w], sh1, sg1)
      BY <1>0, <1>5, <1>6, <1>9, <2>2, <3>1
    <3>4. ASSUME NEW v \in Wallets \ {w}, g[v] # NoSession
          PROVE  InTurns(g[w], g[v], sh1, sg1)
      <4>1. CASE v = p
        BY <1>4, <1>5, <1>8, <2>2, <3>1, <4>1
      <4>2. CASE v # p
        <5>1. g[v] = session[v] /\ HasSession(v)
          BY <1>4, <3>4, <4>2 DEF HasSession
        <5>2. InTurns(session[w], session[v], shared, signed)
          BY <1>0, <3>1, <5>1 DEF FilesInTurn, HasSession
        <5>3. TxOf(session[v].psbt) = t =>
                /\ TxOf(session[w].psbt) # t
                /\ ~On(session[w]) => session[w].psbt.halves \cap session[v].psbt.halves = {}
          BY <1>7, <2>2, <3>1, <4>2, <5>1
        <5> QED
          BY <1>9, <3>1, <5>1, <5>2, <5>3
      <4> QED
        BY <4>1, <4>2
    <3> QED
      BY <3>2, <3>3, <3>4
  <2> QED
    BY <2>1, <2>2
<1>11. FilesInTurn(g, sh1, sg1)
  BY <1>10 DEF FilesInTurn
<1>12. Earlier(B) \subseteq Noted(g, sh1, sg1)
  BY <1>0, <1>10 DEF Noted
<1> QED
  BY <1>2, <1>3, <1>11, <1>12

(* A wallet that has just joined has nothing to say before its visit.      *)
LEMMA JoinedIsSilent ==
  ASSUME NEW B, Turns(B), NEW p \in Wallets, Changes(p), HasSession(p)',
         session'[p].newest = "Joined"
  PROVE  \/ session'[p].outbox = << >>
         \/ HasSession(p) /\ session'[p].outbox = session[p].outbox
<1> DEFINE s == session[p]
           r == session'[p]
<1>0. session \in [Wallets -> Session \cup {NoSession}] /\ Sound /\ inbox[p] \in Seq(Message)
  BY DEF Turns, Sound, TypeOK
<1>1. CASE Started(p)
  <2>1. PICK d \in Deals : \E coins \in Fundable(p, d) :
          session' = [session EXCEPT ![p] = StartSession(p, NewHalf(p, coins), d)]
    BY <1>1 DEF Started
  <2>2. \E half : r = StartSession(p, half, d)
    BY <1>0, <2>1
  <2>3. r.newest = "Mine"
    BY <2>2 DEF StartSession
  <2> QED
    BY <2>3
<1>2. CASE Joined(p)
  <2>1. PICK i \in DOMAIN inbox[p] : \E coins \in Fundable(p, inbox[p][i].psbt.deal) :
          session' = [session EXCEPT ![p] = JoinSession(p, inbox[p][i], NewHalf(p, coins))]
    BY <1>2 DEF Joined
  <2>2. \E half : r = JoinSession(p, inbox[p][i], half)
    BY <1>0, <2>1
  <2> QED
    BY <2>2, JoinSessionIs
<1>3. CASE Left(p)
  BY <1>0, <1>3 DEF Left, HasSession
<1>4. CASE Heard(p)
  <2>1. PICK i \in DOMAIN inbox[p] : Becomes(p, Received(s, inbox[p][i]))
    BY <1>4 DEF Heard
  <2>2. /\ HasSession(p) /\ s \in Session /\ inbox[p][i] \in Message
        /\ r = Received(s, inbox[p][i])
    BY <1>0, <2>1 DEF Becomes, HasSession
  <2> QED
    BY <2>2, ReceivedKeeps
<1>5. CASE Cleared(p)
  <2>1. HasSession(p) /\ s \in Session /\ r = [s EXCEPT !.outbox = << >>]
    BY <1>0, <1>5 DEF Cleared, Becomes, HasSession
  <2> HIDE DEF s
  <2> QED
    BY <2>1 DEF Session
<1>6. CASE Ended(p)
  <2>1. /\ HasSession(p) /\ s \in Session /\ r = Finished(s)
        /\ s.stage = "Active" /\ TxOf(s.psbt) \in chain
    BY <1>0, <1>6 DEF Ended, Becomes, HasSession
  <2>2. r.newest = s.newest /\ InHand(s, shared, signed)
    BY <2>1, FinishedKeeps DEF Turns, FilesInTurn, HasSession
  <2>3. Unmarked(TxOf(s.psbt), shared, signed)
    BY <2>1, <2>2 DEF InHand, On
  <2>4. PICK c : c \in InputsOf(s.psbt)
    BY <1>0, <2>1, SessionSound, SessionParts
  <2>5. InputsOf(TxOf(s.psbt)) = InputsOf(s.psbt)
    BY DEF InputsOf, TxOf
  <2>6. [coin |-> c, tx |-> TxOf(s.psbt)] \in signed
    BY <1>0, <2>1, <2>4, <2>5 DEF Sound, PaidByConsent, Marks
  <2> QED
    BY <2>3, <2>6 DEF Unmarked
<1>7. CASE Answered(p)
  <2>1. r.newest = "Mine"
    BY <1>7, VisitIs DEF Visited
  <2> QED
    BY <2>1
<1> QED
  BY <1>1, <1>2, <1>3, <1>4, <1>5, <1>6, <1>7 DEF Changes, GoesOn

(* Every step does.                                                        *)
LEMMA FilesTurns ==
  ASSUME NEW B, Turns(B), [Next]_vars
  PROVE  /\ FilesInTurn(session', shared', signed')
         /\ Earlier(B) \subseteq Noted(session', shared', signed')
<1>1. CASE Still
  BY <1>1 DEF Still, Turns, Earlier
<1>2. ASSUME NEW p \in Wallets, Changes(p)
      PROVE  /\ FilesInTurn(session', shared', signed')
             /\ Earlier(B) \subseteq Noted(session', shared', signed')
  BY <1>2, TurnsKept, TurnsVisited
<1> QED
  BY <1>1, <1>2, StepChanges DEF Turns

(* And what a wallet sends is noted like what it received.                 *)
LEMMA SaysNoted ==
  ASSUME NEW B, Turns(B), [Next]_vars, Sound', NEW C, KnownBy(C)',
         NEW w \in Wallets, HasSession(w)'
  PROVE  \/ HasSession(w) /\ session'[w].outbox = session[w].outbox
         \/ session'[w].outbox = << >>
         \/ Says(session'[w]) \in Noted(session', shared', signed')
<1> DEFINE r == session'[w]
<1>1. CASE session'[w] = session[w]
  BY <1>1 DEF HasSession
<1>2. CASE session'[w] # session[w] /\ r.newest = "Joined"
  <2>1. Changes(w)
    BY <1>2, ChangedBy DEF Turns
  <2> QED
    BY <1>2, <2>1, JoinedIsSilent
<1>3. CASE r.newest # "Joined"
  <2>1. FilesInTurn(session', shared', signed')
    BY FilesTurns
  <2>2. /\ r \in Session /\ r.psbt \in SoundPsbt(shared', signed')
        /\ KnownSession(C, w, r)
    <3>1. (HasSession(w) => session[w] \in SoundSession(shared, signed, chain))'
      BY SessionSound, PTL
    <3>2. r \in SoundSession(shared', signed', chain')
      BY <3>1
    <3> QED
      BY <3>2, SessionParts DEF KnownBy, KnownFiles
  <2>3. Says(r) \in Message
    BY <2>2, SaysKnown DEF KnownMessages
  <2>4. Says(r).psbt = r.psbt
    BY DEF Says, ProposalMessage, UpdateMessage, DoneMessage
  <2>5. \A v \in Wallets \ {w} : session'[v] # NoSession =>
          InTurns(r, session'[v], shared', signed') /\ InTurns(session'[v], r, shared', signed')
    BY <2>1 DEF FilesInTurn, HasSession
  <2>6. InHand(r, shared', signed')
    BY <2>1 DEF FilesInTurn, HasSession
  <2> HIDE DEF r
  <2>7. /\ NoNews(Says(r), r, shared', signed')
        /\ \A v : InTurns(r, v, shared', signed') /\ InTurns(v, r, shared', signed')
                  => NoNews(Says(r), v, shared', signed')
    BY <1>3, <2>2, SaysNoNews
  <2>8. \A v \in Wallets : session'[v] # NoSession => NoNews(Says(r), session'[v], shared', signed')
    BY <2>5, <2>7 DEF r
  <2> QED
    BY <2>3, <2>4, <2>6, <2>8 DEF Noted, InHand, r
<1> QED
  BY <1>1, <1>2, <1>3

(* The inductive invariant of this part.                                   *)
TurnsInv ==
  /\ HalvesInv
  /\ FilesInTurn(session, shared, signed)
  /\ Carried(Noted(session, shared, signed))

LEMMA InitTurns == Init => TurnsInv
<1> SUFFICES ASSUME Init PROVE TurnsInv
  OBVIOUS
<1>1. FilesInTurn(session, shared, signed)
  BY DEF FilesInTurn, Init
<1>2. << >> \in Seq(Noted(session, shared, signed))
  BY NoMessages
<1>3. Carried(Noted(session, shared, signed))
  BY <1>2, StartedRun DEF Carried, Init, HasSession
<1> QED
  BY <1>1, <1>3, InitHalves DEF TurnsInv

LEMMA NextTurns == TurnsInv /\ [Next]_vars => TurnsInv'
<1> SUFFICES ASSUME TurnsInv, [Next]_vars PROVE TurnsInv'
  OBVIOUS
<1>1. HalvesInv /\ HalvesInv'
  BY NextHalves DEF TurnsInv
<1>2. PICK B : Turns(B)
  BY DEF TurnsInv, HalvesInv, Turns
<1>3. PICK C : KnownBy(C)'
  BY <1>1 DEF HalvesInv
<1>4. Sound /\ Sound'
  BY <1>1 DEF HalvesInv
<1>5. /\ FilesInTurn(session', shared', signed')
      /\ Earlier(B) \subseteq Noted(session', shared', signed')
  BY <1>2, FilesTurns
<1>6. PICK S : S = Noted(session', shared', signed')
  OBVIOUS
<1>7. Carried(S)
  BY <1>2, <1>5, <1>6, CarriedEarlier, MoreCarried
<1>8. \A w \in Wallets : HasSession(w)' =>
        \/ HasSession(w) /\ session'[w].outbox = session[w].outbox
        \/ session'[w].outbox = << >>
        \/ Says(session'[w]) \in S
  BY <1>2, <1>3, <1>4, <1>6, SaysNoted
<1>9. Carried(S)'
  BY <1>4, <1>7, <1>8, CarriedOn
<1>10. Carried(Noted(session, shared, signed))'
  BY <1>6, <1>9 DEF Carried
<1>11. FilesInTurn(session, shared, signed)'
  BY <1>5
<1> QED
  BY <1>1, <1>10, <1>11 DEF TurnsInv

(* The signers take turns: of the wallets that hold one transaction, one   *)
(* at most is to visit its signer, however often a message is repeated or  *)
(* a session resumed.                                                      *)
THEOREM TurnsAlternate == Spec => []OneTurnAtATime
<1>1. TurnsInv => OneTurnAtATime
  <2>1. SUFFICES ASSUME TurnsInv, NEW w \in Wallets, NEW v \in Wallets, w # v,
                        HasSession(w), HasSession(v), MyTurn(session[w]), MyTurn(session[v])
                 PROVE  TxOf(session[w].psbt) # TxOf(session[v].psbt)
    BY DEF OneTurnAtATime
  <2>2. InTurns(session[w], session[v], shared, signed)
    BY <2>1 DEF TurnsInv, FilesInTurn, HasSession
  <2> QED
    BY <2>1, <2>2 DEF InTurns, MyTurn, On
<1> QED
  BY <1>1, InitTurns, NextTurns, PTL DEF Spec

-----------------------------------------------------------------------------
(* Nobody waits for nothing.  Where no message is lost, no send is given   *)
(* up and signers give all they can at once, what a wallet's signer gave   *)
(* is with the other wallet or on its way to it, for as long as the wallet *)
(* has handed the turn over.                                               *)

Reliable == ~PartialSigners /\ ~StopInHandOver /\ MaxGivenUp = 0

(* A command that does not run has nothing in memory, and counts only      *)
(* messages it has.                                                        *)
Paced ==
  \A w \in Wallets :
    /\ ~run[w].up => run[w] = Down
    /\ IF HasSession(w) THEN run[w].sent <= Len(session[w].outbox) ELSE run[w].sent = 0

(* In f, the session files, and k, the records.  A wallet said something   *)
(* about a send: it holds the transaction it said it of, or the send ended *)
(* for it.                                                                 *)
Spoke(f, k, w, sid, tx) ==
  \/ f[w] # NoSession /\ f[w].sid = sid /\ On(f[w]) /\ TxOf(f[w].psbt) = tx
  \/ \E r \in k[w] : r.sid = sid

(* What is known of a send agrees on the deal with the wallet that began   *)
(* it.                                                                     *)
Agreed(f, p, sid) ==
  f[sid.owner] # NoSession /\ f[sid.owner].sid = sid => p.deal = f[sid.owner].psbt.deal

Complete(p) == InputsOf(p) \subseteq p.sigs

(* What messages tell is so.                                               *)
Told(f, k) ==
  {m \in Message :
     /\ Agreed(f, m.psbt, m.sid)
     /\ m.kind # "Proposal" => ~m.psbt.open /\ Spoke(f, k, m.from, m.sid, TxOf(m.psbt))
     /\ m.kind = "Done" => Complete(m.psbt)}

(* A wallet that began a send is in it with one other, one that joined is  *)
(* in it with the one that began it.                                       *)
Paired(f, k, w, s) ==
  /\ Agreed(f, s.psbt, s.sid)
  /\ ~On(s) => s.peer = {}
  /\ s.sid.owner # w => On(s) /\ s.peer = {s.sid.owner}
  /\ s.sid.owner = w /\ On(s) =>
       \E p \in Wallets \ {w} : s.peer = {p} /\ Spoke(f, k, p, s.sid, TxOf(s.psbt))

(* Who has the turn can use it.                                            *)
UsesTurn(s) == On(s) /\ s.newest # "Mine" /\ s.mine \subseteq s.psbt.sigs => Complete(s.psbt)

PairedFiles ==
  \A w \in Wallets : HasSession(w) =>
    Paired(session, kept, w, session[w]) /\ UsesTurn(session[w])

DoneFull ==
  \A w \in Wallets : HasSession(w) /\ (session[w].stage = "Done" \/ run[w].pushed)
    => Complete(session[w].psbt)

(* A send that ended is not begun again, finished or not.                  *)
NoReturn ==
  \A w \in Wallets : HasSession(w) => \A r \in kept[w] : r.sid # session[w].sid

(* A signer signs all coins of its wallet or none.                         *)
AllSigned ==
  \A x \in signed : \A h \in x.tx.halves : x.coin \in h.coins =>
    \A c \in h.coins : [coin |-> c, tx |-> x.tx] \in signed

(* A wallet holds the signatures its signer gave.                          *)
SigsHeld ==
  \A x \in signed : \A h \in x.tx.halves :
    x.coin \in h.coins /\ HasSession(h.owner) /\ h \in session[h.owner].psbt.halves
    => x.coin \in session[h.owner].psbt.sigs

(* m is on its way from w to v, sent or still to be sent.                  *)
Coming(m, w, v) ==
  \/ \E i \in DOMAIN inbox[v] : inbox[v][i] = m
  \/ \E i \in DOMAIN run[v].hand : run[v].hand[i] = m
  \/ \E i \in DOMAIN channel[v] : channel[v][i] = m
  \/ \E k \in DOMAIN session[w].outbox : k > run[w].sent /\ session[w].outbox[k] = m

(* w is in the send with v, and v in it with no other.                     *)
Partners(w, v) ==
  /\ w # v /\ HasSession(w) /\ HasSession(v)
  /\ session[w].sid = session[v].sid
  /\ session[w].peer = {v} /\ session[v].peer \subseteq {w}

HandedOver(w) == HasSession(w) /\ On(session[w]) /\ session[w].newest = "Mine"

(* m is w's state, as it handed the turn over.                             *)
Update(m, s) ==
  /\ m.kind = "Update" /\ m.from = s.me /\ m.sid = s.sid
  /\ TxOf(m.psbt) = TxOf(s.psbt) /\ Within(s.psbt, m.psbt)

(* s has everything that t has.                                            *)
Has(s, t) == On(s) /\ TxOf(s.psbt) = TxOf(t.psbt) /\ Within(t.psbt, s.psbt)

Delivered ==
  \A w, v \in Wallets : Partners(w, v) /\ HandedOver(w) =>
    \/ Has(session[v], session[w])
    \/ \E m \in Message : Coming(m, w, v) /\ Update(m, session[w])

(* Of two wallets that handed the turn over, one has something new.        *)
Differ ==
  \A w, v \in Wallets : Partners(w, v) /\ HandedOver(w) /\ HandedOver(v) =>
    ~Has(session[w], session[v]) \/ ~Has(session[v], session[w])

(* What a step does to the messages wallet w has to send.                  *)
Waits(w) ==
  /\ run'[w].sent = run[w].sent
  /\ run'[w].up \/ run'[w] = run[w]
  /\ session'[w] = session[w] \/ Heard(w)

Restarts(w) ==
  /\ run'[w] = Down \/ run'[w] = [Down EXCEPT !.up = TRUE]
  /\ session'[w] = session[w] \/ Started(w) \/ session'[w] = NoSession

SendsOne(w) ==
  /\ HasSession(w) /\ session'[w] = session[w]
  /\ run'[w].up /\ run'[w].sent = run[w].sent + 1
  /\ run[w].sent < Len(session[w].outbox)
  /\ \A v \in Wallets \ {w} :
       channel'[v] = Append(channel[v], session[w].outbox[run[w].sent + 1])

Clears(w) ==
  /\ HasSession(w) /\ run[w].sent = Len(session[w].outbox)
  /\ run'[w].up /\ run'[w].sent = 0
  /\ session'[w] = [session[w] EXCEPT !.outbox = << >>]

Adds(w) ==
  /\ run'[w].up /\ run'[w].sent = run[w].sent
  /\ Ended(w) \/ Answered(w)

Enters(w) ==
  /\ ~HasSession(w) /\ run'[w] = run[w]
  /\ Joined(w) \/ session'[w] = NoSession

Leaves(w) == ~run[w].up /\ run'[w] = run[w] /\ session'[w] = NoSession

Sends(w) ==
  \/ Waits(w) \/ Restarts(w) \/ SendsOne(w) \/ Clears(w)
  \/ Adds(w) \/ Enters(w) \/ Leaves(w)

(* Every step does one of these.                                           *)
LEMMA StepSends ==
  ASSUME Sound, [Next]_vars, NEW w \in Wallets
  PROVE  Sends(w)
<1> USE DEF disk, world, history, SetSession
<1>0. /\ session \in [Wallets -> Session \cup {NoSession}]
      /\ inbox \in [Wallets -> Seq(Message)]
      /\ run \in [Wallets -> Run]
      /\ channel \in [Wallets -> Seq(Message)]
  BY DEF Sound, TypeOK
<1>1. CASE Block \/ UNCHANGED vars
  BY <1>1 DEF Block, vars, Sends, Waits
<1>2. ASSUME NEW u \in Wallets, u # w, Users(u) \/ Step(u) \/ Stop(u) PROVE Waits(w)
  <2>1. /\ session' = session \/ \E s : session' = [session EXCEPT ![u] = s]
        /\ run' = run \/ \E r : run' = [run EXCEPT ![u] = r]
    <3>1. CASE Stop(u)
      BY <3>1 DEF Stop, EndInError
    <3>2. CASE Users(u)
      <4>1. CASE RunJoin(u) \/ GiveUp(u) \/ Sync(u)
        BY <4>1 DEF RunJoin, GiveUp, Sync
      <4>2. ASSUME NEW d \in Deals, ResumeStart(u, d) \/ StartNew(u, d) \/ StartFails(u, d)
            PROVE  /\ session' = session \/ \E s : session' = [session EXCEPT ![u] = s]
                   /\ run' = run \/ \E r : run' = [run EXCEPT ![u] = r]
        BY <4>2 DEF ResumeStart, StartNew, StartFails
      <4> QED
        BY <3>2, <4>1, <4>2 DEF Users
    <3>3. CASE \/ SendOne(u) \/ ClearOutbox(u) \/ HandleMessage(u) \/ DropMessage(u)
               \/ JoinProposal(u) \/ JoinFails(u) \/ EndDone(u)
      BY <3>3 DEF SendOne, ClearOutbox, HandleMessage, DropMessage, JoinProposal,
                  JoinFails, EndDone
    <3>4. CASE \/ Grace(u) \/ Broadcast(u) \/ BroadcastRefused(u) \/ BroadcastUnanswered(u)
               \/ Finish(u)
      BY <3>4 DEF Grace, Broadcast, BroadcastRefused, BroadcastUnanswered, Finish, EndInError
    <3>5. CASE Visit(u) \/ AnswerRefused(u) \/ Receive(u) \/ StoreBatch(u)
      BY <3>5 DEF Visit, AnswerRefused, Receive, StoreBatch, EndInError
    <3> QED
      BY <1>2, <3>1, <3>2, <3>3, <3>4, <3>5 DEF Step
  <2> QED
    BY <1>0, <1>2, <2>1 DEF Waits
<1>3. CASE Users(w)
  <2>1. CASE GiveUp(w) \/ Sync(w)
    BY <1>0, <2>1 DEF GiveUp, Sync, Sends, Leaves, Waits
  <2>2. CASE RunJoin(w)
    BY <1>0, <2>2 DEF RunJoin, Sends, Restarts
  <2>3. ASSUME NEW d \in Deals, ResumeStart(w, d) \/ StartFails(w, d) PROVE Sends(w)
    BY <1>0, <2>3 DEF ResumeStart, StartFails, Sends, Restarts, Leaves
  <2>4. ASSUME NEW d \in Deals, StartNew(w, d) PROVE Sends(w)
    <3>1. Started(w)
      BY <2>4 DEF StartNew, Started, Reserve, Reserves
    <3> QED
      BY <1>0, <2>4, <3>1 DEF StartNew, Sends, Restarts
  <2> QED
    BY <1>3, <2>1, <2>2, <2>3, <2>4 DEF Users
<1>4. CASE Stop(w)
  BY <1>0, <1>4 DEF Stop, EndInError, Sends, Restarts
<1>5. CASE Step(w)
  <2>1. CASE SendOne(w)
    BY <1>0, <2>1 DEF SendOne, AtStep, Owes, Run, Sends, SendsOne
  <2>2. CASE ClearOutbox(w)
    BY <1>0, <2>2 DEF ClearOutbox, AtStep, Owes, Run, Sends, Clears
  <2>3. CASE HandleMessage(w)
    <3>1. Heard(w) /\ run' = run /\ run[w].up
      BY <1>0, <2>3
         DEF HandleMessage, Handling, AtStep, Owes, NextInInbox, TakeOut, Heard, Becomes
    <3> QED
      BY <3>1 DEF Sends, Waits
  <2>4. CASE DropMessage(w)
    BY <2>4 DEF DropMessage, Sends, Waits
  <2>5. CASE JoinProposal(w)
    <3>1. Joined(w) \/ session'[w] = NoSession
      BY <1>0, <2>5 DEF JoinProposal, Joined, Reserve, Reserves
    <3> QED
      BY <2>5, <3>1 DEF JoinProposal, Sends, Enters
  <2>6. CASE JoinFails(w) \/ EndDone(w) \/ BroadcastRefused(w) \/ BroadcastUnanswered(w)
    BY <1>0, <2>6 DEF JoinFails, EndDone, BroadcastRefused, BroadcastUnanswered, EndInError,
                      Sends, Restarts
  <2>7. CASE Grace(w) \/ Receive(w) \/ StoreBatch(w) \/ Broadcast(w)
    <3>1. session' = session /\ run[w].up
      BY <2>7 DEF Grace, Receive, Listening, StoreBatch, Broadcast, Broadcasting, Quiet, AtStep
    <3>2. \/ run' = [run EXCEPT ![w].waited = TRUE, ![w].hand = channel[w]]
          \/ \E h : run' = [run EXCEPT ![w].hand = h]
          \/ run' = [run EXCEPT ![w].pushed = TRUE]
      BY <2>7 DEF Grace, Receive, StoreBatch, Broadcast
    <3>3. run'[w].sent = run[w].sent /\ run'[w].up = run[w].up
      BY <1>0, <3>2 DEF Run
    <3> QED
      BY <3>1, <3>3 DEF Sends, Waits
  <2>8. CASE Finish(w)
    <3>1. Ended(w)
      BY <2>8 DEF Finish, Ended, Becomes, Sound, SoundTransit
    <3> QED
      BY <1>0, <2>8, <3>1 DEF Finish, Run, Sends, Adds
  <2>9. CASE Visit(w)
    <3>1. Answered(w)
      BY <2>9 DEF Visit, SignersTurn, Answered, Becomes
    <3> QED
      BY <1>0, <2>9, <3>1 DEF Visit, SignersTurn, Quiet, AtStep, Run, Sends, Adds
  <2>10. CASE AnswerRefused(w)
    BY <1>0, <2>10 DEF AnswerRefused, SignersTurn, Quiet, AtStep, Run, EndInError,
                       Sends, Waits, Restarts
  <2> QED
    BY <1>5, <2>1, <2>2, <2>3, <2>4, <2>5, <2>6, <2>7, <2>8, <2>9, <2>10 DEF Step
<1> QED
  BY <1>1, <1>2, <1>3, <1>4, <1>5 DEF Next, Sends

(* What it adds.                                                           *)
LEMMA OneMore ==
  ASSUME Sound, NEW w \in Wallets, Ended(w) \/ Answered(w)
  PROVE  /\ session'[w].outbox = Append(session[w].outbox, Says(session'[w]))
         /\ session'[w].peer = session[w].peer
         /\ Answered(w) => Says(session'[w]) = UpdateMessage(session'[w])
<1> DEFINE s == session[w]
           r == session'[w]
<1>0. s \in Session /\ session \in [Wallets -> Session \cup {NoSession}]
  BY SessionGoesOn DEF GoesOn, Sound, TypeOK
<1>1. CASE Ended(w)
  <2>1. r = Finished(s) /\ r.stage = "Done"
    BY <1>0, <1>1 DEF Ended, Becomes, Finished, Session
  <2>2. ~Answered(w)
    <3> SUFFICES ASSUME Answered(w) PROVE FALSE
      OBVIOUS
    <3>1. PICK answer \in Answers(s) : RespondAccepts(s, answer) /\ r = Responded(s, answer)
      BY <1>0 DEF Answered, Becomes
    <3>2. r.stage = "Active"
      <4>1. answer \in Psbt
        BY <1>0, AnswerType
      <4> HIDE DEF s, r
      <4> QED
        BY <1>0, <3>1, <4>1, RespondedKeeps
    <3> QED
      BY <2>1, <3>2
  <2>3. r.peer = s.peer
    BY <1>0, <2>1 DEF Finished, Session
  <2> HIDE DEF s, r
  <2>4. r.outbox = Append(s.outbox, DoneMessage(r))
    BY <1>0, <2>1, FinishedKeeps
  <2> QED
    BY <2>1, <2>2, <2>3, <2>4 DEF Says, s, r
<1>2. CASE Answered(w)
  <2>1. PICK answer \in Answers(s) : RespondAccepts(s, answer) /\ r = Responded(s, answer)
    BY <1>0, <1>2 DEF Answered, Becomes
  <2>2. answer \in Psbt
    BY <1>0, <2>1, AnswerType
  <2> HIDE DEF s, r
  <2>3. r.stage = "Active" /\ r.outbox = Append(s.outbox, UpdateMessage(r))
    BY <1>0, <2>1, <2>2, RespondedKeeps
  <2>4. r.peer = s.peer
    BY <1>0, <2>1 DEF Responded, Session
  <2> QED
    BY <2>3, <2>4 DEF Says, s, r
<1> QED
  BY <1>1, <1>2

(* Nothing is counted twice.                                               *)
LEMMA PacedStep ==
  ASSUME Sound, Paced, [Next]_vars
  PROVE  Paced'
<1> SUFFICES ASSUME NEW w \in Wallets
             PROVE  /\ ~run'[w].up => run'[w] = Down
                    /\ IF HasSession(w)' THEN run'[w].sent <= Len(session'[w].outbox)
                                         ELSE run'[w].sent = 0
  BY DEF Paced, HasSession
<1> DEFINE s == session[w]
           r == session'[w]
<1>0. /\ session \in [Wallets -> Session \cup {NoSession}]
      /\ run \in [Wallets -> Run] /\ run[w].sent \in Nat
      /\ inbox[w] \in Seq(Message)
      /\ HasSession(w) => s \in Session /\ s.outbox \in Seq(Message)
  BY DEF Sound, TypeOK, HasSession, Session, Run
<1>1. /\ ~run[w].up => run[w] = Down
      /\ IF HasSession(w) THEN run[w].sent <= Len(s.outbox) ELSE run[w].sent = 0
  BY DEF Paced
<1>2. /\ Down.sent = 0 /\ [Down EXCEPT !.up = TRUE].sent = 0 /\ [Down EXCEPT !.up = TRUE].up
      /\ ~Down.up
  BY DEF Down
<1>3. HasSession(w)' => r \in Session /\ Len(r.outbox) \in Nat
  <2>1. CASE r = s
    BY <1>0, <2>1 DEF HasSession
  <2>2. CASE r # s /\ HasSession(w)'
    BY <2>2, ChangedBy, SessionAfter DEF Session
  <2> QED
    BY <2>1, <2>2
<1>4. CASE Waits(w)
  <2>1. ASSUME Heard(w) PROVE HasSession(w) /\ HasSession(w)' /\ r.outbox = s.outbox
    <3>1. HasSession(w) /\ HasSession(w)'
      BY <2>1, SessionGoesOn, GoesOnType DEF GoesOn
    <3>2. PICK i \in DOMAIN inbox[w] : r = Received(s, inbox[w][i])
      BY <1>0, <2>1 DEF Heard, Becomes
    <3>3. inbox[w][i] \in Message
      BY <1>0
    <3> HIDE DEF s, r
    <3> QED
      BY <1>0, <3>1, <3>2, <3>3, ReceivedKeeps
  <2> QED
    BY <1>1, <1>4, <2>1 DEF Waits, HasSession
<1>5. CASE Restarts(w) \/ Leaves(w)
  <2>1. CASE Restarts(w)
    <3>1. run'[w].sent = 0 /\ (run'[w] = Down \/ run'[w].up)
      BY <1>2, <2>1 DEF Restarts
    <3> QED
      BY <1>3, <3>1
  <2>2. CASE Leaves(w)
    <3>1. run'[w] = Down /\ run'[w].sent = 0 /\ ~HasSession(w)'
      BY <1>1, <1>2, <2>2 DEF Leaves, HasSession
    <3> QED
      BY <3>1
  <2> QED
    BY <1>5, <2>1, <2>2
<1>6. CASE SendsOne(w)
  BY <1>0, <1>1, <1>6 DEF SendsOne, HasSession
<1>7. CASE Clears(w)
  <2>1. HasSession(w) /\ run'[w].up /\ run'[w].sent = 0
    BY <1>7 DEF Clears
  <2> QED
    BY <1>3, <2>1
<1>8. CASE Adds(w)
  <2>1. run'[w].up /\ run'[w].sent = run[w].sent /\ GoesOn(w)
    BY <1>8 DEF Adds, GoesOn
  <2>2. HasSession(w) /\ HasSession(w)'
    BY <2>1, SessionGoesOn, GoesOnType
  <2>3. \E m : r.outbox = Append(s.outbox, m)
    BY <1>8, OneMore DEF Adds
  <2>4. Len(r.outbox) = Len(s.outbox) + 1
    BY <1>0, <2>2, <2>3
  <2> QED
    BY <1>0, <1>1, <2>1, <2>2, <2>4
<1>9. CASE Enters(w)
  <2>1. run'[w] = run[w] /\ run[w].sent = 0
    BY <1>1, <1>9 DEF Enters
  <2> QED
    BY <1>1, <1>3, <2>1
<1> QED
  BY <1>4, <1>5, <1>6, <1>7, <1>8, <1>9, StepSends DEF Sends

(* With no send to give up nobody gives one up.                            *)
LEMMA NobodyGivesUp ==
  ASSUME Reliable, givenUp = {}, [Next]_vars
  PROVE  givenUp' = {} /\ \A w \in Wallets : ~GiveUp(w)
<1> USE DEF disk, world, history
<1>1. \A w \in Wallets : ~GiveUp(w)
  BY FS_EmptySet DEF Reliable, GiveUp
<1>2. CASE Block \/ UNCHANGED vars
  BY <1>1, <1>2 DEF Block, vars
<1>3. ASSUME NEW w \in Wallets, Users(w) PROVE givenUp' = givenUp
  BY <1>1, <1>3 DEF Users, ResumeStart, StartNew, StartFails, RunJoin, Sync
<1>4. ASSUME NEW w \in Wallets, Step(w) \/ Stop(w) PROVE givenUp' = givenUp
  BY <1>4 DEF Step, Stop, SendOne, ClearOutbox, HandleMessage, DropMessage, JoinProposal,
              JoinFails, EndDone, Grace, Broadcast, BroadcastRefused, BroadcastUnanswered,
              Finish, Visit, AnswerRefused, Receive, StoreBatch, EndInError
<1> QED
  BY <1>1, <1>2, <1>3, <1>4 DEF Next

(* A send a wallet is in goes on, or it is done and recorded.              *)
LEMMA Departs ==
  ASSUME Sound, Reliable, givenUp = {}, [Next]_vars, NEW w \in Wallets, HasSession(w)
  PROVE  \/ session'[w] = session[w] \/ GoesOn(w)
         \/ /\ session[w].stage = "Done"
            /\ \E r \in kept'[w] : r.sid = session[w].sid
<1>0. kept \in [Wallets -> SUBSET Record]
  BY DEF Sound, TypeOK
<1>1. ASSUME ~Unfinished(w), Retire(w)
      PROVE  session[w].stage = "Done" /\ \E r \in kept'[w] : r.sid = session[w].sid
  <2>1. session[w].stage = "Done" /\ session[w].txid = {TxOf(session[w].psbt)}
    BY <1>1, SessionSound, SessionParts DEF Unfinished
  <2>2. [sid |-> session[w].sid, tx |-> TxOf(session[w].psbt)] \in kept'[w]
    BY <1>0, <1>1, <2>1 DEF Retire
  <2> QED
    BY <2>1, <2>2
<1>2. ASSUME session'[w] # session[w], ~GoesOn(w) PROVE ~Unfinished(w) /\ Retire(w)
  <2>1. Started(w) \/ Left(w)
    BY <1>2, ChangedBy DEF Changes, Joined
  <2> QED
    BY <2>1, NobodyGivesUp DEF Started, Left
<1> QED
  BY <1>1, <1>2

(* What was said stays said.                                               *)
LEMMA SpokeStays ==
  ASSUME Sound, Reliable, givenUp = {}, [Next]_vars, NEW p \in Wallets, NEW sid, NEW tx,
         Spoke(session, kept, p, sid, tx)
  PROVE  Spoke(session', kept', p, sid, tx)
<1>1. kept[p] \subseteq kept'[p]
  BY KeptAfter
<1>2. CASE \E r \in kept[p] : r.sid = sid
  BY <1>1, <1>2 DEF Spoke
<1>3. CASE HasSession(p) /\ session[p].sid = sid /\ On(session[p]) /\ TxOf(session[p].psbt) = tx
  <2>1. CASE GoesOn(p)
    <3>1. /\ session'[p] # NoSession /\ session[p] \in Session
          /\ Continues(p, session[p], session'[p])
      BY <2>1, SessionGoesOn, GoesOnType DEF HasSession
    <3>2. TxOf(session'[p].psbt) = TxOf(session[p].psbt) /\ On(session'[p])
      BY <1>3, <3>1, SameTx DEF On
    <3> QED
      BY <1>3, <3>1, <3>2 DEF Continues, Spoke
  <2> QED
    BY <1>3, <2>1, Departs DEF Spoke, HasSession
<1> QED
  BY <1>2, <1>3 DEF Spoke, HasSession

(* The wallet that began a send is in it with that deal or has left it.    *)
LEMMA OwnersGoOn ==
  ASSUME Sound, [Next]_vars, NEW B, KnownBy(B), NEW sid, NEW halves,
         OneEach(B, halves), Names(sid, halves),
         session'[sid.owner] # NoSession, session'[sid.owner].sid = sid
  PROVE  /\ sid.owner \in Wallets
         /\ session[sid.owner] # NoSession /\ session[sid.owner].sid = sid
         /\ session'[sid.owner].psbt.deal = session[sid.owner].psbt.deal
<1>0. PICK k \in halves : SidOf(k) = sid /\ k \in B /\ k \in Half /\ sid.owner = k.owner
  BY DEF KnownBy, BuiltHalves, OneEach, Names, SidOf
<1>1. PICK o \in Wallets : o = sid.owner
  BY <1>0 DEF Half
<1>2. /\ session \in [Wallets -> Session \cup {NoSession}]
      /\ inbox[o] \in Seq(KnownMessages(B))
  BY DEF Sound, TypeOK, KnownBy, Carried
<1>3. CASE session'[o] = session[o]
  BY <1>1, <1>3
<1>4. CASE GoesOn(o)
  BY <1>1, <1>4, SessionGoesOn DEF Continues, HasSession
<1>5. ~(Started(o) \/ Joined(o))
  <2> SUFFICES ASSUME Started(o) \/ Joined(o) PROVE FALSE
    OBVIOUS
  <2>1. PICK h : Begun(B, o, h)
    BY BeginsKnown
  <2>2. session'[o].sid # SidOf(h)
    BY <1>0, <1>1, <2>1 DEF Begun
  <2>3. PICK i \in DOMAIN inbox[o] :
          /\ inbox[o][i].kind = "Proposal" /\ inbox[o][i].from # o
          /\ session'[o].sid = inbox[o][i].sid
    BY <2>1, <2>2 DEF Begun
  <2>4. inbox[o][i] \in KnownMessages(B)
    BY <1>2
  <2>5. PICK g \in inbox[o][i].psbt.halves : SidOf(g) = sid /\ g.owner # o
    BY <1>1, <2>3, <2>4 DEF KnownMessages, Names
  <2> QED
    BY <1>1, <2>5 DEF SidOf
<1>6. ~Left(o)
  BY <1>1, <1>2 DEF Left
<1> QED
  BY <1>1, <1>3, <1>4, <1>5, <1>6, ChangedBy DEF Changes

(* What agrees with the owner of the send keeps agreeing.                  *)
LEMMA AgreedStays ==
  ASSUME Sound, [Next]_vars, NEW B, KnownBy(B), NEW p, NEW sid,
         OneEach(B, p.halves), Names(sid, p.halves), Agreed(session, p, sid)
  PROVE  Agreed(session', p, sid)
<1> QED
  BY OwnersGoOn DEF Agreed

LEMMA UpdatedType ==
  ASSUME NEW s \in Session, NEW m \in Message
  PROVE  Updated(s, m) \in Session
<1> DEFINE base == UpdateBase(s, m)
           next == Absorbed(base, m.psbt)
<1>1. s.psbt \in Psbt /\ m.psbt \in Psbt /\ m.from \in Wallets
  BY DEF Session, Message
<1>2. base \in Psbt
  BY <1>1 DEF UpdateBase, AdoptedPsbt, Psbt
<1> HIDE DEF base
<1>3. next \in Psbt
  BY <1>1, <1>2, AbsorbedIs
<1>4. PICK peer \in SUBSET Wallets : peer = {m.from}
  BY <1>1
<1> DEFINE t == [s EXCEPT !.psbt = next, !.stage = "Active", !.newest = "Theirs", !.peer = peer]
<1>5. Updated(s, m) = s \/ Updated(s, m) = t
  BY <1>4 DEF Updated, base
<1> HIDE DEF next
<1>6. t \in Session
  BY <1>3 DEF Session, Stage, Newest
<1> QED
  BY <1>5, <1>6

(* receive: who the other wallet is.                                       *)
LEMMA ReceivedPeer ==
  ASSUME NEW s \in Session, NEW m \in Message
  PROVE  LET r == Received(s, m) IN
         \/ r.peer = s.peer /\ (~On(s) => r = s)
         \/ /\ m.kind # "Proposal" /\ m.sid = s.sid /\ m.from # s.me
            /\ s.peer \subseteq {m.from} /\ r.peer = {m.from}
<1> DEFINE u == Updated(s, m)
           r == Received(s, m)
<1>1. u = s \/ u.peer = {m.from}
  BY DEF Updated, Session
<1>2. u \in Session
  BY UpdatedType
<1>3. CASE m.kind = "Update" /\ ForThisSend(s, m) /\ s.stage # "Done" /\ UpdateAccepts(s, m)
  <2>1. r = u
    BY <1>3 DEF Received
  <2> HIDE DEF r, u
  <2> QED
    BY <1>1, <1>3, <2>1 DEF ForThisSend, r
<1>4. CASE m.kind = "Done" /\ ForThisSend(s, m) /\ s.stage = "Active" /\ DoneAccepts(s, m)
  <2>1. r = [u EXCEPT !.stage = "Done", !.txid = m.txid] /\ u \in Session
    BY <1>2, <1>4 DEF Received, DoneTaken, DoneAccepts
  <2> HIDE DEF u, r
  <2>2. r.peer = u.peer
    BY <2>1 DEF Session
  <2> QED
    BY <1>1, <1>4, <2>2 DEF ForThisSend, On, r
<1>5. CASE r = s
  BY <1>5
<1> QED
  BY <1>3, <1>4, <1>5 DEF Received

(* ... what a wallet holds that is told that the send is done.             *)
LEMMA ReceivedDone ==
  ASSUME NEW s \in Session, NEW m \in Message, Received(s, m).stage = "Done"
  PROVE  LET r == Received(s, m) IN
         \/ r = s
         \/ /\ m.kind = "Done" /\ TxOf(m.psbt) = TxOf(r.psbt)
            /\ m.psbt.sigs \subseteq r.psbt.sigs
<1> DEFINE u == Updated(s, m)
           r == Received(s, m)
           next == Absorbed(s.psbt, m.psbt)
<1>0. s.psbt \in Psbt /\ m.psbt \in Psbt
  BY DEF Session, Message
<1>1. CASE m.kind = "Update" /\ ForThisSend(s, m) /\ s.stage # "Done" /\ UpdateAccepts(s, m)
  <2>1. r = u /\ u.stage = "Active"
    BY <1>1, UpdatedKeeps DEF Received
  <2> QED
    BY <2>1
<1>2. CASE m.kind = "Done" /\ ForThisSend(s, m) /\ s.stage = "Active" /\ DoneAccepts(s, m)
  <2>1. UpdateAccepts(s, m) /\ r = [u EXCEPT !.stage = "Done", !.txid = m.txid]
    BY <1>2 DEF Received, DoneTaken, DoneAccepts
  <2>2. u \in Session
    BY UpdatedType
  <2>3. u.psbt = next
    BY <1>2 DEF Updated, UpdateBase, Session
  <2>4. TxOf(s.psbt) = TxOf(m.psbt)
    BY <1>2, <2>1 DEF UpdateAccepts, UpdateBase, AbsorbAccepts, SameSkeleton, TxOf
  <2>5. next.sigs = s.psbt.sigs \cup m.psbt.sigs /\ TxOf(next) = TxOf(s.psbt)
    BY <1>0, AbsorbedIs
  <2> HIDE DEF u, next, r
  <2>6. r.psbt = next
    BY <2>1, <2>2, <2>3 DEF Session
  <2> QED
    BY <1>2, <2>4, <2>5, <2>6 DEF r
<1>3. CASE r = s
  BY <1>3
<1> QED
  BY <1>1, <1>2, <1>3 DEF Received

(* A state the other wallet sends is taken in: nothing is wrong with it.   *)
LEMMA UpdateTaken ==
  ASSUME NEW sh, NEW sg, NEW s \in Session, NEW m \in Message,
         m.kind = "Update", ForThisSend(s, m), s.stage # "Done",
         ~m.psbt.open, m.psbt \in SoundPsbt(sh, sg),
         IF On(s) THEN TxOf(s.psbt) = TxOf(m.psbt) ELSE AdoptAccepts(s.psbt, m.psbt)
  PROVE  Has(Received(s, m), [psbt |-> m.psbt])
<1> DEFINE base == UpdateBase(s, m)
           next == Absorbed(base, m.psbt)
           u == Updated(s, m)
           q == m.psbt
<1>0. s.psbt \in Psbt /\ q \in Psbt
  BY DEF Session, Message
<1>1. base \in Psbt /\ TxOf(base) = TxOf(q)
  <2>1. CASE On(s)
    BY <1>0, <2>1 DEF On, UpdateBase
  <2>2. CASE ~On(s)
    <3>1. base = [s.psbt EXCEPT !.halves = q.halves, !.open = FALSE] /\ s.psbt.deal = q.deal
      BY <2>2 DEF On, UpdateBase, AdoptedPsbt, AdoptAccepts
    <3> HIDE DEF base
    <3> QED
      BY <1>0, <3>1 DEF Psbt, TxOf
  <2> QED
    BY <2>1, <2>2
<1> HIDE DEF base
<1>2. /\ TxOf(next) = TxOf(base)
      /\ next.shares = base.shares \cup q.shares /\ next.sigs = base.sigs \cup q.sigs
      /\ SharesComplete(next) => next.script
  BY <1>0, <1>1, AbsorbedIs
<1>3. AbsorbAccepts(base, q, "Peer", s.mine)
  <2>1. base.deal = q.deal /\ base.halves = q.halves
    BY <1>1 DEF TxOf
  <2>2. InputsOf(base) = InputsOf(q) /\ InputsOf(next) = InputsOf(q)
    BY <1>2, <2>1 DEF InputsOf, TxOf
  <2>3. /\ q.shares \subseteq InputsOf(q) /\ q.sigs \subseteq InputsOf(q)
        /\ q.script => SharesComplete(q)
        /\ q.sigs # {} => q.script
    BY DEF SoundPsbt
  <2>4. q.script => SharesComplete(next)
    BY <1>2, <2>2, <2>3 DEF SharesComplete
  <2> HIDE DEF next, q
  <2>5. AbsorbAccepts(base, q, "Peer", s.mine)
        <=> /\ SameSkeleton(base, q) /\ ~q.open /\ q.shares \subseteq InputsOf(base)
            /\ q.script => SharesComplete(next)
            /\ q.sigs # {} => HasTx(next)
            /\ q.sigs \subseteq InputsOf(base)
    BY DEF AbsorbAccepts, next, q
  <2> QED
    BY <1>2, <2>1, <2>2, <2>3, <2>4, <2>5 DEF SameSkeleton, HasTx, q
<1>4. UpdateAccepts(s, m) /\ Received(s, m) = u
  BY <1>3 DEF UpdateAccepts, Received, On, base
<1>5. u.stage = "Active" /\ u.psbt = next
  BY <1>0 DEF Updated, Session, base
<1> HIDE DEF u, next
<1> QED
  BY <1>1, <1>2, <1>4, <1>5 DEF Has, On, TxOf, Within

(* What a signer signs where it does not leave out coins.                  *)
LEMMA NewSigs ==
  ASSUME Sound, Reliable, NEW B, KnownBy(B), NEW w \in Wallets, Answered(w)
  PROVE  LET s == session[w]
             r == session'[w]
         IN  /\ On(s) /\ r.newest = "Mine" /\ TxOf(r.psbt) = TxOf(s.psbt)
             /\ \A h \in s.psbt.halves : \A c \in s.mine \cap h.coins :
                  h.owner = w /\ h.coins = s.mine
             /\ \E sigs \in {{}, s.mine} :
                  /\ signed' = signed \cup Marks(sigs, TxOf(s.psbt))
                  /\ sigs \subseteq r.psbt.sigs
<1> DEFINE s == session[w]
           r == session'[w]
<1>0. /\ s \in Session /\ session \in [Wallets -> Session \cup {NoSession}]
      /\ KnownSession(B, w, s) /\ BuiltHalves(B)
  BY SessionGoesOn DEF GoesOn, Sound, TypeOK, KnownBy, KnownFiles
<1>1. PICK answer \in Answers(s) :
        /\ RespondAccepts(s, answer) /\ r = Responded(s, answer)
        /\ signed' = signed \cup Marks(answer.sigs, TxOf(s.psbt))
  BY <1>0 DEF Answered, Becomes
<1>2. answer \in Psbt /\ answer = WholeAnswer(s)
  BY <1>0, <1>1, AnswerType DEF Answers, Reliable
<1>3. answer.sigs \in {{}, s.mine}
  BY <1>0, <1>2 DEF WholeAnswer, Answer, Session, Psbt
<1>4. \A h \in s.psbt.halves : \A c \in s.mine \cap h.coins :
        h.owner = w /\ h.coins = s.mine
  BY <1>0, OwnCoins, OwnHalf
<1> HIDE DEF s, r
<1>5. /\ s.stage = "Active" /\ r.psbt = Absorbed(s.psbt, answer)
      /\ r.newest = "Mine" /\ TxOf(r.psbt) = TxOf(s.psbt)
  BY <1>0, <1>1, <1>2, RespondedKeeps
<1>6. answer.sigs \subseteq r.psbt.sigs
  BY <1>0, <1>2, <1>5, AbsorbedIs DEF Session
<1> QED
  BY <1>1, <1>3, <1>4, <1>5, <1>6 DEF On, s, r

(* Only a visit to a signer makes signatures.                              *)
LEMMA SignedAfter ==
  ASSUME Sound, [Next]_vars
  PROVE  signed' = signed \/ \E w \in Wallets : Answered(w)
<1> QED
  BY StepChanges DEF Changes, GoesOn, Still, Started, Joined, Left, Heard, Cleared, Ended

LEMMA AllSignedStep ==
  ASSUME Sound, Reliable, [Next]_vars, NEW B, KnownBy(B), AllSigned
  PROVE  AllSigned'
<1> SUFFICES ASSUME NEW x \in signed', NEW h \in x.tx.halves, x.coin \in h.coins, NEW c \in h.coins
             PROVE  [coin |-> c, tx |-> x.tx] \in signed'
  BY DEF AllSigned
<1>1. signed \subseteq signed'
  BY SignedAfter DEF Answered
<1>2. CASE x \in signed
  BY <1>1, <1>2 DEF AllSigned
<1>3. CASE x \notin signed
  <2>1. PICK w \in Wallets : Answered(w)
    BY <1>3, SignedAfter
  <2> DEFINE s == session[w]
  <2>2. /\ \A k \in s.psbt.halves : \A d \in s.mine \cap k.coins : k.coins = s.mine
        /\ \E sigs \in {{}, s.mine} : signed' = signed \cup Marks(sigs, TxOf(s.psbt))
    BY <2>1, NewSigs
  <2>3. /\ signed' = signed \cup Marks(s.mine, TxOf(s.psbt))
        /\ x.tx = TxOf(s.psbt) /\ x.coin \in s.mine
    BY <1>3, <2>2 DEF Marks
  <2>4. h \in s.psbt.halves
    BY <2>3 DEF TxOf
  <2>5. h.coins = s.mine
    BY <2>2, <2>3, <2>4
  <2> QED
    BY <2>3, <2>5 DEF Marks
<1> QED
  BY <1>2, <1>3

LEMMA SigsHeldStep ==
  ASSUME Sound, Reliable, [Next]_vars, NEW B, KnownBy(B), SigsHeld
  PROVE  SigsHeld'
<1> SUFFICES ASSUME NEW x \in signed', NEW h \in x.tx.halves, x.coin \in h.coins,
                    HasSession(h.owner)', h \in session'[h.owner].psbt.halves
             PROVE  x.coin \in session'[h.owner].psbt.sigs
  BY DEF SigsHeld, HasSession
<1> DEFINE w == h.owner
<1>1. CASE x \in signed
  <2>1. h \in B /\ w \in Wallets
    BY <1>1 DEF KnownBy, OneEach, BuiltHalves, Half
  <2>2. HasSession(w) /\ h \in session[w].psbt.halves => x.coin \in session[w].psbt.sigs
    BY <1>1 DEF SigsHeld
  <2> HIDE DEF w
  <2>3. CASE session'[w] = session[w]
    BY <2>2, <2>3 DEF HasSession, w
  <2>4. CASE GoesOn(w)
    <3>1. HasSession(w) /\ Continues(w, session[w], session'[w])
      BY <2>1, <2>4, SessionGoesOn
    <3>2. h \in session[w].psbt.halves
      BY <2>1, <2>4, HalfWasThere DEF w
    <3> QED
      BY <2>2, <3>1, <3>2 DEF Continues, Extends, w
  <2>5. ~(Started(w) \/ Joined(w))
    <3> SUFFICES ASSUME Started(w) \/ Joined(w) PROVE FALSE
      OBVIOUS
    <3>1. PICK k : Begun(B, w, k)
      BY <2>1, BeginsKnown
    <3>2. h = k /\ \A l \in B : SidOf(l) # SidOf(k)
      BY <3>1 DEF Begun, w
    <3> QED
      BY <2>1, <3>2
  <2>6. ~Left(w)
    BY <2>1 DEF Left, HasSession, Sound, TypeOK, w
  <2> QED
    BY <2>1, <2>3, <2>4, <2>5, <2>6, ChangedBy DEF Changes
<1>2. CASE x \notin signed
  <2>1. PICK v \in Wallets : Answered(v)
    BY <1>2, SignedAfter
  <2> DEFINE s == session[v]
             r == session'[v]
  <2>2. /\ TxOf(r.psbt) = TxOf(s.psbt)
        /\ \A k \in s.psbt.halves : \A d \in s.mine \cap k.coins : k.owner = v
        /\ \E sigs \in {{}, s.mine} :
             /\ signed' = signed \cup Marks(sigs, TxOf(s.psbt))
             /\ sigs \subseteq r.psbt.sigs
    BY <2>1, NewSigs
  <2>3. /\ signed' = signed \cup Marks(s.mine, TxOf(s.psbt)) /\ s.mine \subseteq r.psbt.sigs
        /\ x.tx = TxOf(s.psbt) /\ x.coin \in s.mine
    BY <1>2, <2>2 DEF Marks
  <2>4. h \in s.psbt.halves
    BY <2>3 DEF TxOf
  <2>5. w = v
    BY <2>2, <2>3, <2>4
  <2> QED
    BY <2>3, <2>5
<1> QED
  BY <1>1, <1>2

LEMMA DoneFullStep ==
  ASSUME Sound, [Next]_vars, NEW B, KnownBy(B), Carried(Told(session, kept)), DoneFull
  PROVE  DoneFull'
<1> SUFFICES ASSUME NEW w \in Wallets, HasSession(w)',
                    session'[w].stage = "Done" \/ run'[w].pushed
             PROVE  Complete(session'[w].psbt)
  BY DEF DoneFull, HasSession
<1> DEFINE s == session[w]
           r == session'[w]
<1>0. session \in [Wallets -> Session \cup {NoSession}]
  BY DEF Sound, TypeOK
<1>1. CASE r = s
  BY <1>1, PushedAfter DEF DoneFull, HasSession, FinalizeAccepts, Complete
<1>2. CASE r # s
  <2>1. r.stage = "Done"
    BY <1>2, PushedAfter
  <2>2. GoesOn(w)
    <3>1. Changes(w) /\ ~Left(w)
      BY <1>0, <1>2, ChangedBy DEF Left, HasSession
    <3>2. ~(Started(w) \/ Joined(w))
      BY <2>1, BeginsKnown DEF Begun
    <3> QED
      BY <3>1, <3>2 DEF Changes
  <2>3. HasSession(w) /\ s \in Session /\ inbox[w] \in Seq(Told(session, kept))
    BY <2>2, SessionGoesOn DEF Carried
  <2>4. CASE Heard(w)
    <3>1. PICK i \in DOMAIN inbox[w] : r = Received(s, inbox[w][i])
      BY <1>0, <2>4 DEF Heard, Becomes
    <3>2. PICK m \in Told(session, kept) : r = Received(s, m)
      BY <2>3, <3>1
    <3>3. m \in Message /\ (m.kind = "Done" => Complete(m.psbt))
      BY DEF Told
    <3> HIDE DEF s, r
    <3>4. m.kind = "Done" /\ TxOf(m.psbt) = TxOf(r.psbt) /\ m.psbt.sigs \subseteq r.psbt.sigs
      BY <1>2, <2>1, <2>3, <3>2, <3>3, ReceivedDone
    <3> QED
      BY <3>3, <3>4 DEF Complete, TxOf, InputsOf, r
  <2>5. CASE Cleared(w)
    <3>1. r = [s EXCEPT !.outbox = << >>]
      BY <1>0, <2>5 DEF Cleared, Becomes
    <3>2. r.stage = s.stage /\ r.psbt = s.psbt
      BY <2>3, <3>1 DEF Session
    <3> QED
      BY <2>1, <2>3, <3>2 DEF DoneFull
  <2>6. CASE Ended(w)
    <3>1. r = Finished(s) /\ run[w].pushed
      BY <1>0, <2>6 DEF Ended, Becomes
    <3>2. Complete(s.psbt)
      BY <2>3, <3>1 DEF DoneFull
    <3> HIDE DEF s, r
    <3> QED
      BY <2>3, <3>1, <3>2, FinishedKeeps DEF r
  <2>7. ~Answered(w)
    <3> SUFFICES ASSUME Answered(w) PROVE FALSE
      OBVIOUS
    <3>1. PICK answer \in Answers(s) : RespondAccepts(s, answer) /\ r = Responded(s, answer)
      BY <1>0 DEF Answered, Becomes
    <3>2. answer \in Psbt
      BY <2>3, <3>1, AnswerType
    <3> HIDE DEF s, r
    <3> QED
      BY <2>1, <2>3, <3>1, <3>2, RespondedKeeps
  <2> QED
    BY <2>2, <2>4, <2>5, <2>6, <2>7 DEF GoesOn
<1> QED
  BY <1>1, <1>2

(* Signatures that reach a wallet that signed already make it complete.    *)
LEMMA LastSigner ==
  ASSUME NEW B, Turns(B), AllSigned, SigsHeld, NEW w \in Wallets, HasSession(w),
         UsesTurn(session[w]), NEW m \in Earlier(B)
  PROVE  UsesTurn(Received(session[w], m))
<1> DEFINE s == session[w]
           r == Received(s, m)
<1>0. /\ s \in SoundSession(shared, signed, chain) /\ s \in Session
      /\ s.psbt \in SoundPsbt(shared, signed) /\ (s.psbt.open <=> ~On(s))
      /\ s.mine # {}
      /\ KnownSession(B, w, s) /\ InHand(s, shared, signed)
  BY SessionSound, SessionParts DEF Turns, KnownBy, KnownFiles, FilesInTurn, HasSession, On
<1>1. /\ m \in SoundMessage(shared, signed, chain) /\ m \in Message
      /\ m.psbt \in SoundPsbt(shared, signed) /\ NoNews(m, s, shared, signed)
  BY DEF Earlier, Noted, SoundMessage, HasSession
<1>2. PICK h \in s.psbt.halves : h.owner = w /\ h.coins = s.mine
  BY <1>0 DEF KnownSession
<1>3. \A c \in s.mine : [coin |-> c, tx |-> TxOf(s.psbt)] \in signed => c \in s.psbt.sigs
  <2>1. ASSUME NEW x \in signed, x.tx = TxOf(s.psbt), x.coin \in s.mine PROVE x.coin \in s.psbt.sigs
    BY <1>2, <2>1 DEF SigsHeld, TxOf
  <2> QED
    BY <2>1
<1>4. \A c \in s.mine : \A t : h \in t.halves /\ [coin |-> c, tx |-> t] \in signed => c \in s.psbt.sigs
  <2>1. ASSUME NEW x \in signed, h \in x.tx.halves, x.coin \in s.mine PROVE x.coin \in s.psbt.sigs
    BY <1>2, <2>1 DEF SigsHeld
  <2> QED
    BY <2>1
<1> HIDE DEF s, r
<1>5. /\ r \in SoundSession(shared, signed, chain) /\ r \in Session
      /\ r.psbt \in SoundPsbt(shared, signed)
      /\ r.mine = s.mine /\ Extends(s, r)
  BY <1>0, <1>1, ReceivedSound, ReceivedKeeps, SessionParts DEF r
<1> SUFFICES ASSUME On(r), r.newest # "Mine", s.mine \subseteq r.psbt.sigs
             PROVE  Complete(r.psbt)
  BY <1>5 DEF UsesTurn, r, s
<1>6. s.mine \subseteq s.psbt.sigs
  <2>1. h \in TxOf(r.psbt).halves
    BY <1>2, <1>5 DEF Extends, TxOf
  <2>2. \A c \in s.mine : [coin |-> c, tx |-> TxOf(r.psbt)] \in signed
    BY <1>5 DEF SoundPsbt, Marks
  <2> QED
    BY <1>4, <2>1, <2>2
<1>7. On(s) /\ s.psbt.script /\ SharesComplete(s.psbt)
  BY <1>0, <1>6 DEF SoundPsbt
<1>8. CASE r.psbt = s.psbt /\ r.newest = s.newest
  BY <1>6, <1>7, <1>8 DEF UsesTurn, s
<1>9. CASE Learns(s, m, r)
  <2>1. /\ m.kind # "Proposal" /\ TxOf(m.psbt) = TxOf(s.psbt) /\ ~Within(m.psbt, s.psbt)
        /\ TxOf(r.psbt) = TxOf(s.psbt)
        /\ m.psbt.sigs \subseteq r.psbt.sigs /\ s.psbt.sigs \subseteq r.psbt.sigs
    BY <1>9 DEF Learns, Within
  <2>2. m.psbt.halves = s.psbt.halves /\ r.psbt.halves = s.psbt.halves
    BY <2>1 DEF TxOf
  <2>3. CASE Complete(s.psbt)
    BY <2>1, <2>2, <2>3 DEF Complete, InputsOf
  <2>4. CASE ~Complete(s.psbt)
    <3>1. m.psbt.shares \subseteq s.psbt.shares
      BY <1>1, <1>7, <2>2 DEF SoundPsbt, SharesComplete, InputsOf
    <3>2. PICK c \in m.psbt.sigs : c \notin s.psbt.sigs
      BY <2>1, <3>1 DEF Within
    <3>3. [coin |-> c, tx |-> TxOf(s.psbt)] \in signed /\ c \in InputsOf(m.psbt)
      BY <1>1, <2>1 DEF SoundPsbt, Marks
    <3>4. PICK k \in s.psbt.halves : c \in k.coins
      BY <2>2, <3>3 DEF InputsOf
    <3>5. Whole(m.psbt, shared, signed)
      BY <1>1, <1>7, <2>1 DEF NoNews
    <3>6. \A e \in k.coins : [coin |-> e, tx |-> TxOf(s.psbt)] \in signed
      <4>1. ASSUME NEW x \in signed, x.tx = TxOf(s.psbt), x.coin \in k.coins, NEW e \in k.coins
            PROVE  [coin |-> e, tx |-> x.tx] \in signed
        BY <3>4, <4>1 DEF AllSigned, TxOf
      <4> QED
        BY <3>3, <3>4, <4>1
    <3>7. k.coins \subseteq m.psbt.sigs
      <4>1. \A x \in signed : x.tx = TxOf(s.psbt) => x.coin \in m.psbt.sigs
        BY <2>1, <3>5 DEF Whole
      <4> QED
        BY <3>6, <4>1
    <3>8. h # k
      BY <1>2, <1>6, <3>2, <3>4
    <3>9. s.psbt.halves = {h, k}
      BY <1>0, <1>2, <3>4, <3>8 DEF InHand, TwoHalves
    <3>10. InputsOf(r.psbt) = s.mine \cup k.coins
      BY <1>2, <2>2, <3>9 DEF InputsOf
    <3> QED
      BY <1>6, <2>1, <3>7, <3>10 DEF Complete
  <2> QED
    BY <2>3, <2>4
<1> QED
  BY <1>0, <1>1, <1>7, <1>8, <1>9, ReceivedOn DEF r

LEMMA UsesTurnStep ==
  ASSUME NEW B, Turns(B), Sound', [Next]_vars, AllSigned, SigsHeld,
         NEW w \in Wallets, HasSession(w)', HasSession(w) => UsesTurn(session[w])
  PROVE  UsesTurn(session'[w])
<1> DEFINE s == session[w]
           r == session'[w]
<1>0. /\ session \in [Wallets -> Session \cup {NoSession}] /\ KnownBy(B) /\ Sound
      /\ inbox[w] \in Seq(Earlier(B))
  BY CarriedEarlier DEF Turns, Sound, TypeOK, Carried
<1>1. CASE r = s
  BY <1>1 DEF HasSession
<1>2. CASE Started(w) \/ Joined(w)
  <2>1. r.psbt.shares = {}
    BY ZenonT(30), <1>0, <1>2, BeginsKnown DEF Begun
  <2>2. (HasSession(w) => session[w] \in SoundSession(shared, signed, chain))'
    BY SessionSound, PTL
  <2>3. /\ r.psbt \in SoundPsbt(shared', signed')
        /\ r.mine # {} /\ r.mine \subseteq InputsOf(r.psbt)
    BY <2>2, SessionParts
  <2>4. r.psbt.sigs = {}
    BY <2>1, <2>3 DEF SoundPsbt, SharesComplete
  <2> QED
    BY <2>3, <2>4 DEF UsesTurn
<1>3. CASE Heard(w)
  <2>1. PICK i \in DOMAIN inbox[w] : r = Received(s, inbox[w][i])
    BY <1>0, <1>3 DEF Heard, Becomes
  <2>2. inbox[w][i] \in Earlier(B) /\ HasSession(w)
    BY <1>0, <1>3 DEF Heard, Becomes
  <2> QED
    BY <2>1, <2>2, LastSigner
<1>4. CASE Cleared(w) \/ Ended(w)
  <2>1. HasSession(w) /\ s \in Session
    BY <1>0, <1>4, SessionGoesOn DEF GoesOn
  <2>2. r.psbt = s.psbt /\ r.newest = s.newest /\ r.mine = s.mine /\ (On(r) => On(s))
    <3>1. CASE Cleared(w)
      <4>1. r = [s EXCEPT !.outbox = << >>]
        BY <1>0, <3>1 DEF Cleared, Becomes
      <4> QED
        BY <2>1, <4>1 DEF Session, On
    <3>2. CASE Ended(w)
      <4>1. r = Finished(s) /\ s.stage = "Active"
        BY <1>0, <3>2 DEF Ended, Becomes
      <4> HIDE DEF s, r
      <4> QED
        BY <2>1, <4>1, FinishedKeeps DEF On
    <3> QED
      BY <1>4, <3>1, <3>2
  <2> QED
    BY <2>1, <2>2 DEF UsesTurn
<1>5. CASE Answered(w)
  <2>1. s \in Session
    BY <1>0, <1>5, SessionGoesOn DEF GoesOn
  <2>2. PICK answer \in Answers(s) : RespondAccepts(s, answer) /\ r = Responded(s, answer)
    BY <1>0, <1>5 DEF Answered, Becomes
  <2>3. answer \in Psbt
    BY <2>1, <2>2, AnswerType
  <2> HIDE DEF s, r
  <2>4. r.newest = "Mine"
    BY <2>1, <2>2, <2>3, RespondedKeeps
  <2> QED
    BY <2>4 DEF UsesTurn, r
<1>6. ~Left(w)
  BY <1>0 DEF Left, HasSession
<1> QED
  BY <1>0, <1>1, <1>2, <1>3, <1>4, <1>5, <1>6, ChangedBy DEF Changes, GoesOn

(* What a send is known by stays so when the other wallets' files change.  *)
LEMMA PairedStays ==
  ASSUME Sound, Reliable, givenUp = {}, [Next]_vars, NEW B, KnownBy(B),
         NEW w \in Wallets, NEW s, KnownSession(B, w, s), Paired(session, kept, w, s),
         NEW r, r.sid = s.sid, r.psbt.deal = s.psbt.deal, r.peer = s.peer, On(r) <=> On(s),
         TxOf(r.psbt) = TxOf(s.psbt)
  PROVE  Paired(session', kept', w, r)
<1>1. Agreed(session', s.psbt, s.sid)
  BY AgreedStays DEF KnownSession, Paired
<1>2. Agreed(session', r.psbt, r.sid)
  BY <1>1 DEF Agreed
<1>3. \A p \in Wallets : Spoke(session, kept, p, s.sid, TxOf(s.psbt))
                         => Spoke(session', kept', p, s.sid, TxOf(s.psbt))
  BY SpokeStays
<1> QED
  BY <1>2, <1>3 DEF Paired

(* Pairs stay pairs.                                                       *)
LEMMA PairedStep ==
  ASSUME Sound, Reliable, givenUp = {}, [Next]_vars, NEW B, KnownBy(B),
         Carried(Told(session, kept)),
         NEW w \in Wallets, HasSession(w)',
         HasSession(w) => Paired(session, kept, w, session[w])
  PROVE  Paired(session', kept', w, session'[w])
<1> DEFINE s == session[w]
           r == session'[w]
<1>0. /\ session \in [Wallets -> Session \cup {NoSession}]
      /\ inbox[w] \in Seq(Told(session, kept) \cap KnownMessages(B))
      /\ HasSession(w) => s \in Session /\ KnownSession(B, w, s)
  BY CarriedBoth DEF KnownBy, KnownFiles, Sound, TypeOK, Carried, HasSession
<1>1. CASE r = s
  BY <1>0, <1>1, PairedStays DEF HasSession
<1>2. CASE Started(w)
  <2>1. \E h, d : r = StartSession(w, h, d) /\ h.owner = w
    BY <1>0, <1>2 DEF Started, NewHalf
  <2>2. r.stage = "Proposed" /\ r.peer = {} /\ r.sid.owner = w
    BY <2>1 DEF StartSession, SidOf
  <2> QED
    BY <2>2 DEF Paired, On, Agreed
<1>3. CASE Joined(w)
  <2>1. PICK m \in Told(session, kept) \cap KnownMessages(B) :
          m.kind = "Proposal" /\ m.from # w /\ \E h : r = JoinSession(w, m, h)
    <3>1. PICK i \in DOMAIN inbox[w] :
            /\ Acceptable(w, inbox[w][i])
            /\ \E h : r = JoinSession(w, inbox[w][i], h)
      BY <1>0, <1>3 DEF Joined
    <3> QED
      BY <1>0, <3>1 DEF Acceptable, ReadableProposal
  <2>2. /\ r.sid = m.sid /\ r.peer = {m.from} /\ r.stage = "Active"
        /\ r.psbt.deal = m.psbt.deal
    <3>0. PICK h : r = JoinSession(w, m, h)
      BY <2>1
    <3>1. \A q : q = JoinSession(w, m, h) =>
            /\ q.sid = m.sid /\ q.peer = {m.from} /\ q.stage = "Active"
            /\ q.psbt = JoinedPsbt(m.psbt, h)
      BY DEF JoinSession
    <3>2. JoinedPsbt(m.psbt, h).deal = m.psbt.deal
      BY DEF JoinedPsbt, Proposed
    <3> QED
      BY <3>0, <3>1, <3>2
  <2>3. m.sid.owner = m.from
    <3>1. PICK k \in m.psbt.halves : SidOf(k) = m.sid /\ k.owner = m.from
      BY <2>1 DEF KnownMessages, Names
    <3> QED
      BY <3>1 DEF SidOf
  <2>4. Agreed(session', m.psbt, m.sid)
    BY <2>1, AgreedStays DEF Told, KnownMessages
  <2> QED
    BY <2>1, <2>2, <2>3, <2>4 DEF Paired, On, Agreed
<1>4. ASSUME HasSession(w), s \in Session, r.sid = s.sid, TxOf(r.psbt) = TxOf(s.psbt),
             r.peer = s.peer, On(r) <=> On(s)
      PROVE  Paired(session', kept', w, r)
  <2>1. r.psbt.deal = s.psbt.deal
    BY <1>4 DEF TxOf
  <2> QED
    BY <1>0, <1>4, <2>1, PairedStays
<1>5. CASE Heard(w)
  <2>1. PICK m \in Told(session, kept) \cap KnownMessages(B) : r = Received(s, m)
    <3>1. PICK i \in DOMAIN inbox[w] : r = Received(s, inbox[w][i])
      BY <1>0, <1>5 DEF Heard, Becomes
    <3> QED
      BY <1>0, <3>1
  <2>2. /\ HasSession(w) /\ s \in Session /\ Continues(w, s, r) /\ m \in Message
        /\ KnownSession(B, w, s) /\ s.me = w /\ Paired(session, kept, w, s)
    BY <1>0, <1>5, <2>1, SessionGoesOn DEF GoesOn, Told, KnownSession
  <2>3. \/ r.peer = s.peer /\ (~On(s) => r = s)
        \/ /\ m.kind # "Proposal" /\ m.sid = s.sid /\ m.from # w
           /\ s.peer \subseteq {m.from} /\ r.peer = {m.from}
    <3> HIDE DEF s, r
    <3> QED
      BY <2>1, <2>2, ReceivedPeer
  <2>4. CASE On(s)
    <3>1. r.peer = s.peer
      BY <2>2, <2>3, <2>4 DEF Paired
    <3>2. On(r) /\ TxOf(r.psbt) = TxOf(s.psbt) /\ r.sid = s.sid
      BY <2>2, <2>4, SameTx DEF On, Continues
    <3> QED
      BY <1>4, <2>2, <2>4, <3>1, <3>2
  <2>5. CASE ~On(s) /\ r = s
    BY <1>1, <2>5
  <2>6. CASE ~On(s) /\ r # s
    <3>1. On(r) /\ TxOf(r.psbt) = TxOf(m.psbt)
      <4> HIDE DEF s, r
      <4> QED
        BY <2>1, <2>2, <2>6, ReceivedProposed DEF Adopts
    <3>2. m.kind # "Proposal" /\ m.sid = s.sid /\ m.from # w /\ r.peer = {m.from}
      BY <2>3, <2>6
    <3>3. m.from \in Wallets \ {w} /\ Spoke(session', kept', m.from, r.sid, TxOf(r.psbt))
      BY <2>1, <2>2, <3>1, <3>2, SpokeStays DEF Told, Message, Continues
    <3>4. r.sid = s.sid /\ r.sid.owner = w
      BY <2>2, <2>6 DEF Paired, Continues
    <3>5. Agreed(session', r.psbt, r.sid)
      BY <3>4 DEF Agreed
    <3> QED
      BY <3>1, <3>2, <3>3, <3>4, <3>5 DEF Paired
  <2> QED
    BY <2>4, <2>5, <2>6
<1>6. CASE Cleared(w)
  <2>1. HasSession(w) /\ s \in Session /\ r = [s EXCEPT !.outbox = << >>]
    BY <1>0, <1>6 DEF Cleared, Becomes
  <2> QED
    BY <1>4, <2>1 DEF Session, On
<1>7. CASE Ended(w) \/ Answered(w)
  <2>1. /\ HasSession(w) /\ s \in Session /\ Continues(w, s, r) /\ r.peer = s.peer
    BY <1>7, SessionGoesOn, OneMore DEF GoesOn
  <2>2. On(s)
    BY <1>7 DEF Ended, Answered, RespondAccepts, MyTurn, On
  <2>3. On(r) /\ TxOf(r.psbt) = TxOf(s.psbt) /\ r.sid = s.sid
    BY <2>1, <2>2, SameTx DEF On, Continues
  <2> QED
    BY <1>4, <2>1, <2>2, <2>3
<1>8. ~Left(w)
  BY <1>0 DEF Left, HasSession
<1> QED
  BY <1>0, <1>1, <1>2, <1>3, <1>5, <1>6, <1>7, <1>8, ChangedBy DEF Changes, GoesOn

(* Messages stay true, those that are new included.                        *)
LEMMA ToldStep ==
  ASSUME Sound, Sound', Reliable, givenUp = {}, [Next]_vars, NEW B, KnownBy(B),
         NEW C, KnownBy(C)', Carried(Told(session, kept)), PairedFiles', DoneFull'
  PROVE  Carried(Told(session, kept))'
<1> DEFINE Old == Told(session, kept) \cap KnownMessages(B)
<1>1. PICK T : T = Told(session', kept')
  OBVIOUS
<1>2. Carried(Old)
  BY CarriedBoth DEF KnownBy
<1>3. Old \subseteq T
  <2> SUFFICES ASSUME NEW m \in Old PROVE m \in Told(session', kept')
    BY <1>1
  <2>1. Agreed(session', m.psbt, m.sid)
    BY AgreedStays DEF Told, KnownMessages
  <2>2. m.kind # "Proposal" => Spoke(session', kept', m.from, m.sid, TxOf(m.psbt))
    BY SpokeStays DEF Told, Message
  <2> QED
    BY <2>1, <2>2 DEF Told
<1>4. ASSUME NEW w \in Wallets, HasSession(w)' PROVE Says(session'[w]) \in T
  <2> DEFINE r == session'[w]
  <2>1. (HasSession(w) => session[w] \in SoundSession(shared, signed, chain))'
    BY SessionSound, PTL
  <2>2. /\ r \in Session /\ (r.psbt.open <=> r.stage = "Proposed")
        /\ KnownSession(C, w, r) /\ r.me = w
    BY <1>4, <2>1, SessionParts DEF KnownBy, KnownFiles, KnownSession
  <2>3. Paired(session', kept', w, r) /\ (r.stage = "Done" => Complete(r.psbt))
    BY <1>4 DEF PairedFiles, DoneFull, HasSession
  <2>4. r # NoSession
    BY <1>4 DEF HasSession
  <2> HIDE DEF r
  <2>5. Says(r) \in Message
    BY <2>2, SaysKnown DEF KnownMessages
  <2>6. /\ Says(r).psbt = r.psbt /\ Says(r).sid = r.sid /\ Says(r).from = w
        /\ r.stage = "Proposed" => Says(r).kind = "Proposal"
        /\ Says(r).kind = "Done" => r.stage \notin {"Proposed", "Active"}
    BY <2>2 DEF Says, ProposalMessage, UpdateMessage, DoneMessage
  <2>7. Spoke(session', kept', w, r.sid, TxOf(r.psbt)) \/ r.stage = "Proposed"
    BY <2>4 DEF Spoke, On, r
  <2> QED
    BY <1>1, <2>2, <2>3, <2>5, <2>6, <2>7 DEF Told, Paired, Session, Stage, r
<1>5. Carried(T)
  BY <1>2, <1>3, MoreCarried
<1>6. \A w \in Wallets : HasSession(w)' =>
        \/ HasSession(w) /\ session'[w].outbox = session[w].outbox
        \/ session'[w].outbox = << >>
        \/ Says(session'[w]) \in T
  BY <1>4
<1>7. Carried(T)'
  BY <1>5, <1>6, CarriedOn
<1> QED
  BY <1>1, <1>7 DEF Carried

(* A record is written when the send leaves the session file.              *)
LEMMA RecordedLeaves ==
  ASSUME Sound, [Next]_vars, NEW w \in Wallets, kept'[w] # kept[w]
  PROVE  Started(w) \/ ~HasSession(w)'
<1> USE DEF disk, world, history
<1>0. /\ session \in [Wallets -> Session \cup {NoSession}]
      /\ kept \in [Wallets -> SUBSET Record]
  BY DEF Sound, TypeOK
<1>1. ASSUME NEW v \in Wallets, Users(v) PROVE Started(w) \/ ~HasSession(w)'
  <2>1. ~GiveUp(v) /\ ~Sync(v) /\ \A d \in Deals : ~ResumeStart(v, d)
    BY DEF GiveUp, Sync, ResumeStart
  <2>2. ASSUME Retire(v) PROVE v = w /\ ~Unfinished(w)
    BY <1>0, <2>2 DEF Retire
  <2>3. CASE RunJoin(v)
    BY <1>0, <2>2, <2>3 DEF RunJoin, SetSession, HasSession
  <2>4. ASSUME NEW d \in Deals, StartFails(v, d) PROVE ~HasSession(w)'
    BY <1>0, <2>2, <2>4 DEF StartFails, SetSession, HasSession
  <2>5. ASSUME NEW d \in Deals, StartNew(v, d) PROVE Started(w)
    <3>1. v = w
      BY <2>2, <2>5 DEF StartNew
    <3> QED
      BY <2>5, <3>1 DEF StartNew, Started, SetSession, Reserve, Reserves
  <2> QED
    BY <1>1, <2>1, <2>3, <2>4, <2>5 DEF Users
<1>2. ASSUME NEW v \in Wallets, Step(v) \/ Stop(v) PROVE kept' = kept
  BY <1>2 DEF Step, Stop, SendOne, ClearOutbox, HandleMessage, DropMessage, JoinProposal,
              JoinFails, EndDone, Grace, Broadcast, BroadcastRefused, BroadcastUnanswered,
              Finish, Visit, AnswerRefused, Receive, StoreBatch
<1>3. ASSUME Block \/ UNCHANGED vars PROVE kept' = kept
  BY <1>3 DEF Block, vars
<1> QED
  BY <1>1, <1>2, <1>3 DEF Next

LEMMA NoReturnStep ==
  ASSUME OrderInv, OrderInv', [Next]_vars, NoReturn
  PROVE  NoReturn'
<1> SUFFICES ASSUME NEW w \in Wallets, HasSession(w)', NEW r \in kept'[w],
                    r.sid = session'[w].sid
             PROVE  FALSE
  BY DEF NoReturn, HasSession
<1>0. Sound /\ session \in [Wallets -> Session \cup {NoSession}]
  BY DEF OrderInv, HalvesInv, Sound, TypeOK
<1>1. session'[w].stage = "Done"
  BY DEF OrderInv, NeverRejoined, Unfinished, HasSession
<1>2. ~(Started(w) \/ Joined(w)) /\ ~Left(w)
  <2>1. PICK B : KnownBy(B)
    BY DEF OrderInv, HalvesInv
  <2>2. ~(Started(w) \/ Joined(w))
    BY <1>0, <1>1, <2>1, BeginsKnown DEF Begun
  <2> QED
    BY <1>0, <2>2 DEF Left, HasSession
<1>3. r \in kept[w]
  BY <1>0, <1>2, RecordedLeaves
<1>4. HasSession(w) /\ session'[w].sid = session[w].sid
  <2>1. CASE session'[w] = session[w]
    BY <2>1 DEF HasSession
  <2>2. CASE GoesOn(w)
    BY <1>0, <2>2, SessionGoesOn DEF Continues
  <2> QED
    BY <1>0, <1>2, <2>1, <2>2, ChangedBy DEF Changes
<1> QED
  BY <1>3, <1>4 DEF NoReturn

(* A session goes on with whom it is with.                                 *)
LEMMA PeersStay ==
  ASSUME Sound, NEW w \in Wallets, GoesOn(w)
  PROVE  session[w].peer \subseteq session'[w].peer
<1> DEFINE s == session[w]
           r == session'[w]
<1>0. /\ s \in Session /\ session \in [Wallets -> Session \cup {NoSession}]
      /\ inbox[w] \in Seq(Message)
  BY SessionGoesOn DEF Sound, TypeOK
<1>1. CASE Heard(w)
  <2>1. PICK i \in DOMAIN inbox[w] : r = Received(s, inbox[w][i])
    BY <1>0, <1>1 DEF Heard, Becomes
  <2>2. inbox[w][i] \in Message
    BY <1>0
  <2> HIDE DEF s, r
  <2>3. s.peer \subseteq r.peer
    BY <1>0, <2>1, <2>2, ReceivedPeer
  <2> QED
    BY <2>3 DEF s, r
<1>2. CASE Cleared(w)
  <2>1. r = [s EXCEPT !.outbox = << >>]
    BY <1>0, <1>2 DEF Cleared, Becomes
  <2> QED
    BY <1>0, <2>1 DEF Session
<1>3. CASE Ended(w) \/ Answered(w)
  BY <1>3, OneMore
<1> QED
  BY <1>1, <1>2, <1>3 DEF GoesOn

(* A wallet hands the turn over by what its signer answers.                *)
LEMMA HandsOver ==
  ASSUME NEW B, Turns(B), [Next]_vars, NEW w \in Wallets, HandedOver(w)', ~Answered(w)
  PROVE  /\ HandedOver(w)
         /\ session'[w].psbt = session[w].psbt /\ session'[w].sid = session[w].sid
         /\ session'[w].me = session[w].me
         /\ session[w].peer \subseteq session'[w].peer
<1> DEFINE s == session[w]
           r == session'[w]
<1>0. /\ Sound /\ session \in [Wallets -> Session \cup {NoSession}] /\ inbox[w] \in Seq(Message)
      /\ r # NoSession /\ On(r) /\ r.newest = "Mine"
  BY DEF Turns, Sound, TypeOK, HandedOver, HasSession
<1>1. CASE r = s
  BY <1>0, <1>1 DEF HandedOver, HasSession
<1>2. CASE GoesOn(w)
  <2>1. /\ HasSession(w) /\ s \in Session /\ Continues(w, s, r) /\ s.peer \subseteq r.peer
        /\ InHand(s, shared, signed)
    BY <1>0, <1>2, SessionGoesOn, PeersStay DEF Turns, FilesInTurn, HasSession
  <2>2. On(s) /\ s.newest = "Mine" /\ r.psbt = s.psbt
    <3>1. CASE Heard(w)
      <4>1. PICK i \in DOMAIN inbox[w] : r = Received(s, inbox[w][i])
        BY <1>0, <3>1 DEF Heard, Becomes
      <4>2. inbox[w][i] \in Message
        BY <1>0
      <4> HIDE DEF s, r
      <4>3. On(s)
        BY <1>0, <2>1, <4>1, <4>2, ReceivedProposed DEF Adopts
      <4> QED
        BY <1>0, <2>1, <4>1, <4>2, <4>3, ReceivedOn DEF InHand, Learns
    <3>2. CASE Cleared(w)
      <4>1. r = [s EXCEPT !.outbox = << >>]
        BY <1>0, <3>2 DEF Cleared, Becomes
      <4> QED
        BY <1>0, <2>1, <4>1 DEF Session, On
    <3>3. CASE Ended(w)
      <4>1. r = Finished(s) /\ s.stage = "Active"
        BY <1>0, <3>3 DEF Ended, Becomes
      <4> HIDE DEF s, r
      <4> QED
        BY <1>0, <2>1, <4>1, FinishedKeeps DEF On
    <3> QED
      BY <1>2, <3>1, <3>2, <3>3 DEF GoesOn
  <2> QED
    BY <2>1, <2>2 DEF HandedOver, Continues
<1>3. ~Started(w)
  <2> SUFFICES ASSUME Started(w) PROVE FALSE
    OBVIOUS
  <2>1. \E h, d : r = StartSession(w, h, d)
    BY <1>0 DEF Started
  <2>2. r.stage = "Proposed"
    BY <2>1 DEF StartSession
  <2> QED
    BY <1>0, <2>2 DEF On
<1>4. ~Joined(w)
  <2> SUFFICES ASSUME Joined(w) PROVE FALSE
    OBVIOUS
  <2>1. \E m, h : r = JoinSession(w, m, h)
    BY <1>0 DEF Joined
  <2>2. r.newest = "Joined"
    BY <2>1, JoinSessionIs
  <2> QED
    BY <1>0, <2>2
<1>5. ~Left(w)
  BY <1>0 DEF Left
<1> QED
  BY <1>0, <1>1, <1>2, <1>3, <1>4, <1>5, ChangedBy DEF Changes

(* A message of the outbox stays there until it is sent.                   *)
LEMMA OutboxStays ==
  ASSUME Sound, [Next]_vars, NEW w \in Wallets, NEW v \in Wallets, w # v,
         HasSession(w), HandedOver(w)',
         NEW k \in DOMAIN session[w].outbox, k > run[w].sent
  PROVE  LET m == session[w].outbox[k] IN
         \/ \E i \in DOMAIN channel'[v] : channel'[v][i] = m
         \/ \E i \in DOMAIN session'[w].outbox :
              i > run'[w].sent /\ session'[w].outbox[i] = m
<1> DEFINE s == session[w]
           r == session'[w]
<1>0. /\ session \in [Wallets -> Session \cup {NoSession}] /\ inbox[w] \in Seq(Message)
      /\ s \in Session /\ s.outbox \in Seq(Message) /\ run[w].sent \in Nat
      /\ channel[v] \in Seq(Message) /\ k \in 1..Len(s.outbox) /\ s.outbox[k] \in Message
      /\ r # NoSession /\ On(r)
  <2>1. /\ session \in [Wallets -> Session \cup {NoSession}] /\ inbox[w] \in Seq(Message)
        /\ run[w] \in Run /\ channel[v] \in Seq(Message)
    BY DEF Sound, TypeOK
  <2>2. s \in Session
    BY <2>1 DEF HasSession
  <2>3. s.outbox \in Seq(Message) /\ run[w].sent \in Nat
    BY <2>1, <2>2 DEF Session, Run
  <2>4. k \in 1..Len(s.outbox) /\ s.outbox[k] \in Message
    BY <2>3
  <2> QED
    BY <2>1, <2>2, <2>3, <2>4 DEF HandedOver, HasSession
<1>1. r.outbox = s.outbox /\ run'[w].sent \in {run[w].sent, 0}
      => \E i \in DOMAIN r.outbox : i > run'[w].sent /\ r.outbox[i] = s.outbox[k]
  <2> SUFFICES ASSUME r.outbox = s.outbox, run'[w].sent \in {run[w].sent, 0}
               PROVE  \E i \in DOMAIN r.outbox : i > run'[w].sent /\ r.outbox[i] = s.outbox[k]
    OBVIOUS
  <2>1. k > run'[w].sent
    BY <1>0
  <2> QED
    BY <2>1
<1>2. CASE Waits(w)
  <2>1. ASSUME Heard(w) PROVE r.outbox = s.outbox
    <3>1. PICK i \in DOMAIN inbox[w] : r = Received(s, inbox[w][i])
      BY <1>0, <2>1 DEF Heard, Becomes
    <3>2. inbox[w][i] \in Message
      BY <1>0
    <3> HIDE DEF s, r
    <3> QED
      BY <1>0, <3>1, <3>2, ReceivedKeeps
  <2> QED
    BY <1>0, <1>1, <1>2, <2>1 DEF Waits
<1>3. CASE Restarts(w)
  <2>1. ~Started(w)
    <3> SUFFICES ASSUME Started(w) PROVE FALSE
      OBVIOUS
    <3>1. \E h, d : r = StartSession(w, h, d)
      BY <1>0 DEF Started
    <3>2. r.stage = "Proposed"
      BY <3>1 DEF StartSession
    <3> QED
      BY <1>0, <3>2 DEF On
  <2>2. r = s /\ run'[w].sent = 0
    BY <1>0, <1>3, <2>1 DEF Restarts, Down
  <2> QED
    BY <1>0, <1>1, <2>2
<1>4. CASE SendsOne(w)
  <2>1. /\ r = s /\ run'[w].sent = run[w].sent + 1
        /\ channel'[v] = Append(channel[v], s.outbox[run[w].sent + 1])
    BY <1>4 DEF SendsOne
  <2>2. CASE k = run[w].sent + 1
    <3> DEFINE q == channel[v]
               e == s.outbox[k]
    <3>1. channel'[v] = Append(q, e) /\ q \in Seq(Message) /\ e \in Message
      BY <1>0, <2>1, <2>2
    <3> HIDE DEF q, e
    <3>2. Len(q) + 1 \in DOMAIN Append(q, e) /\ Append(q, e)[Len(q) + 1] = e
      BY <3>1
    <3> QED
      BY <3>1, <3>2 DEF e
  <2>3. CASE k > run[w].sent + 1
    BY <1>0, <2>1, <2>3
  <2> QED
    BY <1>0, <2>2, <2>3
<1>5. ~Clears(w) /\ ~Enters(w) /\ ~Leaves(w)
  BY <1>0 DEF Clears, Enters, Leaves
<1>6. CASE Adds(w)
  <2>1. PICK e : r.outbox = Append(s.outbox, e) /\ run'[w].sent = run[w].sent
    BY <1>6, OneMore DEF Adds
  <2> DEFINE o == s.outbox
  <2>2. o \in Seq(Message) /\ k \in DOMAIN Append(o, e) /\ Append(o, e)[k] = o[k]
    BY <1>0
  <2> QED
    BY <1>0, <2>1, <2>2
<1> QED
  BY <1>2, <1>3, <1>4, <1>5, <1>6, StepSends DEF Sends

(* ... and a message on its way, until it is acted on.                     *)
LEMMA TransitStays ==
  ASSUME Sound, Reliable, givenUp = {}, Paced, [Next]_vars, NEW v \in Wallets, HasSession(v),
         NEW m,
         \/ \E i \in DOMAIN inbox[v] : inbox[v][i] = m
         \/ \E i \in DOMAIN run[v].hand : run[v].hand[i] = m
         \/ \E i \in DOMAIN channel[v] : channel[v][i] = m
  PROVE  \/ \E i \in DOMAIN inbox'[v] : inbox'[v][i] = m
         \/ \E i \in DOMAIN run'[v].hand : run'[v].hand[i] = m
         \/ \E i \in DOMAIN channel'[v] : channel'[v][i] = m
         \/ session'[v] = Received(session[v], m)
<1> DEFINE box == inbox[v]
           hand == run[v].hand
           sent == channel[v]
<1>0. /\ box \in Seq(Message) /\ hand \in Seq(Message) /\ sent \in Seq(Message)
  BY DEF Sound, TypeOK, Run
<1>1. CASE StayOrGo(v)
  <2>1. inbox'[v] = box /\ channel'[v] = sent
    BY <1>1, NobodyGivesUp DEF StayOrGo
  <2>2. run'[v].hand = hand
    <3>1. ~run[v].up => hand = << >>
      BY DEF Paced, Down
    <3> QED
      BY <1>1, <3>1 DEF StayOrGo, Reliable
  <2> QED
    BY <2>1, <2>2
<1>2. CASE OneTaken(v)
  <2>1. /\ inbox'[v] = RemoveAt(box, 1) /\ 1 \in DOMAIN box
        /\ session'[v] = Received(session[v], box[1])
        /\ run'[v].hand = hand /\ channel'[v] = sent
    BY <1>2 DEF OneTaken
  <2> HIDE DEF box
  <2>2. /\ RemoveAt(box, 1) \in Seq(Message) /\ Len(RemoveAt(box, 1)) = Len(box) - 1
        /\ \A k \in 1..Len(box)-1 : RemoveAt(box, 1)[k] = box[k + 1]
    BY <1>0, <2>1, RemoveAtIs
  <2>3. ASSUME NEW i \in DOMAIN box, i # 1
        PROVE  i - 1 \in DOMAIN RemoveAt(box, 1) /\ RemoveAt(box, 1)[i - 1] = box[i]
    <3>1. i \in 1..Len(box) /\ i - 1 \in 1..Len(box)-1
      BY <1>0, <2>3
    <3>2. RemoveAt(box, 1)[i - 1] = box[(i - 1) + 1]
      BY <2>2, <3>1
    <3> QED
      BY <2>2, <3>1, <3>2
  <2>4. CASE \E i \in DOMAIN box : box[i] = m
    BY <2>1, <2>3, <2>4
  <2> QED
    BY <2>1, <2>4 DEF box
<1>3. CASE Returned(v)
  <2>1. hand = << >> /\ run'[v].hand = sent /\ inbox'[v] = box
    BY <1>3 DEF Returned
  <2> QED
    BY <2>1
<1>4. CASE Stored(v)
  <2>1. inbox'[v] = box \o hand /\ channel'[v] = sent
    BY <1>4 DEF Stored
  <2> HIDE DEF box, hand, sent
  <2>2. /\ box \o hand \in Seq(Message) /\ Len(box \o hand) = Len(box) + Len(hand)
        /\ \A k \in 1..Len(box) : (box \o hand)[k] = box[k]
        /\ \A k \in 1..Len(hand) : (box \o hand)[k + Len(box)] = hand[k]
    BY <1>0, ConcatIs
  <2>3. ASSUME NEW i \in DOMAIN box PROVE i \in DOMAIN (box \o hand) /\ (box \o hand)[i] = box[i]
    BY <1>0, <2>2
  <2>4. ASSUME NEW i \in DOMAIN hand
        PROVE  i + Len(box) \in DOMAIN (box \o hand) /\ (box \o hand)[i + Len(box)] = hand[i]
    BY <1>0, <2>2
  <2> QED
    BY <2>1, <2>3, <2>4 DEF box, hand, sent
<1>5. ASSUME NEW u \in Wallets \ {v}, SentBy(u, v) PROVE
         \/ \E i \in DOMAIN inbox'[v] : inbox'[v][i] = m
         \/ \E i \in DOMAIN run'[v].hand : run'[v].hand[i] = m
         \/ \E i \in DOMAIN channel'[v] : channel'[v][i] = m
  <2>1. PICK e : channel'[v] = Append(sent, e)
    BY <1>5 DEF SentBy
  <2>2. inbox'[v] = box /\ run'[v].hand = hand
    BY <1>5 DEF SentBy
  <2> HIDE DEF sent
  <2>3. ASSUME NEW i \in DOMAIN sent PROVE i \in DOMAIN Append(sent, e) /\ Append(sent, e)[i] = sent[i]
    BY <1>0
  <2> QED
    BY <2>1, <2>2, <2>3 DEF sent
<1> QED
  BY <1>1, <1>2, <1>3, <1>4, <1>5, MessagesMove

(* A message on its way stays there until it is acted on.                  *)
LEMMA ComingStays ==
  ASSUME Sound, Reliable, givenUp = {}, Paced, [Next]_vars,
         NEW w \in Wallets, NEW v \in Wallets, w # v, HasSession(w), HasSession(v),
         HandedOver(w)', NEW m, Coming(m, w, v)
  PROVE  Coming(m, w, v)' \/ session'[v] = Received(session[v], m)
<1>1. CASE \E k \in DOMAIN session[w].outbox : k > run[w].sent /\ session[w].outbox[k] = m
  BY <1>1, OutboxStays DEF Coming
<1>2. CASE \/ \E i \in DOMAIN inbox[v] : inbox[v][i] = m
           \/ \E i \in DOMAIN run[v].hand : run[v].hand[i] = m
           \/ \E i \in DOMAIN channel[v] : channel[v][i] = m
  BY <1>2, TransitStays DEF Coming
<1> QED
  BY <1>1, <1>2 DEF Coming

LEMMA ComingIn ==
  ASSUME NEW S, Carried(S), NEW w \in Wallets, NEW v \in Wallets, HasSession(w),
         NEW m, Coming(m, w, v)
  PROVE  m \in S
<1>1. /\ inbox[v] \in Seq(S) /\ run[v].hand \in Seq(S) /\ channel[v] \in Seq(S)
      /\ session[w].outbox \in Seq(S)
  BY DEF Carried
<1> QED
  BY <1>1 DEF Coming

(* Two wallets have no coin in common.                                     *)
LEMMA DisjointHalves ==
  ASSUME NEW B, BuiltHalves(B), NEW h \in B, NEW k \in B, h.owner # k.owner
  PROVE  h.coins \cap k.coins = {}
<1>1. PICK d, e \in Deals : h.coins \in Picks[h.owner][d] /\ k.coins \in Picks[k.owner][e]
  BY DEF BuiltHalves
<1>2. h.owner \in Wallets /\ k.owner \in Wallets
  BY DEF BuiltHalves, Half
<1> QED
  BY <1>1, <1>2, PicksAssumption

(* adopt_join accepts what another wallet made of the proposal.            *)
LEMMA AdoptsUpdate ==
  ASSUME NEW B, KnownBy(B), NEW w \in Wallets, NEW v \in Wallets, w # v,
         HasSession(v), ~On(session[v]), NEW m \in KnownMessages(B),
         m.sid = session[v].sid, ~m.psbt.open, Agreed(session, m.psbt, m.sid),
         \E h \in m.psbt.halves : h.owner = w
  PROVE  AdoptAccepts(session[v].psbt, m.psbt)
<1> DEFINE s == session[v]
           p == s.psbt
           q == m.psbt
<1>0. /\ BuiltHalves(B) /\ KnownSession(B, v, s)
      /\ OneEach(B, q.halves) /\ Names(s.sid, q.halves)
      /\ OneEach(B, p.halves) /\ Names(s.sid, p.halves)
      /\ \A h \in p.halves : h.owner = v
  BY DEF KnownBy, KnownFiles, KnownMessages, KnownSession, On
<1>1. PICK k \in p.halves : k \in B /\ SidOf(k) = s.sid /\ k.owner = v
  BY <1>0 DEF Names, OneEach
<1>2. p.deal = q.deal
  <2>1. s.sid.owner = v
    BY <1>1 DEF SidOf
  <2> QED
    BY <2>1 DEF Agreed, HasSession
<1> HIDE DEF s, p, q
<1>3. p.halves = {k} /\ k \in q.halves
  <2>1. p.halves = {k}
    BY <1>0, <1>1 DEF OneEach
  <2>2. PICK g \in q.halves : g \in B /\ SidOf(g) = s.sid
    BY <1>0 DEF Names, OneEach
  <2> QED
    BY <1>0, <1>1, <2>1, <2>2 DEF BuiltHalves
<1>4. PICK h \in q.halves : h.owner = w /\ h \in B
  BY <1>0 DEF OneEach, q
<1>5. InputsOf(q) # InputsOf(p)
  <2>1. h.coins # {} /\ h.coins \cap k.coins = {}
    BY <1>0, <1>1, <1>4, HalvesHaveCoins, DisjointHalves
  <2>2. InputsOf(p) = k.coins /\ h.coins \subseteq InputsOf(q)
    BY <1>3, <1>4 DEF InputsOf
  <2> QED
    BY <2>1, <2>2
<1>6. \A a, b \in q.halves : a # b => a.coins \cap b.coins = {}
  BY <1>0, DisjointHalves DEF OneEach
<1> QED
  BY <1>2, <1>3, <1>5, <1>6 DEF AdoptAccepts, p, q, s

(* Two wallets in a send hold one transaction as soon as both hold one.    *)
LEMMA PartnersAgree ==
  ASSUME PairedFiles, NoReturn, NEW w \in Wallets, NEW v \in Wallets, Partners(w, v),
         On(session[w]), On(session[v])
  PROVE  TxOf(session[w].psbt) = TxOf(session[v].psbt)
<1>0. /\ w # v /\ HasSession(w) /\ HasSession(v) /\ session[w].sid = session[v].sid
      /\ session[w].peer = {v} /\ session[v].peer \subseteq {w}
      /\ Paired(session, kept, w, session[w]) /\ Paired(session, kept, v, session[v])
  BY DEF Partners, PairedFiles
<1>1. CASE session[w].sid.owner = w
  <2>1. Spoke(session, kept, v, session[w].sid, TxOf(session[w].psbt))
    BY <1>0, <1>1 DEF Paired
  <2> QED
    BY <1>0, <2>1 DEF Spoke, NoReturn
<1>2. CASE session[w].sid.owner # w
  <2>1. session[v].sid.owner = v
    BY <1>0, <1>2 DEF Paired
  <2>2. Spoke(session, kept, w, session[v].sid, TxOf(session[v].psbt))
    BY <1>0, <2>1 DEF Paired
  <2> QED
    BY <1>0, <2>2 DEF Spoke, NoReturn
<1> QED
  BY <1>1, <1>2

(* A wallet that hands the turn over has something that no other has.      *)
LEMMA VisitAdds ==
  ASSUME NEW B, Turns(B), NEW w \in Wallets, Answered(w), NEW v \in Wallets, v # w,
         HasSession(v)
  PROVE  ~Has(session[v], session'[w])
<1> DEFINE s == session[w]
           r == session'[w]
           q == session[v].psbt
<1>0. /\ HasSession(w) /\ s \in Session /\ session \in [Wallets -> Session \cup {NoSession}]
      /\ InHand(s, shared, signed)
      /\ q \in SoundPsbt(shared, signed)
  BY SessionGoesOn, SessionSound, SessionParts
     DEF GoesOn, Turns, FilesInTurn, HasSession, Sound, TypeOK
<1>1. PICK answer \in Answers(s) : RespondAccepts(s, answer) /\ r = Responded(s, answer)
  BY <1>0 DEF Answered, Becomes
<1>2. answer \in Psbt /\ s.psbt \in Psbt
  BY <1>0, <1>1, AnswerType DEF Session
<1> SUFFICES ASSUME Has(session[v], r) PROVE FALSE
  OBVIOUS
<1> HIDE DEF s, r, q
<1>3. /\ On(s) /\ s.newest # "Mine" /\ r.psbt = Absorbed(s.psbt, answer)
      /\ Absorbed(s.psbt, answer) # s.psbt
  BY <1>0, <1>1, <1>2, RespondedKeeps DEF RespondAccepts, MyTurn, On
<1>4. /\ TxOf(r.psbt) = TxOf(s.psbt)
      /\ answer.shares \subseteq r.psbt.shares /\ answer.sigs \subseteq r.psbt.sigs
      /\ Within(answer, s.psbt) /\ (SharesComplete(s.psbt) => s.psbt.script)
           => Absorbed(s.psbt, answer) = s.psbt
  BY <1>2, <1>3, AbsorbedIs
<1>5. TxOf(q) = TxOf(r.psbt) /\ Within(r.psbt, q)
  BY DEF Has, q
<1>6. Within(q, s.psbt)
  BY <1>0, <1>3, <1>4, <1>5, WholeHasAll DEF InHand
<1> QED
  BY <1>0, <1>3, <1>4, <1>5, <1>6 DEF Within, InHand

(* Two wallets that are partners after a step of the second, or of none,   *)
(* were partners before.                                                   *)
LEMMA PartnersWere ==
  ASSUME NEW B, Turns(B), [Next]_vars, PairedFiles, PairedFiles', NoReturn',
         NEW w \in Wallets, NEW v \in Wallets, Partners(w, v)', HandedOver(w)', ~Answered(w)
  PROVE  /\ Partners(w, v) /\ HandedOver(w)
         /\ session'[v] = session[v] \/ GoesOn(v)
<1>0. /\ Sound /\ KnownBy(B) /\ session \in [Wallets -> Session \cup {NoSession}]
      /\ inbox[v] \in Seq(KnownMessages(B))
  BY DEF Turns, Sound, TypeOK, KnownBy, Carried
<1>1. /\ w # v /\ session'[w] # NoSession /\ session'[v] # NoSession
      /\ session'[w].sid = session'[v].sid
      /\ session'[w].peer = {v} /\ session'[v].peer \subseteq {w}
  BY DEF Partners, HasSession
<1>2. /\ HandedOver(w) /\ HasSession(w) /\ session'[w].sid = session[w].sid
      /\ session[w].peer \subseteq {v}
  BY <1>1, HandsOver DEF HandedOver
<1>3. session[w].peer = {v}
  <2>1. \E p \in Wallets : session[w].peer = {p}
    <3>1. Paired(session, kept, w, session[w]) /\ KnownSession(B, w, session[w]) /\ On(session[w])
      BY <1>0, <1>2 DEF PairedFiles, KnownBy, KnownFiles, HandedOver
    <3>2. PICK k \in B : SidOf(k) = session[w].sid
      BY <3>1 DEF KnownSession, Names, OneEach
    <3>3. session[w].sid.owner \in Wallets
      BY <1>0, <3>2 DEF KnownBy, BuiltHalves, Half, SidOf
    <3> QED
      BY <3>1, <3>3 DEF Paired
  <2> QED
    BY <1>2, <2>1
<1>4. ~(Started(v) \/ Joined(v))
  <2> SUFFICES ASSUME Started(v) \/ Joined(v) PROVE FALSE
    OBVIOUS
  <2>1. PICK h : Begun(B, v, h)
    BY <1>0, BeginsKnown
  <2>2. session'[v].sid # SidOf(h)
    <3>1. KnownSession(B, w, session[w])
      BY <1>0, <1>2 DEF KnownBy, KnownFiles
    <3>2. PICK k \in B : SidOf(k) = session[w].sid
      BY <3>1 DEF KnownSession, Names, OneEach
    <3> QED
      BY <1>1, <1>2, <2>1, <3>2 DEF Begun
  <2>3. PICK i \in DOMAIN inbox[v] :
          /\ ~HasSession(v) /\ inbox[v][i].kind = "Proposal" /\ inbox[v][i].from # v
          /\ session'[v].sid = inbox[v][i].sid
    BY <2>1, <2>2 DEF Begun
  <2>4. session'[v].sid.owner # v
    <3>1. inbox[v][i] \in KnownMessages(B)
      BY <1>0
    <3>2. PICK g \in inbox[v][i].psbt.halves : SidOf(g) = session'[v].sid /\ g.owner # v
      BY <2>3, <3>1 DEF KnownMessages, Names
    <3> QED
      BY <3>2 DEF SidOf
  <2>5. session'[v].sid.owner = w
    <3>1. Paired(session', kept', v, session'[v])
      BY <1>1 DEF PairedFiles, HasSession
    <3> QED
      BY <1>1, <2>4, <3>1 DEF Paired
  <2>6. Spoke(session, kept, v, session[w].sid, TxOf(session[w].psbt))
    <3>1. Paired(session, kept, w, session[w]) /\ On(session[w])
      BY <1>2 DEF PairedFiles, HandedOver
    <3> QED
      BY <1>1, <1>2, <1>3, <2>5, <3>1 DEF Paired
  <2>7. PICK r \in kept[v] : r.sid = session[w].sid
    BY <2>3, <2>6 DEF Spoke, HasSession
  <2>8. r \in kept'[v]
    BY <1>0, KeptAfter
  <2> QED
    BY <1>1, <1>2, <2>7, <2>8 DEF NoReturn, HasSession
<1>5. session'[v] = session[v] \/ GoesOn(v)
  BY <1>0, <1>1, <1>4, ChangedBy DEF Changes, Left
<1>6. /\ HasSession(v) /\ session'[v].sid = session[v].sid
      /\ session[v].peer \subseteq session'[v].peer
  <2>1. CASE session'[v] = session[v]
    BY <1>1, <2>1 DEF HasSession
  <2>2. CASE GoesOn(v)
    BY <1>0, <2>2, SessionGoesOn, PeersStay DEF Continues
  <2> QED
    BY <1>5, <2>1, <2>2
<1> QED
  BY <1>1, <1>2, <1>3, <1>5, <1>6 DEF Partners

(* What the other wallet makes of a message that has all the first has.    *)
LEMMA UpdateArrives ==
  ASSUME NEW B, Turns(B), Carried(Told(session, kept)), PairedFiles, NoReturn, DoneFull,
         NEW w \in Wallets, NEW v \in Wallets, Partners(w, v), HandedOver(w),
         NEW m \in Message, Coming(m, w, v), Update(m, session[w])
  PROVE  Has(Received(session[v], m), session[w])
<1> DEFINE s == session[w]
           t == session[v]
<1>0. /\ HasSession(w) /\ HasSession(v) /\ w # v /\ s.sid = t.sid /\ t.peer \subseteq {w}
      /\ On(s)
      /\ KnownSession(B, w, s) /\ KnownSession(B, v, t)
      /\ Sound /\ KnownBy(B)
      /\ t \in Session /\ s.psbt \in SoundPsbt(shared, signed) /\ t.psbt \in SoundPsbt(shared, signed)
  BY SessionSound, SessionParts DEF Partners, HandedOver, Turns, KnownBy, KnownFiles
<1>1. m \in Told(session, kept) /\ m \in Earlier(B)
  BY <1>0, CarriedEarlier, ComingIn
<1>2. /\ m.kind = "Update" /\ m.from = w /\ m.sid = s.sid
      /\ TxOf(m.psbt) = TxOf(s.psbt) /\ Within(s.psbt, m.psbt)
  BY <1>0 DEF Update, KnownSession
<1>3. ~m.psbt.open /\ Agreed(session, m.psbt, m.sid)
  BY <1>1, <1>2 DEF Told
<1>4. m.psbt \in SoundPsbt(shared, signed) /\ m \in KnownMessages(B)
  BY <1>1 DEF Earlier, SoundMessage
<1>5. CASE t.stage = "Done"
  <2>1. Received(t, m) = t
    BY <1>2, <1>5 DEF Received
  <2>2. On(t) /\ TxOf(s.psbt) = TxOf(t.psbt)
    BY <1>0, <1>5, PartnersAgree DEF On
  <2>3. Complete(t.psbt)
    BY <1>0, <1>5 DEF DoneFull
  <2>4. InputsOf(s.psbt) = InputsOf(t.psbt)
    BY <2>2 DEF TxOf, InputsOf
  <2>5. InputsOf(t.psbt) # {}
    BY <1>0, SessionSound, SessionParts
  <2> HIDE DEF s, t
  <2>6. SharesComplete(t.psbt)
    BY <1>0, <2>3, <2>5 DEF SoundPsbt, Complete
  <2>7. Within(s.psbt, t.psbt)
    BY <1>0, <2>3, <2>4, <2>6 DEF SoundPsbt, Complete, SharesComplete, Within
  <2> QED
    BY <2>1, <2>2, <2>7 DEF Has, s, t
<1>6. CASE t.stage # "Done"
  <2>1. ForThisSend(t, m)
    BY <1>0, <1>2 DEF ForThisSend, KnownSession
  <2>2. IF On(t) THEN TxOf(t.psbt) = TxOf(m.psbt) ELSE AdoptAccepts(t.psbt, m.psbt)
    <3>1. CASE On(t)
      BY <1>0, <1>2, <3>1, PartnersAgree
    <3>2. CASE ~On(t)
      <4>1. \E h \in m.psbt.halves : h.owner = w
        BY <1>0, <1>2 DEF KnownSession, TxOf
      <4> QED
        BY <1>0, <1>2, <1>3, <1>4, <3>2, <4>1, AdoptsUpdate
    <3> QED
      BY <3>1, <3>2
  <2> HIDE DEF t
  <2>3. Has(Received(t, m), [psbt |-> m.psbt])
    BY <1>0, <1>2, <1>3, <1>4, <1>6, <2>1, <2>2, UpdateTaken
  <2> QED
    BY <1>2, <2>3 DEF Has, Within, t
<1> QED
  BY <1>5, <1>6

(* A session that goes on loses nothing.                                   *)
LEMMA HasMore ==
  ASSUME Sound, NEW v \in Wallets, GoesOn(v), NEW t, Has(session[v], t)
  PROVE  Has(session'[v], t)
<1>1. session[v] \in Session /\ Continues(v, session[v], session'[v])
  BY SessionGoesOn
<1>2. TxOf(session'[v].psbt) = TxOf(session[v].psbt) /\ On(session'[v])
  BY <1>1, SameTx DEF Has, On
<1> QED
  BY <1>1, <1>2 DEF Has, Within, Continues, Extends

(* A visit puts the new state in the outbox, and no step loses it there.   *)
LEMMA DeliveredStep ==
  ASSUME NEW B, Turns(B), Reliable, givenUp = {}, Paced, Sound', [Next]_vars,
         Carried(Told(session, kept)), PairedFiles, PairedFiles', NoReturn, NoReturn', DoneFull,
         Delivered, Paced'
  PROVE  Delivered'
<1> SUFFICES ASSUME NEW w \in Wallets, NEW v \in Wallets, Partners(w, v)', HandedOver(w)'
             PROVE  \/ Has(session'[v], session'[w])
                    \/ \E m \in Message : Coming(m, w, v)' /\ Update(m, session'[w])
  BY DEF Delivered
<1>0. Sound /\ w # v /\ session'[w] # NoSession
  BY DEF Turns, Partners, HandedOver, HasSession
<1>1. CASE Answered(w)
  <2> DEFINE s == session[w]
             r == session'[w]
             m == UpdateMessage(r)
  <2>1. r.outbox = Append(s.outbox, m)
    BY <1>0, <1>1, OneMore
  <2>2. s \in Session /\ s.outbox \in Seq(Message) /\ run[w].sent \in Nat
    BY <1>0, <1>1, SessionGoesOn DEF GoesOn, Session, Sound, TypeOK, Run
  <2>3. r \in Session
    BY <1>0, <1>1, GoesOnType DEF GoesOn
  <2>4. m \in Message /\ Update(m, r)
    <3> HIDE DEF r
    <3> QED
      BY <2>3 DEF UpdateMessage, Message, Kind, Session, Update, Within
  <2>5. run'[w].sent <= Len(s.outbox)
    <3>1. run'[w].sent = run[w].sent \/ run'[w].sent = 0
      <4>1. ~SendsOne(w)
        <5> SUFFICES ASSUME SendsOne(w) PROVE FALSE
          OBVIOUS
        <5>1. r = s
          BY DEF SendsOne
        <5>2. Append(s.outbox, m) = s.outbox
          BY <2>1, <5>1
        <5> HIDE DEF s, m
        <5> QED
          BY <2>2, <5>2
      <4>2. Down.sent = 0 /\ [Down EXCEPT !.up = TRUE].sent = 0
        BY DEF Down
      <4>3. \/ run'[w].sent = run[w].sent \/ run'[w].sent = 0 \/ run'[w] = run[w]
            \/ run'[w] = Down \/ run'[w] = [Down EXCEPT !.up = TRUE]
        <5> HIDE DEF Down
        <5>1. Sends(w) \/ Waits(w)
          BY <1>0, StepSends DEF Sound
        <5> QED
          BY <4>1, <5>1 DEF Sends, Waits, Restarts, Clears, Adds, Enters, Leaves
      <4> HIDE DEF Down
      <4> QED
        BY <4>2, <4>3
    <3>2. run[w].sent <= Len(s.outbox)
      BY <1>1 DEF Paced, Answered, Becomes
    <3>3. Len(s.outbox) \in Nat
      BY <2>2
    <3> QED
      BY <2>2, <3>1, <3>2, <3>3
  <2> DEFINE o == s.outbox
             k == Len(o) + 1
  <2>6. k \in DOMAIN r.outbox /\ r.outbox[k] = m /\ k > run'[w].sent
    <3>1. o \in Seq(Message) /\ r.outbox = Append(o, m) /\ run'[w].sent <= Len(o) /\ run'[w].sent \in Nat
      BY <2>1, <2>2, <2>5 DEF Sound, TypeOK, Run
    <3> HIDE DEF o, m
    <3>2. k \in DOMAIN Append(o, m) /\ Append(o, m)[k] = m
      BY <3>1
    <3>3. Len(o) \in Nat
      BY <3>1
    <3>4. k > run'[w].sent
      BY <3>1, <3>3
    <3> QED
      BY <3>1, <3>2, <3>4
  <2>7. PICK n \in Message : n = m
    BY <2>4
  <2>8. Coming(n, w, v)'
    <3>1. r.outbox[k] = n
      BY <2>6, <2>7
    <3> QED
      BY <2>6, <3>1 DEF Coming
  <2>9. Update(n, session'[w])
    BY <2>4, <2>7
  <2> QED
    BY <2>8, <2>9
<1>2. CASE ~Answered(w)
  <2>1. /\ Partners(w, v) /\ HandedOver(w)
        /\ session'[v] = session[v] \/ GoesOn(v)
    BY <1>2, PartnersWere
  <2>2. /\ session'[w].psbt = session[w].psbt /\ session'[w].sid = session[w].sid
        /\ session'[w].me = session[w].me
    BY <1>2, HandsOver
  <2>3. CASE Has(session[v], session[w])
    <3>1. Has(session'[v], session[w])
      BY <1>0, <2>1, <2>3, HasMore
    <3> QED
      BY <2>2, <3>1 DEF Has
  <2>4. ASSUME NEW m \in Message, Coming(m, w, v), Update(m, session[w])
        PROVE  \/ Has(session'[v], session'[w])
               \/ Coming(m, w, v)' /\ Update(m, session'[w])
    <3>1. CASE Coming(m, w, v)'
      BY <2>2, <2>4, <3>1 DEF Update
    <3>2. CASE session'[v] = Received(session[v], m)
      <4>1. Has(session'[v], session[w])
        BY <2>1, <2>4, <3>2, UpdateArrives
      <4> QED
        BY <2>2, <4>1 DEF Has
    <3>3. HasSession(w) /\ HasSession(v)
      BY <2>1 DEF Partners
    <3> QED
      BY <1>0, <2>4, <3>1, <3>2, <3>3, ComingStays
  <2> QED
    BY <2>1, <2>3, <2>4 DEF Delivered
<1> QED
  BY <1>1, <1>2

(* A visit adds something, which the other wallet cannot have.             *)
LEMMA DifferStep ==
  ASSUME NEW B, Turns(B), [Next]_vars, PairedFiles, PairedFiles', NoReturn', Differ
  PROVE  Differ'
<1> SUFFICES ASSUME NEW w \in Wallets, NEW v \in Wallets, Partners(w, v)',
                    HandedOver(w)', HandedOver(v)'
             PROVE  ~Has(session'[w], session'[v]) \/ ~Has(session'[v], session'[w])
  BY DEF Differ
<1>0. Sound /\ w # v /\ session'[w] # NoSession /\ session'[v] # NoSession
  BY DEF Turns, Partners, HasSession
<1>1. CASE Answered(w)
  <2>1. session'[v] = session[v]
    BY <1>0, <1>1, OthersStay DEF Changes, GoesOn
  <2> QED
    BY <1>0, <1>1, <2>1, VisitAdds DEF HasSession
<1>2. CASE Answered(v)
  <2>1. session'[w] = session[w]
    BY <1>0, <1>2, OthersStay DEF Changes, GoesOn
  <2> QED
    BY <1>0, <1>2, <2>1, VisitAdds DEF HasSession
<1>3. CASE ~Answered(w) /\ ~Answered(v)
  <2>1. Partners(w, v) /\ HandedOver(w)
    BY <1>3, PartnersWere
  <2>2. /\ session'[w].psbt = session[w].psbt /\ session'[v].psbt = session[v].psbt
        /\ HandedOver(v)
    BY <1>3, HandsOver
  <2>3. ~Has(session[w], session[v]) \/ ~Has(session[v], session[w])
    BY <2>1, <2>2 DEF Differ
  <2> QED
    BY <2>1, <2>2, <2>3 DEF Has, HandedOver
<1> QED
  BY <1>1, <1>2, <1>3

-----------------------------------------------------------------------------
(* The inductive invariant of this part.                                   *)
RestInv ==
  /\ Reliable /\ TurnsInv /\ OrderInv
  /\ Paced /\ givenUp = {} /\ NoReturn
  /\ Carried(Told(session, kept))
  /\ PairedFiles /\ DoneFull
  /\ AllSigned /\ SigsHeld
  /\ Delivered /\ Differ

LEMMA InitRest == Reliable /\ Init => RestInv
<1> SUFFICES ASSUME Reliable, Init PROVE RestInv
  OBVIOUS
<1>1. \A w \in Wallets : ~HasSession(w) /\ kept[w] = {} /\ run[w] = Down
  BY DEF Init, HasSession
<1>2. Paced
  BY <1>1, StartedRun DEF Paced
<1>3. << >> \in Seq(Told(session, kept))
  BY NoMessages
<1>4. Carried(Told(session, kept))
  BY <1>3, StartedRun DEF Carried, Init, HasSession
<1>5. NoReturn /\ PairedFiles /\ DoneFull
  BY <1>1 DEF NoReturn, PairedFiles, DoneFull
<1>6. AllSigned /\ SigsHeld
  BY DEF AllSigned, SigsHeld, Init
<1>7. Delivered /\ Differ
  BY <1>1 DEF Delivered, Differ, HandedOver
<1>8. givenUp = {}
  BY DEF Init
<1> QED
  BY <1>2, <1>4, <1>5, <1>6, <1>7, <1>8, InitTurns, InitOrder DEF RestInv

LEMMA NextRest == RestInv /\ [Next]_vars => RestInv'
<1> SUFFICES ASSUME RestInv, [Next]_vars PROVE RestInv'
  OBVIOUS
<1>1. /\ Reliable /\ TurnsInv /\ OrderInv /\ Paced /\ givenUp = {} /\ NoReturn
      /\ Carried(Told(session, kept)) /\ PairedFiles /\ DoneFull
      /\ AllSigned /\ SigsHeld /\ Delivered /\ Differ
  BY DEF RestInv
<1>2. Reliable' /\ TurnsInv' /\ OrderInv'
  BY <1>1, NextTurns, NextOrder DEF Reliable
<1>3. PICK B : Turns(B)
  BY <1>1 DEF TurnsInv, HalvesInv, Turns
<1>4. PICK C : KnownBy(C)'
  BY <1>2 DEF TurnsInv, HalvesInv
<1>5. Sound /\ Sound' /\ KnownBy(B)
  BY <1>2, <1>3 DEF TurnsInv, HalvesInv, Turns
<1>6. Paced' /\ givenUp' = {} /\ NoReturn'
  BY <1>1, <1>2, <1>5, PacedStep, NobodyGivesUp, NoReturnStep
<1>7. DoneFull'
  BY <1>1, <1>5, DoneFullStep
<1>8. PairedFiles'
  <2> SUFFICES ASSUME NEW w \in Wallets, HasSession(w)'
               PROVE  Paired(session', kept', w, session'[w]) /\ UsesTurn(session'[w])
    BY DEF PairedFiles
  <2>1. HasSession(w) => Paired(session, kept, w, session[w]) /\ UsesTurn(session[w])
    BY <1>1 DEF PairedFiles
  <2>2. Paired(session', kept', w, session'[w])
    BY <1>1, <1>5, <2>1, PairedStep
  <2>3. UsesTurn(session'[w])
    BY <1>1, <1>3, <1>5, <2>1, UsesTurnStep
  <2> QED
    BY <2>2, <2>3
<1>9. Carried(Told(session, kept))'
  BY <1>1, <1>4, <1>5, <1>7, <1>8, ToldStep
<1>10. AllSigned' /\ SigsHeld'
  BY <1>1, <1>5, AllSignedStep, SigsHeldStep
<1>11. Delivered'
  BY <1>1, <1>3, <1>5, <1>6, <1>8, DeliveredStep
<1>12. Differ'
  BY <1>1, <1>3, <1>6, <1>8, DifferStep
<1> QED
  BY <1>2, <1>6, <1>7, <1>8, <1>9, <1>10, <1>11, <1>12 DEF RestInv

(* Between two wallets at rest nothing is on its way.                      *)
LEMMA NothingComing ==
  ASSUME NEW w \in Wallets, NEW v \in Wallets, AtRest(w), AtRest(v), HasSession(w), NEW m
  PROVE  ~Coming(m, w, v)
BY DEF AtRest, Owes, Coming

(* The wallet that holds the newest state has the next step, or, when it   *)
(* knows already that the send is done, the other one has.                 *)
LEMMA NewestActs ==
  ASSUME RestInv, NEW z \in Wallets, NEW y \in Wallets, z # y,
         HasSession(z), HasSession(y), On(session[z]), On(session[y]),
         TxOf(session[z].psbt) = TxOf(session[y].psbt), session[z].newest # "Mine",
         Unfinished(z) \/ Unfinished(y)
  PROVE  CanAct(z) \/ CanAct(y)
<1> DEFINE s == session[z]
           r == session[y]
<1>1. /\ s \in Session /\ s.psbt \in SoundPsbt(shared, signed) /\ s.mine \subseteq InputsOf(s.psbt)
      /\ r \in Session /\ r.psbt \in SoundPsbt(shared, signed)
  BY SessionSound, SessionParts DEF RestInv, TurnsInv, HalvesInv
<1>2. InTurns(s, r, shared, signed) /\ UsesTurn(s)
  BY DEF RestInv, TurnsInv, FilesInTurn, PairedFiles, HasSession
<1>3. s.stage = "Done" => Complete(s.psbt)
  BY DEF RestInv, DoneFull
<1>4. s.stage \in {"Active", "Done"} /\ r.stage \in {"Active", "Done"}
  BY <1>1 DEF On, Session, Stage
<1>5. InputsOf(s.psbt) = InputsOf(r.psbt)
  BY DEF TxOf, InputsOf
<1>6. Within(s.psbt, r.psbt)
  BY <1>1, <1>2, WholeHasAll DEF InTurns
<1>7. s.psbt.sigs \subseteq InputsOf(s.psbt) /\ r.psbt.sigs \subseteq InputsOf(r.psbt)
  BY <1>1 DEF SoundPsbt
<1> HIDE DEF s, r
<1>8. CASE ~(s.mine \subseteq s.psbt.sigs)
  <2>1. s.stage = "Active"
    BY <1>1, <1>3, <1>4, <1>8 DEF Complete
  <2> QED
    BY <1>8, <2>1 DEF s, CanAct, MyTurn
<1>9. CASE s.mine \subseteq s.psbt.sigs
  <2>1. Complete(s.psbt)
    BY <1>2, <1>9 DEF UsesTurn, s
  <2>2. s.psbt.sigs = InputsOf(s.psbt) /\ r.psbt.sigs = InputsOf(r.psbt)
    BY <1>5, <1>6, <1>7, <2>1 DEF Complete, Within
  <2>3. CASE s.stage = "Active"
    BY <2>2, <2>3 DEF s, CanAct, Ready
  <2>4. CASE s.stage = "Done"
    <3>1. r.stage = "Active"
      BY <1>4, <2>4 DEF Unfinished, s, r
    <3> QED
      BY <2>2, <3>1 DEF r, CanAct, Ready
  <2> QED
    BY <1>4, <2>3, <2>4
<1> QED
  BY <1>8, <1>9

(* x began the send and y joined it: both hold the transaction, ...        *)
LEMMA JoinedActs ==
  ASSUME RestInv, NEW x \in Wallets, NEW y \in Wallets, AtRest(x), AtRest(y),
         Partners(x, y), Partners(y, x), On(session[x]), On(session[y]),
         Unfinished(x) \/ Unfinished(y)
  PROVE  CanAct(x) \/ CanAct(y)
<1>1. x # y /\ HasSession(x) /\ HasSession(y)
  BY DEF Partners
<1>2. TxOf(session[x].psbt) = TxOf(session[y].psbt)
  BY PartnersAgree DEF RestInv
<1>3. ~(HandedOver(x) /\ HandedOver(y))
  <2>1. ASSUME HandedOver(x), HandedOver(y) PROVE FALSE
    <3>1. Has(session[y], session[x]) /\ Has(session[x], session[y])
      BY <1>1, <2>1, NothingComing DEF RestInv, Delivered
    <3> QED
      BY <2>1, <3>1 DEF RestInv, Differ
  <2> QED
    BY <2>1
<1>4. CASE session[x].newest # "Mine"
  BY <1>1, <1>2, <1>4, NewestActs
<1>5. CASE session[y].newest # "Mine"
  BY <1>1, <1>2, <1>5, NewestActs
<1> QED
  BY <1>1, <1>3, <1>4, <1>5 DEF HandedOver

(* ... or x has not heard of y yet, and y is the first to visit its signer.*)
LEMMA JoinerActs ==
  ASSUME RestInv, NEW x \in Wallets, NEW y \in Wallets, AtRest(x), AtRest(y),
         Partners(y, x), ~On(session[x]), On(session[y])
  PROVE  CanAct(y)
<1> DEFINE s == session[x]
           r == session[y]
<1>1. x # y /\ HasSession(x) /\ HasSession(y) /\ r.sid = s.sid
  BY DEF Partners
<1>2. ~HandedOver(y)
  <2>1. ASSUME HandedOver(y) PROVE FALSE
    <3>1. Has(s, r)
      BY <1>1, <2>1, NothingComing DEF RestInv, Delivered
    <3> QED
      BY <3>1 DEF Has
  <2> QED
    BY <2>1
<1>3. s.psbt.halves \cap r.psbt.halves # {}
  <2>1. PICK B : KnownBy(B)
    BY DEF RestInv, TurnsInv, HalvesInv
  <2>2. KnownSession(B, x, s) /\ KnownSession(B, y, r)
    BY <1>1, <2>1 DEF KnownBy, KnownFiles
  <2>3. PICK h \in s.psbt.halves : SidOf(h) = s.sid
    BY <2>2 DEF KnownSession, Names
  <2>4. PICK k \in r.psbt.halves : SidOf(k) = s.sid
    BY <1>1, <2>2 DEF KnownSession, Names
  <2>5. h \in B /\ k \in B
    BY <2>2 DEF KnownSession, OneEach
  <2>6. h = k
    BY <2>1, <2>3, <2>4, <2>5 DEF KnownBy, BuiltHalves
  <2> QED
    BY <2>3, <2>4, <2>6
<1>4. /\ r \in Session /\ r.psbt \in SoundPsbt(shared, signed)
      /\ r.mine # {} /\ r.mine \subseteq InputsOf(r.psbt)
  BY <1>1, SessionSound, SessionParts DEF RestInv, TurnsInv, HalvesInv
<1>5. InTurns(s, r, shared, signed) /\ InHand(r, shared, signed)
  BY <1>1 DEF RestInv, TurnsInv, FilesInTurn, HasSession
<1>6. r.stage = "Done" => Complete(r.psbt)
  BY <1>1 DEF RestInv, DoneFull
<1> HIDE DEF s, r
<1>7. r.newest = "Joined"
  <2>1. r.newest # "Mine"
    BY <1>1, <1>2 DEF HandedOver, r
  <2>2. r.newest # "Theirs"
    BY <1>3, <1>5 DEF InTurns, s
  <2> QED
    BY <1>4, <2>1, <2>2 DEF Session, Newest
<1>8. r.psbt.sigs = {}
  <2>1. Unmarked(TxOf(r.psbt), shared, signed)
    BY <1>5, <1>7 DEF InHand, r
  <2>2. \A c \in r.psbt.sigs : [coin |-> c, tx |-> TxOf(r.psbt)] \in signed
    BY <1>4 DEF SoundPsbt, Marks
  <2>3. \A c : [coin |-> c, tx |-> TxOf(r.psbt)].tx = TxOf(r.psbt)
    OBVIOUS
  <2> QED
    BY <2>1, <2>2, <2>3 DEF Unmarked
<1>9. r.stage = "Active"
  <2>1. r.stage # "Done"
    BY <1>4, <1>6, <1>8 DEF Complete
  <2> QED
    BY <1>4, <2>1 DEF On, Session, Stage, r
<1> QED
  BY <1>4, <1>7, <1>8, <1>9 DEF CanAct, MyTurn, r

(* Of two partners at rest one has the next step.                          *)
LEMMA RestActs == RestInv => SomeoneActs
<1> SUFFICES ASSUME RestInv, NEW w \in Wallets, NEW v \in Wallets,
                    w # v, AtRest(w), AtRest(v), Unfinished(w), HasSession(v),
                    session[w].sid = session[v].sid,
                    session[w].peer \cup session[v].peer \subseteq {w, v}
             PROVE  CanAct(w) \/ CanAct(v)
  BY DEF SomeoneActs
<1> DEFINE o == session[w].sid.owner
<1>0. HasSession(w)
  BY DEF Unfinished
<1>1. /\ Paired(session, kept, w, session[w])
      /\ Paired(session, kept, v, session[v])
  BY <1>0 DEF RestInv, PairedFiles
<1>2. PICK x \in {w, v}, y \in {w, v} : x # y /\ o = x
  <2>1. o # w => session[w].peer = {o}
    BY <1>1 DEF Paired
  <2>2. o \in {w, v}
    BY <2>1
  <2> QED
    BY <2>2
<1>3. /\ HasSession(x) /\ HasSession(y) /\ session[x].sid = session[y].sid
      /\ session[x].sid.owner = x
      /\ Paired(session, kept, x, session[x]) /\ Paired(session, kept, y, session[y])
      /\ session[x].peer \subseteq {x, y}
      /\ AtRest(x) /\ AtRest(y) /\ x \in Wallets /\ y \in Wallets
      /\ Unfinished(x) \/ Unfinished(y)
  BY <1>0, <1>1, <1>2
<1> HIDE DEF o
<1>4. On(session[y]) /\ session[y].peer = {x}
  BY <1>2, <1>3 DEF Paired
<1>5. CASE On(session[x])
  <2>1. session[x].peer = {y}
    BY <1>3, <1>5 DEF Paired
  <2>2. Partners(x, y) /\ Partners(y, x)
    BY <1>2, <1>3, <1>4, <2>1 DEF Partners
  <2>3. CanAct(x) \/ CanAct(y)
    BY <1>3, <1>4, <1>5, <2>2, JoinedActs
  <2> QED
    BY <1>2, <2>3
<1>6. CASE ~On(session[x])
  <2>1. Partners(y, x)
    BY <1>2, <1>3, <1>4, <1>6 DEF Partners, Paired
  <2>2. CanAct(y)
    BY <1>3, <1>4, <1>6, <2>1, JoinerActs
  <2> QED
    BY <1>2, <2>2
<1> QED
  BY <1>5, <1>6

(* Nobody waits for nothing.  When two wallets are in a send with each     *)
(* other and nothing is on its way between them, one of the two signs,     *)
(* broadcasts or has its signer still to visit, provided that no command   *)
(* is lost in the middle of handing messages over, no send was given up    *)
(* and a signer gives all it can at each visit.                            *)
THEOREM SomeoneIsNext == Reliable /\ Spec => []SomeoneActs
<1>1. Reliable /\ Init => RestInv
  BY InitRest
<1>2. RestInv /\ [Next]_vars => RestInv'
  BY NextRest
<1>3. RestInv => SomeoneActs
  BY RestActs
<1> QED
  BY <1>1, <1>2, <1>3, PTL DEF Spec
=============================================================================
