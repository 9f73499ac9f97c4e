-------------------------- MODULE SharedSendProofs --------------------------
(***************************************************************************)
(* Proofs that the safety properties of SharedSend hold for any number of  *)
(* wallets, coins, deals and messages and for every value of its bounds.   *)
(*                                                                         *)
(* All of them follow from Sound, which says of every PSBT, wherever it    *)
(* is (session file, outbox, inbox, memory of a command, channel), what a  *)
(* wallet that takes it in relies on.  The argument goes up in layers: the *)
(* operators of shared.rs keep a PSBT sound, so the operators of Session   *)
(* keep a session sound, so every kind of step keeps the state sound.      *)
(***************************************************************************)
EXTENDS SharedSend, SharedSessionProofs

(* Taking an element out of a sequence leaves a sequence of its elements.  *)
LEMMA RemoveAtType ==
  ASSUME NEW S, NEW s \in Seq(S), NEW i \in DOMAIN s
  PROVE  RemoveAt(s, i) \in Seq(S)
<1>1. i \in 1..Len(s)
  OBVIOUS
<1>2. SubSeq(s, 1, i-1) \in Seq(S) /\ SubSeq(s, i+1, Len(s)) \in Seq(S)
  BY <1>1
<1> QED
  BY <1>2 DEF RemoveAt

(* Two sequences of a set's elements one after the other are one of them:  *)
(* an inbox and the batch stored behind it.                                *)
LEMMA ConcatType ==
  ASSUME NEW S, NEW s \in Seq(S), NEW t \in Seq(S)
  PROVE  s \o t \in Seq(S)
OBVIOUS

-----------------------------------------------------------------------------
(* What the actions on the state share.                                    *)

(* A signer's answer is a PSBT.                                            *)
LEMMA AnswerType ==
  ASSUME NEW s \in Session, NEW answer \in Answers(s)
  PROVE  answer \in Psbt
<1>1. /\ s.psbt \in Psbt /\ s.mine \in SUBSET Coins
  BY DEF Session
<1>2. \A shares, sigs \in SUBSET Coins : Answer(s, shares, sigs) \in Psbt
  BY <1>1 DEF Answer, Psbt
<1>3. WholeAnswer(s) \in Psbt
  BY <1>1, <1>2 DEF WholeAnswer
<1>4. PartialAnswers(s) \subseteq Psbt
  BY <1>1, <1>2 DEF PartialAnswers
<1> QED
  BY <1>3, <1>4 DEF Answers

(* The session of a wallet that has one is sound.                          *)
LEMMA SessionSound ==
  ASSUME Sound, NEW w \in Wallets, HasSession(w)
  PROVE  session[w] \in SoundSession(shared, signed, chain)
BY DEF Sound, SoundFiles, HasSession

(* A command that has just been started holds nothing in its memory.       *)
LEMMA StartedRun ==
  /\ Down \in Run /\ Down.hand = << >> /\ Down.pushed = FALSE /\ Down.sent = 0
  /\ [Down EXCEPT !.up = TRUE] \in Run
  /\ [Down EXCEPT !.up = TRUE].hand = << >>
  /\ [Down EXCEPT !.up = TRUE].pushed = FALSE
<1> << >> \in Seq(Message)
  BY NoMessages
<1> QED
  BY DEF Down, Run

(* The half fund builds has a coin.                                        *)
LEMMA NewHalfType ==
  ASSUME TypeOK, NEW w \in Wallets, NEW d \in Deals, NEW coins \in Fundable(w, d)
  PROVE  /\ NewHalf(w, coins) \in Half
         /\ NewHalf(w, coins).coins = coins
         /\ coins # {}
<1>1. coins \in Picks[w][d] /\ coins \in SUBSET Coins
  BY PicksAssumption DEF Fundable
<1>2. coins # {}
  <2>1. {} \notin Picks[w][d]
    BY PicksAssumption
  <2> QED
    BY <1>1, <2>1
<1>3. made[w] \in Nat
  BY DEF TypeOK
<1> QED
  BY <1>1, <1>2, <1>3 DEF NewHalf, Half

(* Retiring a session records only a transaction the network took.         *)
LEMMA RetireSound ==
  ASSUME Sound, NEW w \in Wallets, Retire(w)
  PROVE  /\ kept' \in [Wallets -> SUBSET Record]
         /\ \A v \in Wallets : \A r \in kept'[v] : r.tx \in chain
<1>1. kept \in [Wallets -> SUBSET Record] /\ \A v \in Wallets : \A r \in kept[v] : r.tx \in chain
  BY DEF Sound, TypeOK, SoundFiles
<1>2. CASE ~(HasSession(w) /\ ~Unfinished(w))
  BY <1>1, <1>2 DEF Retire
<1>3. CASE HasSession(w) /\ ~Unfinished(w)
  <2> DEFINE new == {[sid |-> session[w].sid, tx |-> t] : t \in session[w].txid}
  <2>1. session[w] \in Session /\ session[w].txid \subseteq chain
    BY <1>3, SessionSound, SessionParts DEF Unfinished
  <2>2. new \subseteq Record /\ \A r \in new : r.tx \in chain
    BY <2>1 DEF Session, Record
  <2>3. kept' = [kept EXCEPT ![w] = kept[w] \cup new]
    BY <1>3 DEF Retire
  <2> HIDE DEF new
  <2> QED
    BY <1>1, <2>2, <2>3
<1> QED
  BY <1>2, <1>3

-----------------------------------------------------------------------------
(* The initial states are sound.                                           *)
LEMMA InitSound == Init => Sound
<1> SUFFICES ASSUME Init PROVE Sound
  OBVIOUS
<1>1. TypeOK
  BY StartedRun DEF Init, TypeOK
<1>2. SoundFiles
  BY DEF Init, SoundFiles
<1>3. SoundTransit
  <2>1. << >> \in Seq(SoundMessage(shared, signed, chain))
    BY NoMessages
  <2>2. channel \in [Wallets -> Seq(SoundMessage(shared, signed, chain))]
    BY <2>1 DEF Init
  <2>3. \A w \in Wallets : run[w].hand = << >> /\ ~run[w].pushed
    BY StartedRun DEF Init
  <2> QED
    BY <2>1, <2>2, <2>3 DEF SoundTransit
<1>4. SignedOnlyWhenComplete /\ PaidByConsent
  BY DEF Init, SignedOnlyWhenComplete, PaidByConsent
<1> QED
  BY <1>1, <1>2, <1>3, <1>4 DEF Sound

(* A step that leaves the files, the messages and the network alone and    *)
(* changes at most counters and which commands run.                        *)
LEMMA RunStepSound ==
  ASSUME Sound, NEW w \in Wallets,
         UNCHANGED <<disk, channel, chain, mined, view, made, givenUp, shared, signed>>,
         run' = run \/ (\E r \in Run : run' = [run EXCEPT ![w] = r] /\ r.hand = << >> /\ ~r.pushed),
         stops' \in Nat
  PROVE  Sound'
<1>1. TypeOK'
  BY DEF Sound, TypeOK, disk
<1>2. SoundFiles'
  BY DEF Sound, SoundFiles, disk
<1>3. SoundTransit'
  <2>1. << >> \in Seq(SoundMessage(shared, signed, chain))
    BY NoMessages
  <2>2. /\ UNCHANGED <<session, channel, chain, shared, signed>>
        /\ run \in [Wallets -> Run]
        /\ SoundTransit
    BY DEF Sound, TypeOK, disk
  <2>3. CASE run' = run
    BY <2>2, <2>3 DEF SoundTransit, HasSession
  <2>4. CASE \E r \in Run : run' = [run EXCEPT ![w] = r] /\ r.hand = << >> /\ ~r.pushed
    <3>1. \A v \in Wallets : run'[v] = run[v] \/ (run'[v].hand = << >> /\ ~run'[v].pushed)
      BY <2>2, <2>4
    <3> QED
      BY <2>1, <2>2, <3>1 DEF SoundTransit, HasSession
  <2> QED
    BY <2>3, <2>4
<1>4. (SignedOnlyWhenComplete /\ PaidByConsent)'
  BY DEF Sound, SignedOnlyWhenComplete, PaidByConsent
<1> QED
  BY <1>1, <1>2, <1>3, <1>4 DEF Sound

(* A step of a command that runs and has nothing pushed or handed over:    *)
(* it writes the session file, and the history and the network stay.       *)
LEMMA FileStepSound ==
  ASSUME Sound, NEW w \in Wallets,
         ~run'[w].pushed,
         NEW s \in SoundSession(shared, signed, chain) \cup {NoSession},
         session' = [session EXCEPT ![w] = s],
         NEW q \in Seq(SoundMessage(shared, signed, chain)),
         inbox' = [inbox EXCEPT ![w] = q],
         kept' \in [Wallets -> SUBSET Record],
         \A v \in Wallets : \A r \in kept'[v] : r.tx \in chain,
         run' = run \/ (\E r \in Run : run' = [run EXCEPT ![w] = r] /\ r.hand = << >> /\ ~r.pushed),
         made' \in [Wallets -> Nat], givenUp' \subseteq Dropped,
         UNCHANGED <<channel, chain, mined, view, stops, shared, signed>>
  PROVE  Sound'
<1>1. TypeOK'
  <2>1. s \in Session \cup {NoSession} /\ q \in Seq(Message)
    BY SoundTypes
  <2> QED
    BY <2>1 DEF Sound, TypeOK
<1>2. SoundFiles'
  BY DEF Sound, SoundFiles
<1>3. SoundTransit'
  <2>1. channel' \in [Wallets -> Seq(SoundMessage(shared, signed, chain)')]
    BY DEF Sound, SoundTransit, SoundMessage
  <2>2. ASSUME NEW v \in Wallets
        PROVE  /\ run'[v].hand \in Seq(SoundMessage(shared, signed, chain)')
               /\ run'[v].pushed => /\ run'[v].up
                                    /\ HasSession(v)'
                                    /\ session'[v].stage = "Active"
                                    /\ TxOf(session'[v].psbt) \in chain'
                                    /\ run'[v].hand = << >>
    <3>1. CASE v = w
      <4>1. run'[w] = run[w] \/ (run'[w].hand = << >> /\ ~run'[w].pushed)
        BY DEF Sound, TypeOK
      <4>2. run[w].hand \in Seq(SoundMessage(shared, signed, chain))
        BY DEF Sound, SoundTransit
      <4>3. SoundMessage(shared, signed, chain)' = SoundMessage(shared, signed, chain)
        BY DEF SoundMessage, SoundPsbt
      <4> QED
        BY <3>1, <4>1, <4>2, <4>3, NoMessages
    <3>2. CASE v # w
      <4>1. run'[v] = run[v] /\ session'[v] = session[v]
        BY <3>2 DEF Sound, TypeOK
      <4> QED
        BY <4>1 DEF Sound, SoundTransit, HasSession
    <3> QED
      BY <3>1, <3>2
  <2> QED
    BY <2>1, <2>2 DEF SoundTransit
<1>4. (SignedOnlyWhenComplete /\ PaidByConsent)'
  BY DEF Sound, SignedOnlyWhenComplete, PaidByConsent
<1> QED
  BY <1>1, <1>2, <1>3, <1>4 DEF Sound

-----------------------------------------------------------------------------
(* One lemma for each kind of step.                                        *)

(* What users do keeps the state sound: start, join, give up and sync.     *)
LEMMA UserSteps ==
  ASSUME Sound, NEW w \in Wallets, Users(w)
  PROVE  Sound'
<1> DEFINE started == [Down EXCEPT !.up = TRUE]
           SM == SoundMessage(shared, signed, chain)
           SS == SoundSession(shared, signed, chain)
<1>0. /\ session \in [Wallets -> SS \cup {NoSession}]
      /\ inbox \in [Wallets -> Seq(SM)]
      /\ made \in [Wallets -> Nat] /\ givenUp \subseteq Dropped /\ stops \in Nat
      /\ kept \in [Wallets -> SUBSET Record]
      /\ \A v \in Wallets : \A r \in kept[v] : r.tx \in chain
      /\ TypeOK
  BY DEF Sound, SoundFiles, TypeOK
<1>1. started \in Run /\ started.hand = << >> /\ ~started.pushed
  BY StartedRun
<1>2. inbox[w] \in Seq(SM) /\ inbox = [inbox EXCEPT ![w] = inbox[w]] /\ << >> \in Seq(SM)
  BY <1>0, NoMessages
<1>3. ~run[w].up => ~run[w].pushed
  BY DEF Sound, SoundTransit
<1> HIDE DEF started, SM, SS
<1>4. ASSUME NEW d \in Deals, ResumeStart(w, d) PROVE Sound'
  <2>1. UNCHANGED <<disk, channel, chain, mined, view, made, givenUp, shared, signed>>
        /\ stops' \in Nat
    BY <1>0, <1>4 DEF ResumeStart, world, history
  <2>2. run' = [run EXCEPT ![w] = started]
    BY <1>4 DEF ResumeStart, started
  <2> QED
    BY <1>1, <2>1, <2>2, RunStepSound
<1>5. ASSUME NEW d \in Deals, StartNew(w, d) PROVE Sound'
  <2>1. PICK coins \in Fundable(w, d) :
          session' = [session EXCEPT ![w] = StartSession(w, NewHalf(w, coins), d)]
    BY <1>5 DEF StartNew, SetSession
  <2>2. StartSession(w, NewHalf(w, coins), d) \in SS
    BY <1>0, NewHalfType, StartSessionSound DEF SS
  <2>3. /\ kept' \in [Wallets -> SUBSET Record]
        /\ \A v \in Wallets : \A r \in kept'[v] : r.tx \in chain
    BY <1>5, RetireSound DEF StartNew
  <2>4. /\ inbox' = inbox /\ made' \in [Wallets -> Nat] /\ givenUp' \subseteq Dropped
        /\ UNCHANGED <<channel, chain, mined, view, stops, shared, signed>>
        /\ ~run[w].up
    BY <1>0, <1>5 DEF StartNew, Reserve, history
  <2>5. run' = [run EXCEPT ![w] = started]
    BY <1>5 DEF StartNew, started
  <2>6. ~run'[w].pushed
    BY <1>0, <1>1, <2>5 DEF TypeOK
  <2> QED
    BY <1>1, <1>2, <1>3, <2>1, <2>2, <2>3, <2>4, <2>5, <2>6, FileStepSound DEF SM, SS
<1>6. ASSUME NEW d \in Deals, StartFails(w, d) PROVE Sound'
  <2>1. session' = [session EXCEPT ![w] = NoSession]
    BY <1>6 DEF StartFails, SetSession
  <2>2. /\ kept' \in [Wallets -> SUBSET Record]
        /\ \A v \in Wallets : \A r \in kept'[v] : r.tx \in chain
    BY <1>6, RetireSound DEF StartFails
  <2>3. /\ inbox' = inbox /\ made' \in [Wallets -> Nat] /\ givenUp' \subseteq Dropped
        /\ UNCHANGED <<channel, chain, mined, view, stops, shared, signed>>
        /\ ~run[w].up /\ run' = run
    BY <1>0, <1>6 DEF StartFails, history, world
  <2> QED
    BY <1>2, <1>3, <2>1, <2>2, <2>3, FileStepSound DEF SM, SS
<1>7. CASE RunJoin(w)
  <2> DEFINE s == IF Unfinished(w) THEN session[w] ELSE NoSession
  <2>1. session' = [session EXCEPT ![w] = s] /\ s \in SS \cup {NoSession}
    BY <1>0, <1>7 DEF RunJoin, SetSession
  <2>2. /\ kept' \in [Wallets -> SUBSET Record]
        /\ \A v \in Wallets : \A r \in kept'[v] : r.tx \in chain
    BY <1>7, RetireSound DEF RunJoin
  <2>3. /\ inbox' = inbox /\ made' \in [Wallets -> Nat] /\ givenUp' \subseteq Dropped
        /\ UNCHANGED <<channel, chain, mined, view, stops, shared, signed>>
        /\ ~run[w].up
    BY <1>0, <1>7 DEF RunJoin, history, world
  <2>4. run' = [run EXCEPT ![w] = started]
    BY <1>7 DEF RunJoin, started
  <2>5. ~run'[w].pushed
    BY <1>0, <1>1, <2>4 DEF TypeOK
  <2> HIDE DEF s
  <2> QED
    BY <1>1, <1>2, <1>3, <2>1, <2>2, <2>3, <2>4, <2>5, FileStepSound DEF SM, SS
<1>8. CASE GiveUp(w)
  <2>1. /\ session' = [session EXCEPT ![w] = NoSession]
        /\ inbox' = [inbox EXCEPT ![w] = << >>]
    BY <1>8 DEF GiveUp, SetSession
  <2>2. givenUp' \subseteq Dropped
    <3>1. session[w] \in Session
      BY <1>8, SessionSound, SoundTypes DEF GiveUp, Unfinished
    <3> QED
      BY <1>0, <1>8, <3>1 DEF GiveUp, Dropped, Session
  <2>3. /\ made' \in [Wallets -> Nat]
        /\ UNCHANGED <<kept, run, channel, chain, mined, view, stops, shared, signed>>
        /\ ~run[w].up
    BY <1>0, <1>8 DEF GiveUp, world
  <2> QED
    BY <1>0, <1>2, <1>3, <2>1, <2>2, <2>3, FileStepSound DEF SM, SS
<1>9. CASE Sync(w)
  <2> DEFINE spent == UNION {h.coins : h \in {k \in UNION {t.halves : t \in chain} : k.owner = w}}
  <2>1. /\ UNCHANGED <<session, inbox, kept, run, channel, chain, mined, made, stops, givenUp, shared, signed>>
        /\ view' = [view EXCEPT ![w] = spent]
    BY <1>9 DEF Sync, disk, history
  <2>2. spent \in SUBSET Coins
    BY <1>0 DEF TypeOK, Tx, Half
  <2> HIDE DEF spent
  <2>3. TypeOK'
    BY <1>0, <2>1, <2>2 DEF TypeOK
  <2>4. (SoundFiles /\ SoundTransit /\ SignedOnlyWhenComplete /\ PaidByConsent)'
    BY <2>1 DEF Sound, SoundFiles, SoundTransit, SignedOnlyWhenComplete, PaidByConsent, HasSession
  <2> QED
    BY <2>3, <2>4 DEF Sound
<1> QED
  BY <1>4, <1>5, <1>6, <1>7, <1>8, <1>9 DEF Users

(* Flow::step on the files alone: the outbox is cleared, a message of the  *)
(* inbox is acted on, Done is saved.                                       *)
LEMMA SavingSteps ==
  ASSUME Sound, NEW w \in Wallets,
         \/ ClearOutbox(w) \/ HandleMessage(w) \/ DropMessage(w) \/ JoinProposal(w)
         \/ Finish(w)
  PROVE  Sound'
<1> DEFINE SM == SoundMessage(shared, signed, chain)
           SS == SoundSession(shared, signed, chain)
<1>0. /\ session \in [Wallets -> SS \cup {NoSession}]
      /\ inbox \in [Wallets -> Seq(SM)]
      /\ made \in [Wallets -> Nat] /\ givenUp \subseteq Dropped
      /\ run \in [Wallets -> Run]
      /\ kept \in [Wallets -> SUBSET Record]
      /\ \A v \in Wallets : \A r \in kept[v] : r.tx \in chain
      /\ TypeOK
  BY DEF Sound, SoundFiles, TypeOK
<1>1. inbox[w] \in Seq(SM) /\ inbox = [inbox EXCEPT ![w] = inbox[w]]
  BY <1>0
<1>2. \A i \in DOMAIN inbox[w] : RemoveAt(inbox[w], i) \in Seq(SM) /\ inbox[w][i] \in SM
  BY <1>1, RemoveAtType
<1> HIDE DEF SM, SS
<1>3. CASE ClearOutbox(w)
  <2> DEFINE s == [session[w] EXCEPT !.outbox = << >>]
  <2>1. session' = [session EXCEPT ![w] = s]
    BY <1>3 DEF ClearOutbox, SetSession
  <2>2. s \in SS
    <3>1. session[w] \in SS
      BY <1>0, <1>3 DEF ClearOutbox, Owes, HasSession
    <3>2. << >> \in Seq(SM) /\ << >> \in Seq(Message)
      BY NoMessages
    <3> session[w] \in Session
      BY <3>1, SessionParts DEF SS
    <3>3. /\ s \in Session /\ s.psbt = session[w].psbt /\ s.outbox = << >>
          /\ s.mine = session[w].mine /\ s.stage = session[w].stage
          /\ s.txid = session[w].txid
      BY <3>2 DEF Session
    <3> HIDE DEF s
    <3> QED
      BY <3>1, <3>2, <3>3 DEF SS, SM, SoundSession
  <2>3. run' = [run EXCEPT ![w] = [run[w] EXCEPT !.sent = 0]]
    BY <1>3 DEF ClearOutbox
  <2>4. /\ [run[w] EXCEPT !.sent = 0] \in Run
        /\ [run[w] EXCEPT !.sent = 0].hand = << >>
        /\ ~[run[w] EXCEPT !.sent = 0].pushed
        /\ ~run[w].pushed
    BY <1>0, <1>3 DEF ClearOutbox, AtStep, Run
  <2>5. /\ inbox' = inbox /\ made' \in [Wallets -> Nat] /\ givenUp' \subseteq Dropped
        /\ UNCHANGED <<kept, channel, chain, mined, view, stops, shared, signed>>
    BY <1>0, <1>3 DEF ClearOutbox, history, world
  <2> HIDE DEF s
  <2> QED
    BY <1>0, <1>1, <2>1, <2>2, <2>3, <2>4, <2>5, FileStepSound DEF SM, SS
<1>4. CASE HandleMessage(w)
  <2>1. PICK i \in DOMAIN inbox[w] :
          /\ Handling(w, i)
          /\ session' = [session EXCEPT ![w] = Received(session[w], inbox[w][i])]
          /\ inbox' = [inbox EXCEPT ![w] = RemoveAt(inbox[w], i)]
    BY <1>4 DEF HandleMessage, SetSession, TakeOut
  <2>2. Received(session[w], inbox[w][i]) \in SS
    <3>1. session[w] \in SS
      BY <1>0, <1>4 DEF HandleMessage, HasSession
    <3> QED
      BY <1>2, <3>1, ReceivedSound DEF SS, SM
  <2>3. /\ ~run[w].pushed /\ run' = run
        /\ made' \in [Wallets -> Nat] /\ givenUp' \subseteq Dropped
        /\ UNCHANGED <<kept, channel, chain, mined, view, stops, shared, signed>>
    BY <1>0, <1>4, <2>1 DEF HandleMessage, Handling, AtStep, history, world
  <2> QED
    BY <1>0, <1>2, <2>1, <2>2, <2>3, FileStepSound DEF SM, SS
<1>5. CASE DropMessage(w)
  <2>1. PICK i \in DOMAIN inbox[w] :
          /\ Handling(w, i)
          /\ inbox' = [inbox EXCEPT ![w] = RemoveAt(inbox[w], i)]
    BY <1>5 DEF DropMessage, TakeOut
  <2>2. session' = [session EXCEPT ![w] = session[w]] /\ session[w] \in SS \cup {NoSession}
    BY <1>0, <1>5 DEF DropMessage
  <2>3. /\ ~run[w].pushed /\ run' = run
        /\ made' \in [Wallets -> Nat] /\ givenUp' \subseteq Dropped
        /\ UNCHANGED <<kept, channel, chain, mined, view, stops, shared, signed>>
    BY <1>0, <1>5, <2>1 DEF DropMessage, Handling, AtStep, history, world
  <2> QED
    BY <1>0, <1>2, <2>1, <2>2, <2>3, FileStepSound DEF SM, SS
<1>6. CASE JoinProposal(w)
  <2>1. PICK i \in DOMAIN inbox[w] :
          /\ Handling(w, i)
          /\ Acceptable(w, inbox[w][i])
          /\ \E coins \in Fundable(w, inbox[w][i].psbt.deal) :
               session' = [session EXCEPT ![w] =
                            IF JoinAccepts(inbox[w][i].psbt, NewHalf(w, coins))
                            THEN JoinSession(w, inbox[w][i], NewHalf(w, coins))
                            ELSE NoSession]
          /\ inbox' = [inbox EXCEPT ![w] = RemoveAt(inbox[w], i)]
    BY <1>6 DEF JoinProposal, SetSession, TakeOut
  <2> DEFINE m == inbox[w][i]
  <2>2. m \in Message /\ m.psbt.deal \in Deals
    BY <1>2, SoundTypes DEF SM, Message, Psbt
  <2>3. PICK coins \in Fundable(w, m.psbt.deal) :
          session' = [session EXCEPT ![w] = IF JoinAccepts(m.psbt, NewHalf(w, coins))
                                            THEN JoinSession(w, m, NewHalf(w, coins))
                                            ELSE NoSession]
    BY <2>1
  <2>4. JoinSession(w, m, NewHalf(w, coins)) \in SS
    BY ZenonT(30), <1>0, <2>2, NewHalfType, JoinSessionSound DEF SS
  <2>5. PICK s \in SS \cup {NoSession} : session' = [session EXCEPT ![w] = s]
    BY <2>3, <2>4
  <2>6. /\ ~run[w].pushed /\ run' = run
        /\ made' \in [Wallets -> Nat] /\ givenUp' \subseteq Dropped
        /\ UNCHANGED <<kept, channel, chain, mined, view, stops, shared, signed>>
    BY <1>0, <1>6, <2>1 DEF JoinProposal, Handling, AtStep, Reserve, history
  <2> QED
    BY <1>0, <1>2, <2>1, <2>5, <2>6, FileStepSound DEF SM, SS
<1>7. CASE Finish(w)
  <2>1. /\ HasSession(w) /\ session[w].stage = "Active" /\ TxOf(session[w].psbt) \in chain
        /\ run[w].hand = << >> /\ run[w].pushed
    BY <1>7 DEF Finish, Sound, SoundTransit
  <2>2. session[w] \in SS
    BY <1>0, <2>1 DEF HasSession
  <2>3. Finished(session[w]) \in SS
    BY <2>1, <2>2, FinishedSound DEF SS
  <2> DEFINE r == [run[w] EXCEPT !.pushed = FALSE]
  <2>4. /\ session' = [session EXCEPT ![w] = Finished(session[w])]
        /\ run' = [run EXCEPT ![w] = r]
        /\ UNCHANGED <<inbox, kept, channel, chain, mined, view, made, stops, givenUp, shared, signed>>
    BY <1>7 DEF Finish, SetSession, world, history
  <2>5. r \in Run /\ r.hand = << >> /\ ~r.pushed
    BY <1>0, <2>1 DEF Run
  <2> HIDE DEF r
  <2> QED
    BY <1>0, <1>1, <2>3, <2>4, <2>5, FileStepSound DEF SM, SS
<1> QED
  BY <1>3, <1>4, <1>5, <1>6, <1>7

(* Steps that end a command or only count.                                 *)
LEMMA EndingSteps ==
  ASSUME Sound, NEW w \in Wallets,
         \/ JoinFails(w) \/ EndDone(w) \/ BroadcastRefused(w)
         \/ AnswerRefused(w) \/ Stop(w)
  PROVE  Sound'
<1>0. stops \in Nat /\ run \in [Wallets -> Run]
  BY DEF Sound, TypeOK
<1>1. UNCHANGED <<disk, channel, chain, mined, view, made, givenUp, shared, signed>>
  BY DEF JoinFails, EndDone, BroadcastRefused, AnswerRefused, Stop, world, history
<1>2. stops' \in Nat
  BY <1>0 DEF JoinFails, EndDone, BroadcastRefused, AnswerRefused, Stop, history, EndInError
<1>3. \E r \in Run : run' = [run EXCEPT ![w] = r] /\ r.hand = << >> /\ ~r.pushed
  <2>1. CASE AnswerRefused(w) /\ run' = [run EXCEPT ![w].tries = @ + 1]
    <3> DEFINE r == [run[w] EXCEPT !.tries = @ + 1]
    <3>1. run[w] \in Run /\ run[w].hand = << >> /\ ~run[w].pushed
      BY <1>0, <2>1 DEF AnswerRefused, SignersTurn, Quiet, AtStep
    <3>2. r \in Run /\ r.hand = << >> /\ ~r.pushed
      BY <3>1 DEF Run
    <3>3. run' = [run EXCEPT ![w] = r]
      BY <2>1
    <3> QED
      BY <3>2, <3>3
  <2>2. CASE run' = [run EXCEPT ![w] = Down]
    BY <2>2, StartedRun
  <2> QED
    BY <2>1, <2>2 DEF JoinFails, EndDone, BroadcastRefused, AnswerRefused, Stop, EndInError
<1> QED
  BY <1>1, <1>2, <1>3, RunStepSound

(* Messages move from an outbox to the channels, from a channel to the     *)
(* memory of a command, from there to the inbox.                           *)
LEMMA MovingSteps ==
  ASSUME Sound, NEW w \in Wallets,
         SendOne(w) \/ Grace(w) \/ Receive(w) \/ StoreBatch(w)
  PROVE  Sound'
<1> DEFINE SM == SoundMessage(shared, signed, chain)
<1>0. /\ session \in [Wallets -> SoundSession(shared, signed, chain) \cup {NoSession}]
      /\ inbox \in [Wallets -> Seq(SM)] /\ channel \in [Wallets -> Seq(SM)]
      /\ run \in [Wallets -> Run]
      /\ \A v \in Wallets : run[v].hand \in Seq(SM)
      /\ TypeOK
  BY DEF Sound, SoundFiles, SoundTransit, TypeOK
<1>1. SM \subseteq Message /\ Seq(SM) \subseteq Seq(Message)
  BY SoundTypes
<1>2. /\ UNCHANGED <<session, kept, chain, mined, view, made, stops, givenUp, shared, signed>>
      /\ SM' = SM
  BY DEF SendOne, Grace, Receive, StoreBatch, disk, world, history, SoundMessage, SoundPsbt
<1> HIDE DEF SM
<1>3. /\ inbox' \in [Wallets -> Seq(SM)] /\ channel' \in [Wallets -> Seq(SM)]
      /\ \E r \in Run : /\ run' = [run EXCEPT ![w] = r]
                        /\ r.hand \in Seq(SM)
                        /\ ~r.pushed
  <2>1. CASE SendOne(w)
    <3> DEFINE m == session[w].outbox[run[w].sent + 1]
               r == [run[w] EXCEPT !.sent = @ + 1]
    <3>1. session[w].outbox \in Seq(SM)
      BY <2>1, SessionSound, SessionParts DEF SendOne, Owes, SM
    <3>2. m \in SM
      BY <1>0, <2>1, <3>1 DEF SendOne, Run
    <3>3. channel' = [v \in Wallets |-> IF v = w THEN channel[v] ELSE Append(channel[v], m)]
      BY <2>1 DEF SendOne
    <3>4. inbox' = inbox /\ run' = [run EXCEPT ![w] = r] /\ ~run[w].pushed
      BY <2>1 DEF SendOne, disk, AtStep
    <3>5. r \in Run /\ r.hand \in Seq(SM) /\ ~r.pushed
      <4> DEFINE n == run[w].sent + 1
      <4>1. run[w] \in Run /\ n \in Nat /\ run[w].hand \in Seq(SM)
        BY <1>0 DEF Run
      <4> HIDE DEF n
      <4>2. r = [run[w] EXCEPT !.sent = n]
        BY DEF n
      <4> QED
        BY <3>4, <4>1, <4>2 DEF Run
    <3> HIDE DEF m, r
    <3>6. \A v \in Wallets : Append(channel[v], m) \in Seq(SM)
      BY <1>0, <3>2
    <3>7. channel' \in [Wallets -> Seq(SM)]
      BY <1>0, <3>3, <3>6
    <3> QED
      BY <1>0, <3>4, <3>5, <3>7
  <2>2. CASE Grace(w) \/ Receive(w)
    <3> DEFINE r == [run[w] EXCEPT !.waited = run'[w].waited, !.hand = channel[w]]
    <3>1. /\ inbox' = inbox /\ channel' = [channel EXCEPT ![w] = << >>]
          /\ ~run[w].pushed
      BY <2>2 DEF Grace, Receive, disk, Quiet, Listening, AtStep
    <3>2. run' = [run EXCEPT ![w] = r] /\ run'[w].waited \in BOOLEAN
      <4>1. CASE Grace(w)
        BY <1>0, <4>1 DEF Grace, Run
      <4>2. CASE Receive(w)
        BY <1>0, <4>2 DEF Receive, Run
      <4> QED
        BY <2>2, <4>1, <4>2
    <3>3. r \in Run /\ r.hand \in Seq(SM) /\ ~r.pushed
      <4>1. run[w] \in Run /\ channel[w] \in Seq(SM) /\ channel[w] \in Seq(Message)
        BY <1>0, <1>1
      <4> QED
        BY <3>1, <3>2, <4>1 DEF Run
    <3> HIDE DEF r
    <3> QED
      BY <1>0, <3>1, <3>2, <3>3, NoMessages
  <2>3. CASE StoreBatch(w)
    <3> DEFINE r == [run[w] EXCEPT !.hand = << >>]
    <3>1. /\ inbox' = [inbox EXCEPT ![w] = inbox[w] \o run[w].hand]
          /\ channel' = channel /\ run' = [run EXCEPT ![w] = r] /\ run[w].hand # << >>
      BY <2>3 DEF StoreBatch
    <3>2. ~run[w].pushed
      BY <3>1 DEF Sound, SoundTransit
    <3>3. << >> \in Seq(SM) /\ << >> \in Seq(Message)
      BY NoMessages
    <3>4. r \in Run /\ r.hand \in Seq(SM) /\ ~r.pushed
      BY <1>0, <3>2, <3>3 DEF Run
    <3>5. inbox[w] \o run[w].hand \in Seq(SM)
      BY <1>0, ConcatType
    <3> HIDE DEF r
    <3> QED
      BY <1>0, <3>1, <3>4, <3>5
  <2> QED
    BY <2>1, <2>2, <2>3
<1>4. TypeOK'
  BY <1>0, <1>1, <1>2, <1>3 DEF TypeOK
<1>5. SoundFiles'
  BY <1>2, <1>3 DEF Sound, SoundFiles, SM
<1>6. SoundTransit'
  <2>1. \A v \in Wallets : \/ run'[v] = run[v]
                           \/ run'[v].hand \in Seq(SM) /\ ~run'[v].pushed
    BY <1>0, <1>3
  <2>2. SoundTransit
    BY DEF Sound
  <2> QED
    BY <1>2, <1>3, <2>1, <2>2 DEF SoundTransit, HasSession, SM
<1>7. (SignedOnlyWhenComplete /\ PaidByConsent)'
  BY <1>2 DEF Sound, SignedOnlyWhenComplete, PaidByConsent
<1> QED
  BY <1>4, <1>5, <1>6, <1>7 DEF Sound

(* The network takes a transaction all of whose inputs are signed.         *)
LEMMA NetworkSteps ==
  ASSUME Sound, NEW w \in Wallets, Broadcast(w) \/ BroadcastUnanswered(w)
  PROVE  Sound'
<1> DEFINE p == session[w].psbt
           t == TxOf(p)
<1>0. /\ TypeOK /\ SoundFiles /\ SoundTransit
      /\ HasSession(w) /\ Ready(session[w]) /\ FinalizeAccepts(p)
      /\ run[w].up /\ run[w].hand = << >> /\ ~run[w].pushed
  BY DEF Sound, Broadcast, BroadcastUnanswered, Broadcasting, Quiet, AtStep
<1>1. /\ p \in SoundPsbt(shared, signed) /\ p \in Psbt /\ session[w].stage = "Active"
      /\ p.sigs = InputsOf(p)
  BY <1>0, SessionSound, SessionParts DEF SoundPsbt, Ready
<1>2. t \in Tx /\ Marks(InputsOf(t), t) \subseteq signed
  BY <1>1 DEF Tx, TxOf, Psbt, SoundPsbt, InputsOf
<1>3. /\ chain' = chain \cup {t}
      /\ UNCHANGED <<session, inbox, kept, channel, mined, view, made, givenUp, shared, signed>>
      /\ stops' \in Nat
  BY <1>0 DEF Broadcast, BroadcastUnanswered, disk, history, TypeOK, EndInError
<1>4. \E r \in Run : /\ run' = [run EXCEPT ![w] = r]
                     /\ r.hand = << >>
                     /\ r.pushed => r.up
  <2>1. CASE Broadcast(w)
    <3> DEFINE r == [run[w] EXCEPT !.pushed = TRUE]
    <3>1. run' = [run EXCEPT ![w] = r]
      BY <2>1 DEF Broadcast
    <3>2. r \in Run /\ r.hand = << >> /\ r.up
      BY <1>0 DEF TypeOK, Run
    <3> QED
      BY <3>1, <3>2
  <2>2. CASE BroadcastUnanswered(w)
    BY <2>2, StartedRun DEF BroadcastUnanswered, EndInError
  <2> QED
    BY <2>1, <2>2
<1> HIDE DEF t
<1>5. /\ SoundSession(shared, signed, chain) \subseteq SoundSession(shared, signed, chain')
      /\ Seq(SoundMessage(shared, signed, chain)) \subseteq Seq(SoundMessage(shared, signed, chain'))
  BY <1>3, SessionMono, MessageMono, SeqMono
<1>6. TypeOK'
  BY <1>0, <1>2, <1>3, <1>4 DEF TypeOK
<1>7. SoundFiles'
  BY <1>0, <1>3, <1>5 DEF SoundFiles
<1>8. SoundTransit'
  <2>1. channel' \in [Wallets -> Seq(SoundMessage(shared, signed, chain'))]
    BY <1>0, <1>3, <1>5 DEF SoundTransit
  <2>2. ASSUME NEW v \in Wallets
        PROVE  /\ run'[v].hand \in Seq(SoundMessage(shared, signed, chain'))
               /\ run'[v].pushed => /\ run'[v].up
                                    /\ HasSession(v)
                                    /\ session[v].stage = "Active"
                                    /\ TxOf(session[v].psbt) \in chain'
                                    /\ run'[v].hand = << >>
    <3>1. CASE v = w
      <4>1. run'[w].hand = << >> /\ (run'[w].pushed => run'[w].up)
        BY <1>0, <1>4 DEF TypeOK
      <4>2. t \in chain' /\ t = TxOf(session[w].psbt)
        BY <1>3 DEF t
      <4> QED
        BY <1>0, <1>1, <3>1, <4>1, <4>2, NoMessages
    <3>2. CASE v # w
      <4>1. run'[v] = run[v]
        BY <1>0, <1>4, <3>2 DEF TypeOK
      <4> QED
        BY <1>0, <1>3, <1>5, <4>1 DEF SoundTransit
    <3> QED
      BY <3>1, <3>2
  <2> QED
    BY <1>3, <2>1, <2>2 DEF SoundTransit, HasSession
<1>9. (SignedOnlyWhenComplete /\ PaidByConsent)'
  BY <1>2, <1>3 DEF Sound, SignedOnlyWhenComplete, PaidByConsent
<1> QED
  BY <1>6, <1>7, <1>8, <1>9 DEF Sound

(* A visit: what it signs has every share.                                 *)
LEMMA VisitSound ==
  ASSUME Sound, NEW w \in Wallets, Visit(w)
  PROVE  Sound'
<1> DEFINE s == session[w]
           t == TxOf(s.psbt)
<1>0. /\ TypeOK /\ SoundFiles /\ SoundTransit
      /\ HasSession(w) /\ run[w].hand = << >> /\ ~run[w].pushed
      /\ shared \subseteq Mark /\ signed \subseteq Mark
  BY DEF Sound, Visit, SignersTurn, Quiet, AtStep, TypeOK
<1>1. s \in SoundSession(shared, signed, chain) /\ s \in Session /\ s.psbt \in Psbt
  BY <1>0, SessionSound, SessionParts DEF Session
<1>2. PICK answer \in Answers(s) :
        /\ RespondAccepts(s, answer)
        /\ session' = [session EXCEPT ![w] = Responded(s, answer)]
        /\ shared' = shared \cup Marks(answer.shares, t)
        /\ signed' = signed \cup Marks(answer.sigs, t)
  BY DEF Visit, SetSession
<1>3. answer \in Psbt
  BY <1>1, AnswerType
<1>4. /\ Responded(s, answer) \in SoundSession(shared', signed', chain)
      /\ answer.sigs # {} => Marks(InputsOf(s.psbt), t) \subseteq shared'
  <2> DEFINE sh1 == shared \cup Marks(answer.shares, TxOf(s.psbt))
             sg1 == signed \cup Marks(answer.sigs, TxOf(s.psbt))
  <2>1. shared' = sh1 /\ signed' = sg1
    BY <1>2
  <2>2. /\ Responded(s, answer) \in SoundSession(sh1, sg1, chain)
        /\ answer.sigs # {} => Marks(InputsOf(s.psbt), TxOf(s.psbt)) \subseteq sh1
    <3> HIDE DEF s
    <3> QED
      BY <1>1, <1>2, <1>3, RespondedSound
  <2> QED
    BY <2>1, <2>2
<1>5. t \in Tx /\ InputsOf(t) = InputsOf(s.psbt)
  BY <1>1 DEF Tx, TxOf, Psbt, InputsOf
<1> HIDE DEF t, s
<1>6. /\ Marks(answer.shares, t) \subseteq Mark /\ Marks(answer.sigs, t) \subseteq Mark
      /\ \A x \in Marks(answer.sigs, t) : x.tx = t /\ answer.sigs # {}
  BY <1>3, <1>5 DEF Psbt, Marks, Mark
<1>7. /\ UNCHANGED <<inbox, kept, channel, chain, mined, view, made, stops, givenUp>>
      /\ run' = [run EXCEPT ![w].tries = 0]
  BY DEF Visit, world
<1>8. /\ SoundSession(shared, signed, chain) \subseteq SoundSession(shared', signed', chain)
      /\ Seq(SoundMessage(shared, signed, chain)) \subseteq Seq(SoundMessage(shared', signed', chain))
  BY <1>2, SessionMono, MessageMono, SeqMono
<1>9. TypeOK'
  <2>1. session' \in [Wallets -> Session \cup {NoSession}]
    BY <1>0, <1>2, <1>4, SoundTypes DEF TypeOK
  <2>2. run' \in [Wallets -> Run]
    BY ZenonT(30), <1>0, <1>7 DEF TypeOK, Run
  <2> QED
    BY <1>0, <1>2, <1>6, <1>7, <2>1, <2>2 DEF TypeOK
<1>10. SoundFiles'
  <2>1. session' \in [Wallets -> SoundSession(shared', signed', chain) \cup {NoSession}]
    BY <1>0, <1>2, <1>4, <1>8 DEF SoundFiles
  <2> QED
    BY <1>0, <1>7, <1>8, <2>1 DEF SoundFiles
<1>11. SoundTransit'
  <2>1. channel' \in [Wallets -> Seq(SoundMessage(shared', signed', chain))]
    BY <1>0, <1>7, <1>8 DEF SoundTransit
  <2>2. ASSUME NEW v \in Wallets
        PROVE  /\ run'[v].hand \in Seq(SoundMessage(shared', signed', chain))
               /\ run'[v].pushed => /\ run'[v].up
                                    /\ HasSession(v)'
                                    /\ session'[v].stage = "Active"
                                    /\ TxOf(session'[v].psbt) \in chain
                                    /\ run'[v].hand = << >>
    <3>1. run'[v].hand = run[v].hand /\ run'[v].pushed = run[v].pushed /\ run'[v].up = run[v].up
      BY <1>0, <1>7 DEF TypeOK, Run
    <3>2. run[v].hand \in Seq(SoundMessage(shared', signed', chain))
      BY <1>0, <1>8 DEF SoundTransit
    <3>3. v # w => session'[v] = session[v]
      BY <1>0, <1>2 DEF TypeOK
    <3> QED
      BY <1>0, <3>1, <3>2, <3>3 DEF SoundTransit, HasSession
  <2> QED
    BY <1>7, <2>1, <2>2 DEF SoundTransit
<1>12. SignedOnlyWhenComplete'
  <2> SUFFICES ASSUME NEW x \in signed'
               PROVE  Marks(InputsOf(x.tx), x.tx) \subseteq shared'
    BY DEF SignedOnlyWhenComplete
  <2>1. CASE x \in signed
    BY <1>2, <2>1 DEF Sound, SignedOnlyWhenComplete
  <2>2. CASE x \in Marks(answer.sigs, t)
    BY <1>4, <1>5, <1>6, <2>2 DEF s
  <2> QED
    BY <1>2, <2>1, <2>2
<1>13. PaidByConsent'
  BY <1>2, <1>7 DEF Sound, PaidByConsent
<1> QED
  BY <1>9, <1>10, <1>11, <1>12, <1>13 DEF Sound

(* A block changes only which transactions are in blocks.                  *)
LEMMA BlockSound ==
  ASSUME Sound, Block
  PROVE  Sound'
<1>1. /\ UNCHANGED <<session, inbox, kept, run, channel, chain, view, made, stops, givenUp, shared, signed>>
      /\ mined' = chain
  BY DEF Block, disk, history
<1>2. TypeOK'
  BY <1>1 DEF Sound, TypeOK
<1>3. (SoundFiles /\ SoundTransit /\ SignedOnlyWhenComplete /\ PaidByConsent)'
  BY <1>1 DEF Sound, SoundFiles, SoundTransit, SignedOnlyWhenComplete, PaidByConsent, HasSession
<1> QED
  BY <1>2, <1>3 DEF Sound

(* Sound is inductive: every step of the specification keeps it, and so    *)
(* does a step that changes nothing.                                       *)
LEMMA NextSound ==
  ASSUME Sound, [Next]_vars
  PROVE  Sound'
<1>1. CASE Block
  BY <1>1, BlockSound
<1>2. ASSUME NEW w \in Wallets, Users(w) PROVE Sound'
  BY <1>2, UserSteps
<1>3. ASSUME NEW w \in Wallets, Step(w) PROVE Sound'
  BY <1>3, SavingSteps, EndingSteps, MovingSteps, NetworkSteps, VisitSound DEF Step
<1>4. ASSUME NEW w \in Wallets, Stop(w) PROVE Sound'
  BY <1>4, EndingSteps
<1>5. CASE UNCHANGED vars
  BY <1>5 DEF vars, disk, world, history, Sound, TypeOK, SoundFiles, SoundTransit,
              SignedOnlyWhenComplete, PaidByConsent, HasSession
<1> QED
  BY <1>1, <1>2, <1>3, <1>4, <1>5 DEF Next

-----------------------------------------------------------------------------
(* Every reachable state is sound.                                         *)
THEOREM Soundness == Spec => []Sound
<1>1. Init => Sound
  BY InitSound
<1>2. Sound /\ [Next]_vars => Sound'
  BY NextSound
<1> QED
  BY <1>1, <1>2, PTL DEF Spec

(* Files, messages and the memory of commands keep their types.            *)
THEOREM Typed == Spec => []TypeOK
<1>1. Sound => TypeOK
  BY DEF Sound
<1> QED
  BY <1>1, Soundness, PTL

(* No signer signs before the shares of every input were given.            *)
THEOREM SignaturesWait == Spec => []SignedOnlyWhenComplete
<1>1. Sound => SignedOnlyWhenComplete
  BY DEF Sound
<1> QED
  BY <1>1, Soundness, PTL

(* The network takes only what the owners of all its coins signed for.     *)
THEOREM Consent == Spec => []PaidByConsent
<1>1. Sound => PaidByConsent
  BY DEF Sound
<1> QED
  BY <1>1, Soundness, PTL

(* What a wallet calls done was broadcast.                                 *)
THEOREM DoneMeansPaid == Spec => []DoneIsBroadcast
<1>1. Sound => DoneIsBroadcast
  <2> SUFFICES ASSUME Sound, NEW w \in Wallets
               PROVE  /\ HasSession(w) /\ session[w].stage = "Done" =>
                           /\ session[w].txid = {TxOf(session[w].psbt)}
                           /\ session[w].txid \subseteq chain
                      /\ \A r \in kept[w] : r.tx \in chain
    BY DEF DoneIsBroadcast
  <2> QED
    BY SessionSound, SessionParts DEF Sound, SoundFiles
<1> QED
  BY <1>1, Soundness, PTL

(* What ready() counts as complete passes every check of finalize.         *)
THEOREM ReadyPasses == Spec => []ReadyIsFinal
<1>1. Sound => ReadyIsFinal
  <2> SUFFICES ASSUME Sound, NEW w \in Wallets, HasSession(w), Ready(session[w])
               PROVE  FinalizeAccepts(session[w].psbt)
    BY DEF ReadyIsFinal
  <2>1. session[w] \in SoundSession(shared, signed, chain)
    BY SessionSound
  <2>2. /\ session[w].psbt \in SoundPsbt(shared, signed)
        /\ session[w].mine # {} /\ session[w].mine \subseteq InputsOf(session[w].psbt)
        /\ ~session[w].psbt.open
    BY <2>1, SessionParts DEF Ready
  <2>3. session[w].psbt.sigs = InputsOf(session[w].psbt)
    BY DEF Ready
  <2> QED
    BY <2>2, <2>3 DEF FinalizeAccepts, SoundPsbt, HasTx
<1> QED
  BY <1>1, Soundness, PTL
=============================================================================
