----------------------------- MODULE SharedSend -----------------------------
(***************************************************************************)
(* A shared send as it runs (sharedflow.rs and the start and join commands *)
(* of shared_cmd.rs): every wallet has a folder with a session file and at *)
(* most one long running command, which drives Flow::step.  A step loads   *)
(* the session file, does the one next thing and saves; the actions below  *)
(* are the effects of a step that another wallet or a stopped process can  *)
(* tell apart, in the order the code makes them:                           *)
(*                                                                         *)
(*   outbox   each message is sent, then the outbox is cleared and saved;  *)
(*   channel  the transport gives its messages up, then the inbox is saved;*)
(*   network  the transaction is broadcast, then Done is saved.            *)
(*                                                                         *)
(* A command can be stopped between any two of them; what is in `run` is   *)
(* lost then, everything else survives.  The channel is the Transport      *)
(* trait with the hand over of dirtransport.rs: what it has returned once  *)
(* it does not return again.                                               *)
(***************************************************************************)
EXTENDS SharedSession, SequencesExt

CONSTANTS
  Starters,         \* wallets whose user runs shared start
  Joiners,          \* wallets whose user runs shared join
  Terms,            \* Terms[w]: the deals w accepts in a proposal
  Picks,            \* Picks[w][d]: coin sets BDK may select for w's half of d
  SignerTries,      \* SIGNER_TRIES: answers asked for before giving up
  PartialSigners,   \* signers may answer for some of their coins only
  StopInHandOver,   \* a command may be stopped between the two channel effects
  BlocksFound,      \* blocks are found, and may hold what the network took
  MaxHalves,        \* bound: halves one wallet builds
  MaxStops,         \* bound: commands stopped or ended by an error
  MaxGivenUp        \* bound: session files deleted by their users

ASSUME PicksAssumption ==
  /\ Picks \in [Wallets -> [Deals -> SUBSET SUBSET Coins]]
  /\ \A w \in Wallets, d \in Deals : {} \notin Picks[w][d]
  /\ \A w, v \in Wallets : w # v =>
       \A d, e \in Deals : \A c \in Picks[w][d], k \in Picks[v][e] : c \cap k = {}

ASSUME UsersAssumption ==
  /\ Starters \subseteq Wallets
  /\ Joiners \subseteq Wallets
  /\ Terms \in [Wallets -> SUBSET Deals]

ASSUME BoundsAssumption ==
  /\ SignerTries \in Nat \ {0}
  /\ PartialSigners \in BOOLEAN
  /\ StopInHandOver \in BOOLEAN
  /\ BlocksFound \in BOOLEAN
  /\ MaxHalves \in Nat /\ MaxStops \in Nat /\ MaxGivenUp \in Nat

VARIABLES
  session,  \* session[w]: Saved.session in w's session file
  inbox,    \* inbox[w]: Saved.inbox
  kept,     \* kept[w]: the records shared-send-<id>.json of broadcast sends
  run,      \* run[w]: what w's command holds in memory
  channel,  \* channel[w]: messages sent to w and not returned to it yet
  chain,    \* transactions the network accepted
  mined,    \* those of them that are in a block
  view,     \* view[w]: w's coins that its BDK wallet knows to be spent
  made,     \* made[w]: change addresses w reserved, one for each half
  stops,    \* commands stopped or ended by an error so far
  givenUp,  \* sends given up by deleting the session file
  shared,   \* history: the shares signers gave, each in which transaction
  signed    \* history: the signatures signers gave

disk == <<session, inbox, kept>>
world == <<chain, mined, view, made>>
history == <<stops, givenUp, shared, signed>>
vars == <<disk, run, channel, world, history>>

(* up      the command runs                                                *)
(* sent    messages of the outbox sent and not yet cleared                 *)
(* hand    messages the channel returned that are not yet in the file      *)
(* waited  Flow.waited: the grace period was spent in this run             *)
(* pushed  the transaction was broadcast and Done is not yet saved         *)
(* tries   answers of the signer refused on this visit                     *)
Run == [up : BOOLEAN, sent : Nat, hand : Seq(Message), waited : BOOLEAN,
        pushed : BOOLEAN, tries : Nat]

Down == [up |-> FALSE, sent |-> 0, hand |-> << >>, waited |-> FALSE,
         pushed |-> FALSE, tries |-> 0]

(* A record of a broadcast send, and one of a send given up.               *)
Record == [sid : Sid, tx : Tx]
Dropped == [who : Wallets, sid : Sid]

Init ==
  /\ session = [w \in Wallets |-> NoSession]
  /\ inbox = [w \in Wallets |-> << >>]
  /\ kept = [w \in Wallets |-> {}]
  /\ run = [w \in Wallets |-> Down]
  /\ channel = [w \in Wallets |-> << >>]
  /\ chain = {}
  /\ mined = {}
  /\ view = [w \in Wallets |-> {}]
  /\ made = [w \in Wallets |-> 0]
  /\ stops = 0
  /\ givenUp = {}
  /\ shared = {}
  /\ signed = {}

-----------------------------------------------------------------------------
HasSession(w) == session[w] # NoSession

Unfinished(w) == HasSession(w) /\ session[w].stage # "Done"

(* Nothing of a step is half done, so the next step begins.                *)
AtStep(w) ==
  /\ run[w].up
  /\ run[w].hand = << >>
  /\ ~run[w].pushed

Owes(w) == HasSession(w) /\ session[w].outbox # << >>

(* Neither an owed message nor one handed over is waiting.                 *)
Quiet(w) == AtStep(w) /\ ~Owes(w) /\ inbox[w] = << >>

SetSession(w, s) == session' = [session EXCEPT ![w] = s]

(* A command ends with an error; it counts as a stop.                      *)
EndInError(w) ==
  /\ stops < MaxStops
  /\ stops' = stops + 1
  /\ run' = [run EXCEPT ![w] = Down]

-----------------------------------------------------------------------------
(* WalletLink::fund: BDK selects coins it does not know to be spent and    *)
(* reserves a change address.                                              *)

Fundable(w, d) == {coins \in Picks[w][d] : coins \cap view[w] = {}}

(* Mutant: the change address is not saved, so it is handed out again.     *)
MutNewHalf(w, coins) == [owner |-> w, no |-> 0, coins |-> coins]

NewHalf(w, coins) == [owner |-> w, no |-> made[w], coins |-> coins]

Reserve(w) ==
  /\ made[w] < MaxHalves
  /\ made' = [made EXCEPT ![w] = @ + 1]

MutRetire(w) == UNCHANGED kept   \* mutant: the session file is just replaced

(* Store::retire: the record is written, then the session file is saved    *)
(* without the session.  Doing it twice changes nothing.                   *)
Retire(w) ==
  kept' = IF HasSession(w) /\ ~Unfinished(w)
          THEN [kept EXCEPT ![w] = @ \cup
                  {[sid |-> session[w].sid, tx |-> t] : t \in session[w].txid}]
          ELSE kept

(* shared start with an unfinished send to the same recipient and amount:  *)
(* the same command again is how it resumes.                               *)
ResumeStart(w, d) ==
  /\ w \in Starters /\ ~run[w].up
  /\ Unfinished(w) /\ session[w].role = "Start" /\ session[w].psbt.deal = d
  /\ run' = [run EXCEPT ![w] = [Down EXCEPT !.up = TRUE]]
  /\ UNCHANGED <<disk, channel, world, history>>

(* shared start without one.  The proposal is saved in the outbox.         *)
StartNew(w, d) ==
  /\ w \in Starters /\ ~run[w].up
  /\ ~Unfinished(w)
  /\ Retire(w)
  /\ \E coins \in Fundable(w, d) :
       SetSession(w, StartSession(w, NewHalf(w, coins), d))
  /\ Reserve(w)
  /\ run' = [run EXCEPT ![w] = [Down EXCEPT !.up = TRUE]]
  /\ UNCHANGED <<inbox, channel, chain, mined, view, history>>

(* shared start that finds no coins: the old session is retired by then.   *)
StartFails(w, d) ==
  /\ w \in Starters /\ ~run[w].up
  /\ ~Unfinished(w)
  /\ Fundable(w, d) = {}
  /\ Retire(w)
  /\ SetSession(w, NoSession)
  /\ UNCHANGED <<inbox, run, channel, world, history>>

(* shared join: waits for a proposal, or carries on with one it joined.    *)
RunJoin(w) ==
  /\ w \in Joiners /\ ~run[w].up
  /\ Unfinished(w) => session[w].role = "Join"
  /\ Retire(w)
  /\ SetSession(w, IF Unfinished(w) THEN session[w] ELSE NoSession)
  /\ run' = [run EXCEPT ![w] = [Down EXCEPT !.up = TRUE]]
  /\ UNCHANGED <<inbox, channel, world, history>>

(* The user deletes the session file, as the error texts of begin, join    *)
(* and accept propose.  Its inbox goes with it.                            *)
GiveUp(w) ==
  /\ ~run[w].up /\ Unfinished(w)
  /\ Cardinality(givenUp) < MaxGivenUp
  /\ givenUp' = givenUp \cup {[who |-> w, sid |-> session[w].sid]}
  /\ SetSession(w, NoSession)
  /\ inbox' = [inbox EXCEPT ![w] = << >>]
  /\ UNCHANGED <<kept, run, channel, world, stops, shared, signed>>

(* kiss-bdk sync: the BDK wallet learns which of its coins are spent.      *)
Sync(w) ==
  /\ view' = [view EXCEPT ![w] =
                UNION {h.coins : h \in {k \in UNION {t.halves : t \in chain} : k.owner = w}}]
  /\ view' # view
  /\ UNCHANGED <<disk, run, channel, chain, mined, made, history>>

-----------------------------------------------------------------------------
(* Flow::step, first branch: what is owed to the other wallet goes out.    *)

SendOne(w) ==
  /\ AtStep(w) /\ Owes(w)
  /\ run[w].sent < Len(session[w].outbox)
  /\ LET m == session[w].outbox[run[w].sent + 1]
     IN  channel' = [v \in Wallets |->
                       IF v = w THEN channel[v] ELSE Append(channel[v], m)]
  /\ run' = [run EXCEPT ![w].sent = @ + 1]
  /\ UNCHANGED <<disk, world, history>>

ClearOutbox(w) ==
  /\ AtStep(w) /\ Owes(w)
  /\ run[w].sent = Len(session[w].outbox)
  /\ SetSession(w, [session[w] EXCEPT !.outbox = << >>])
  /\ run' = [run EXCEPT ![w].sent = 0]
  /\ UNCHANGED <<inbox, kept, channel, world, history>>

-----------------------------------------------------------------------------
(* Second branch: one message of the inbox is acted on.                    *)

(* next_in_inbox: the oldest, but without a session the newest proposal.   *)
NextInInbox(w, i) ==
  LET proposals == {j \in DOMAIN inbox[w] : inbox[w][j].kind = "Proposal"}
  IN  /\ i \in DOMAIN inbox[w]
      /\ IF HasSession(w) \/ proposals = {}
         THEN i = 1
         ELSE i \in proposals /\ \A j \in proposals : j <= i

Handling(w, i) == AtStep(w) /\ ~Owes(w) /\ NextInInbox(w, i)

TakeOut(w, i) == inbox' = [inbox EXCEPT ![w] = RemoveAt(@, i)]

(* handle, with a session: receive applies it, ignores it or refuses it.   *)
HandleMessage(w) ==
  /\ HasSession(w)
  /\ \E i \in DOMAIN inbox[w] :
       /\ Handling(w, i)
       /\ SetSession(w, Received(session[w], inbox[w][i]))
       /\ TakeOut(w, i)
  /\ UNCHANGED <<kept, run, channel, world, history>>

(* A proposal read_proposal and the terms let through.                     *)
Acceptable(w, m) == ReadableProposal(m, w) /\ m.psbt.deal \in Terms[w]

(* consider: anything else is dropped.                                     *)
DropMessage(w) ==
  /\ ~HasSession(w)
  /\ \E i \in DOMAIN inbox[w] :
       /\ Handling(w, i)
       /\ ~Acceptable(w, inbox[w][i])
       /\ TakeOut(w, i)
  /\ UNCHANGED <<session, kept, run, channel, world, history>>

(* consider: the wallet builds its half and joins.                         *)
JoinProposal(w) ==
  /\ ~HasSession(w)
  /\ \E i \in DOMAIN inbox[w] :
       LET m == inbox[w][i]
       IN  /\ Handling(w, i)
           /\ Acceptable(w, m)
           /\ \E coins \in Fundable(w, m.psbt.deal) :
                SetSession(w, IF JoinAccepts(m.psbt, NewHalf(w, coins))
                              THEN JoinSession(w, m, NewHalf(w, coins))
                              ELSE NoSession)
           /\ TakeOut(w, i)
  /\ Reserve(w)
  /\ UNCHANGED <<kept, run, channel, chain, mined, view, history>>

(* consider, when fund fails: the command ends and the message stays.      *)
JoinFails(w) ==
  /\ ~HasSession(w)
  /\ \E i \in DOMAIN inbox[w] :
       /\ Handling(w, i)
       /\ Acceptable(w, inbox[w][i])
       /\ Fundable(w, inbox[w][i].psbt.deal) = {}
  /\ run' = [run EXCEPT ![w] = Down]
  /\ UNCHANGED <<disk, channel, world, history>>

-----------------------------------------------------------------------------
(* Third branch: the session decides.                                      *)

(* Progress::Done ends the command.                                        *)
EndDone(w) ==
  /\ Quiet(w) /\ HasSession(w) /\ session[w].stage = "Done"
  /\ run' = [run EXCEPT ![w] = Down]
  /\ UNCHANGED <<disk, channel, world, history>>

(* The other signer signed last, so the other wallet is about to broadcast *)
(* and is given a moment.                                                  *)
InGrace(w) == session[w].newest = "Theirs" /\ ~run[w].waited

(* listen for the grace period.  Whatever has come in by its end is taken. *)
Grace(w) ==
  /\ Quiet(w) /\ HasSession(w) /\ Ready(session[w]) /\ InGrace(w)
  /\ run' = [run EXCEPT ![w].waited = TRUE, ![w].hand = channel[w]]
  /\ channel' = [channel EXCEPT ![w] = << >>]
  /\ UNCHANGED <<disk, world, history>>

(* Mutant: this wallet's own signatures are enough.                        *)
MutBroadcasting(w) ==
  /\ Quiet(w) /\ HasSession(w) /\ session[w].stage = "Active"
  /\ session[w].mine \subseteq session[w].psbt.sigs

Broadcasting(w) ==
  /\ Quiet(w) /\ HasSession(w) /\ Ready(session[w]) /\ ~InGrace(w)
  /\ FinalizeAccepts(session[w].psbt)

(* The network takes a transaction unless another one spends a coin of it  *)
(* or a block holds it already.                                            *)
Takes(t) ==
  /\ t \notin mined
  /\ \A u \in chain : u # t => InputsOf(u) \cap InputsOf(t) = {}

(* Mutant: finish before broadcast.                                        *)
MutBroadcast(w) ==
  /\ Broadcasting(w)
  /\ run' = [run EXCEPT ![w].pushed = TRUE]
  /\ UNCHANGED <<disk, channel, world, history>>

Broadcast(w) ==
  /\ Broadcasting(w)
  /\ Takes(TxOf(session[w].psbt))
  /\ chain' = chain \cup {TxOf(session[w].psbt)}
  /\ run' = [run EXCEPT ![w].pushed = TRUE]
  /\ UNCHANGED <<disk, channel, mined, view, made, history>>

(* The network refuses it.  The error ends the command.                    *)
BroadcastRefused(w) ==
  /\ Broadcasting(w)
  /\ ~Takes(TxOf(session[w].psbt))
  /\ run' = [run EXCEPT ![w] = Down]
  /\ UNCHANGED <<disk, channel, world, history>>

(* The answer is lost although the network took it.  Lost on the way there *)
(* it is a Stop.                                                           *)
BroadcastUnanswered(w) ==
  /\ Broadcasting(w)
  /\ Takes(TxOf(session[w].psbt))
  /\ chain' = chain \cup {TxOf(session[w].psbt)}
  /\ EndInError(w)
  /\ UNCHANGED <<disk, channel, mined, view, made, givenUp, shared, signed>>

(* A block with everything the network took.                               *)
Block ==
  /\ BlocksFound
  /\ mined # chain
  /\ mined' = chain
  /\ UNCHANGED <<disk, run, channel, chain, view, made, history>>

(* finish and save, after broadcast returned.                              *)
Finish(w) ==
  /\ run[w].up /\ run[w].pushed
  /\ SetSession(w, Finished(session[w]))
  /\ run' = [run EXCEPT ![w].pushed = FALSE]
  /\ UNCHANGED <<inbox, kept, channel, world, history>>

SignersTurn(w) == Quiet(w) /\ HasSession(w) /\ ~Ready(session[w]) /\ MyTurn(session[w])

Answers(s) == {WholeAnswer(s)} \cup IF PartialSigners THEN PartialAnswers(s) ELSE {}

(* request, sign, respond and save.                                        *)
Visit(w) ==
  /\ SignersTurn(w)
  /\ \E answer \in Answers(session[w]) :
       /\ RespondAccepts(session[w], answer)
       /\ SetSession(w, Responded(session[w], answer))
       /\ shared' = shared \cup Marks(answer.shares, TxOf(session[w].psbt))
       /\ signed' = signed \cup Marks(answer.sigs, TxOf(session[w].psbt))
  /\ run' = [run EXCEPT ![w].tries = 0]
  /\ UNCHANGED <<inbox, kept, channel, world, stops, givenUp>>

(* An answer respond refuses is asked for again, SIGNER_TRIES times.       *)
AnswerRefused(w) ==
  /\ SignersTurn(w)
  /\ ~RespondAccepts(session[w], EmptyAnswer(session[w]))
  /\ \/ /\ run[w].tries + 1 < SignerTries
        /\ run' = [run EXCEPT ![w].tries = @ + 1]
        /\ UNCHANGED stops
     \/ /\ run[w].tries + 1 >= SignerTries
        /\ EndInError(w)
  /\ UNCHANGED <<disk, channel, world, givenUp, shared, signed>>

-----------------------------------------------------------------------------
(* listen: the transport returns what it has and does not return it again; *)
(* then the batch is written into the session file.                        *)

Listening(w) ==
  /\ Quiet(w)
  /\ HasSession(w) =>
       /\ session[w].stage # "Done"
       /\ ~Ready(session[w])
       /\ ~MyTurn(session[w])

(* Mutant: the newest message first.                                       *)
MutReceive(w) ==
  /\ Listening(w)
  /\ channel[w] # << >>
  /\ run' = [run EXCEPT ![w].hand = <<Last(channel[w])>>]
  /\ channel' = [channel EXCEPT ![w] = Front(@)]
  /\ UNCHANGED <<disk, world, history>>

Receive(w) ==
  /\ Listening(w)
  /\ channel[w] # << >>
  /\ run' = [run EXCEPT ![w].hand = channel[w]]
  /\ channel' = [channel EXCEPT ![w] = << >>]
  /\ UNCHANGED <<disk, world, history>>

StoreBatch(w) ==
  /\ run[w].up /\ run[w].hand # << >>
  /\ inbox' = [inbox EXCEPT ![w] = @ \o run[w].hand]
  /\ run' = [run EXCEPT ![w].hand = << >>]
  /\ UNCHANGED <<session, kept, channel, world, history>>

(* The command is stopped, or sending or receiving fails, between any two  *)
(* of the steps above.                                                     *)
Stop(w) ==
  /\ run[w].up
  /\ run[w].hand # << >> => StopInHandOver
  /\ EndInError(w)
  /\ UNCHANGED <<disk, channel, world, givenUp, shared, signed>>

-----------------------------------------------------------------------------
Users(w) ==
  \/ \E d \in Deals : ResumeStart(w, d) \/ StartNew(w, d) \/ StartFails(w, d)
  \/ RunJoin(w) \/ GiveUp(w) \/ Sync(w)

Step(w) ==
  \/ SendOne(w) \/ ClearOutbox(w)
  \/ HandleMessage(w) \/ DropMessage(w) \/ JoinProposal(w) \/ JoinFails(w)
  \/ EndDone(w) \/ Grace(w)
  \/ Broadcast(w) \/ BroadcastRefused(w) \/ BroadcastUnanswered(w) \/ Finish(w)
  \/ Visit(w) \/ AnswerRefused(w)
  \/ Receive(w) \/ StoreBatch(w)

Next == Block \/ \E w \in Wallets : Users(w) \/ Step(w) \/ Stop(w)

Spec == Init /\ [][Next]_vars

(* What the liveness properties assume.  A command that runs goes on with  *)
(* its loop, the signer in the end answers, the network in the end takes   *)
(* the transaction, and a user whose send is not finished, or who waits    *)
(* for a proposal, runs the command again.                                 *)
Work(w) ==
  \/ SendOne(w) \/ ClearOutbox(w)
  \/ HandleMessage(w) \/ DropMessage(w) \/ JoinProposal(w)
  \/ Grace(w) \/ Broadcast(w) \/ BroadcastRefused(w) \/ Finish(w) \/ Visit(w)
  \/ Receive(w) \/ StoreBatch(w)

Rerun(w) == (\E d \in Deals : ResumeStart(w, d)) \/ RunJoin(w)

FairSpec == Spec /\ \A w \in Wallets : WF_vars(Work(w)) /\ WF_vars(Rerun(w))

-----------------------------------------------------------------------------
(* Files, messages, memory and history hold what their types say.          *)
TypeOK ==
  /\ session \in [Wallets -> Session \cup {NoSession}]
  /\ inbox \in [Wallets -> Seq(Message)]
  /\ kept \in [Wallets -> SUBSET Record]
  /\ run \in [Wallets -> Run]
  /\ channel \in [Wallets -> Seq(Message)]
  /\ chain \subseteq Tx
  /\ mined \subseteq Tx
  /\ view \in [Wallets -> SUBSET Coins]
  /\ made \in [Wallets -> Nat]
  /\ stops \in Nat
  /\ givenUp \subseteq Dropped
  /\ shared \subseteq Mark
  /\ signed \subseteq Mark

(* A signature is given only when every input of its transaction has its   *)
(* share: the rule the order of visits in shared.rs is built on.  The      *)
(* shares come from two signers, over messages that may be repeated.       *)
SignedOnlyWhenComplete ==
  \A s \in signed : Marks(InputsOf(s.tx), s.tx) \subseteq shared

(* A transaction on the network carries a signature of every one of its    *)
(* coins that the owner's signer gave for exactly this transaction.        *)
PaidByConsent ==
  \A t \in chain : Marks(InputsOf(t), t) \subseteq signed

(* A wallet builds a half for one send.  Whatever is given up, joined      *)
(* again or repeated, signers sign it into one transaction at most.        *)
OneTxPerHalf ==
  \A x, y \in signed : x.tx.halves \cap y.tx.halves # {} => x.tx = y.tx

(* A session that says Done, and a record kept of one, names a transaction *)
(* the network took, whichever of the two wallets sent it.                 *)
DoneIsBroadcast ==
  \A w \in Wallets :
    /\ HasSession(w) /\ session[w].stage = "Done" =>
         session[w].txid = {TxOf(session[w].psbt)} /\ session[w].txid \subseteq chain
    /\ \A r \in kept[w] : r.tx \in chain

(* Two wallets that record the same send as done record one transaction.   *)
SameOutcome ==
  \A w, v \in Wallets :
    /\ \A r \in kept[w], q \in kept[v] : r.sid = q.sid => r.tx = q.tx
    /\ HasSession(w) =>
         \A q \in kept[v] : q.sid = session[w].sid => session[w].txid \subseteq {q.tx}

(* ready() only counts signed inputs, finalize checks everything again.    *)
(* A send that counts as ready always passes finalize.                     *)
ReadyIsFinal ==
  \A w \in Wallets :
    HasSession(w) /\ Ready(session[w]) => FinalizeAccepts(session[w].psbt)

(* The signers take turns: never both at once in one transaction.          *)
OneTurnAtATime ==
  \A w, v \in Wallets :
    /\ w # v /\ HasSession(w) /\ HasSession(v)
    /\ MyTurn(session[w]) /\ MyTurn(session[v])
    => TxOf(session[w].psbt) # TxOf(session[v].psbt)

(* A send that ended is never joined again by a message that was sent      *)
(* twice: the record of it and an unfinished session of it exclude each    *)
(* other.                                                                  *)
NeverRejoined ==
  \A w \in Wallets : Unfinished(w) =>
    \A r \in kept[w] : r.sid # session[w].sid

(* When two wallets hold one transaction and nothing is on its way between *)
(* them, one of them has the next step: it signs, broadcasts or tells.     *)
AtRest(w) ==
  /\ inbox[w] = << >> /\ channel[w] = << >> /\ run[w].hand = << >>
  /\ ~run[w].pushed /\ ~Owes(w)

CanAct(w) == MyTurn(session[w]) \/ Ready(session[w])

SomeoneActs ==
  \A w, v \in Wallets :
    /\ w # v /\ AtRest(w) /\ AtRest(v)
    /\ Unfinished(w) /\ HasSession(v) /\ session[w].sid = session[v].sid
    /\ session[w].peer \cup session[v].peer \subseteq {w, v}
    => CanAct(w) \/ CanAct(v)

(* A session file never takes back a share, a signature or the             *)
(* transaction itself, and its stage never goes backwards, whatever order  *)
(* the messages come in.                                                   *)
NothingTakenBack ==
  [][\A w \in Wallets :
       HasSession(w) /\ HasSession(w)' /\ session[w].sid = session'[w].sid
       => Extends(session[w], session'[w])]_vars

(* No step forgets which transaction a finished send became.               *)
Recorded(w) ==
  kept[w] \cup
    IF HasSession(w) THEN {[sid |-> session[w].sid, tx |-> t] : t \in session[w].txid}
                     ELSE {}

RecordsKept == [][\A w \in Wallets : Recorded(w) \subseteq Recorded(w)']_vars

(* Every send that is under way ends, for both wallets.                    *)
EverySendEnds == \A w \in Wallets : Unfinished(w) ~> ~Unfinished(w)

(* The shared send as its wallets, their signers and the network see it.   *)
Payment == INSTANCE SharedPayment WITH
  done <- [w \in Wallets |-> {r.tx : r \in Recorded(w)}]

(* Everything above happens the way SharedPayment allows: share, sign when *)
(* all have shared, pay when all have signed, record what was paid.        *)
ImplementsPayment == Payment!Spec

-----------------------------------------------------------------------------
(* The inductive invariant: every PSBT anywhere, in a session file, an     *)
(* outbox, an inbox, the memory of a command or the channel, is sound, and *)
(* only a transaction the network took is ever called done.                *)

SoundFiles ==
  /\ session \in [Wallets -> SoundSession(shared, signed, chain) \cup {NoSession}]
  /\ inbox \in [Wallets -> Seq(SoundMessage(shared, signed, chain))]
  /\ \A w \in Wallets : \A r \in kept[w] : r.tx \in chain

SoundTransit ==
  /\ channel \in [Wallets -> Seq(SoundMessage(shared, signed, chain))]
  /\ \A w \in Wallets :
       /\ run[w].hand \in Seq(SoundMessage(shared, signed, chain))
       /\ run[w].pushed => /\ run[w].up
                           /\ HasSession(w)
                           /\ session[w].stage = "Active"
                           /\ TxOf(session[w].psbt) \in chain
                           /\ run[w].hand = << >>

Sound ==
  /\ TypeOK
  /\ SoundFiles
  /\ SoundTransit
  /\ SignedOnlyWhenComplete
  /\ PaidByConsent
=============================================================================
