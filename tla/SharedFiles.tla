---------------------------- MODULE SharedFiles ----------------------------
(***************************************************************************)
(* A shared send finished by hand (the file commands of shared_cmd.rs):    *)
(* propose, accept, request, answer, receive and broadcast each load the   *)
(* session file, do one thing to it in memory, write the messages they owe *)
(* to a new file and replace the session file.  People carry the files:    *)
(* any file reaches any wallet, at any time, never or more than once, and  *)
(* a signer's answer may be to a request that is no longer the newest.     *)
(*                                                                         *)
(* Nothing locks the session file.  A second command may run on the same   *)
(* folder, and whichever replaces the file last wins.                      *)
(***************************************************************************)
EXTENDS SharedSession, SequencesExt

CONSTANTS
  Processes,     \* processes that run a command at a time
  Folder,        \* Folder[p]: the wallet folder p works on
  Starters,      \* wallets whose user proposes
  Picks,         \* Picks[w]: coin sets BDK may select for a half
  MaxHalves,     \* bound: halves one wallet builds
  MaxStops,      \* bound: commands stopped
  MaxOverlaps,   \* bound: commands started, or files deleted, beside another
  MaxGivenUp     \* bound: session files deleted by their users

ASSUME FilesAssumption ==
  /\ Folder \in [Processes -> Wallets]
  /\ Starters \subseteq Wallets
  /\ Picks \in [Wallets -> SUBSET SUBSET Coins]
  /\ \A w \in Wallets : {} \notin Picks[w]
  /\ \A w, v \in Wallets : w # v => \A c \in Picks[w], k \in Picks[v] : c \cap k = {}
  /\ MaxHalves \in Nat /\ MaxStops \in Nat /\ MaxOverlaps \in Nat /\ MaxGivenUp \in Nat

VARIABLES
  session,     \* session[w]: Saved.session in w's session file
  kept,        \* kept[w]: the records of broadcast sends
  made,        \* made[w]: change addresses w reserved, one for each half
  command,     \* command[p]: what p's command holds, if it runs one
  files,       \* message files, each a sequence of messages
  answers,     \* PSBTs signers returned
  chain,       \* transactions the network accepted
  shared,      \* history: the shares signers gave, each in which transaction
  signed,      \* history: the signatures signers gave
  stops,       \* commands stopped so far
  overlaps,    \* commands started, or files deleted, beside another so far
  overlapped,  \* history: wallets this happened to
  givenUp      \* session files deleted so far

disk == <<session, kept, made>>
world == <<files, answers, chain, shared, signed>>
history == <<stops, overlaps, overlapped, givenUp>>
vars == <<disk, command, world, history>>

(* The session a command has in memory, and what it does next: save it and *)
(* load it again (propose), broadcast, write the messages, or save it.     *)
Command == [s : Session, next : {"begun", "again", "push", "write", "save"}]

Init ==
  /\ session = [w \in Wallets |-> NoSession]
  /\ kept = [w \in Wallets |-> {}]
  /\ made = [w \in Wallets |-> 0]
  /\ command = [p \in Processes |-> {}]
  /\ files = {}
  /\ answers = {}
  /\ chain = {}
  /\ shared = {}
  /\ signed = {}
  /\ stops = 0
  /\ overlaps = 0
  /\ overlapped = {}
  /\ givenUp = 0

-----------------------------------------------------------------------------
HasSession(w) == session[w] # NoSession

(* active, active_mut, Saved::unfinished.                                  *)
Active(w) == HasSession(w) /\ session[w].stage # "Done"

SetSession(w, s) == session' = [session EXCEPT ![w] = s]

Busy(w) == \E p \in Processes : Folder[p] = w /\ command[p] # {}

(* Something else happens to w's folder, at the same time as a command or  *)
(* not.                                                                    *)
Beside(w) ==
  IF Busy(w)
  THEN /\ overlaps < MaxOverlaps
       /\ overlaps' = overlaps + 1
       /\ overlapped' = overlapped \cup {w}
  ELSE UNCHANGED <<overlaps, overlapped>>

(* A command goes on with session s.                                       *)
Goes(p, s, next) == command' = [command EXCEPT ![p] = {[s |-> s, next |-> next]}]

Starts(p, s, next) ==
  /\ command[p] = {}
  /\ Beside(Folder[p])
  /\ Goes(p, s, next)
  /\ UNCHANGED <<stops, givenUp>>

Ends(p) == command' = [command EXCEPT ![p] = {}]

(* retire: a finished session makes room and stays as a record.            *)
Retire(w) ==
  /\ kept' = [kept EXCEPT ![w] = @ \cup
                IF HasSession(w) THEN {[sid |-> session[w].sid, tx |-> t] : t \in session[w].txid}
                                 ELSE {}]
  /\ SetSession(w, NoSession)

(* BdkWallet::fund: BDK selects coins and reserves a change address.       *)
NewHalves(w) == {[owner |-> w, no |-> made[w], coins |-> coins] : coins \in Picks[w]}

Reserve(w) == made[w] < MaxHalves /\ made' = [made EXCEPT ![w] = @ + 1]

-----------------------------------------------------------------------------
(* propose: begin makes a session and saves it; then the command loads it  *)
(* again and writes the proposal.                                          *)
Propose(p, d) ==
  LET w == Folder[p]
  IN  /\ w \in Starters /\ ~Active(w)
      /\ Retire(w)
      /\ Reserve(w)
      /\ \E half \in NewHalves(w) :
           LET s == StartSession(w, half, d)
           IN  Starts(p, s, "begun")
      /\ UNCHANGED world

(* The same command again carries on with the session there is.            *)
ProposeAgain(p, d) ==
  LET w == Folder[p]
  IN  /\ Active(w) /\ session[w].role = "Start" /\ session[w].psbt.deal = d
      /\ Starts(p, session[w], "again")
      /\ UNCHANGED <<disk, world>>

SaveBegun(p) ==
  \E c \in command[p] :
    /\ c.next = "begun"
    /\ SetSession(Folder[p], c.s)
    /\ Goes(p, c.s, "again")
    /\ UNCHANGED <<kept, made, world, history>>

(* What propose writes: what is owed, or else the proposal once more.      *)
Offers(s) == s.outbox # << >> \/ (s.role = "Start" /\ s.stage = "Proposed")

Offered(s) == IF s.outbox = << >> THEN [s EXCEPT !.outbox = <<ProposalMessage(s)>>] ELSE s

Reload(p) ==
  LET w == Folder[p]
  IN  /\ \E c \in command[p] : c.next = "again"
      /\ IF HasSession(w) /\ Offers(session[w])
         THEN Goes(p, Offered(session[w]), "write")
         ELSE Ends(p)
      /\ UNCHANGED <<disk, world, history>>

(* accept: the session is saved only when this wallet's half is in it, but *)
(* a finished one before it is gone either way.                            *)
Accept(p, m) ==
  LET w == Folder[p]
  IN  /\ ~Active(w)
      /\ ReadableProposal(m, w)
      /\ Retire(w)
      /\ Reserve(w)
      /\ \E half \in NewHalves(w) :
           /\ JoinAccepts(m.psbt, half)
           /\ Starts(p, JoinSession(w, m, half), "save")
      /\ UNCHANGED world

AcceptRefused(p, m) ==
  LET w == Folder[p]
  IN  /\ HasSession(w) /\ ~Active(w) /\ command[p] = {}
      /\ ~ReadableProposal(m, w)
      /\ Retire(w)
      /\ Beside(w)
      /\ UNCHANGED <<made, command, world, stops, givenUp>>

(* request changes no file of the wallet.  The signer answers it, and the  *)
(* answer may be used at any later time.                                   *)
Request(w) ==
  /\ Active(w) /\ MyTurn(session[w])
  /\ LET s == session[w]
         answer == WholeAnswer(s)
     IN  /\ answers' = answers \cup {answer}
         /\ shared' = shared \cup Marks(answer.shares, TxOf(s.psbt))
         /\ signed' = signed \cup Marks(answer.sigs, TxOf(s.psbt))
  /\ <<answers, shared, signed>>' # <<answers, shared, signed>>
  /\ UNCHANGED <<disk, command, files, chain, history>>

(* answer, with any answer of any signer.                                  *)
AnswerWith(p, a) ==
  LET w == Folder[p]
  IN  /\ Active(w) /\ RespondAccepts(session[w], a)
      /\ Starts(p, Responded(session[w], a), "write")
      /\ UNCHANGED <<disk, world>>

(* Session::receive refuses m with an error.                               *)
Refused(s, m) ==
  /\ ForThisSend(s, m)
  /\ \/ m.kind = "Update" /\ s.stage # "Done" /\ ~UpdateAccepts(s, m)
     \/ m.kind = "Done" /\ s.stage = "Proposed"
     \/ m.kind = "Done" /\ s.stage = "Active" /\ ~DoneAccepts(s, m)
     \/ m.kind = "Done" /\ s.stage = "Done" /\ m.txid # s.txid

(* The session after each message of a file.                               *)
Steps(s, file) ==
  LET f[n \in 0..Len(file)] == IF n = 0 THEN s ELSE Received(f[n-1], file[n])
  IN  f

(* Mutant: without --out what is owed is dropped.                          *)
MutAfterReceive(p, s) ==
  \/ s.outbox # << >> /\ Starts(p, s, "write")
  \/ Starts(p, [s EXCEPT !.outbox = << >>], "save")

(* What is owed goes into a file when --out names one, and waits otherwise.*)
AfterReceive(p, s) ==
  \/ s.outbox # << >> /\ Starts(p, s, "write")
  \/ Starts(p, s, "save")

(* receive: every message of a file, or none when one of them is refused.  *)
Receive(p, file) ==
  LET w == Folder[p]
      steps == Steps(session[w], file)
  IN  /\ HasSession(w)
      /\ \A n \in DOMAIN file : ~Refused(steps[n-1], file[n])
      /\ AfterReceive(p, steps[Len(file)])
      /\ UNCHANGED <<disk, world>>

(* Mutant: the news is written before the network was asked.               *)
MutBroadcast(p) ==
  LET w == Folder[p]
  IN  /\ Active(w) /\ Ready(session[w]) /\ FinalizeAccepts(session[w].psbt)
      /\ Starts(p, Finished(session[w]), "write")
      /\ UNCHANGED <<disk, world>>

Broadcast(p) ==
  LET w == Folder[p]
  IN  /\ Active(w) /\ Ready(session[w]) /\ FinalizeAccepts(session[w].psbt)
      /\ Starts(p, session[w], "push")
      /\ UNCHANGED <<disk, world>>

Takes(t) == \A u \in chain : u = t \/ InputsOf(u) \cap InputsOf(t) = {}

Push(p) ==
  \E c \in command[p] :
    LET t == TxOf(c.s.psbt)
    IN  /\ c.next = "push"
        /\ IF Takes(t) THEN chain' = chain \cup {t} /\ Goes(p, Finished(c.s), "write")
                       ELSE UNCHANGED chain /\ Ends(p)
        /\ UNCHANGED <<disk, files, answers, shared, signed, history>>

-----------------------------------------------------------------------------
(* write_outbox: the messages are in a file before they are forgotten.     *)
WriteOut(p) ==
  \E c \in command[p] :
    /\ c.next = "write"
    /\ files' = files \cup {c.s.outbox}
    /\ Goes(p, [c.s EXCEPT !.outbox = << >>], "save")
    /\ UNCHANGED <<disk, answers, chain, shared, signed, history>>

Save(p) ==
  \E c \in command[p] :
    /\ c.next = "save"
    /\ SetSession(Folder[p], c.s)
    /\ Ends(p)
    /\ UNCHANGED <<kept, made, world, history>>

(* The command is stopped, or a file cannot be written or the network does *)
(* not answer.                                                             *)
Stop(p) ==
  /\ command[p] # {} /\ stops < MaxStops
  /\ stops' = stops + 1
  /\ Ends(p)
  /\ UNCHANGED <<disk, world, overlaps, overlapped, givenUp>>

(* The user deletes the session file, which is how a send is given up.     *)
GiveUp(w) ==
  /\ HasSession(w) /\ givenUp < MaxGivenUp
  /\ givenUp' = givenUp + 1
  /\ SetSession(w, NoSession)
  /\ Beside(w)
  /\ UNCHANGED <<kept, made, command, world, stops>>

-----------------------------------------------------------------------------
(* Every message in a file.                                                *)
Written == UNION {ToSet(file) : file \in files}

Begin(p) ==
  \/ \E d \in Deals : Propose(p, d) \/ ProposeAgain(p, d)
  \/ \E m \in Written : Accept(p, m) \/ AcceptRefused(p, m)
  \/ \E a \in answers : AnswerWith(p, a)
  \/ \E file \in files : Receive(p, file)
  \/ Broadcast(p)

Continue(p) == SaveBegun(p) \/ Reload(p) \/ Push(p) \/ WriteOut(p) \/ Save(p) \/ Stop(p)

Next ==
  \/ \E p \in Processes : Begin(p) \/ Continue(p)
  \/ \E w \in Wallets : Request(w) \/ GiveUp(w)

Spec == Init /\ [][Next]_vars

-----------------------------------------------------------------------------
(* Files, the memory of commands and the history hold what their types say.*)
CommandsTyped ==
  /\ session \in [Wallets -> Session \cup {NoSession}]
  /\ kept \in [Wallets -> SUBSET [sid : Sid, tx : Tx]]
  /\ made \in [Wallets -> Nat]
  /\ command \in [Processes -> SUBSET Command]
  /\ files \subseteq Seq(Message) /\ answers \subseteq Psbt /\ chain \subseteq Tx
  /\ shared \subseteq Mark /\ signed \subseteq Mark
  /\ overlapped \subseteq Wallets

(* What the other wallet has to hear about the state s: the proposal, the  *)
(* newest state when it is this wallet's, the news of the broadcast.       *)
Tells(m, s) ==
  /\ m.sid = s.sid
  /\ CASE s.stage = "Proposed" -> m = ProposalMessage(s)
       [] s.stage = "Active" -> m.kind = "Update" /\ m.from = s.me /\ m.psbt = s.psbt
       [] OTHER -> m.kind = "Done" /\ m.txid = s.txid

(* The other wallet has to hear of s unless it has the newest state.       *)
Told(s, written) ==
  (s.stage = "Active" => s.newest = "Mine") =>
    \E m \in ToSet(s.outbox) \cup written : Tells(m, s)

(* A failed write loses nothing: whatever was stopped, and whichever       *)
(* commands replaced each other's session file, what the other wallet has  *)
(* to hear of the session is still owed by the session file or is in a     *)
(* message file.                                                           *)
NothingOwedIsLost ==
  \A w \in Wallets : HasSession(w) => Told(session[w], Written)

(* A half is signed into one transaction only, in whatever order files and *)
(* answers are used, unless two commands changed its wallet's session file *)
(* at the same time.                                                       *)
SignedOnce ==
  \A x, y \in signed :
    (\E h \in x.tx.halves \cap y.tx.halves : h.owner \notin overlapped) => x.tx = y.tx

(* Even then no transaction is paid that was not signed for, coin by coin, *)
(* and no signature is given before the shares of all its coins; and what  *)
(* a session file or a record says was paid, was.                          *)
PaidWhenSigned ==
  /\ \A t \in chain : Marks(InputsOf(t), t) \subseteq signed
  /\ \A x \in signed : Marks(InputsOf(x.tx), x.tx) \subseteq shared
  /\ \A w \in Wallets :
       /\ HasSession(w) => session[w].txid \subseteq chain
       /\ \A r \in kept[w] : r.tx \in chain

-----------------------------------------------------------------------------
(* The inductive invariant: every session, in a file or in the memory of a *)
(* command, every message file and every answer is sound, and what a       *)
(* session has to tell is owed or written.                                 *)

Good(sh, sg, paid, written) ==
  {s \in SoundSession(sh, sg, paid) : Told(s, written)}

GoodCommand(sh, sg, paid, written) ==
  {c \in Command :
     /\ c.s \in Good(sh, sg, paid, written)
     /\ c.next = "push" => c.s.stage = "Active" /\ FinalizeAccepts(c.s.psbt)}

Given(sh, sg) ==
  {a \in Psbt : Marks(a.shares, TxOf(a)) \subseteq sh /\ Marks(a.sigs, TxOf(a)) \subseteq sg}

IInv ==
  /\ CommandsTyped
  /\ PaidWhenSigned
  /\ session \in [Wallets -> Good(shared, signed, chain, Written) \cup {NoSession}]
  /\ command \in [Processes -> SUBSET GoodCommand(shared, signed, chain, Written)]
  /\ files \subseteq Seq(SoundMessage(shared, signed, chain))
  /\ answers \subseteq Given(shared, signed)
=============================================================================
