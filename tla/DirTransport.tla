---------------------------- MODULE DirTransport ----------------------------
(***************************************************************************)
(* The channel that is a folder (dirtransport.rs): every message is a file *)
(* <time>-<sender>-<number>.msg, and what a participant was handed is in a *)
(* cursor file, written before the messages are returned.  The folder may  *)
(* be synced, so a file reaches another participant's copy of it later and *)
(* in any order.                                                           *)
(*                                                                         *)
(* A process is one command that has the folder open under a name.  Its    *)
(* steps are the file operations another process can come between: to list *)
(* the folder, to create a message file, to replace the cursor, to return. *)
(***************************************************************************)
EXTENDS Naturals, SequencesExt

CONSTANTS
  Participants,     \* wallets, numbers that stand for the order of their names
  Processes,        \* commands that have the folder open
  Name,             \* Name[p]: the participant p runs as
  SendAttempts,     \* SEND_ATTEMPTS
  Clock,            \* readings of the clock, which may also go backwards
  MaxSends,         \* bound: MaxSends[w]: messages w sends
  MaxStops          \* bound: processes stopped

ASSUME ParticipantsAssumption == Participants \subseteq Nat
ASSUME ProcessesAssumption == Name \in [Processes -> Participants]
ASSUME ClockAssumption == Clock \subseteq Nat
ASSUME FolderBounds ==
  /\ SendAttempts \in Nat \ {0}
  /\ MaxSends \in [Participants -> Nat]
  /\ MaxStops \in Nat

VARIABLES
  files,    \* the message files, where they were created
  arrived,  \* arrived[w]: those of other participants in w's copy of the folder
  cursor,   \* cursor[w][s]: the next number w expects from s
  proc,     \* proc[p]: what process p is doing
  sends,    \* history: sends[s]: the messages s sent, in that order
  got,      \* history: got[w]: the messages receive returned to w
  raced,    \* history: participants two of whose processes sent, or received, at once
  lost,     \* history: participants stopped with the cursor saved, before they returned
  stops     \* processes stopped so far

history == <<raced, lost, stops>>
vars == <<files, arrived, cursor, proc, sends, got, history>>

Message == [from : Participants, no : Nat]
File == [time : Nat, sender : Participants, number : Nat, body : Message]
Cursor == [Participants -> Nat]

Proc == [doing : {"nothing", "sending", "reading", "returning"},
         time : Nat, number : Nat, tries : Nat, batch : Seq(Message), next : Cursor]

Start == [s \in Participants |-> 1]
Idle == [doing |-> "nothing", time |-> 0, number |-> 0, tries |-> 0,
         batch |-> << >>, next |-> Start]

Init ==
  /\ files = {}
  /\ arrived = [w \in Participants |-> {}]
  /\ cursor = [w \in Participants |-> Start]
  /\ proc = [p \in Processes |-> Idle]
  /\ sends = [s \in Participants |-> << >>]
  /\ got = [w \in Participants |-> << >>]
  /\ raced = {}
  /\ lost = {}
  /\ stops = 0

Become(p, state) == proc' = [proc EXCEPT ![p] = state]

(* Another process of the same name is in the middle of the same thing.    *)
Noting(p, doings) ==
  raced' = IF \E q \in Processes \ {p} : Name[q] = Name[p] /\ proc[q].doing \in doings
           THEN raced \cup {Name[p]}
           ELSE raced

-----------------------------------------------------------------------------
(* send                                                                    *)

(* Mutant: every sender's files are counted.                               *)
MutOwn(w) == {f \in files : f.sender = w} \cup arrived[w]

(* The files of its own that a sender finds.                               *)
Own(w) == {f \in files : f.sender = w}

(* Mutant: the time is what the clock says.                                *)
MutList(p, now) ==
  LET mine == Own(Name[p])
  IN  /\ proc[p].doing = "nothing"
      /\ Len(sends[Name[p]]) < MaxSends[Name[p]]
      /\ Become(p, [Idle EXCEPT
           !.doing = "sending",
           !.number = Max({f.number : f \in mine} \cup {0}) + 1,
           !.time = now])
      /\ Noting(p, {"sending"})
      /\ UNCHANGED <<files, arrived, cursor, sends, got, lost, stops>>

(* The folder is listed: the next number, and a time that is neither       *)
(* before the clock nor before this sender's last message.                 *)
List(p, now) ==
  LET mine == Own(Name[p])
  IN  /\ proc[p].doing = "nothing"
      /\ Len(sends[Name[p]]) < MaxSends[Name[p]]
      /\ Become(p, [Idle EXCEPT
           !.doing = "sending",
           !.number = Max({f.number : f \in mine} \cup {0}) + 1,
           !.time = Max({f.time + 1 : f \in mine} \cup {now})])
      /\ Noting(p, {"sending"})
      /\ UNCHANGED <<files, arrived, cursor, sends, got, lost, stops>>

SameName(f, p) ==
  f.time = proc[p].time /\ f.sender = Name[p] /\ f.number = proc[p].number

(* persist_noclobber finds the name free.                                  *)
Create(p) ==
  LET body == [from |-> Name[p], no |-> Len(sends[Name[p]]) + 1]
  IN  /\ proc[p].doing = "sending"
      /\ ~\E f \in files : SameName(f, p)
      /\ files' = files \cup {[time |-> proc[p].time, sender |-> Name[p],
                               number |-> proc[p].number, body |-> body]}
      /\ sends' = [sends EXCEPT ![Name[p]] = Append(@, body)]
      /\ Become(p, Idle)
      /\ UNCHANGED <<arrived, cursor, got, history>>

(* ... or taken: the next number is tried, or the send fails.              *)
Collide(p) ==
  /\ proc[p].doing = "sending"
  /\ \E f \in files : SameName(f, p)
  /\ Become(p, IF proc[p].tries + 1 < SendAttempts
               THEN [proc[p] EXCEPT !.number = @ + 1, !.tries = @ + 1]
               ELSE Idle)
  /\ UNCHANGED <<files, arrived, cursor, sends, got, history>>

(* The folder's copy at w gets a file that another participant created.    *)
Arrive(w, f) ==
  /\ f \in files \ arrived[w] /\ f.sender # w
  /\ arrived' = [arrived EXCEPT ![w] = @ \cup {f}]
  /\ UNCHANGED <<files, cursor, proc, sends, got, history>>

-----------------------------------------------------------------------------
(* receive                                                                 *)

(* entries sorts by time, then sender, then number.                        *)
Before(f, g) ==
  \/ f.time < g.time
  \/ f.time = g.time /\ f.sender < g.sender
  \/ f.time = g.time /\ f.sender = g.sender /\ f.number <= g.number

Sorted(listing) ==
  {entries \in SetToSeqs(listing) :
     \A i, j \in DOMAIN entries : i < j => Before(entries[i], entries[j])}

(* Mutant: a missing number is skipped.                                    *)
MutTake(acc, f) ==
  IF f.number >= acc.next[f.sender]
  THEN [batch |-> Append(acc.batch, f.body),
        next |-> [acc.next EXCEPT ![f.sender] = f.number + 1]]
  ELSE acc

(* Mutant: the file is handed over and not its text.                       *)
MutTakeFile(acc, f) ==
  IF f.number = acc.next[f.sender]
  THEN [batch |-> Append(acc.batch, f),
        next |-> [acc.next EXCEPT ![f.sender] = @ + 1]]
  ELSE acc

(* pending hands a file over when it has the number expected from its      *)
(* sender.                                                                 *)
Take(acc, f) ==
  IF f.number = acc.next[f.sender]
  THEN [batch |-> Append(acc.batch, f.body),
        next |-> [acc.next EXCEPT ![f.sender] = @ + 1]]
  ELSE acc

Pending(w, entries) ==
  LET taken[n \in 0..Len(entries)] ==
        IF n = 0 THEN [batch |-> << >>, next |-> cursor[w]]
                 ELSE Take(taken[n-1], entries[n])
  IN  taken[Len(entries)]

(* The cursor and the folder are read.  An empty batch leaves receive.     *)
Read(p) ==
  /\ proc[p].doing = "nothing"
  /\ \E entries \in Sorted(arrived[Name[p]]) :
       LET pending == Pending(Name[p], entries)
       IN  /\ pending.batch # << >>
           /\ Become(p, [Idle EXCEPT !.doing = "reading", !.batch = pending.batch,
                                     !.next = pending.next])
  /\ Noting(p, {"reading", "returning"})
  /\ UNCHANGED <<files, arrived, cursor, sends, got, lost, stops>>

SaveCursor(p) ==
  /\ proc[p].doing = "reading"
  /\ cursor' = [cursor EXCEPT ![Name[p]] = proc[p].next]
  /\ Become(p, [proc[p] EXCEPT !.doing = "returning"])
  /\ UNCHANGED <<files, arrived, sends, got, history>>

(* Mutant: the messages are returned before the cursor is saved.           *)
MutReturn(p) ==
  /\ proc[p].doing \in {"reading", "returning"}
  /\ got' = [got EXCEPT ![Name[p]] = @ \o proc[p].batch]
  /\ Become(p, [proc[p] EXCEPT !.doing = "reading", !.batch = << >>])
  /\ UNCHANGED <<files, arrived, cursor, sends, history>>

Return(p) ==
  /\ proc[p].doing = "returning"
  /\ got' = [got EXCEPT ![Name[p]] = @ \o proc[p].batch]
  /\ Become(p, Idle)
  /\ UNCHANGED <<files, arrived, cursor, sends, history>>

-----------------------------------------------------------------------------
(* A process is stopped in the middle of an operation and started again.   *)
Stop(p) ==
  /\ proc[p].doing # "nothing"
  /\ stops < MaxStops
  /\ stops' = stops + 1
  /\ lost' = IF proc[p].doing = "returning" THEN lost \cup {Name[p]} ELSE lost
  /\ Become(p, Idle)
  /\ UNCHANGED <<files, arrived, cursor, sends, got, raced>>

Operation(p) == Create(p) \/ Collide(p) \/ Read(p) \/ SaveCursor(p) \/ Return(p)

Next ==
  \/ \E p \in Processes : Operation(p) \/ Stop(p) \/ \E now \in Clock : List(p, now)
  \/ \E w \in Participants : \E f \in files : Arrive(w, f)

Spec == Init /\ [][Next]_vars

(* The folder is synced in the end, a command goes on and keeps receiving. *)
FairSpec ==
  /\ Spec
  /\ \A p \in Processes : WF_vars(Operation(p))
  /\ \A w \in Participants : WF_vars(\E f \in files : Arrive(w, f))

-----------------------------------------------------------------------------
(* Files, cursors and the memory of processes hold what their types say.   *)
FilesTyped ==
  /\ files \subseteq File
  /\ arrived \in [Participants -> SUBSET File]
  /\ cursor \in [Participants -> Cursor]
  /\ proc \in [Processes -> Proc]
  /\ sends \in [Participants -> Seq(Message)]
  /\ got \in [Participants -> Seq(Message)]
  /\ raced \subseteq Participants
  /\ lost \subseteq Participants
  /\ stops \in Nat

(* Of the messages receive returned, those of one sender at positions      *)
(* before the i-th.                                                        *)
Earlier(s, w, i) == {got[w][j] : j \in {k \in 1..i-1 : got[w][k].from = s}}

(* What receive returned of a sender's messages is the beginning of what   *)
(* that sender sent: in order, none skipped and none twice, in whatever    *)
(* order the files reach the folder and whatever the clocks did.  It takes *)
(* processes of one name that do not do the same thing at once, and that   *)
(* are not stopped between saving the cursor and returning.                *)
InOrder ==
  \A s \in Participants \ raced, w \in Participants \ (raced \cup lost) :
    \A i \in DOMAIN got[w] : got[w][i].from = s =>
      \E k \in DOMAIN sends[s] :
        /\ got[w][i] = sends[s][k]
        /\ Earlier(s, w, i) = {sends[s][n] : n \in 1..k-1}

(* A process stopped while it hands messages over may lose some of them,   *)
(* but none comes twice and none comes after a later one.                  *)
NeverTwice ==
  \A s, w \in Participants \ raced :
    \A i, j \in DOMAIN got[w] :
      i < j /\ got[w][i].from = s /\ got[w][j].from = s => got[w][i].no < got[w][j].no

(* One look at the folder takes every message that can be handed over: it  *)
(* leaves none whose number is the next, so a message waits only for one   *)
(* before it that has not arrived.  pending goes through the files once,   *)
(* sorted by time first, so this is what send promises about the times it  *)
(* puts into the names when the clock goes back.                           *)
NoneLeftBehind ==
  [][\A p \in Processes : \A f \in arrived[Name[p]] :
       proc[p].doing = "nothing" /\ proc'[p].doing = "reading" /\ f.sender \notin raced =>
         f.number # proc'[p].next[f.sender]]_vars

(* In the end, when nothing is sent any more, every message has reached    *)
(* every other participant.                                                *)
Delivered ==
  \A s \in Participants \ raced : \A w \in Participants \ (raced \cup lost \cup {s}) :
    ToSet(sends[s]) \subseteq ToSet(got[w])

AllDelivered == <>[]Delivered

=============================================================================
