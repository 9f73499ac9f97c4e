--------------------------- MODULE MarmotTransport --------------------------
(***************************************************************************)
(* The channel that is a Marmot group (marmot.rs): MLS messages that nostr *)
(* relays carry.  A wallet keeps two files, mls.json with the group and    *)
(* its keys and state.json with what was handled, and saves them one after *)
(* the other.                                                              *)
(*                                                                         *)
(* One process at a time works on a wallet folder.  It is in the middle of *)
(* at most one operation, whose steps end with what a stop may come after: *)
(* a file saved, an event published, a batch returned.  Between operations *)
(* memory and files agree, so opening the folder is no step.               *)
(***************************************************************************)
EXTENDS Naturals, SequencesExt

CONSTANTS
  Wallets,      \* those that may form a group
  Clock,        \* readings of the clock, in seconds, which may go backwards
  MaxPackages,  \* bound: MaxPackages[w]: key packages w makes
  MaxGroups,    \* bound: MaxGroups[w]: groups w creates
  MaxSends,     \* bound: MaxSends[w]: messages w sends
  MaxStops      \* bound: operations stopped or ended by an error

ASSUME ClockAssumption == Clock \subseteq Nat
ASSUME MarmotBounds ==
  /\ MaxPackages \in [Wallets -> Nat]
  /\ MaxGroups \in [Wallets -> Nat]
  /\ MaxSends \in [Wallets -> Nat]
  /\ MaxStops \in Nat

VARIABLES
  mls,        \* mls[w]: mls.json
  state,      \* state[w]: state.json
  proc,       \* proc[w]: the operation that is under way
  packages,   \* key packages the relays have
  welcomes,   \* welcomes they have
  events,     \* group messages they have
  reached,    \* reached[w]: those of them that a query of w's returns
  made,       \* made[w]: key packages, groups and messages w made so far
  returned,   \* history: returned[w]: what receive returned
  lost,       \* history: lost[w]: messages in a batch that was not returned
  upset,      \* history: senders whose messages came late, or whose clock went back
  stops       \* operations stopped or ended by an error so far

files == <<mls, state>>
relays == <<packages, welcomes, events, reached>>
history == <<returned, lost, upset>>
vars == <<files, proc, relays, made, history, stops>>

Package == [by : Wallets, no : Nat]
Group == [by : Wallets, no : Nat]
Welcome == [group : Group, package : Package]

(* key     the generation of the sender's ratchet it is encrypted under    *)
(* seq     the counter in its tag                                          *)
(* at      when it was sent                                                *)
(* no      the sender's how many-th message it is                          *)
Event == [from : Wallets, group : Group, key : Nat, seq : Nat, at : Nat, no : Nat]

NoGroup == [by |-> "nobody", no |-> 0]

Unlocks(e) == [from |-> e.from, group |-> e.group, key |-> e.key]

(* keys    private halves of key packages                                  *)
(* groups  groups held                                                     *)
(* ratchet the next generation to send under                               *)
(* opened  generations of other members that are used up                   *)
Generation == [from : Wallets, group : Group, key : Nat]
Mls == [keys : SUBSET Package, groups : SUBSET Group, ratchet : Nat,
        opened : SUBSET Generation]
State == [group : Group \cup {NoGroup}, seen : SUBSET Event, next_seq : Nat]

(* doing   which step comes next                                           *)
(* group, package, batch, fresh   what the operation is about              *)
Proc == [doing : {"nothing", "package", "invite", "welcome", "accept", "send",
                  "publish", "poll", "return"},
         group : Group \cup {NoGroup}, package : SUBSET Package, batch : Seq(Event),
         fresh : SUBSET Event]

Idle == [doing |-> "nothing", group |-> NoGroup, package |-> {}, batch |-> << >>,
         fresh |-> {}]

Init ==
  /\ mls = [w \in Wallets |-> [keys |-> {}, groups |-> {}, ratchet |-> 0, opened |-> {}]]
  /\ state = [w \in Wallets |-> [group |-> NoGroup, seen |-> {}, next_seq |-> 0]]
  /\ proc = [w \in Wallets |-> Idle]
  /\ packages = {} /\ welcomes = {} /\ events = {}
  /\ reached = [w \in Wallets |-> {}]
  /\ made = [w \in Wallets |-> [packages |-> 0, groups |-> 0, sends |-> 0]]
  /\ returned = [w \in Wallets |-> << >>]
  /\ lost = [w \in Wallets |-> {}]
  /\ upset = {}
  /\ stops = 0

Ready(w) == proc[w].doing = "nothing"
Alone(w) == state[w].group = NoGroup
Become(w, operation) == proc' = [proc EXCEPT ![w] = operation]

-----------------------------------------------------------------------------
(* publish_key_package: the private half is saved, then the package        *)
(* published.                                                              *)

NewPackage(w) == [by |-> w, no |-> made[w].packages + 1]

(* Mutant: only published.                                                 *)
MutSavePackage(w) ==
  /\ Ready(w)
  /\ made[w].packages < MaxPackages[w]
  /\ made' = [made EXCEPT ![w].packages = @ + 1]
  /\ Become(w, [Idle EXCEPT !.doing = "package", !.package = {NewPackage(w)}])
  /\ UNCHANGED <<files, relays, history, stops>>

SavePackage(w) ==
  /\ Ready(w)
  /\ made[w].packages < MaxPackages[w]
  /\ made' = [made EXCEPT ![w].packages = @ + 1]
  /\ mls' = [mls EXCEPT ![w].keys = @ \cup {NewPackage(w)}]
  /\ Become(w, [Idle EXCEPT !.doing = "package", !.package = {NewPackage(w)}])
  /\ UNCHANGED <<state, relays, history, stops>>

PublishPackage(w) ==
  /\ proc[w].doing = "package"
  /\ packages' = packages \cup proc[w].package
  /\ Become(w, Idle)
  /\ UNCHANGED <<files, welcomes, events, reached, made, history, stops>>

-----------------------------------------------------------------------------
(* invite: a group is created with the newest package of the other wallet  *)
(* that the relays return, and saved, ...                                  *)

NewGroup(w) == [by |-> w, no |-> made[w].groups + 1]

Inviting(w, k) ==
  /\ Ready(w) /\ Alone(w)
  /\ k \in packages /\ k.by # w
  /\ made[w].groups < MaxGroups[w]
  /\ made' = [made EXCEPT ![w].groups = @ + 1]
  /\ Become(w, [Idle EXCEPT !.doing = "invite", !.group = NewGroup(w), !.package = {k}])

Invite(w, k) ==
  /\ Inviting(w, k)
  /\ mls' = [mls EXCEPT ![w].groups = @ \cup {NewGroup(w)}]
  /\ UNCHANGED <<state, relays, history, stops>>

(* ... then state.json names it, ...                                       *)
SaveInvite(w) ==
  /\ proc[w].doing = "invite"
  /\ state' = [state EXCEPT ![w].group = proc[w].group]
  /\ Become(w, [proc[w] EXCEPT !.doing = "welcome"])
  /\ UNCHANGED <<mls, relays, made, history, stops>>

(* ... and the other wallet is sent a welcome.                             *)
SendWelcome(w) ==
  /\ proc[w].doing = "welcome"
  /\ welcomes' = welcomes \cup {[group |-> proc[w].group, package |-> k] : k \in proc[w].package}
  /\ Become(w, Idle)
  /\ UNCHANGED <<files, packages, events, reached, made, history, stops>>

(* accept: the newest welcome that the relays return and a key package of  *)
(* this wallet opens.  The group is held, and the key package may be used  *)
(* up by that, ...                                                         *)
Accept(w, welcome) ==
  /\ Ready(w) /\ Alone(w)
  /\ welcome \in welcomes /\ welcome.package \in mls[w].keys
  /\ \E used \in {{}, {welcome.package}} :
       mls' = [mls EXCEPT ![w].groups = @ \cup {welcome.group}, ![w].keys = @ \ used]
  /\ Become(w, [Idle EXCEPT !.doing = "accept", !.group = welcome.group])
  /\ UNCHANGED <<state, relays, made, history, stops>>

(* ... and then named in state.json.                                       *)
SaveAccept(w) ==
  /\ proc[w].doing = "accept"
  /\ state' = [state EXCEPT ![w].group = proc[w].group]
  /\ Become(w, Idle)
  /\ UNCHANGED <<mls, relays, made, history, stops>>

-----------------------------------------------------------------------------
(* send                                                                    *)

NewEvent(w, now) ==
  [from |-> w, group |-> state[w].group, key |-> mls[w].ratchet,
   seq |-> state[w].next_seq, at |-> now, no |-> made[w].sends + 1]

(* The sender's clock is behind its last message.                          *)
ClockBack(w, now) == \E e \in state[w].seen : e.from = w /\ e.at > now

Sending(w, now) ==
  /\ Ready(w) /\ ~Alone(w)
  /\ made[w].sends < MaxSends[w]
  /\ made' = [made EXCEPT ![w].sends = @ + 1]
  /\ upset' = IF ClockBack(w, now) THEN upset \cup {w} ELSE upset
  /\ Become(w, [Idle EXCEPT !.doing = "send", !.batch = <<NewEvent(w, now)>>])
  /\ UNCHANGED <<state, relays, returned, lost, stops>>

(* Mutant: the ratchet is not saved before the message leaves.             *)
MutSend(w, now) == Sending(w, now) /\ UNCHANGED mls

(* create_message moves the ratchet, which is saved, ...                   *)
Send(w, now) == Sending(w, now) /\ mls' = [mls EXCEPT ![w].ratchet = @ + 1]

(* Mutant: the counter stays.                                              *)
MutSaveSend(w) ==
  /\ proc[w].doing = "send"
  /\ state' = [state EXCEPT ![w].seen = @ \cup ToSet(proc[w].batch)]
  /\ Become(w, [proc[w] EXCEPT !.doing = "publish"])
  /\ UNCHANGED <<mls, relays, made, history, stops>>

(* ... then the counter and the event, which is not to be handled, ...     *)
SaveSend(w) ==
  /\ proc[w].doing = "send"
  /\ state' = [state EXCEPT ![w].seen = @ \cup ToSet(proc[w].batch), ![w].next_seq = @ + 1]
  /\ Become(w, [proc[w] EXCEPT !.doing = "publish"])
  /\ UNCHANGED <<mls, relays, made, history, stops>>

(* ... and it is published; a relay may take it and send report an error.  *)
Publish(w) ==
  /\ proc[w].doing = "publish"
  /\ events' = events \cup ToSet(proc[w].batch)
  /\ Become(w, Idle)
  /\ UNCHANGED <<files, packages, welcomes, reached, made, history, stops>>

-----------------------------------------------------------------------------
(* receive                                                                 *)

(* What w handled, or is about to have.                                    *)
Handled(w) == state[w].seen \cup proc[w].fresh

(* From now on a query returns e: late, if w handled a later message.      *)
Arrive(w, e) ==
  /\ e \in events \ reached[w] /\ e.from # w
  /\ reached' = [reached EXCEPT ![w] = @ \cup {e}]
  /\ upset' = IF \E f \in Handled(w) : f.from = e.from /\ f.no > e.no
              THEN upset \cup {e.from}
              ELSE upset
  /\ UNCHANGED <<files, proc, packages, welcomes, events, made, returned, lost, stops>>

(* Mutant: the cursor is the time of the last message.                     *)
MutFresh(w) ==
  {e \in reached[w] : e.group = state[w].group /\ \A f \in state[w].seen : f.at < e.at}

(* Messages of the group that were not handled.                            *)
Fresh(w) == {e \in reached[w] : e.group = state[w].group /\ e \notin state[w].seen}

(* Those that decrypt.                                                     *)
Opened(w) == {e \in Fresh(w) : e.group \in mls[w].groups /\ Unlocks(e) \notin mls[w].opened}

(* By second, then counter; by text when these are equal.                  *)
Sorted(batch) ==
  {s \in SetToSeqs(batch) :
     \A i, j \in DOMAIN s : i < j => \/ s[i].at < s[j].at
                                     \/ s[i].at = s[j].at /\ s[i].seq <= s[j].seq}

(* Mutant: nothing is saved.                                               *)
MutPoll(w) ==
  /\ Ready(w) /\ Fresh(w) # {}
  /\ \E batch \in Sorted(Opened(w)) :
       Become(w, [Idle EXCEPT !.doing = "return", !.batch = batch])
  /\ UNCHANGED <<files, relays, made, history, stops>>

(* Mutant: messages are written down in the place of their keys.           *)
MutPollIds(w) ==
  /\ Ready(w) /\ Fresh(w) # {}
  /\ \E batch \in Sorted(Opened(w)) :
       Become(w, [Idle EXCEPT !.doing = "poll", !.batch = batch, !.fresh = Fresh(w)])
  /\ mls' = [mls EXCEPT ![w].opened = @ \cup Opened(w)]
  /\ UNCHANGED <<state, relays, made, history, stops>>

(* poll decrypts what is new, which uses up keys, and saves mls.json, ...  *)
Poll(w) ==
  /\ Ready(w) /\ Fresh(w) # {}
  /\ \E batch \in Sorted(Opened(w)) :
       Become(w, [Idle EXCEPT !.doing = "poll", !.batch = batch, !.fresh = Fresh(w)])
  /\ mls' = [mls EXCEPT ![w].opened = @ \cup {Unlocks(e) : e \in Opened(w)}]
  /\ UNCHANGED <<state, relays, made, history, stops>>

(* ... then state.json, ...                                                *)
SavePoll(w) ==
  /\ proc[w].doing = "poll"
  /\ state' = [state EXCEPT ![w].seen = @ \cup proc[w].fresh]
  /\ Become(w, [proc[w] EXCEPT !.doing = "return", !.fresh = {}])
  /\ UNCHANGED <<mls, relays, made, history, stops>>

(* ... and the messages are returned.  If there are none receive goes on.  *)
Return(w) ==
  /\ proc[w].doing = "return"
  /\ returned' = [returned EXCEPT ![w] = @ \o proc[w].batch]
  /\ Become(w, Idle)
  /\ UNCHANGED <<files, relays, made, lost, upset, stops>>

-----------------------------------------------------------------------------
(* The process is stopped, or a file or every relay fails.                 *)
Stop(w) ==
  /\ ~Ready(w)
  /\ stops < MaxStops
  /\ stops' = stops + 1
  /\ Become(w, Idle)
  /\ lost' = IF proc[w].doing \in {"poll", "return"}
             THEN [lost EXCEPT ![w] = @ \cup ToSet(proc[w].batch)]
             ELSE lost
  /\ UNCHANGED <<files, relays, made, returned, upset>>

SetUp(w) ==
  \/ SavePackage(w) \/ PublishPackage(w)
  \/ \E k \in packages : Invite(w, k)
  \/ SaveInvite(w) \/ SendWelcome(w)
  \/ \E welcome \in welcomes : Accept(w, welcome)
  \/ SaveAccept(w)

Sends(w) == SaveSend(w) \/ Publish(w) \/ \E now \in Clock : Send(w, now)

Receives(w) == Poll(w) \/ SavePoll(w) \/ Return(w)

Next == \E w \in Wallets :
  \/ SetUp(w) \/ Sends(w) \/ Receives(w) \/ Stop(w)
  \/ \E e \in events : Arrive(w, e)

Spec == Init /\ [][Next]_vars

(* An operation that was begun goes on, a wallet polls, and every relay's  *)
(* messages are returned by a query in the end.                            *)
GoesOn(w) ==
  \/ PublishPackage(w) \/ SaveInvite(w) \/ SendWelcome(w) \/ SaveAccept(w)
  \/ SaveSend(w) \/ Publish(w) \/ Receives(w)

FairSpec ==
  /\ Spec
  /\ \A w \in Wallets : WF_vars(GoesOn(w)) /\ WF_vars(\E e \in events : Arrive(w, e))

-----------------------------------------------------------------------------
(* Both files, what operations hold and what relays have keep their types. *)
MarmotTyped ==
  /\ mls \in [Wallets -> Mls] /\ state \in [Wallets -> State]
  /\ proc \in [Wallets -> Proc]
  /\ packages \subseteq Package /\ welcomes \subseteq Welcome
  /\ events \subseteq Event /\ IsFiniteSet(events)
  /\ reached \in [Wallets -> SUBSET events]
  /\ made \in [Wallets -> [packages : Nat, groups : Nat, sends : Nat]]
  /\ returned \in [Wallets -> Seq(Event)] /\ lost \in [Wallets -> SUBSET Event]
  /\ upset \subseteq Wallets

(* "A restart never reuses a key": no two messages on the relays are       *)
(* encrypted under one generation of a sender's ratchet, wherever send was *)
(* stopped.                                                                *)
KeyUsedOnce ==
  \A e, f \in events : Unlocks(e) = Unlocks(f) => e = f

(* receive returns a message once, also after a stop between the two       *)
(* files, and returns none that was lost before.                           *)
ReturnedOnce ==
  \A w \in Wallets :
    /\ IsInjective(returned[w])
    /\ ToSet(returned[w]) \cap lost[w] = {}

OrderOf(w, from) ==
  \A i, j \in DOMAIN returned[w] :
    i < j /\ returned[w][i].from = from /\ returned[w][j].from = from =>
      returned[w][i].no < returned[w][j].no

(* A sender's messages are returned in the order it sent them, also those  *)
(* of one second and across stops of the sender: unless the relays return  *)
(* one late, or the sender's clock goes back.                              *)
InOrder == \A w, from \in Wallets : from \notin upset => OrderOf(w, from)

(* Whoever is sent a welcome can take it, wherever an invitation or an     *)
(* acceptance was stopped: the inviter's files hold and name the group,    *)
(* and the other wallet has the private half of the key package it is      *)
(* addressed to, until it holds a group.                                   *)
InvitesOpen ==
  \A welcome \in welcomes :
    LET by == welcome.group.by
        to == welcome.package.by
    IN  /\ state[by].group = welcome.group /\ welcome.group \in mls[by].groups
        /\ welcome.package \in mls[to].keys \/ mls[to].groups # {}

(* A group that state.json names is one whose keys mls.json holds.         *)
GroupIsHeld ==
  \A w \in Wallets : Alone(w) \/ state[w].group \in mls[w].groups

(* A message the relays have is returned to the other wallet, once it has  *)
(* joined, or was in a batch whose hand over was stopped.                  *)
AtLeastOnce ==
  \A w \in Wallets : \A from \in Wallets \ {w} : \A no \in 1..MaxSends[from] :
    (\E e \in events : e.from = from /\ e.no = no /\ e.group = state[w].group)
      ~> (\E e \in ToSet(returned[w]) \cup lost[w] : e.from = from /\ e.no = no)
=============================================================================
