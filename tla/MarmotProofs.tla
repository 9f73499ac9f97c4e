---------------------------- MODULE MarmotProofs ----------------------------
(***************************************************************************)
(* Proofs that the files of a Marmot channel keep their types, that no key *)
(* is used for two messages, that a wallet holds the group it names, that  *)
(* who is sent a welcome can take it, and that receive returns a message   *)
(* once and a sender's messages in the order it sent them: for any number  *)
(* of wallets, packages, groups, messages and stops.                       *)
(***************************************************************************)
EXTENDS MarmotTransport, FiniteSetTheorems, TLAPS

(* A group that an operation is about exists.                              *)
OperationTyped ==
  \A w \in Wallets :
    proc[w].doing \in {"invite", "welcome", "accept"} => proc[w].group \in Group

(* A message that was made and is not out yet has a key of its own.        *)
KeyIsNew(w) ==
  \E e \in Event :
    /\ proc[w].batch = <<e>> /\ e.from = w
    /\ e.key < mls[w].ratchet
    /\ \A f \in events : f.from = w => f.key # e.key

(* The ratchet in mls.json is past every key that was used, on the relays  *)
(* or by a message that is about to leave.                                 *)
RatchetIsPast ==
  /\ \A e \in events : e.key < mls[e.from].ratchet
  /\ \A w \in Wallets : proc[w].doing \in {"send", "publish"} => KeyIsNew(w)

(* mls.json holds the group that state.json is about to name.              *)
HeldBefore ==
  \A w \in Wallets :
    proc[w].doing \in {"invite", "accept"} => proc[w].group \in mls[w].groups

IInv ==
  /\ MarmotTyped /\ OperationTyped
  /\ RatchetIsPast /\ KeyUsedOnce
  /\ HeldBefore /\ GroupIsHeld

USE DEF Ready, Alone, Become, files, relays, history

(* The first state has it: nothing was made.                               *)
LEMMA InitIInv == Init => IInv
<1> SUFFICES ASSUME Init PROVE IInv
  OBVIOUS
<1> USE DEF Init, Idle
<1>1. IsFiniteSet({})
  BY FS_EmptySet
<1>2. MarmotTyped
  BY <1>1 DEF MarmotTyped, Mls, State, Proc
<1>3. OperationTyped /\ RatchetIsPast /\ KeyUsedOnce /\ HeldBefore /\ GroupIsHeld
  BY DEF OperationTyped, RatchetIsPast, KeyUsedOnce, HeldBefore, GroupIsHeld
<1> QED
  BY <1>2, <1>3 DEF IInv

(* What other variables hold stays as it is typed.                         *)
RestTyped ==
  /\ packages \subseteq Package /\ welcomes \subseteq Welcome
  /\ reached \in [Wallets -> SUBSET events]
  /\ made \in [Wallets -> [packages : Nat, groups : Nat, sends : Nat]]
  /\ returned \in [Wallets -> Seq(Event)] /\ lost \in [Wallets -> SUBSET Event]
  /\ upset \subseteq Wallets

(* m and s may be the files of w and p its memory after a step, if these   *)
(* three agree and w makes no message but one with a new key.              *)
Fits(w, m, s, p) ==
  /\ m \in Mls /\ s \in State /\ p \in Proc
  /\ mls[w].ratchet <= m.ratchet
  /\ p.doing \in {"invite", "welcome", "accept"} => p.group \in Group
  /\ p.doing \in {"invite", "accept"} => p.group \in m.groups
  /\ s.group = NoGroup \/ s.group \in m.groups
  /\ p.doing \in {"send", "publish"} =>
       \E e \in Event : /\ p.batch = <<e>> /\ e.from = w
                        /\ e.key < m.ratchet
                        /\ \A f \in events : f.from = w => f.key # e.key

(* A step that replaces the files and the memory of one wallet by such,    *)
(* and publishes no message, keeps the invariant.                          *)
LEMMA StepKeeps ==
  ASSUME IInv, NEW w \in Wallets, NEW m, NEW s, NEW p, Fits(w, m, s, p),
         mls' = [mls EXCEPT ![w] = m],
         state' = [state EXCEPT ![w] = s],
         proc' = [proc EXCEPT ![w] = p],
         events' = events, RestTyped'
  PROVE  IInv'
<1> USE DEF Fits
<1>1. /\ mls \in [Wallets -> Mls] /\ state \in [Wallets -> State]
      /\ proc \in [Wallets -> Proc] /\ events \subseteq Event
  BY DEF IInv, MarmotTyped
<1>2. MarmotTyped'
  BY DEF IInv, MarmotTyped, RestTyped
<1>3. OperationTyped'
  BY <1>1 DEF IInv, OperationTyped
<1>4. HeldBefore'
  BY <1>1 DEF IInv, HeldBefore
<1>5. GroupIsHeld'
  BY <1>1 DEF IInv, GroupIsHeld
<1>6. KeyUsedOnce'
  BY DEF IInv, KeyUsedOnce
<1>7. RatchetIsPast'
  <2>1. ASSUME NEW e \in events PROVE e.key < mls'[e.from].ratchet
    <3>1. e \in Event /\ e.key < mls[e.from].ratchet
      BY <1>1 DEF IInv, RatchetIsPast
    <3>2. e.from \in Wallets /\ e.key \in Nat
      BY <3>1 DEF Event
    <3>3. mls[e.from].ratchet \in Nat /\ m.ratchet \in Nat
      BY <1>1, <3>2 DEF Mls
    <3>4. CASE e.from = w
      <4>1. mls'[e.from].ratchet = m.ratchet
        BY <1>1, <3>4
      <4> QED
        BY <4>1, <3>1, <3>2, <3>3, <3>4
    <3>5. CASE e.from # w
      BY <1>1, <3>1, <3>2, <3>5
    <3> QED
      BY <3>4, <3>5
  <2>2. ASSUME NEW v \in Wallets, proc'[v].doing \in {"send", "publish"}
        PROVE  KeyIsNew(v)'
    <3>1. CASE v = w
      <4>1. proc'[v] = p /\ mls'[v] = m
        BY <1>1, <3>1
      <4> QED
        BY <4>1, <3>1, <2>2 DEF KeyIsNew
    <3>2. CASE v # w
      <4>1. proc'[v] = proc[v] /\ mls'[v] = mls[v]
        BY <1>1, <3>2
      <4>2. KeyIsNew(v)
        BY <4>1, <2>2 DEF IInv, RatchetIsPast
      <4> QED
        BY <4>1, <4>2 DEF KeyIsNew
    <3> QED
      BY <3>1, <3>2
  <2> QED
    BY <2>1, <2>2 DEF RatchetIsPast
<1> QED
  BY <1>2, <1>3, <1>4, <1>5, <1>6, <1>7 DEF IInv

(* What the files and the memory of w hold, typed.                         *)
LEMMA Held ==
  ASSUME IInv, NEW w \in Wallets
  PROVE  /\ mls[w] \in Mls /\ state[w] \in State /\ proc[w] \in Proc
         /\ Idle \in Proc /\ RestTyped
         /\ mls = [mls EXCEPT ![w] = mls[w]] /\ state = [state EXCEPT ![w] = state[w]]
         /\ mls[w].ratchet \in Nat /\ state[w].next_seq \in Nat
         /\ state[w].group = NoGroup \/ state[w].group \in mls[w].groups
<1>1. /\ mls \in [Wallets -> Mls] /\ state \in [Wallets -> State]
      /\ proc \in [Wallets -> Proc]
  BY DEF IInv, MarmotTyped
<1>2. Idle \in Proc
  BY DEF Idle, Proc
<1>3. RestTyped
  BY DEF IInv, MarmotTyped, RestTyped
<1>4. mls[w] \in Mls /\ state[w] \in State
  BY <1>1
<1>5. mls[w].ratchet \in Nat /\ state[w].next_seq \in Nat
  BY <1>4 DEF Mls, State
<1>6. state[w].group = NoGroup \/ state[w].group \in mls[w].groups
  BY DEF IInv, GroupIsHeld
<1> QED
  BY <1>1, <1>2, <1>3, <1>4, <1>5, <1>6

(* Key packages: publish_key_package.                                      *)
LEMMA SavePackageStep ==
  ASSUME IInv, NEW w \in Wallets, SavePackage(w)
  PROVE  IInv'
<1> DEFINE k == NewPackage(w)
           m == [mls[w] EXCEPT !.keys = @ \cup {k}]
           p == [Idle EXCEPT !.doing = "package", !.package = {k}]
<1>0. /\ mls[w] \in Mls /\ Idle \in Proc /\ state[w] \in State
      /\ mls[w].ratchet \in Nat
      /\ state[w].group = NoGroup \/ state[w].group \in mls[w].groups
  BY Held
<1>1. made[w] \in [packages : Nat, groups : Nat, sends : Nat]
  BY DEF IInv, MarmotTyped
<1>2. k \in Package
  BY <1>1 DEF NewPackage, Package
<1>3. m \in Mls /\ m.ratchet = mls[w].ratchet /\ m.groups = mls[w].groups
  BY <1>0, <1>2 DEF Mls
<1>4. p \in Proc /\ p.doing = "package"
  BY <1>0, <1>2 DEF Proc
<1>5. Fits(w, m, state[w], p)
  <2> HIDE DEF m, p
  <2> QED
    BY <1>0, <1>3, <1>4 DEF Fits
<1>6. RestTyped'
  <2>1. made' = [made EXCEPT ![w] = [made[w] EXCEPT !.packages = @ + 1]]
    BY DEF SavePackage
  <2>2. [made[w] EXCEPT !.packages = @ + 1] \in [packages : Nat, groups : Nat, sends : Nat]
    BY <1>1
  <2>3. RestTyped
    BY Held
  <2> QED
    BY <2>1, <2>2, <2>3 DEF SavePackage, RestTyped
<1>7. mls' = [mls EXCEPT ![w] = m] /\ proc' = [proc EXCEPT ![w] = p]
  BY DEF SavePackage
<1>8. state' = [state EXCEPT ![w] = state[w]] /\ events' = events
  BY Held DEF SavePackage
<1> HIDE DEF m, p
<1> QED
  BY <1>5, <1>6, <1>7, <1>8, StepKeeps

(* The published package has its private half on disk.                     *)
LEMMA PublishPackageStep ==
  ASSUME IInv, NEW w \in Wallets, PublishPackage(w)
  PROVE  IInv'
<1>0. /\ mls[w] \in Mls /\ Idle \in Proc /\ state[w] \in State /\ proc[w] \in Proc
      /\ mls[w].ratchet \in Nat
      /\ state[w].group = NoGroup \/ state[w].group \in mls[w].groups
  BY Held
<1>1. Idle.doing = "nothing"
  BY DEF Idle
<1>2. Fits(w, mls[w], state[w], Idle)
  BY <1>0, <1>1 DEF Fits
<1>3. RestTyped'
  <2>1. proc[w].package \subseteq Package
    BY <1>0 DEF Proc
  <2> QED
    BY <2>1, Held DEF PublishPackage, RestTyped
<1>4. mls' = [mls EXCEPT ![w] = mls[w]] /\ state' = [state EXCEPT ![w] = state[w]]
  BY Held DEF PublishPackage
<1>5. proc' = [proc EXCEPT ![w] = Idle] /\ events' = events
  BY DEF PublishPackage
<1> QED
  BY <1>2, <1>3, <1>4, <1>5, StepKeeps

(* invite: the group is in mls.json ...                                    *)
LEMMA InviteStep ==
  ASSUME IInv, NEW w \in Wallets, NEW k \in packages, Invite(w, k)
  PROVE  IInv'
<1> DEFINE g == NewGroup(w)
           m == [mls[w] EXCEPT !.groups = @ \cup {g}]
           p == [Idle EXCEPT !.doing = "invite", !.group = g, !.package = {k}]
<1>0. /\ mls[w] \in Mls /\ Idle \in Proc /\ state[w] \in State
      /\ mls[w].ratchet \in Nat
      /\ state[w].group = NoGroup \/ state[w].group \in mls[w].groups
  BY Held
<1>1. /\ made[w] \in [packages : Nat, groups : Nat, sends : Nat]
      /\ k \in Package
  BY DEF IInv, MarmotTyped
<1>2. g \in Group
  BY <1>1 DEF NewGroup, Group
<1>3. m \in Mls /\ m.ratchet = mls[w].ratchet /\ m.groups = mls[w].groups \cup {g}
  BY <1>0, <1>2 DEF Mls
<1>4. p \in Proc /\ p.doing = "invite" /\ p.group = g
  BY <1>0, <1>1, <1>2 DEF Proc
<1>5. Fits(w, m, state[w], p)
  <2> HIDE DEF g, m, p
  <2> QED
    BY <1>0, <1>2, <1>3, <1>4 DEF Fits
<1>6. RestTyped'
  <2>1. made' = [made EXCEPT ![w] = [made[w] EXCEPT !.groups = @ + 1]]
    BY DEF Invite, Inviting
  <2>2. [made[w] EXCEPT !.groups = @ + 1] \in [packages : Nat, groups : Nat, sends : Nat]
    BY <1>1
  <2>3. RestTyped
    BY Held
  <2> QED
    BY <2>1, <2>2, <2>3 DEF Invite, RestTyped
<1>7. mls' = [mls EXCEPT ![w] = m] /\ proc' = [proc EXCEPT ![w] = p]
  BY DEF Invite, Inviting
<1>8. state' = [state EXCEPT ![w] = state[w]] /\ events' = events
  BY Held DEF Invite
<1> HIDE DEF m, p
<1> QED
  BY <1>5, <1>6, <1>7, <1>8, StepKeeps

(* ... before state.json names it, of whoever created it.                  *)
LEMMA SaveGroupStep ==
  ASSUME IInv, NEW w \in Wallets, SaveInvite(w) \/ SaveAccept(w)
  PROVE  IInv'
<1> DEFINE g == proc[w].group
           s == [state[w] EXCEPT !.group = g]
<1>0. /\ mls[w] \in Mls /\ Idle \in Proc /\ state[w] \in State /\ proc[w] \in Proc
      /\ mls[w].ratchet \in Nat
  BY Held
<1>1. g \in Group /\ g \in mls[w].groups
  BY DEF IInv, OperationTyped, HeldBefore, SaveInvite, SaveAccept
<1>2. s \in State /\ s.group = g
  BY <1>0, <1>1 DEF State
<1>3. state' = [state EXCEPT ![w] = s] /\ mls' = [mls EXCEPT ![w] = mls[w]]
  BY Held DEF SaveInvite, SaveAccept
<1>4. RestTyped' /\ events' = events
  BY Held DEF SaveInvite, SaveAccept, RestTyped
<1>5. CASE SaveInvite(w)
  <2> DEFINE p == [proc[w] EXCEPT !.doing = "welcome"]
  <2>1. p \in Proc /\ p.doing = "welcome" /\ p.group = g
    BY <1>0 DEF Proc
  <2>2. proc' = [proc EXCEPT ![w] = p]
    BY <1>5 DEF SaveInvite
  <2>3. Fits(w, mls[w], s, p)
    <3> HIDE DEF s, p
    <3> QED
      BY <1>0, <1>1, <1>2, <2>1 DEF Fits
  <2> HIDE DEF s, p
  <2> QED
    BY <1>3, <1>4, <2>2, <2>3, StepKeeps
<1>6. CASE SaveAccept(w)
  <2>1. proc' = [proc EXCEPT ![w] = Idle]
    BY <1>6 DEF SaveAccept
  <2>2. Idle.doing = "nothing"
    BY DEF Idle
  <2>3. Fits(w, mls[w], s, Idle)
    <3> HIDE DEF s
    <3> QED
      BY <1>0, <1>1, <1>2, <2>2 DEF Fits
  <2> HIDE DEF s
  <2> QED
    BY <1>3, <1>4, <2>1, <2>3, StepKeeps
<1> QED
  BY <1>5, <1>6

(* The welcome leaves.                                                     *)
LEMMA SendWelcomeStep ==
  ASSUME IInv, NEW w \in Wallets, SendWelcome(w)
  PROVE  IInv'
<1>0. /\ mls[w] \in Mls /\ Idle \in Proc /\ state[w] \in State /\ proc[w] \in Proc
      /\ mls[w].ratchet \in Nat
      /\ state[w].group = NoGroup \/ state[w].group \in mls[w].groups
  BY Held
<1>1. Idle.doing = "nothing"
  BY DEF Idle
<1>2. Fits(w, mls[w], state[w], Idle)
  BY <1>0, <1>1 DEF Fits
<1>3. RestTyped'
  <2>1. proc[w].package \subseteq Package
    BY <1>0 DEF Proc
  <2>2. proc[w].group \in Group
    BY DEF IInv, OperationTyped, SendWelcome
  <2>3. \A k \in proc[w].package : [group |-> proc[w].group, package |-> k] \in Welcome
    BY <2>1, <2>2 DEF Welcome
  <2> QED
    BY <2>3, Held DEF SendWelcome, RestTyped
<1>4. mls' = [mls EXCEPT ![w] = mls[w]] /\ state' = [state EXCEPT ![w] = state[w]]
  BY Held DEF SendWelcome
<1>5. proc' = [proc EXCEPT ![w] = Idle] /\ events' = events
  BY DEF SendWelcome
<1> QED
  BY <1>2, <1>3, <1>4, <1>5, StepKeeps

(* accept: the group is in mls.json, whatever becomes of the key package.  *)
LEMMA AcceptStep ==
  ASSUME IInv, NEW w \in Wallets, NEW welcome \in welcomes, Accept(w, welcome)
  PROVE  IInv'
<1>0. /\ mls[w] \in Mls /\ Idle \in Proc /\ state[w] \in State
      /\ mls[w].ratchet \in Nat
      /\ state[w].group = NoGroup \/ state[w].group \in mls[w].groups
  BY Held
<1>1. welcome.group \in Group
  BY DEF IInv, MarmotTyped, Welcome
<1>2. PICK used \in {{}, {welcome.package}} :
        mls' = [mls EXCEPT ![w].groups = @ \cup {welcome.group}, ![w].keys = @ \ used]
  BY DEF Accept
<1> DEFINE m == [mls[w] EXCEPT !.groups = @ \cup {welcome.group}, !.keys = @ \ used]
           p == [Idle EXCEPT !.doing = "accept", !.group = welcome.group]
<1>3. /\ m \in Mls /\ m.ratchet = mls[w].ratchet
      /\ m.groups = mls[w].groups \cup {welcome.group}
  BY <1>0, <1>1 DEF Mls
<1>4. p \in Proc /\ p.doing = "accept" /\ p.group = welcome.group
  BY <1>0, <1>1 DEF Proc
<1>5. Fits(w, m, state[w], p)
  <2> HIDE DEF m, p
  <2> QED
    BY <1>0, <1>1, <1>3, <1>4 DEF Fits
<1>6. mls' = [mls EXCEPT ![w] = m]
  <2>1. mls \in [Wallets -> Mls]
    BY DEF IInv, MarmotTyped
  <2> QED
    BY <1>2, <2>1 DEF Mls
<1>7. RestTyped' /\ events' = events /\ state' = [state EXCEPT ![w] = state[w]]
  BY Held DEF Accept, RestTyped
<1>8. proc' = [proc EXCEPT ![w] = p]
  BY DEF Accept
<1> HIDE DEF m, p
<1> QED
  BY <1>5, <1>6, <1>7, <1>8, StepKeeps

(* send: mls.json is past the key before the message is anywhere else, ... *)
LEMMA SendStep ==
  ASSUME IInv, NEW w \in Wallets, NEW now \in Clock, Send(w, now)
  PROVE  IInv'
<1> DEFINE e == NewEvent(w, now)
           m == [mls[w] EXCEPT !.ratchet = @ + 1]
           p == [Idle EXCEPT !.doing = "send", !.batch = <<e>>]
<1>0. /\ mls[w] \in Mls /\ Idle \in Proc /\ state[w] \in State
      /\ mls[w].ratchet \in Nat /\ state[w].next_seq \in Nat
      /\ state[w].group = NoGroup \/ state[w].group \in mls[w].groups
  BY Held
<1>1. made[w] \in [packages : Nat, groups : Nat, sends : Nat]
  BY DEF IInv, MarmotTyped
<1>2. e \in Event /\ e.from = w /\ e.key = mls[w].ratchet
  <2>1. state[w].group \in Group
    BY <1>0 DEF Send, Sending, State
  <2>2. now \in Nat /\ made[w].sends + 1 \in Nat
    BY <1>1, ClockAssumption
  <2> QED
    BY <1>0, <2>1, <2>2 DEF NewEvent, Event
<1>3. m \in Mls /\ m.ratchet = mls[w].ratchet + 1 /\ m.groups = mls[w].groups
  BY <1>0 DEF Mls
<1>4. p \in Proc /\ p.doing = "send" /\ p.batch = <<e>>
  <2> HIDE DEF e
  <2>1. <<e>> \in Seq(Event)
    BY <1>2
  <2> QED
    BY <1>0, <2>1 DEF Proc
<1>5. \A f \in events : f.from = w => f.key # e.key
  <2> SUFFICES ASSUME NEW f \in events, f.from = w PROVE f.key # mls[w].ratchet
    BY <1>2
  <2>1. f.key < mls[w].ratchet /\ f.key \in Nat
    BY DEF IInv, RatchetIsPast, MarmotTyped, Event
  <2> QED
    BY <1>0, <2>1
<1>6. Fits(w, m, state[w], p)
  <2> HIDE DEF e, m, p
  <2>1. mls[w].ratchet <= m.ratchet /\ e.key < m.ratchet
    BY <1>0, <1>2, <1>3
  <2> QED
    BY <1>0, <1>2, <1>3, <1>4, <1>5, <2>1 DEF Fits
<1>7. RestTyped'
  <2>1. made' = [made EXCEPT ![w] = [made[w] EXCEPT !.sends = @ + 1]]
    BY DEF Send, Sending
  <2>2. [made[w] EXCEPT !.sends = @ + 1] \in [packages : Nat, groups : Nat, sends : Nat]
    BY <1>1
  <2>3. upset' \subseteq Wallets
    BY Held DEF Send, Sending, RestTyped
  <2>4. RestTyped
    BY Held
  <2> QED
    BY <2>1, <2>2, <2>3, <2>4 DEF Send, Sending, RestTyped
<1>8. mls' = [mls EXCEPT ![w] = m] /\ proc' = [proc EXCEPT ![w] = p]
  BY DEF Send, Sending
<1>9. state' = [state EXCEPT ![w] = state[w]] /\ events' = events
  BY Held DEF Send, Sending
<1> HIDE DEF m, p
<1> QED
  BY <1>6, <1>7, <1>8, <1>9, StepKeeps

(* ... state.json has it then, ...                                         *)
LEMMA SaveSendStep ==
  ASSUME IInv, NEW w \in Wallets, SaveSend(w)
  PROVE  IInv'
<1> DEFINE s == [state[w] EXCEPT !.seen = @ \cup ToSet(proc[w].batch), !.next_seq = @ + 1]
           p == [proc[w] EXCEPT !.doing = "publish"]
<1>0. /\ mls[w] \in Mls /\ Idle \in Proc /\ state[w] \in State /\ proc[w] \in Proc
      /\ mls[w].ratchet \in Nat /\ state[w].next_seq \in Nat
      /\ state[w].group = NoGroup \/ state[w].group \in mls[w].groups
  BY Held
<1>1. ToSet(proc[w].batch) \subseteq Event
  BY <1>0 DEF Proc, ToSet
<1>2. s \in State /\ s.group = state[w].group
  <2> DEFINE seen == state[w].seen \cup ToSet(proc[w].batch)
             next == state[w].next_seq + 1
  <2>1. seen \subseteq Event /\ next \in Nat
    BY <1>0, <1>1 DEF State
  <2> HIDE DEF seen, next
  <2>2. [state[w] EXCEPT !.seen = seen, !.next_seq = next] \in State
    BY <1>0, <2>1 DEF State
  <2>3. s.group = state[w].group
    BY <1>0 DEF State
  <2> QED
    BY <2>2, <2>3 DEF seen, next
<1>3. p \in Proc /\ p.doing = "publish" /\ p.batch = proc[w].batch
  BY <1>0 DEF Proc
<1>4. KeyIsNew(w)
  BY DEF IInv, RatchetIsPast, SaveSend
<1>5. Fits(w, mls[w], s, p)
  <2> HIDE DEF s, p
  <2> QED
    BY <1>0, <1>2, <1>3, <1>4 DEF Fits, KeyIsNew
<1>6. state' = [state EXCEPT ![w] = s]
  <2>1. state \in [Wallets -> State]
    BY DEF IInv, MarmotTyped
  <2> QED
    BY <2>1 DEF SaveSend, State
<1>7. RestTyped' /\ events' = events /\ mls' = [mls EXCEPT ![w] = mls[w]]
  BY Held DEF SaveSend, RestTyped
<1>8. proc' = [proc EXCEPT ![w] = p]
  BY DEF SaveSend
<1> HIDE DEF s, p
<1> QED
  BY <1>5, <1>6, <1>7, <1>8, StepKeeps

(* ... and it leaves: no other message has its key.                        *)
LEMMA PublishStep ==
  ASSUME IInv, NEW w \in Wallets, Publish(w)
  PROVE  IInv'
<1>1. /\ mls \in [Wallets -> Mls] /\ proc \in [Wallets -> Proc]
      /\ events \subseteq Event /\ IsFiniteSet(events)
      /\ mls' = mls /\ state' = state
  BY DEF IInv, MarmotTyped, Publish
<1>2. PICK e \in Event :
        /\ proc[w].batch = <<e>> /\ e.from = w
        /\ e.key < mls[w].ratchet
        /\ \A f \in events : f.from = w => f.key # e.key
  BY DEF IInv, RatchetIsPast, KeyIsNew, Publish
<1>3. events' = events \cup {e}
  <2>1. ToSet(<<e>>) = {e}
    BY DEF ToSet
  <2> QED
    BY <1>2, <2>1 DEF Publish
<1>4. Idle \in Proc /\ Idle.doing = "nothing"
  BY DEF Idle, Proc
<1>5. proc' = [proc EXCEPT ![w] = Idle]
  BY DEF Publish
<1>6. MarmotTyped'
  <2>1. IsFiniteSet(events')
    BY <1>1, <1>3, FS_AddElement
  <2>2. reached' \in [Wallets -> SUBSET events']
    BY <1>3 DEF Publish, IInv, MarmotTyped
  <2> QED
    BY <1>1, <1>3, <1>4, <1>5, <2>1, <2>2 DEF Publish, IInv, MarmotTyped
<1>7. OperationTyped' /\ HeldBefore' /\ GroupIsHeld'
  BY <1>1, <1>4, <1>5 DEF IInv, OperationTyped, HeldBefore, GroupIsHeld
<1>8. RatchetIsPast'
  <2>1. \A f \in events' : f.key < mls'[f.from].ratchet
    BY <1>1, <1>2, <1>3 DEF IInv, RatchetIsPast
  <2>2. ASSUME NEW v \in Wallets, proc'[v].doing \in {"send", "publish"}
        PROVE  KeyIsNew(v)'
    <3>1. v # w /\ proc'[v] = proc[v]
      BY <1>1, <1>4, <1>5, <2>2
    <3>2. KeyIsNew(v)
      BY <3>1, <2>2 DEF IInv, RatchetIsPast
    <3> QED
      BY <1>1, <1>2, <1>3, <3>1, <3>2 DEF KeyIsNew
  <2> QED
    BY <2>1, <2>2 DEF RatchetIsPast
<1>9. KeyUsedOnce'
  <2>1. \A f, g \in events : Unlocks(f) = Unlocks(g) => f = g
    BY DEF IInv, KeyUsedOnce
  <2>2. \A f \in events : Unlocks(f) # Unlocks(e)
    BY <1>2 DEF Unlocks
  <2> QED
    BY <1>3, <2>1, <2>2 DEF KeyUsedOnce
<1> QED
  BY <1>6, <1>7, <1>8, <1>9 DEF IInv

(* poll: the batch is a sequence of messages, the keys used up are keys.   *)
LEMMA PollStep ==
  ASSUME IInv, NEW w \in Wallets, Poll(w)
  PROVE  IInv'
<1>0. /\ mls[w] \in Mls /\ Idle \in Proc /\ state[w] \in State
      /\ mls[w].ratchet \in Nat
      /\ state[w].group = NoGroup \/ state[w].group \in mls[w].groups
  BY Held
<1>1. PICK batch \in Sorted(Opened(w)) :
        Become(w, [Idle EXCEPT !.doing = "poll", !.batch = batch, !.fresh = Fresh(w)])
  BY DEF Poll
<1> DEFINE used == {Unlocks(e) : e \in Opened(w)}
           m == [mls[w] EXCEPT !.opened = @ \cup used]
           p == [Idle EXCEPT !.doing = "poll", !.batch = batch, !.fresh = Fresh(w)]
<1>2. Opened(w) \subseteq Event /\ Fresh(w) \subseteq Event
  BY DEF IInv, MarmotTyped, Opened, Fresh
<1>3. batch \in Seq(Event)
  <2>1. IsFiniteSet(Opened(w))
    <3>1. Opened(w) \subseteq events /\ IsFiniteSet(events)
      BY DEF IInv, MarmotTyped, Opened, Fresh
    <3> QED
      BY <3>1, FS_Subset
  <2>2. Cardinality(Opened(w)) \in Nat
    BY <2>1, FS_CardinalityType
  <2>3. batch \in [1..Cardinality(Opened(w)) -> Opened(w)]
    BY DEF Sorted, SetToSeqs
  <2>4. batch \in [1..Cardinality(Opened(w)) -> Event]
    BY <1>2, <2>3
  <2> QED
    BY <2>2, <2>4
<1>4. used \subseteq Generation
  BY <1>2 DEF Unlocks, Generation, Event
<1>5. m \in Mls /\ m.ratchet = mls[w].ratchet /\ m.groups = mls[w].groups
  <2> HIDE DEF used
  <2> QED
    BY <1>0, <1>4 DEF Mls
<1>6. p \in Proc /\ p.doing = "poll"
  BY <1>0, <1>2, <1>3 DEF Proc
<1>7. Fits(w, m, state[w], p)
  <2> HIDE DEF m, p
  <2> QED
    BY <1>0, <1>5, <1>6 DEF Fits
<1>8. mls' = [mls EXCEPT ![w] = m] /\ proc' = [proc EXCEPT ![w] = p]
  BY <1>1 DEF Poll
<1>9. RestTyped' /\ events' = events /\ state' = [state EXCEPT ![w] = state[w]]
  BY Held DEF Poll, RestTyped
<1> HIDE DEF m, p
<1> QED
  BY <1>7, <1>8, <1>9, StepKeeps

LEMMA SavePollStep ==
  ASSUME IInv, NEW w \in Wallets, SavePoll(w)
  PROVE  IInv'
<1> DEFINE s == [state[w] EXCEPT !.seen = @ \cup proc[w].fresh]
           p == [proc[w] EXCEPT !.doing = "return", !.fresh = {}]
<1>0. /\ mls[w] \in Mls /\ state[w] \in State /\ proc[w] \in Proc
      /\ mls[w].ratchet \in Nat
      /\ state[w].group = NoGroup \/ state[w].group \in mls[w].groups
  BY Held
<1>1. proc[w].fresh \subseteq Event
  BY <1>0 DEF Proc
<1>2. s \in State /\ s.group = state[w].group
  BY <1>0, <1>1 DEF State
<1>3. p \in Proc /\ p.doing = "return"
  BY <1>0 DEF Proc
<1>4. Fits(w, mls[w], s, p)
  <2> HIDE DEF s, p
  <2> QED
    BY <1>0, <1>2, <1>3 DEF Fits
<1>5. RestTyped' /\ events' = events /\ mls' = [mls EXCEPT ![w] = mls[w]]
  BY Held DEF SavePoll, RestTyped
<1>6. state' = [state EXCEPT ![w] = s] /\ proc' = [proc EXCEPT ![w] = p]
  BY DEF SavePoll
<1> HIDE DEF s, p
<1> QED
  BY <1>4, <1>5, <1>6, StepKeeps

(* receive returns, or any operation is stopped.                           *)
LEMMA EndStep ==
  ASSUME IInv, NEW w \in Wallets, Return(w) \/ Stop(w)
  PROVE  IInv'
<1>0. /\ mls[w] \in Mls /\ Idle \in Proc /\ state[w] \in State /\ proc[w] \in Proc
      /\ mls[w].ratchet \in Nat /\ RestTyped
      /\ state[w].group = NoGroup \/ state[w].group \in mls[w].groups
  BY Held
<1>1. Idle.doing = "nothing"
  BY DEF Idle
<1>2. Fits(w, mls[w], state[w], Idle)
  BY <1>0, <1>1 DEF Fits
<1>3. proc[w].batch \in Seq(Event) /\ ToSet(proc[w].batch) \subseteq Event
  BY <1>0 DEF Proc, ToSet
<1>4. RestTyped'
  <2>1. CASE Return(w)
    <3>1. returned[w] \o proc[w].batch \in Seq(Event)
      BY <1>0, <1>3 DEF RestTyped
    <3> QED
      BY <1>0, <2>1, <3>1 DEF Return, RestTyped
  <2>2. CASE Stop(w)
    <3>1. lost' \in [Wallets -> SUBSET Event]
      BY <1>0, <1>3, <2>2 DEF Stop, RestTyped
    <3> QED
      BY <1>0, <2>2, <3>1 DEF Stop, RestTyped
  <2> QED
    BY <2>1, <2>2
<1>5. mls' = [mls EXCEPT ![w] = mls[w]] /\ state' = [state EXCEPT ![w] = state[w]]
  BY Held DEF Return, Stop
<1>6. proc' = [proc EXCEPT ![w] = Idle] /\ events' = events
  BY DEF Return, Stop
<1> QED
  BY <1>2, <1>4, <1>5, <1>6, StepKeeps

(* A message that reaches a wallet changes neither files nor memory.       *)
LEMMA ArriveStep ==
  ASSUME IInv, NEW w \in Wallets, NEW e \in events, Arrive(w, e)
  PROVE  IInv'
<1>1. e.from \in Wallets /\ UNCHANGED <<mls, state, proc, events>>
  BY DEF IInv, MarmotTyped, Event, Arrive
<1>2. MarmotTyped'
  BY <1>1 DEF IInv, MarmotTyped, Arrive
<1> QED
  BY <1>1, <1>2 DEF IInv, OperationTyped, HeldBefore, GroupIsHeld, KeyUsedOnce,
                    RatchetIsPast, KeyIsNew

LEMMA NextIInv == IInv /\ [Next]_vars => IInv'
<1> SUFFICES ASSUME IInv, [Next]_vars PROVE IInv'
  OBVIOUS
<1>1. CASE UNCHANGED vars
  BY <1>1 DEF vars, IInv, MarmotTyped, OperationTyped, HeldBefore, GroupIsHeld,
              KeyUsedOnce, RatchetIsPast, KeyIsNew
<1>2. ASSUME NEW w \in Wallets, SetUp(w) PROVE IInv'
  BY <1>2, SavePackageStep, PublishPackageStep, InviteStep, SaveGroupStep,
     SendWelcomeStep, AcceptStep DEF SetUp
<1>3. ASSUME NEW w \in Wallets, Sends(w) PROVE IInv'
  BY <1>3, SendStep, SaveSendStep, PublishStep DEF Sends
<1>4. ASSUME NEW w \in Wallets, Receives(w) PROVE IInv'
  BY <1>4, PollStep, SavePollStep, EndStep DEF Receives
<1> QED
  BY <1>1, <1>2, <1>3, <1>4, EndStep, ArriveStep DEF Next

LEMMA Invariant == Spec => []IInv
BY InitIInv, NextIInv, PTL DEF Spec

(* Files, memory and relays keep their types.                              *)
THEOREM MarmotTypeCorrect == Spec => []MarmotTyped
<1>1. IInv => MarmotTyped
  BY DEF IInv
<1> QED
  BY <1>1, Invariant, PTL

(* A restart never reuses a key: two messages on the relays are never      *)
(* encrypted under one generation of a sender's ratchet.                   *)
THEOREM KeysUsedOnce == Spec => []KeyUsedOnce
<1>1. IInv => KeyUsedOnce
  BY DEF IInv
<1> QED
  BY <1>1, Invariant, PTL

(* The group in state.json is one that mls.json holds, wherever inviting   *)
(* or accepting was stopped.                                               *)
THEOREM GroupsHeld == Spec => []GroupIsHeld
<1>1. IInv => GroupIsHeld
  BY DEF IInv
<1> QED
  BY <1>1, Invariant, PTL

-----------------------------------------------------------------------------
(* Who is sent a welcome can take it.                                      *)

CanOpen(k) == k \in mls[k.by].keys \/ mls[k.by].groups # {}

(* What an invitation or an acceptance that is under way relies on.        *)
UnderWay(w) ==
  /\ proc[w].doing \in {"invite", "accept"} => Alone(w)
  /\ proc[w].doing \in {"invite", "welcome", "accept"} => proc[w].group # NoGroup
  /\ proc[w].doing \in {"invite", "welcome"} =>
       proc[w].group.by = w /\ proc[w].package \subseteq packages
  /\ proc[w].doing = "welcome" => state[w].group = proc[w].group
  /\ proc[w].doing = "package" => \A k \in proc[w].package : CanOpen(k)

(* No wallet leaves a group or uses up a key package but to join a group.  *)
OpenInv ==
  /\ \A w \in Wallets : UnderWay(w)
  /\ \A k \in packages : CanOpen(k)
  /\ \A welcome \in welcomes :
       /\ welcome.package \in packages /\ welcome.group # NoGroup
       /\ state[welcome.group.by].group = welcome.group

(* A step of w leaves what belongs to other wallets, and relays, messages  *)
(* and senders that were upset once are not forgotten.                     *)
Local(w) ==
  /\ \A v \in Wallets \ {w} :
       /\ mls'[v] = mls[v] /\ state'[v] = state[v] /\ proc'[v] = proc[v]
       /\ reached'[v] = reached[v] /\ made'[v] = made[v]
       /\ returned'[v] = returned[v] /\ lost'[v] = lost[v]
  /\ packages \subseteq packages' /\ events \subseteq events' /\ upset \subseteq upset'

Act(w) ==
  \/ SetUp(w) \/ Sends(w) \/ Receives(w) \/ Stop(w)
  \/ \E e \in events : Arrive(w, e)

LEMMA Functions ==
  ASSUME IInv
  PROVE  /\ mls \in [Wallets -> Mls] /\ state \in [Wallets -> State] /\ proc \in [Wallets -> Proc]
         /\ reached \in [Wallets -> SUBSET events] /\ events \subseteq Event
         /\ made \in [Wallets -> [packages : Nat, groups : Nat, sends : Nat]]
         /\ returned \in [Wallets -> Seq(Event)] /\ lost \in [Wallets -> SUBSET Event]
         /\ packages \subseteq Package /\ welcomes \subseteq Welcome /\ upset \subseteq Wallets
         /\ IsFiniteSet(events)
BY DEF IInv, MarmotTyped

LEMMA ActIsLocal ==
  ASSUME IInv, NEW w \in Wallets, Act(w)
  PROVE  Local(w)
<1>0. /\ mls \in [Wallets -> Mls] /\ state \in [Wallets -> State] /\ proc \in [Wallets -> Proc]
      /\ reached \in [Wallets -> SUBSET events]
      /\ made \in [Wallets -> [packages : Nat, groups : Nat, sends : Nat]]
      /\ returned \in [Wallets -> Seq(Event)] /\ lost \in [Wallets -> SUBSET Event]
  BY Functions
<1> USE DEF Local
<1>1. CASE SavePackage(w)
  BY <1>0, <1>1 DEF SavePackage
<1>2. CASE PublishPackage(w)
  BY <1>0, <1>2 DEF PublishPackage
<1>3. ASSUME NEW k \in packages, Invite(w, k) PROVE Local(w)
  BY <1>0, <1>3 DEF Invite, Inviting
<1>4. CASE SaveInvite(w)
  BY <1>0, <1>4 DEF SaveInvite
<1>5. CASE SendWelcome(w)
  BY <1>0, <1>5 DEF SendWelcome
<1>6. ASSUME NEW welcome \in welcomes, Accept(w, welcome) PROVE Local(w)
  BY <1>0, <1>6 DEF Accept
<1>7. CASE SaveAccept(w)
  BY <1>0, <1>7 DEF SaveAccept
<1>8. CASE SaveSend(w)
  BY <1>0, <1>8 DEF SaveSend
<1>9. CASE Publish(w)
  BY <1>0, <1>9 DEF Publish
<1>10. ASSUME NEW now \in Clock, Send(w, now) PROVE Local(w)
  BY <1>0, <1>10 DEF Send, Sending
<1>11. CASE Poll(w)
  BY <1>0, <1>11 DEF Poll
<1>12. CASE SavePoll(w)
  BY <1>0, <1>12 DEF SavePoll
<1>13. CASE Return(w)
  BY <1>0, <1>13 DEF Return
<1>14. CASE Stop(w)
  BY <1>0, <1>14 DEF Stop
<1>15. ASSUME NEW e \in events, Arrive(w, e) PROVE Local(w)
  BY <1>0, <1>15 DEF Arrive
<1> HIDE DEF Local
<1> QED
  BY <1>1, <1>2, <1>3, <1>4, <1>5, <1>6, <1>7, <1>8, <1>9, <1>10, <1>11, <1>12, <1>13, <1>14, <1>15
  DEF Act, SetUp, Sends, Receives

(* Keys and groups of w: none is given up but a key package for a group.   *)
LEMMA KeysStay ==
  ASSUME IInv, NEW w \in Wallets, Act(w)
  PROVE  /\ mls[w].groups \subseteq mls'[w].groups
         /\ mls[w].keys \subseteq mls'[w].keys \/ mls'[w].groups # {}
<1>0. mls \in [Wallets -> Mls]
  BY Functions
<1>1. mls[w] \in Mls
  BY <1>0
<1>2. CASE SavePackage(w)
  BY <1>0, <1>1, <1>2 DEF SavePackage, Mls
<1>3. ASSUME NEW k \in packages, Invite(w, k)
      PROVE  mls[w].groups \subseteq mls'[w].groups /\ mls[w].keys \subseteq mls'[w].keys
  BY <1>0, <1>1, <1>3 DEF Invite, Mls
<1>4. ASSUME NEW welcome \in welcomes, Accept(w, welcome)
      PROVE  mls[w].groups \subseteq mls'[w].groups /\ mls'[w].groups # {}
  BY <1>0, <1>1, <1>4 DEF Accept, Mls
<1>5. ASSUME NEW now \in Clock, Send(w, now)
      PROVE  mls[w].groups \subseteq mls'[w].groups /\ mls[w].keys \subseteq mls'[w].keys
  BY <1>0, <1>1, <1>5 DEF Send, Mls
<1>6. CASE Poll(w)
  <2>1. PICK used : mls' = [mls EXCEPT ![w].opened = @ \cup used]
    BY <1>6 DEF Poll
  <2> QED BY <2>1, <1>0, <1>1 DEF Mls
<1>7. CASE UNCHANGED mls
  BY <1>7
<1>8. \/ SavePackage(w) \/ Poll(w) \/ UNCHANGED mls
      \/ \E k \in packages : Invite(w, k)
      \/ \E welcome \in welcomes : Accept(w, welcome)
      \/ \E now \in Clock : Send(w, now)
  BY DEF Act, SetUp, Sends, Receives, PublishPackage, SaveInvite, SendWelcome, SaveAccept, SaveSend,
         Publish, SavePoll, Return, Stop, Arrive
<1> QED BY <1>2, <1>3, <1>4, <1>5, <1>6, <1>7, <1>8

LEMMA OpenStays ==
  ASSUME IInv, NEW w \in Wallets, Act(w)
  PROVE  \A k \in Package : CanOpen(k) => CanOpen(k)'
<1> SUFFICES ASSUME NEW k \in Package, CanOpen(k) PROVE CanOpen(k)'
  OBVIOUS
<1>1. k.by \in Wallets
  BY DEF Package
<1>2. CASE k.by = w
  BY <1>2, KeysStay DEF CanOpen
<1>3. CASE k.by # w
  BY <1>1, <1>3, ActIsLocal DEF CanOpen, Local
<1> QED BY <1>2, <1>3

(* state.json names another group only if it named none.                   *)
LEMMA GroupStays ==
  ASSUME IInv, OpenInv, NEW w \in Wallets, Act(w)
  PROVE  \/ state'[w].group = state[w].group
         \/ /\ Alone(w) /\ state'[w].group = proc[w].group
            /\ proc[w].doing \in {"invite", "accept"}
            /\ state'[w].seen = state[w].seen
<1>0. state \in [Wallets -> State] /\ state[w] \in State
  BY Functions
<1>1. CASE SaveInvite(w)
  BY <1>0, <1>1 DEF SaveInvite, State, OpenInv, UnderWay
<1>2. CASE SaveAccept(w)
  BY <1>0, <1>2 DEF SaveAccept, State, OpenInv, UnderWay
<1>3. CASE SaveSend(w)
  BY <1>0, <1>3 DEF SaveSend, State
<1>4. CASE SavePoll(w)
  BY <1>0, <1>4 DEF SavePoll, State
<1>5. CASE UNCHANGED state
  BY <1>5
<1>6. SaveInvite(w) \/ SaveAccept(w) \/ SaveSend(w) \/ SavePoll(w) \/ UNCHANGED state
  BY DEF Act, SetUp, Sends, Receives, SavePackage, PublishPackage, Invite, SendWelcome, Accept, Send,
         Sending, Publish, Poll, Return, Stop, Arrive
<1> QED BY <1>1, <1>2, <1>3, <1>4, <1>5, <1>6

LEMMA UnderWayStays ==
  ASSUME IInv, OpenInv, NEW w \in Wallets, Act(w), NEW v \in Wallets, v # w
  PROVE  UnderWay(v)'
<1>1. proc'[v] = proc[v] /\ state'[v] = state[v] /\ packages \subseteq packages'
  BY ActIsLocal DEF Local
<1>2. proc[v].package \subseteq Package
  <2>1. proc[v] \in Proc
    BY Functions
  <2> QED BY <2>1 DEF Proc
<1>3. UnderWay(v)
  BY DEF OpenInv
<1> QED BY <1>1, <1>2, <1>3, OpenStays DEF UnderWay

LEMMA UnderWayMoves ==
  ASSUME IInv, OpenInv, NEW w \in Wallets, Act(w)
  PROVE  UnderWay(w)'
<1>0. /\ mls \in [Wallets -> Mls] /\ state \in [Wallets -> State] /\ proc \in [Wallets -> Proc]
      /\ mls[w] \in Mls /\ state[w] \in State /\ proc[w] \in Proc
      /\ packages \subseteq Package /\ welcomes \subseteq Welcome
      /\ made[w] \in [packages : Nat, groups : Nat, sends : Nat]
  BY Functions
<1>1. UnderWay(w)
  BY DEF OpenInv
<1> DEFINE Quiet(p) == p.doing \notin {"invite", "accept", "welcome", "package"}
<1>2. Quiet(proc'[w]) => UnderWay(w)'
  BY DEF UnderWay
<1>3. Quiet(Idle)
  BY DEF Idle
<1>4. CASE SavePackage(w)
  <2>1. proc'[w] = [Idle EXCEPT !.doing = "package", !.package = {NewPackage(w)}]
        /\ mls'[w].keys = mls[w].keys \cup {NewPackage(w)} /\ NewPackage(w).by = w
    BY <1>0, <1>4 DEF SavePackage, Mls, NewPackage
  <2>2. proc'[w].doing = "package" /\ \A k \in proc'[w].package : k = NewPackage(w)
    BY <2>1 DEF Idle
  <2>3. \A k \in proc'[w].package : CanOpen(k)'
    BY <2>1, <2>2 DEF CanOpen
  <2> QED BY <2>2, <2>3 DEF UnderWay
<1>5. ASSUME NEW k \in packages, Invite(w, k) PROVE UnderWay(w)'
  <2>1. proc'[w] = [Idle EXCEPT !.doing = "invite", !.group = NewGroup(w), !.package = {k}]
        /\ state' = state /\ packages' = packages /\ Alone(w)
    BY <1>0, <1>5 DEF Invite, Inviting
  <2>2. NewGroup(w) # NoGroup /\ NewGroup(w).by = w
    BY <1>0 DEF NewGroup, NoGroup
  <2> QED BY <2>1, <2>2 DEF UnderWay, Idle
<1>6. CASE SaveInvite(w)
  <2>1. proc'[w] = [proc[w] EXCEPT !.doing = "welcome"] /\ proc[w].doing = "invite"
        /\ state'[w].group = proc[w].group /\ packages' = packages
    BY <1>0, <1>6 DEF SaveInvite, State
  <2> QED BY <2>1, <1>0, <1>1 DEF UnderWay, Proc
<1>7. ASSUME NEW welcome \in welcomes, Accept(w, welcome) PROVE UnderWay(w)'
  <2>1. proc'[w] = [Idle EXCEPT !.doing = "accept", !.group = welcome.group]
        /\ state' = state /\ Alone(w)
    BY <1>0, <1>7 DEF Accept
  <2>2. welcome.group # NoGroup
    BY DEF OpenInv
  <2> QED BY <2>1, <2>2 DEF UnderWay, Idle
<1>8. CASE SavePoll(w) \/ SaveSend(w)
  <2>1. proc'[w].doing \in {"return", "publish"}
    <3>1. CASE SavePoll(w)
      BY <1>0, <3>1 DEF SavePoll, Proc
    <3>2. CASE SaveSend(w)
      BY <1>0, <3>2 DEF SaveSend, Proc
    <3> QED BY <3>1, <3>2, <1>8
  <2> QED BY <2>1, <1>2
<1>9. CASE Poll(w)
  BY <1>0, <1>9, <1>2 DEF Poll, Idle
<1>10. ASSUME NEW now \in Clock, Send(w, now) PROVE UnderWay(w)'
  BY <1>0, <1>10, <1>2 DEF Send, Sending, Idle
<1>11. CASE proc'[w] = Idle
  BY <1>11, <1>2, <1>3
<1>12. PublishPackage(w) \/ SendWelcome(w) \/ SaveAccept(w) \/ Publish(w) \/ Return(w) \/ Stop(w) => proc'[w] = Idle
  BY <1>0 DEF PublishPackage, SendWelcome, SaveAccept, Publish, Return, Stop
<1>13. ASSUME NEW e \in events, Arrive(w, e) PROVE UnderWay(w)'
  BY <1>1, <1>13 DEF Arrive, UnderWay, CanOpen
<1> QED BY <1>4, <1>5, <1>6, <1>7, <1>8, <1>9, <1>10, <1>11, <1>12, <1>13
        DEF Act, SetUp, Sends, Receives

LEMMA ActKeepsOpen ==
  ASSUME IInv, OpenInv, NEW w \in Wallets, Act(w)
  PROVE  OpenInv'
<1>0. /\ proc \in [Wallets -> Proc] /\ proc[w] \in Proc
      /\ packages \subseteq Package /\ welcomes \subseteq Welcome
  BY Functions
<1>1. \A v \in Wallets : UnderWay(v)'
  BY UnderWayStays, UnderWayMoves
<1>2. \A k \in packages' : CanOpen(k)'
  <2>1. CASE PublishPackage(w)
    <3>1. packages' = packages \cup proc[w].package /\ proc[w].doing = "package" /\ proc[w].package \subseteq Package
      BY <2>1, <1>0 DEF PublishPackage, Proc
    <3>2. \A k \in proc[w].package : CanOpen(k)
      BY <3>1 DEF OpenInv, UnderWay
    <3> QED BY <3>1, <3>2, <1>0, OpenStays DEF OpenInv
  <2>2. CASE packages' = packages
    BY <2>2, <1>0, OpenStays DEF OpenInv
  <2>3. PublishPackage(w) \/ packages' = packages
    BY DEF Act, SetUp, Sends, Receives, SavePackage, Invite, SaveInvite, SendWelcome, Accept, SaveAccept,
           Send, Sending, SaveSend, Publish, Poll, SavePoll, Return, Stop, Arrive
  <2> QED BY <2>1, <2>2, <2>3
<1>3. \A welcome \in Welcome :
        welcome.group # NoGroup /\ state[welcome.group.by].group = welcome.group =>
          state'[welcome.group.by].group = welcome.group
  <2> SUFFICES ASSUME NEW welcome \in Welcome, welcome.group # NoGroup,
                      state[welcome.group.by].group = welcome.group
               PROVE  state'[welcome.group.by].group = welcome.group
    OBVIOUS
  <2>1. welcome.group.by \in Wallets
    BY DEF Welcome, Group
  <2>2. CASE welcome.group.by = w
    BY <2>2, GroupStays
  <2>3. CASE welcome.group.by # w
    BY <2>1, <2>3, ActIsLocal DEF Local
  <2> QED BY <2>2, <2>3
<1>4. \A welcome \in welcomes' :
       /\ welcome.package \in packages' /\ welcome.group # NoGroup
       /\ state'[welcome.group.by].group = welcome.group
  <2>0. packages \subseteq packages'
    BY ActIsLocal DEF Local
  <2>1. CASE SendWelcome(w)
    <3>1. /\ welcomes' = welcomes \cup {[group |-> proc[w].group, package |-> k] : k \in proc[w].package}
          /\ proc[w].doing = "welcome" /\ state' = state /\ packages' = packages
      BY <2>1 DEF SendWelcome
    <3>2. proc[w].group # NoGroup /\ proc[w].group.by = w /\ proc[w].package \subseteq packages
          /\ state[w].group = proc[w].group
      BY <3>1 DEF OpenInv, UnderWay
    <3>3. TAKE welcome \in welcomes'
    <3>4. CASE welcome \in welcomes
      BY <3>4, <3>1 DEF OpenInv
    <3>5. CASE welcome \in {[group |-> proc[w].group, package |-> k] : k \in proc[w].package}
      <4>1. welcome.group = proc[w].group /\ welcome.package \in proc[w].package
        BY <3>5
      <4> QED BY <4>1, <3>1, <3>2
    <3> QED BY <3>1, <3>4, <3>5
  <2>2. CASE welcomes' = welcomes
    BY <2>0, <2>2, <1>0, <1>3 DEF OpenInv
  <2>3. SendWelcome(w) \/ welcomes' = welcomes
    BY DEF Act, SetUp, Sends, Receives, SavePackage, PublishPackage, Invite, SaveInvite, Accept, SaveAccept,
           Send, Sending, SaveSend, Publish, Poll, SavePoll, Return, Stop, Arrive
  <2> QED BY <2>1, <2>2, <2>3
<1> QED BY <1>1, <1>2, <1>4 DEF OpenInv

LEMMA AlwaysOpen == Spec => [](IInv /\ OpenInv)
<1>1. Init => OpenInv
  BY DEF Init, OpenInv, UnderWay, Idle
<1>2. IInv /\ OpenInv /\ [Next]_vars => OpenInv'
  <2> SUFFICES ASSUME IInv, OpenInv, [Next]_vars PROVE OpenInv'
    OBVIOUS
  <2>1. CASE UNCHANGED vars
    BY <2>1 DEF vars, OpenInv, UnderWay, CanOpen
  <2>2. CASE Next
    BY <2>2, ActKeepsOpen DEF Next, Act
  <2> QED BY <2>1, <2>2
<1> QED BY <1>1, <1>2, InitIInv, NextIInv, PTL DEF Spec

(* Whoever is sent a welcome can take it: invite publishes the welcome     *)
(* after both of its files were saved, publish_key_package the package     *)
(* after its private half was, and accept gives a package up only for a    *)
(* group, wherever any of them was stopped.                                *)
THEOREM WelcomesOpen == Spec => []InvitesOpen
<1>1. IInv /\ OpenInv => InvitesOpen
  <2> SUFFICES ASSUME IInv, OpenInv, NEW welcome \in welcomes
               PROVE  /\ state[welcome.group.by].group = welcome.group
                      /\ welcome.group \in mls[welcome.group.by].groups
                      /\ welcome.package \in mls[welcome.package.by].keys
                           \/ mls[welcome.package.by].groups # {}
    BY DEF InvitesOpen
  <2>1. welcome.group.by \in Wallets
    BY Functions DEF Welcome, Group
  <2>2. state[welcome.group.by].group = welcome.group /\ welcome.group # NoGroup
        /\ CanOpen(welcome.package)
    BY DEF OpenInv
  <2>3. welcome.group \in mls[welcome.group.by].groups
    BY <2>1, <2>2 DEF IInv, GroupIsHeld
  <2> QED BY <2>2, <2>3 DEF CanOpen
<1> QED BY <1>1, AlwaysOpen, PTL

-----------------------------------------------------------------------------
(* A sender's messages are numbered, counted and timed alike.              *)

(* e is a later message than all that w published.                         *)
Newer(e, w) ==
  \A f \in events : f.from = w =>
    f.no < e.no /\ f.seq < e.seq /\ (w \notin upset => f.at <= e.at)

(* What w is about to send.                                                *)
Outgoing(w) ==
  \E e \in Event :
    /\ proc[w].batch = <<e>> /\ e.from = w /\ Newer(e, w)
    /\ e.group = state[w].group /\ ~Alone(w) /\ e.no <= made[w].sends
    /\ proc[w].doing = "send" => e.seq = state[w].next_seq
    /\ proc[w].doing = "publish" => e.seq < state[w].next_seq /\ e \in state[w].seen

(* A published message is in its sender's file and below its counters.     *)
Noted(e) ==
  /\ e \in state[e.from].seen
  /\ e.group = state[e.from].group /\ state[e.from].group # NoGroup
  /\ e.no <= made[e.from].sends /\ e.seq < state[e.from].next_seq

Aligned(e, f) ==
  e.from = f.from =>
    /\ e.no = f.no => e = f
    /\ e.no < f.no => e.seq < f.seq /\ (e.from \notin upset => e.at <= f.at)

SentInv ==
  /\ \A e \in events : Noted(e)
  /\ \A w \in Wallets : proc[w].doing \in {"send", "publish"} => Outgoing(w)
  /\ \A e, f \in events : Aligned(e, f)

LEMMA CountersGrow ==
  ASSUME IInv, NEW w \in Wallets, Act(w)
  PROVE  \A v \in Wallets :
           /\ state[v].seen \subseteq state'[v].seen
           /\ state[v].next_seq \in Nat /\ state'[v].next_seq \in Nat
           /\ state[v].next_seq <= state'[v].next_seq
           /\ made[v].sends \in Nat /\ made'[v].sends \in Nat /\ made[v].sends <= made'[v].sends
<1>0. /\ state \in [Wallets -> State] /\ state[w] \in State /\ proc[w] \in Proc
      /\ made \in [Wallets -> [packages : Nat, groups : Nat, sends : Nat]]
      /\ made[w] \in [packages : Nat, groups : Nat, sends : Nat]
  BY Functions
<1>1. \A v \in Wallets : state[v].next_seq \in Nat /\ made[v].sends \in Nat
  BY <1>0 DEF State
<1>2. state[w].seen \subseteq state'[w].seen /\ state'[w].next_seq \in Nat /\ state[w].next_seq <= state'[w].next_seq
  <2>1. CASE SaveSend(w)
    BY <1>0, <1>1, <2>1 DEF SaveSend, State
  <2>2. CASE SavePoll(w)
    BY <1>0, <1>1, <2>2 DEF SavePoll, State
  <2>3. CASE SaveInvite(w) \/ SaveAccept(w)
    <3>1. state' = [state EXCEPT ![w].group = proc[w].group]
      BY <2>3 DEF SaveInvite, SaveAccept
    <3> QED BY <3>1, <1>0, <1>1 DEF State
  <2>4. CASE UNCHANGED state
    BY <2>4, <1>1
  <2>5. SaveSend(w) \/ SavePoll(w) \/ SaveInvite(w) \/ SaveAccept(w) \/ UNCHANGED state
    BY DEF Act, SetUp, Sends, Receives, SavePackage, PublishPackage, Invite, SendWelcome, Accept,
           Send, Sending, Publish, Poll, Return, Stop, Arrive
  <2> QED BY <2>1, <2>2, <2>3, <2>4, <2>5
<1>3. made'[w].sends \in Nat /\ made[w].sends <= made'[w].sends
  <2>1. CASE SavePackage(w)
    BY <1>0, <1>1, <2>1 DEF SavePackage
  <2>2. ASSUME NEW k \in packages, Invite(w, k) PROVE made'[w].sends \in Nat /\ made[w].sends <= made'[w].sends
    BY <1>0, <1>1, <2>2 DEF Invite, Inviting
  <2>3. ASSUME NEW now \in Clock, Send(w, now) PROVE made'[w].sends \in Nat /\ made[w].sends <= made'[w].sends
    BY <1>0, <1>1, <2>3 DEF Send, Sending
  <2>4. CASE UNCHANGED made
    BY <2>4, <1>1
  <2>5. \/ SavePackage(w) \/ UNCHANGED made
        \/ \E k \in packages : Invite(w, k)
        \/ \E now \in Clock : Send(w, now)
    BY DEF Act, SetUp, Sends, Receives, PublishPackage, SaveInvite, SendWelcome, Accept, SaveAccept,
           SaveSend, Publish, Poll, SavePoll, Return, Stop, Arrive
  <2> QED BY <2>1, <2>2, <2>3, <2>4, <2>5
<1>4. \A v \in Wallets : v # w => state'[v] = state[v] /\ made'[v] = made[v]
  BY ActIsLocal DEF Local
<1> QED BY <1>1, <1>2, <1>3, <1>4

LEMMA NotedStays ==
  ASSUME IInv, OpenInv, NEW w \in Wallets, Act(w)
  PROVE  \A e \in Event : Noted(e) => Noted(e)'
<1> SUFFICES ASSUME NEW e \in Event, Noted(e) PROVE Noted(e)'
  OBVIOUS
<1>1. e.from \in Wallets /\ e.no \in Nat /\ e.seq \in Nat
  BY DEF Event
<1>2. state'[e.from].group = state[e.from].group
  <2>1. CASE e.from = w
    BY <2>1, GroupStays DEF Noted
  <2>2. CASE e.from # w
    BY <1>1, <2>2, ActIsLocal DEF Local
  <2> QED BY <2>1, <2>2
<1>3. /\ state[e.from].seen \subseteq state'[e.from].seen
      /\ state[e.from].next_seq \in Nat /\ state'[e.from].next_seq \in Nat
      /\ state[e.from].next_seq <= state'[e.from].next_seq
      /\ made[e.from].sends \in Nat /\ made'[e.from].sends \in Nat /\ made[e.from].sends <= made'[e.from].sends
  BY <1>1, CountersGrow
<1> QED BY <1>1, <1>2, <1>3 DEF Noted

(* Only Publish adds a message, the one it is about.                       *)
LEMMA EventsGrow ==
  ASSUME IInv, SentInv, NEW w \in Wallets, Act(w)
  PROVE  \/ events' = events
         \/ \E e \in Event :
              /\ events' = events \cup {e} /\ e.from = w /\ Newer(e, w) /\ Noted(e)
              /\ UNCHANGED <<state, made, upset>> /\ proc'[w] = Idle
<1>1. CASE Publish(w)
  <2>1. proc[w].doing = "publish" /\ events' = events \cup ToSet(proc[w].batch)
        /\ UNCHANGED <<state, made, upset>> /\ proc'[w] = Idle
    BY <1>1, Functions DEF Publish
  <2>2. PICK e \in Event : /\ proc[w].batch = <<e>> /\ e.from = w /\ Newer(e, w)
                           /\ e.group = state[w].group /\ ~Alone(w) /\ e.no <= made[w].sends
                           /\ e.seq < state[w].next_seq /\ e \in state[w].seen
    BY <2>1 DEF SentInv, Outgoing
  <2>3. ToSet(proc[w].batch) = {e}
    BY <2>2 DEF ToSet
  <2> QED BY <2>1, <2>2, <2>3 DEF Noted
<1>2. Publish(w) \/ events' = events
  BY DEF Act, SetUp, Sends, Receives, SavePackage, PublishPackage, Invite, SaveInvite, SendWelcome, Accept,
         SaveAccept, Send, Sending, SaveSend, Poll, SavePoll, Return, Stop, Arrive
<1> QED BY <1>1, <1>2

LEMMA OutgoingStays ==
  ASSUME IInv, SentInv, NEW w \in Wallets, Act(w), NEW v \in Wallets, v # w,
         proc'[v].doing \in {"send", "publish"}
  PROVE  Outgoing(v)'
<1>1. /\ proc'[v] = proc[v] /\ state'[v] = state[v] /\ made'[v] = made[v] /\ upset \subseteq upset'
  BY ActIsLocal DEF Local
<1>2. PICK e \in Event :
        /\ proc[v].batch = <<e>> /\ e.from = v /\ Newer(e, v)
        /\ e.group = state[v].group /\ ~Alone(v) /\ e.no <= made[v].sends
        /\ proc[v].doing = "send" => e.seq = state[v].next_seq
        /\ proc[v].doing = "publish" => e.seq < state[v].next_seq /\ e \in state[v].seen
  BY <1>1 DEF SentInv, Outgoing
<1>3. \A f \in events' : f.from = v => f \in events
  BY EventsGrow
<1>4. Newer(e, v)'
  BY <1>1, <1>2, <1>3 DEF Newer
<1> QED BY <1>1, <1>2, <1>4 DEF Outgoing

LEMMA OutgoingMoves ==
  ASSUME IInv, SentInv, NEW w \in Wallets, Act(w), proc'[w].doing \in {"send", "publish"}
  PROVE  Outgoing(w)'
<1>0. /\ state \in [Wallets -> State] /\ state[w] \in State /\ proc[w] \in Proc
      /\ proc \in [Wallets -> Proc] /\ mls[w] \in Mls /\ events \subseteq Event
      /\ made \in [Wallets -> [packages : Nat, groups : Nat, sends : Nat]]
      /\ made[w] \in [packages : Nat, groups : Nat, sends : Nat]
  BY Functions
<1>1. ASSUME NEW now \in Clock, Send(w, now) PROVE Outgoing(w)'
  <2>0. PICK e : e = NewEvent(w, now)
    OBVIOUS
  <2>1. /\ ~Alone(w) /\ state' = state /\ events' = events
        /\ proc'[w] = [Idle EXCEPT !.doing = "send", !.batch = <<e>>]
        /\ made'[w].sends = made[w].sends + 1
        /\ upset' = IF ClockBack(w, now) THEN upset \cup {w} ELSE upset
    BY <1>0, <1>1, <2>0 DEF Send, Sending
  <2>2. /\ e.from = w /\ e.group = state[w].group /\ e.seq = state[w].next_seq /\ e.at = now
        /\ e.no = made[w].sends + 1
    BY <2>0 DEF NewEvent
  <2>3. e \in Event
    <3>1. state[w].group \in Group /\ mls[w].ratchet \in Nat /\ state[w].next_seq \in Nat
          /\ now \in Nat /\ made[w].sends + 1 \in Nat
      BY <1>0, <2>1, ClockAssumption DEF State, Mls
    <3> QED BY <3>1, <2>0 DEF NewEvent, Event
  <2>4. proc'[w].doing = "send" /\ proc'[w].batch = <<e>>
    BY <2>1 DEF Idle
  <2>5. \A f \in events : f.from = w =>
          f.no <= made[w].sends /\ f.seq < state[w].next_seq /\ f \in state[w].seen
    BY DEF SentInv, Noted
  <2>6. \A f \in events : f.from = w => f.no < e.no /\ f.seq < e.seq
    BY <2>2, <2>5, <1>0 DEF Event
  <2>7. w \notin upset' => \A f \in events : f.from = w => f.at <= e.at
    <3>1. w \notin upset' => ~ClockBack(w, now)
      BY <2>1
    <3>2. \A f \in events : f.at \in Nat
      BY <1>0 DEF Event
    <3>3. now \in Nat
      BY ClockAssumption
    <3> QED BY <3>1, <3>2, <3>3, <2>2, <2>5 DEF ClockBack
  <2>8. Newer(e, w)'
    BY <2>1, <2>6, <2>7 DEF Newer
  <2>9. e.no <= made'[w].sends
    BY <2>1, <2>2, <1>0
  <2> QED BY <2>1, <2>2, <2>3, <2>4, <2>8, <2>9 DEF Outgoing
<1>2. CASE SaveSend(w)
  <2>1. /\ proc[w].doing = "send" /\ UNCHANGED <<made, events, upset>>
        /\ proc'[w] = [proc[w] EXCEPT !.doing = "publish"]
        /\ state'[w] = [state[w] EXCEPT !.seen = @ \cup ToSet(proc[w].batch), !.next_seq = @ + 1]
    BY <1>0, <1>2 DEF SaveSend
  <2>2. PICK e \in Event :
        /\ proc[w].batch = <<e>> /\ e.from = w /\ Newer(e, w)
        /\ e.group = state[w].group /\ ~Alone(w) /\ e.no <= made[w].sends
        /\ e.seq = state[w].next_seq
    BY <2>1 DEF SentInv, Outgoing
  <2>3. ToSet(proc[w].batch) = {e}
    BY <2>2 DEF ToSet
  <2>4. proc'[w].doing = "publish" /\ proc'[w].batch = <<e>>
    BY <2>1, <2>2, <1>0 DEF Proc
  <2>5. state'[w].group = state[w].group /\ e \in state'[w].seen /\ e.seq < state'[w].next_seq
    BY <2>1, <2>2, <2>3, <1>0 DEF State
  <2>6. Newer(e, w)'
    BY <2>1, <2>2 DEF Newer
  <2> QED BY <2>1, <2>2, <2>4, <2>5, <2>6 DEF Outgoing
<1>3. ASSUME NEW e \in events, Arrive(w, e) PROVE Outgoing(w)'
  <2>1. UNCHANGED <<state, proc, made, events>> /\ upset \subseteq upset'
    BY <1>3 DEF Arrive
  <2>2. Outgoing(w)
    BY <2>1 DEF SentInv
  <2>3. \A f : Newer(f, w) => Newer(f, w)'
    BY <2>1 DEF Newer
  <2> QED BY <2>1, <2>2, <2>3 DEF Outgoing
<1>4. proc'[w] # Idle
  BY DEF Idle
<1>5. ~(PublishPackage(w) \/ SendWelcome(w) \/ SaveAccept(w) \/ Publish(w) \/ Return(w) \/ Stop(w))
  BY <1>0, <1>4 DEF PublishPackage, SendWelcome, SaveAccept, Publish, Return, Stop
<1>6. SavePackage(w) => proc'[w].doing = "package"
  BY <1>0 DEF SavePackage, Idle
<1>7. Poll(w) => proc'[w].doing = "poll"
  BY <1>0 DEF Poll, Idle
<1>8. \A k \in packages : Invite(w, k) => proc'[w].doing = "invite"
  BY <1>0 DEF Invite, Inviting, Idle
<1>9. \A welcome \in welcomes : Accept(w, welcome) => proc'[w].doing = "accept"
  BY <1>0 DEF Accept, Idle
<1>10. SaveInvite(w) => proc'[w].doing = "welcome"
  BY <1>0 DEF SaveInvite, Proc
<1>11. SavePoll(w) => proc'[w].doing = "return"
  BY <1>0 DEF SavePoll, Proc
<1> QED BY <1>1, <1>2, <1>3, <1>5, <1>6, <1>7, <1>8, <1>9, <1>10, <1>11 DEF Act, SetUp, Sends, Receives

LEMMA ActKeepsSent ==
  ASSUME IInv, OpenInv, SentInv, NEW w \in Wallets, Act(w)
  PROVE  SentInv'
<1>0. events \subseteq Event /\ upset \subseteq upset'
  BY Functions, ActIsLocal DEF Local
<1>1. \A v \in Wallets : proc'[v].doing \in {"send", "publish"} => Outgoing(v)'
  BY OutgoingStays, OutgoingMoves
<1>2. \A e \in events : Noted(e)'
  BY <1>0, NotedStays DEF SentInv
<1>3. \A e, f \in events : Aligned(e, f)'
  BY <1>0 DEF SentInv, Aligned
<1>4. CASE events' = events
  BY <1>1, <1>2, <1>3, <1>4 DEF SentInv
<1>5. ASSUME NEW e \in Event, events' = events \cup {e}, e.from = w, Newer(e, w), Noted(e),
             UNCHANGED <<state, made, upset>>
      PROVE  SentInv'
  <2>1. Noted(e)'
    BY <1>5, NotedStays
  <2>2. \A f \in events : Aligned(f, e)' /\ Aligned(e, f)'
    <3> SUFFICES ASSUME NEW f \in events, f.from = e.from PROVE Aligned(f, e)' /\ Aligned(e, f)'
      BY DEF Aligned
    <3>1. f.no < e.no /\ f.seq < e.seq /\ (w \notin upset => f.at <= e.at) /\ f \in Event
      BY <1>0, <1>5 DEF Newer
    <3>2. f.no \in Nat /\ e.no \in Nat
      BY <3>1 DEF Event
    <3> QED BY <3>1, <3>2, <1>5 DEF Aligned
  <2>3. Aligned(e, e)'
    BY DEF Aligned, Event
  <2>4. \A f, g \in events' : Aligned(f, g)'
    BY <1>3, <1>5, <2>2, <2>3
  <2>5. \A f \in events' : Noted(f)'
    BY <1>2, <1>5, <2>1
  <2> QED BY <1>1, <2>4, <2>5 DEF SentInv
<1> QED BY <1>4, <1>5, EventsGrow

-----------------------------------------------------------------------------
(* What a wallet handled, and what came late.                              *)

(* A message is handled after the earlier ones of its sender that came.    *)
InTime(w) ==
  \A e \in reached[w] : \A f \in Handled(w) :
    e.from = f.from /\ e.from \notin upset /\ e.no < f.no /\ e.group = state[w].group =>
      e \in Handled(w) /\ (f \in state[w].seen => e \in state[w].seen)

HandledInv(w) ==
  /\ \A f \in Handled(w) : f.group = state[w].group /\ ~Alone(w)
  /\ proc[w].fresh \subseteq reached[w]
  /\ proc[w].doing # "poll" => proc[w].fresh = {}
  /\ \A e \in reached[w] : e.from # w
  /\ InTime(w)

LEMMA HandledStays ==
  ASSUME IInv, NEW w \in Wallets, Act(w), NEW v \in Wallets, v # w, HandledInv(v)
  PROVE  HandledInv(v)'
<1>1. /\ proc'[v] = proc[v] /\ state'[v] = state[v] /\ reached'[v] = reached[v] /\ upset \subseteq upset'
  BY ActIsLocal DEF Local
<1>2. InTime(v)'
  BY <1>1 DEF HandledInv, InTime, Handled
<1> QED BY <1>1, <1>2 DEF HandledInv, Handled

LEMMA ArriveHandled ==
  ASSUME IInv, NEW w \in Wallets, HandledInv(w), NEW e \in events, Arrive(w, e)
  PROVE  HandledInv(w)'
<1>0. /\ reached \in [Wallets -> SUBSET events] /\ events \subseteq Event
  BY Functions
<1>1. /\ UNCHANGED <<mls, state, proc>> /\ e.from # w /\ reached'[w] = reached[w] \cup {e}
      /\ upset \subseteq upset' /\ Handled(w)' = Handled(w)
      /\ (\E f \in Handled(w) : f.from = e.from /\ f.no > e.no) => e.from \in upset'
  BY <1>0 DEF Arrive, Handled
<1>2. InTime(w)'
  <2> SUFFICES ASSUME NEW g \in reached'[w], NEW f \in Handled(w),
                      g.from = f.from, g.from \notin upset', g.no < f.no, g.group = state[w].group
               PROVE  g \in Handled(w) /\ (f \in state[w].seen => g \in state[w].seen)
    BY <1>1 DEF InTime
  <2>1. CASE g = e
    <3>1. f.no > e.no
      BY <2>1
    <3> QED BY <1>1, <2>1, <3>1
  <2>2. CASE g \in reached[w]
    BY <1>1, <2>2 DEF HandledInv, InTime
  <2> QED BY <1>1, <2>1, <2>2
<1> QED BY <1>1, <1>2 DEF HandledInv

(* What an operation of w does to what it handled.                         *)
LEMMA ActHandles ==
  ASSUME IInv, SentInv, NEW w \in Wallets, HandledInv(w),
         SetUp(w) \/ Sends(w) \/ Receives(w) \/ Stop(w)
  PROVE  /\ reached'[w] = reached[w]
         /\ \/ proc'[w].fresh = {} /\ state'[w].seen = state[w].seen
            \/ /\ proc'[w].fresh = {} /\ state'[w].group = state[w].group
               /\ \E e \in Event : /\ state'[w].seen = state[w].seen \cup {e}
                                   /\ e.from = w /\ e.group = state[w].group /\ ~Alone(w)
            \/ /\ proc'[w].fresh = {} /\ state'[w].group = state[w].group
               /\ state'[w].seen = state[w].seen \cup proc[w].fresh
            \/ /\ proc'[w].fresh = Fresh(w) /\ state' = state /\ proc'[w].doing = "poll"
<1>0. /\ proc \in [Wallets -> Proc] /\ proc[w] \in Proc /\ state \in [Wallets -> State] /\ state[w] \in State
      /\ reached \in [Wallets -> SUBSET events]
  BY Functions
<1>1. reached' = reached
  BY DEF SetUp, Sends, Receives, SavePackage, PublishPackage, Invite, SaveInvite, SendWelcome, Accept,
         SaveAccept, Send, Sending, SaveSend, Publish, Poll, SavePoll, Return, Stop
<1>2. CASE Poll(w)
  BY <1>0, <1>1, <1>2 DEF Poll, Idle
<1>3. CASE SavePoll(w)
  <2>1. proc'[w] = [proc[w] EXCEPT !.doing = "return", !.fresh = {}]
        /\ state'[w] = [state[w] EXCEPT !.seen = @ \cup proc[w].fresh]
    BY <1>0, <1>3 DEF SavePoll
  <2>2. proc'[w].fresh = {} /\ state'[w].group = state[w].group
        /\ state'[w].seen = state[w].seen \cup proc[w].fresh
    BY <2>1, <1>0 DEF Proc, State
  <2> QED BY <2>2, <1>1
<1>4. CASE SaveSend(w)
  <2>1. proc'[w] = [proc[w] EXCEPT !.doing = "publish"] /\ proc[w].doing = "send"
        /\ state'[w] = [state[w] EXCEPT !.seen = @ \cup ToSet(proc[w].batch), !.next_seq = @ + 1]
    BY <1>0, <1>4 DEF SaveSend
  <2>2. PICK e \in Event : /\ proc[w].batch = <<e>> /\ e.from = w
                           /\ e.group = state[w].group /\ ~Alone(w)
    BY <2>1 DEF SentInv, Outgoing
  <2>3. ToSet(proc[w].batch) = {e}
    BY <2>2 DEF ToSet
  <2>4. proc'[w].fresh = {}
    BY <2>1, <1>0 DEF Proc, HandledInv
  <2>5. state'[w].group = state[w].group /\ state'[w].seen = state[w].seen \cup {e}
    BY <2>1, <2>3, <1>0 DEF State
  <2> QED BY <2>2, <2>4, <2>5, <1>1
<1>5. CASE SaveInvite(w)
  <2>1. proc'[w] = [proc[w] EXCEPT !.doing = "welcome"] /\ proc[w].doing = "invite"
        /\ state'[w] = [state[w] EXCEPT !.group = proc[w].group]
    BY <1>0, <1>5 DEF SaveInvite
  <2> QED BY <2>1, <1>0, <1>1 DEF HandledInv, Proc, State
<1>6. CASE SaveAccept(w)
  <2>1. proc'[w] = Idle /\ state'[w] = [state[w] EXCEPT !.group = proc[w].group]
    BY <1>0, <1>6 DEF SaveAccept
  <2> QED BY <2>1, <1>0, <1>1 DEF Idle, State
<1>7. ASSUME UNCHANGED state, proc'[w].fresh = {}
      PROVE  proc'[w].fresh = {} /\ state'[w].seen = state[w].seen
  BY <1>7
<1>8. PublishPackage(w) \/ SendWelcome(w) \/ Publish(w) \/ Return(w) \/ Stop(w) =>
        UNCHANGED state /\ proc'[w].fresh = {}
  <2>1. PublishPackage(w) \/ SendWelcome(w) \/ Publish(w) \/ Return(w) \/ Stop(w) =>
          UNCHANGED state /\ proc'[w] = Idle
    BY <1>0 DEF PublishPackage, SendWelcome, Publish, Return, Stop
  <2> QED BY <2>1 DEF Idle
<1>9. SavePackage(w) => UNCHANGED state /\ proc'[w].fresh = {}
  BY <1>0 DEF SavePackage, Idle
<1>10. \A k \in packages : Invite(w, k) => UNCHANGED state /\ proc'[w].fresh = {}
  BY <1>0 DEF Invite, Inviting, Idle
<1>11. \A welcome \in welcomes : Accept(w, welcome) => UNCHANGED state /\ proc'[w].fresh = {}
  BY <1>0 DEF Accept, Idle
<1>12. \A now \in Clock : Send(w, now) => UNCHANGED state /\ proc'[w].fresh = {}
  BY <1>0 DEF Send, Sending, Idle
<1> QED BY <1>1, <1>2, <1>3, <1>4, <1>5, <1>6, <1>7, <1>8, <1>9, <1>10, <1>11, <1>12
        DEF SetUp, Sends, Receives

LEMMA HandledMoves ==
  ASSUME IInv, OpenInv, SentInv, NEW w \in Wallets, HandledInv(w), Act(w)
  PROVE  HandledInv(w)'
<1>1. CASE \E e \in events : Arrive(w, e)
  BY <1>1, ArriveHandled
<1>2. CASE SetUp(w) \/ Sends(w) \/ Receives(w) \/ Stop(w)
  <2>0. reached'[w] = reached[w] /\ upset \subseteq upset'
    BY <1>2, ActHandles, ActIsLocal DEF Local
  <2>1. state'[w].group = state[w].group \/ Alone(w)
    BY GroupStays
  <2>2. CASE proc'[w].fresh = {} /\ state'[w].seen = state[w].seen
    <3>1. state'[w].group = state[w].group \/ Handled(w) = {}
      BY <2>1 DEF HandledInv
    <3>2. Handled(w)' = state[w].seen
      BY <2>2 DEF Handled
    <3>3. InTime(w)'
      BY <3>1, <3>2, <2>0, <2>2 DEF HandledInv, InTime, Handled
    <3> QED BY <3>1, <3>2, <3>3, <2>0, <2>2 DEF HandledInv, Handled
  <2>3. ASSUME NEW e \in Event, state'[w].seen = state[w].seen \cup {e}, e.from = w,
               e.group = state[w].group, ~Alone(w), proc'[w].fresh = {}, state'[w].group = state[w].group
        PROVE  HandledInv(w)'
    <3>1. Handled(w)' = state[w].seen \cup {e}
      BY <2>3 DEF Handled
    <3>2. InTime(w)'
      BY <3>1, <2>0, <2>3 DEF HandledInv, InTime, Handled
    <3> QED BY <3>1, <3>2, <2>0, <2>3 DEF HandledInv, Handled
  <2>4. CASE proc'[w].fresh = {} /\ state'[w].group = state[w].group
             /\ state'[w].seen = state[w].seen \cup proc[w].fresh
    <3>1. Handled(w)' = Handled(w) /\ Handled(w) = state'[w].seen
      BY <2>4 DEF Handled
    <3>2. InTime(w)'
      BY <3>1, <2>0, <2>4 DEF HandledInv, InTime
    <3> QED BY <3>1, <3>2, <2>0, <2>4 DEF HandledInv
  <2>5. CASE proc'[w].fresh = Fresh(w) /\ state' = state /\ proc'[w].doing = "poll"
    <3>1. Handled(w)' = state[w].seen \cup Fresh(w)
      BY <2>5 DEF Handled
    <3>2. \A e \in Fresh(w) : e \in reached[w] /\ e.group = state[w].group /\ e \notin state[w].seen
      BY DEF Fresh
    <3>3. \A e \in reached[w] : e.group = state[w].group => e \in state[w].seen \cup Fresh(w)
      BY DEF Fresh
    <3>4. InTime(w)'
      BY <3>1, <3>2, <3>3, <2>0, <2>5 DEF HandledInv, InTime, Handled
    <3>5. \A e \in Fresh(w) : ~Alone(w)
      <4> SUFFICES ASSUME NEW e \in Fresh(w) PROVE state[w].group # NoGroup
        OBVIOUS
      <4>1. e \in events /\ e.group = state[w].group
        BY <3>2, Functions
      <4> QED BY <4>1 DEF SentInv, Noted
    <3> QED BY <3>1, <3>2, <3>4, <3>5, <2>0, <2>5 DEF HandledInv, Handled
  <2> QED BY <1>2, <2>2, <2>3, <2>4, <2>5, ActHandles
<1> QED BY <1>1, <1>2 DEF Act

-----------------------------------------------------------------------------
(* What receive returned, and is about to return.                          *)

(* f was sent before e, if senders in U are left aside.                    *)
After(f, e, U) == f.from = e.from /\ f.from \notin U => f.no < e.no

Rising(s, U) == \A i, j \in DOMAIN s : i < j => After(s[i], s[j], U)

(* What was returned or lost is handled, and its keys are used up.         *)
Got(w) ==
  /\ \A e \in ToSet(returned[w]) :
       e \in reached[w] /\ e \in state[w].seen /\ Unlocks(e) \in mls[w].opened
  /\ \A e \in lost[w] : Unlocks(e) \in mls[w].opened
  /\ IsInjective(returned[w]) /\ Rising(returned[w], upset)
  /\ ToSet(returned[w]) \cap lost[w] = {}

(* A batch is new and comes after all that was returned.                   *)
NewBatch(w) ==
  /\ \A e \in ToSet(proc[w].batch) :
       /\ e \in reached[w] /\ Unlocks(e) \in mls[w].opened /\ e \in Handled(w)
       /\ e \notin lost[w]
       /\ \A f \in ToSet(returned[w]) : e # f /\ After(f, e, upset)
  /\ IsInjective(proc[w].batch) /\ Rising(proc[w].batch, upset)

ReturnedInv(w) ==
  Got(w) /\ (proc[w].doing \in {"poll", "return"} => NewBatch(w))

LEMMA RisingStays ==
  ASSUME NEW s, NEW U, NEW V, U \subseteq V, Rising(s, U)
  PROVE  Rising(s, V)
BY DEF Rising, After

LEMMA AppendBatch ==
  ASSUME NEW S, NEW s \in Seq(S), NEW t \in Seq(S), NEW U,
         IsInjective(s), IsInjective(t), Rising(s, U), Rising(t, U),
         \A e \in ToSet(t) : \A f \in ToSet(s) : e # f /\ After(f, e, U)
  PROVE  /\ ToSet(s \o t) = ToSet(s) \cup ToSet(t)
         /\ IsInjective(s \o t) /\ Rising(s \o t, U)
<1>1. /\ Len(s) \in Nat /\ Len(t) \in Nat
      /\ DOMAIN s = 1..Len(s) /\ DOMAIN t = 1..Len(t) /\ DOMAIN (s \o t) = 1..(Len(s) + Len(t))
  OBVIOUS
<1>2. \A i \in 1..Len(s) : (s \o t)[i] = s[i]
  OBVIOUS
<1>3. \A i \in DOMAIN (s \o t) :
        \/ i \in 1..Len(s)
        \/ i - Len(s) \in 1..Len(t) /\ (s \o t)[i] = t[i - Len(s)] /\ i > Len(s)
  <2> SUFFICES ASSUME NEW i \in 1..(Len(s) + Len(t)), i \notin 1..Len(s)
               PROVE  i - Len(s) \in 1..Len(t) /\ (s \o t)[i] = t[i - Len(s)] /\ i > Len(s)
    BY <1>1
  <2>1. i \in Nat /\ i > Len(s) /\ i <= Len(s) + Len(t)
    BY <1>1
  <2>2. i - Len(s) \in 1..Len(t)
    BY <1>1, <2>1
  <2> QED BY <2>1, <2>2
<1>4. ToSet(s \o t) = ToSet(s) \cup ToSet(t)
  <2>1. ToSet(s \o t) \subseteq ToSet(s) \cup ToSet(t)
    BY <1>1, <1>2, <1>3 DEF ToSet
  <2>2. ToSet(s) \subseteq ToSet(s \o t)
    BY <1>1, <1>2 DEF ToSet
  <2>3. ASSUME NEW j \in 1..Len(t) PROVE t[j] \in ToSet(s \o t)
    <3>1. Len(s) + j \in DOMAIN (s \o t) /\ (s \o t)[Len(s) + j] = t[j]
      BY <1>1
    <3> QED BY <3>1 DEF ToSet
  <2>4. ToSet(t) \subseteq ToSet(s \o t)
    BY <1>1, <2>3 DEF ToSet
  <2> QED BY <2>1, <2>2, <2>4
<1>5. ASSUME NEW i \in DOMAIN (s \o t), NEW j \in DOMAIN (s \o t), i < j
      PROVE  (s \o t)[i] # (s \o t)[j] /\ After((s \o t)[i], (s \o t)[j], U)
  <2>0. i \in Nat /\ j \in Nat
    BY <1>1
  <2>1. CASE j \in 1..Len(s)
    <3>1. i \in 1..Len(s)
      BY <1>1, <1>5, <2>1
    <3> QED BY <1>1, <1>2, <1>5, <2>0, <2>1, <3>1 DEF IsInjective, Rising
  <2>2. CASE j \notin 1..Len(s) /\ i \in 1..Len(s)
    <3>1. j - Len(s) \in 1..Len(t) /\ (s \o t)[j] = t[j - Len(s)]
      BY <1>3, <2>2
    <3>2. (s \o t)[j] \in ToSet(t) /\ (s \o t)[i] \in ToSet(s)
      BY <1>1, <1>2, <2>2, <3>1 DEF ToSet
    <3> QED BY <3>2
  <2>3. CASE j \notin 1..Len(s) /\ i \notin 1..Len(s)
    <3>1. PICK k \in 1..Len(t) : k = i - Len(s) /\ (s \o t)[i] = t[k]
      BY <1>3, <2>3
    <3>2. PICK m \in 1..Len(t) : m = j - Len(s) /\ (s \o t)[j] = t[m]
      BY <1>3, <2>3
    <3>3. k < m
      BY <1>1, <1>5, <2>0, <3>1, <3>2
    <3> QED BY <1>1, <3>1, <3>2, <3>3 DEF IsInjective, Rising
  <2> QED BY <2>1, <2>2, <2>3
<1>6. IsInjective(s \o t)
  <2> SUFFICES ASSUME NEW i \in DOMAIN (s \o t), NEW j \in DOMAIN (s \o t), i # j
               PROVE  (s \o t)[i] # (s \o t)[j]
    BY DEF IsInjective
  <2>1. i < j \/ j < i
    BY <1>1
  <2> QED BY <1>5, <2>1
<1>7. Rising(s \o t, U)
  BY <1>5 DEF Rising
<1> QED BY <1>4, <1>6, <1>7

(* Keys stay used up, and what reached w stays.                            *)
LEMMA OpenedGrows ==
  ASSUME IInv, NEW w \in Wallets, Act(w)
  PROVE  mls[w].opened \subseteq mls'[w].opened /\ reached[w] \subseteq reached'[w]
<1>0. mls \in [Wallets -> Mls] /\ mls[w] \in Mls /\ reached \in [Wallets -> SUBSET events]
  BY Functions
<1>1. mls[w].opened \subseteq mls'[w].opened
  <2>1. CASE SavePackage(w)
    BY <1>0, <2>1 DEF SavePackage, Mls
  <2>2. ASSUME NEW k \in packages, Invite(w, k) PROVE mls[w].opened \subseteq mls'[w].opened
    BY <1>0, <2>2 DEF Invite, Mls
  <2>3. ASSUME NEW welcome \in welcomes, Accept(w, welcome) PROVE mls[w].opened \subseteq mls'[w].opened
    BY <1>0, <2>3 DEF Accept, Mls
  <2>4. ASSUME NEW now \in Clock, Send(w, now) PROVE mls[w].opened \subseteq mls'[w].opened
    BY <1>0, <2>4 DEF Send, Mls
  <2>5. CASE Poll(w)
    <3>1. PICK used : mls' = [mls EXCEPT ![w].opened = @ \cup used]
      BY <2>5 DEF Poll
    <3> QED BY <3>1, <1>0 DEF Mls
  <2>6. \/ SavePackage(w) \/ Poll(w) \/ UNCHANGED mls
        \/ \E k \in packages : Invite(w, k)
        \/ \E welcome \in welcomes : Accept(w, welcome)
        \/ \E now \in Clock : Send(w, now)
    BY DEF Act, SetUp, Sends, Receives, PublishPackage, SaveInvite, SendWelcome, SaveAccept, SaveSend,
           Publish, SavePoll, Return, Stop, Arrive
  <2> QED BY <2>1, <2>2, <2>3, <2>4, <2>5, <2>6
<1>2. (\E e \in events : Arrive(w, e)) \/ UNCHANGED reached
  BY DEF Act, SetUp, Sends, Receives, SavePackage, PublishPackage, Invite, SaveInvite, SendWelcome, Accept,
         SaveAccept, Send, Sending, SaveSend, Publish, Poll, SavePoll, Return, Stop
<1>3. ASSUME NEW e \in events, Arrive(w, e) PROVE reached[w] \subseteq reached'[w]
  BY <1>0, <1>3 DEF Arrive
<1> QED BY <1>1, <1>2, <1>3

LEMMA ReturnedStays ==
  ASSUME IInv, NEW w \in Wallets, Act(w), NEW v \in Wallets, v # w, ReturnedInv(v)
  PROVE  ReturnedInv(v)'
<1>1. /\ mls'[v] = mls[v] /\ proc'[v] = proc[v] /\ state'[v] = state[v] /\ reached'[v] = reached[v]
      /\ returned'[v] = returned[v] /\ lost'[v] = lost[v] /\ upset \subseteq upset'
  BY ActIsLocal DEF Local
<1>2. Got(v)'
  BY <1>1, RisingStays DEF ReturnedInv, Got
<1>3. proc'[v].doing \in {"poll", "return"} => NewBatch(v)'
  BY <1>1, RisingStays DEF ReturnedInv, NewBatch, Handled, After
<1> QED BY <1>2, <1>3 DEF ReturnedInv

(* What was returned and lost stays so, as long as no more is.             *)
LEMMA GotStays ==
  ASSUME IInv, NEW w \in Wallets, Act(w), Got(w), returned'[w] = returned[w], lost'[w] = lost[w]
  PROVE  Got(w)'
<1>1. upset \subseteq upset'
  BY ActIsLocal DEF Local
<1>2. state[w].seen \subseteq state'[w].seen
  BY CountersGrow
<1>3. mls[w].opened \subseteq mls'[w].opened /\ reached[w] \subseteq reached'[w]
  BY OpenedGrows
<1>4. Rising(returned[w], upset)'
  BY <1>1, RisingStays DEF Got
<1> QED BY <1>2, <1>3, <1>4 DEF Got

(* So does a batch.                                                        *)
LEMMA BatchStays ==
  ASSUME IInv, NEW w \in Wallets, Act(w), NewBatch(w), returned'[w] = returned[w], lost'[w] = lost[w],
         proc'[w].batch = proc[w].batch, Handled(w) \subseteq Handled(w)'
  PROVE  NewBatch(w)'
<1>1. upset \subseteq upset'
  BY ActIsLocal DEF Local
<1>2. mls[w].opened \subseteq mls'[w].opened /\ reached[w] \subseteq reached'[w]
  BY OpenedGrows
<1>3. Rising(proc[w].batch, upset')
  BY <1>1, RisingStays DEF NewBatch
<1>4. \A e, f : After(f, e, upset) => After(f, e, upset')
  BY <1>1 DEF After
<1> QED BY <1>2, <1>3, <1>4 DEF NewBatch

(* poll: what decrypts is new, and sorting puts it in the order it was     *)
(* sent, after all that was returned before.                               *)
LEMMA PollBatch ==
  ASSUME IInv, SentInv, NEW w \in Wallets, HandledInv(w), Got(w),
         NEW batch \in Sorted(Opened(w))
  PROVE  /\ ToSet(batch) \subseteq Opened(w) /\ IsInjective(batch) /\ Rising(batch, upset)
         /\ \A e \in ToSet(batch) : \A f \in ToSet(returned[w]) : e # f /\ After(f, e, upset)
<1>0. reached[w] \subseteq events /\ events \subseteq Event /\ IsFiniteSet(events)
  BY Functions
<1>1. Opened(w) \subseteq reached[w]
  BY DEF Opened, Fresh
<1>2. IsFiniteSet(Opened(w))
  BY <1>0, <1>1, FS_Subset
<1>3. PICK n \in Nat : n = Cardinality(Opened(w))
  BY <1>2, FS_CardinalityType
<1>4. /\ batch \in [1..n -> Opened(w)] /\ IsInjective(batch)
      /\ \A i, j \in DOMAIN batch : i < j =>
           \/ batch[i].at < batch[j].at
           \/ batch[i].at = batch[j].at /\ batch[i].seq <= batch[j].seq
  BY <1>3 DEF Sorted, SetToSeqs, IsInjective
<1>5. Rising(batch, upset)
  <2> SUFFICES ASSUME NEW i \in 1..n, NEW j \in 1..n, i < j,
                      batch[i].from = batch[j].from, batch[i].from \notin upset
               PROVE  batch[i].no < batch[j].no
    BY <1>4 DEF Rising, After
  <2>1. batch[i] \in events /\ batch[j] \in events /\ batch[i] # batch[j]
    BY <1>0, <1>1, <1>4 DEF IsInjective
  <2>2. /\ batch[i].no \in Nat /\ batch[i].seq \in Nat /\ batch[i].at \in Nat
        /\ batch[j].no \in Nat /\ batch[j].seq \in Nat /\ batch[j].at \in Nat
    BY <1>0, <2>1 DEF Event
  <2>3. Aligned(batch[i], batch[j]) /\ Aligned(batch[j], batch[i])
    BY <2>1 DEF SentInv
  <2>4. \/ batch[i].at < batch[j].at
        \/ batch[i].at = batch[j].at /\ batch[i].seq <= batch[j].seq
    BY <1>4
  <2>5. batch[i].no # batch[j].no
    BY <2>1, <2>3 DEF Aligned
  <2>6. batch[j].no < batch[i].no => batch[j].seq < batch[i].seq /\ batch[j].at <= batch[i].at
    BY <2>3 DEF Aligned
  <2> QED BY <2>2, <2>4, <2>5, <2>6
<1>6. ASSUME NEW e \in Opened(w), NEW f \in ToSet(returned[w]) PROVE e # f /\ After(f, e, upset)
  <2>1. /\ e \in reached[w] /\ e.group = state[w].group /\ e \notin state[w].seen
        /\ f \in reached[w] /\ f \in state[w].seen
    BY DEF Opened, Fresh, Got
  <2>2. e \in events /\ f \in events /\ e # f
    BY <1>0, <2>1
  <2>3. f \in Handled(w)
    BY <2>1 DEF Handled
  <2>4. ASSUME f.from = e.from, f.from \notin upset PROVE f.no < e.no
    <3>1. e.no \in Nat /\ f.no \in Nat
      BY <1>0, <2>2 DEF Event
    <3>2. e.no # f.no
      BY <2>2, <2>4 DEF SentInv, Aligned
    <3>3. ~(e.no < f.no)
      BY <2>1, <2>3, <2>4 DEF HandledInv, InTime
    <3> QED BY <3>1, <3>2, <3>3
  <2> QED BY <2>2, <2>4 DEF After
<1>7. ToSet(batch) \subseteq Opened(w)
  BY <1>4 DEF ToSet
<1> QED BY <1>4, <1>5, <1>6, <1>7

(* An operation that returns nothing keeps a batch or has none.            *)
LEMMA OtherSteps ==
  ASSUME IInv, NEW w \in Wallets, Act(w), ~Poll(w), ~Return(w), ~Stop(w)
  PROVE  /\ returned'[w] = returned[w] /\ lost'[w] = lost[w]
         /\ proc'[w].doing \in {"poll", "return"} =>
              /\ proc[w].doing \in {"poll", "return"} /\ proc'[w].batch = proc[w].batch
              /\ Handled(w) \subseteq Handled(w)'
<1>0. /\ proc \in [Wallets -> Proc] /\ proc[w] \in Proc /\ state \in [Wallets -> State] /\ state[w] \in State
  BY Functions
<1>1. CASE SavePoll(w)
  <2>1. /\ proc[w].doing = "poll" /\ proc'[w] = [proc[w] EXCEPT !.doing = "return", !.fresh = {}]
        /\ state'[w] = [state[w] EXCEPT !.seen = @ \cup proc[w].fresh] /\ UNCHANGED <<returned, lost>>
    BY <1>0, <1>1 DEF SavePoll
  <2>2. proc'[w].batch = proc[w].batch /\ proc'[w].fresh = {} /\ state'[w].seen = state[w].seen \cup proc[w].fresh
    BY <1>0, <2>1 DEF Proc, State
  <2> QED BY <2>1, <2>2 DEF Handled
<1>2. CASE \E e \in events : Arrive(w, e)
  BY <1>2 DEF Arrive, Handled
<1>3. UNCHANGED <<returned, lost>>
  BY DEF Act, SetUp, Sends, Receives, SavePackage, PublishPackage, Invite, SaveInvite, SendWelcome, Accept,
         SaveAccept, Send, Sending, SaveSend, Publish, SavePoll, Arrive
<1>4. ASSUME proc'[w] = Idle PROVE proc'[w].doing \notin {"poll", "return"}
  BY <1>4 DEF Idle
<1>5. PublishPackage(w) \/ SendWelcome(w) \/ SaveAccept(w) \/ Publish(w) => proc'[w] = Idle
  BY <1>0 DEF PublishPackage, SendWelcome, SaveAccept, Publish
<1>6. SavePackage(w) => proc'[w].doing = "package"
  BY <1>0 DEF SavePackage, Idle
<1>7. \A k \in packages : Invite(w, k) => proc'[w].doing = "invite"
  BY <1>0 DEF Invite, Inviting, Idle
<1>8. \A welcome \in welcomes : Accept(w, welcome) => proc'[w].doing = "accept"
  BY <1>0 DEF Accept, Idle
<1>9. \A now \in Clock : Send(w, now) => proc'[w].doing = "send"
  BY <1>0 DEF Send, Sending, Idle
<1>10. SaveInvite(w) => proc'[w].doing = "welcome"
  BY <1>0 DEF SaveInvite, Proc
<1>11. SaveSend(w) => proc'[w].doing = "publish"
  BY <1>0 DEF SaveSend, Proc
<1> QED BY <1>1, <1>2, <1>3, <1>4, <1>5, <1>6, <1>7, <1>8, <1>9, <1>10, <1>11
        DEF Act, SetUp, Sends, Receives

LEMMA ReturnedMoves ==
  ASSUME IInv, OpenInv, SentInv, NEW w \in Wallets, Act(w), HandledInv(w), ReturnedInv(w)
  PROVE  ReturnedInv(w)'
<1>0. /\ proc \in [Wallets -> Proc] /\ proc[w] \in Proc /\ mls \in [Wallets -> Mls] /\ mls[w] \in Mls
      /\ returned \in [Wallets -> Seq(Event)] /\ returned[w] \in Seq(Event)
      /\ lost \in [Wallets -> SUBSET Event]
  BY Functions
<1>1. CASE Poll(w)
  <2>1. PICK batch \in Sorted(Opened(w)) :
          proc'[w] = [Idle EXCEPT !.doing = "poll", !.batch = batch, !.fresh = Fresh(w)]
    BY <1>0, <1>1 DEF Poll
  <2>2. /\ mls'[w] = [mls[w] EXCEPT !.opened = @ \cup {Unlocks(e) : e \in Opened(w)}]
        /\ UNCHANGED <<state, reached, returned, lost, upset>>
    BY <1>0, <1>1 DEF Poll
  <2>3. proc'[w].batch = batch /\ proc'[w].fresh = Fresh(w)
    BY <2>1 DEF Idle
  <2>4. mls'[w].opened = mls[w].opened \cup {Unlocks(e) : e \in Opened(w)}
    BY <2>2, <1>0 DEF Mls
  <2>5. /\ ToSet(batch) \subseteq Opened(w) /\ IsInjective(batch) /\ Rising(batch, upset)
        /\ \A e \in ToSet(batch) : \A f \in ToSet(returned[w]) : e # f /\ After(f, e, upset)
    BY PollBatch DEF ReturnedInv
  <2>6. \A e \in Opened(w) : e \in reached[w] /\ e \in Fresh(w) /\ Unlocks(e) \notin mls[w].opened
    BY DEF Opened, Fresh
  <2>7. \A e \in Opened(w) : e \notin lost[w]
    BY <2>6 DEF ReturnedInv, Got
  <2>8. Got(w)'
    BY <2>2, GotStays DEF ReturnedInv
  <2>9. NewBatch(w)'
    BY <2>2, <2>3, <2>4, <2>5, <2>6, <2>7 DEF NewBatch, Handled
  <2> QED BY <2>8, <2>9 DEF ReturnedInv
<1>2. CASE Return(w)
  <2>1. /\ proc[w].doing = "return" /\ proc'[w] = Idle /\ UNCHANGED <<mls, state, reached, lost, upset>>
        /\ returned'[w] = returned[w] \o proc[w].batch
    BY <1>0, <1>2 DEF Return
  <2>2. proc[w].batch \in Seq(Event)
    BY <1>0 DEF Proc
  <2>3. NewBatch(w) /\ Got(w) /\ proc[w].fresh = {}
    BY <2>1 DEF ReturnedInv, HandledInv
  <2>4. /\ ToSet(returned'[w]) = ToSet(returned[w]) \cup ToSet(proc[w].batch)
        /\ IsInjective(returned'[w]) /\ Rising(returned'[w], upset)
    BY <1>0, <2>1, <2>2, <2>3, AppendBatch DEF NewBatch, Got
  <2>5. Handled(w) = state[w].seen
    BY <2>3 DEF Handled
  <2>6. Got(w)'
    BY <2>1, <2>3, <2>4, <2>5 DEF Got, NewBatch
  <2>7. proc'[w].doing = "nothing"
    BY <2>1 DEF Idle
  <2> QED BY <2>6, <2>7 DEF ReturnedInv
<1>3. CASE Stop(w)
  <2>1. /\ proc'[w] = Idle /\ UNCHANGED <<mls, state, reached, returned, upset>>
        /\ proc[w].doing \in {"poll", "return"} => lost'[w] = lost[w] \cup ToSet(proc[w].batch)
        /\ proc[w].doing \notin {"poll", "return"} => lost' = lost
    BY <1>0, <1>3 DEF Stop
  <2>2. proc'[w].doing = "nothing"
    BY <2>1 DEF Idle
  <2>3. CASE proc[w].doing \in {"poll", "return"}
    <3>1. NewBatch(w) /\ Got(w)
      BY <2>3 DEF ReturnedInv
    <3>2. Got(w)'
      BY <2>1, <2>3, <3>1 DEF Got, NewBatch
    <3> QED BY <3>2, <2>2 DEF ReturnedInv
  <2>4. CASE proc[w].doing \notin {"poll", "return"}
    <3>1. Got(w)'
      BY <2>1, <2>4, GotStays DEF ReturnedInv
    <3> QED BY <3>1, <2>2 DEF ReturnedInv
  <2> QED BY <2>3, <2>4
<1>4. CASE ~Poll(w) /\ ~Return(w) /\ ~Stop(w)
  <2>1. Got(w)'
    BY <1>4, OtherSteps, GotStays DEF ReturnedInv
  <2>2. ASSUME proc'[w].doing \in {"poll", "return"} PROVE NewBatch(w)'
    BY <1>4, <2>2, OtherSteps, BatchStays DEF ReturnedInv
  <2> QED BY <2>1, <2>2 DEF ReturnedInv
<1> QED BY <1>1, <1>2, <1>3, <1>4

(* All of it together.                                                     *)
ReadInv ==
  SentInv /\ \A w \in Wallets : HandledInv(w) /\ ReturnedInv(w)

LEMMA InitReadInv == Init => ReadInv
<1> SUFFICES ASSUME Init PROVE ReadInv
  OBVIOUS
<1>1. SentInv
  BY DEF Init, SentInv, Idle
<1>2. ASSUME NEW w \in Wallets PROVE HandledInv(w) /\ ReturnedInv(w)
  <2>1. /\ state[w].seen = {} /\ proc[w] = Idle /\ reached[w] = {} /\ returned[w] = << >> /\ lost[w] = {}
    BY DEF Init
  <2>2. proc[w].doing = "nothing" /\ proc[w].fresh = {}
    BY <2>1 DEF Idle
  <2>3. ToSet(returned[w]) = {} /\ IsInjective(returned[w]) /\ Rising(returned[w], upset)
    BY <2>1 DEF ToSet, IsInjective, Rising
  <2> QED BY <2>1, <2>2, <2>3 DEF HandledInv, InTime, Handled, ReturnedInv, Got
<1> QED BY <1>1, <1>2 DEF ReadInv

LEMMA NextReadInv == IInv /\ OpenInv /\ ReadInv /\ [Next]_vars => ReadInv'
<1> SUFFICES ASSUME IInv, OpenInv, ReadInv, [Next]_vars PROVE ReadInv'
  OBVIOUS
<1>1. ASSUME NEW w \in Wallets, Act(w) PROVE ReadInv'
  <2>1. SentInv'
    BY <1>1, ActKeepsSent DEF ReadInv
  <2>2. ASSUME NEW v \in Wallets PROVE HandledInv(v)' /\ ReturnedInv(v)'
    <3>1. HandledInv(v) /\ ReturnedInv(v) /\ SentInv
      BY DEF ReadInv
    <3> QED BY <1>1, <3>1, HandledStays, HandledMoves, ReturnedStays, ReturnedMoves
  <2> QED BY <2>1, <2>2 DEF ReadInv
<1>2. CASE UNCHANGED vars
  <2>1. UNCHANGED <<mls, state, proc, packages, welcomes, events, reached, made, returned, lost, upset, stops>>
    BY <1>2 DEF vars
  <2>2. SentInv'
    BY <2>1 DEF ReadInv, SentInv, Noted, Outgoing, Newer, Aligned
  <2>3. \A w \in Wallets : HandledInv(w)'
    BY <2>1 DEF ReadInv, HandledInv, InTime, Handled
  <2>4. \A w \in Wallets : ReturnedInv(w)'
    BY <2>1 DEF ReadInv, ReturnedInv, Got, NewBatch, Handled
  <2> QED BY <2>2, <2>3, <2>4 DEF ReadInv
<1> QED BY <1>1, <1>2 DEF Next, Act

LEMMA AlwaysRead == Spec => []ReadInv
<1>1. Init => ReadInv
  BY InitReadInv
<1>2. IInv /\ OpenInv /\ ReadInv /\ [Next]_vars => ReadInv'
  BY NextReadInv
<1> QED BY <1>1, <1>2, Invariant, AlwaysOpen, PTL DEF Spec

(* receive returns a message once, also after a stop between the two       *)
(* files, and none that was in a batch it did not come to return.          *)
THEOREM OnceEach == Spec => []ReturnedOnce
<1>1. ReadInv => ReturnedOnce
  BY DEF ReadInv, ReturnedInv, Got, ReturnedOnce
<1> QED
  BY <1>1, AlwaysRead, PTL

(* A sender's messages are returned in the order it sent them, if the      *)
(* relays return none of them late and its clock never goes back.          *)
THEOREM SentOrder == Spec => []InOrder
<1>1. ReadInv => InOrder
  BY DEF ReadInv, ReturnedInv, Got, InOrder, OrderOf, Rising, After
<1> QED
  BY <1>1, AlwaysRead, PTL
=============================================================================
