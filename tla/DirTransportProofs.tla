-------------------------- MODULE DirTransportProofs --------------------------
(***************************************************************************)
(* Proofs about the channel that is a folder: for any number of            *)
(* participants, processes, messages and stops, for any readings of the    *)
(* clocks and any order in which files reach a copy of the folder, what    *)
(* receive returns of a sender's messages is the beginning of what it      *)
(* sent, and after a stop in the hand over still nothing comes twice.      *)
(***************************************************************************)
EXTENDS DirTransport, FiniteSetTheorems, WellFoundedInduction, TLAPS

(* A set of natural numbers that has one has a least one.                  *)
LEMMA Least ==
  ASSUME NEW S \in SUBSET Nat, S # {}
  PROVE  \E n \in S : \A m \in S : n <= m
<1> DEFINE Less == {ss \in Nat \X Nat : ss[1] < ss[2]}
<1>1. IsWellFoundedOn(Less, Nat)
  BY NatLessThanWellFounded DEF OpToRel
<1>2. \A n, m \in Nat : m < n => <<m, n>> \in Less
  OBVIOUS
<1> HIDE DEF Less
<1>3. PICK n \in S : \A m \in S : ~(<<m, n>> \in Less)
  BY <1>1, WFMin
<1>4. \A m \in S : ~(m < n)
  BY <1>2, <1>3
<1> QED BY <1>4

(* What the first has and the next takes over, all have as far as N.       *)
LEMMA UpTo ==
  ASSUME NEW N \in Nat, NEW Set, 0 \in Set,
         \A n \in 1..N : n-1 \in Set => n \in Set
  PROVE  \A n \in 0..N : n \in Set
<1> DEFINE Without == {n \in 0..N : n \notin Set}
<1>1. SUFFICES ASSUME Without # {} PROVE FALSE
  OBVIOUS
<1>2. Without \in SUBSET Nat
  OBVIOUS
<1> HIDE DEF Without
<1>3. PICK n \in Without : \A m \in Without : n <= m
  BY <1>1, <1>2, Least
<1> USE DEF Without
<1>4. n \in 1..N /\ n-1 \notin Without
  BY <1>3
<1> QED BY <1>3, <1>4

(* Max of numbers that have a bound is one of them, and above the others.  *)
LEMMA MaxIs ==
  ASSUME NEW S \in SUBSET Nat, S # {}, NEW bound \in Nat, \A n \in S : n <= bound
  PROVE  Max(S) \in S /\ \A n \in S : n <= Max(S)
<1> DEFINE Above == {k \in 0..bound : \A n \in S : n <= k}
<1>1. Above \in SUBSET Nat /\ Above # {}
  <2>1. bound \in Above
    OBVIOUS
  <2> QED BY <2>1
<1> HIDE DEF Above
<1>2. PICK top \in Above : \A k \in Above : top <= k
  BY <1>1, Least
<1> USE DEF Above
<1>3. top \in S
  <2> SUFFICES ASSUME top \notin S PROVE FALSE
    OBVIOUS
  <2>1. top \in Nat /\ \A n \in S : n <= top - 1
    OBVIOUS
  <2>2. top > 0
    <3>1. PICK x \in S : TRUE
      OBVIOUS
    <3> QED BY <2>1, <3>1
  <2>3. top - 1 \in Above
    BY <2>1, <2>2
  <2> QED BY <1>2, <2>1, <2>3
<1>4. \E x \in S : \A y \in S : x >= y
  BY <1>3
<1> QED BY <1>4 DEF Max

-----------------------------------------------------------------------------
(* The inductive invariant.  For who never had two processes send, or      *)
(* receive, at once: the files of a sender have the numbers of what it     *)
(* sent, and what was handed to a receiver, what a process of it is about  *)
(* to return and what its cursor leaves to come are three runs of numbers, *)
(* one after the other.                                                    *)

(* A copy of the folder holds files that others created, finitely many,    *)
(* and the names of all have a bound.                                      *)
FilesKnown ==
  /\ FilesTyped
  /\ \A f \in files : f.body.from = f.sender
  /\ \A w \in Participants :
       IsFiniteSet(arrived[w]) /\ \A f \in arrived[w] : f \in files /\ f.sender # w
  /\ \E bound \in Nat : \A f \in files : f.number <= bound /\ f.time <= bound

Together(doings) ==
  {w \in Participants :
     \E p, q \in Processes : /\ p # q /\ Name[p] = w /\ Name[q] = w
                            /\ proc[p].doing \in doings /\ proc[q].doing \in doings}

OneAtATime == Together({"sending"}) \cup Together({"reading", "returning"}) \subseteq raced

(* The n-th message of a sender is in its file of number n.                *)
Numbered ==
  \A s \in Participants \ raced :
    /\ \A n \in DOMAIN sends[s] : sends[s][n] = [from |-> s, no |-> n]
    /\ {f.number : f \in Own(s)} = DOMAIN sends[s]
    /\ \A f \in Own(s) : f.body.no = f.number
    /\ \A p \in Processes : Name[p] = s /\ proc[p].doing = "sending" =>
         proc[p].number = Len(sends[s]) + 1

Nos(s, q) == {q[i].no : i \in {j \in DOMAIN q : q[j].from = s}}

Rising(s, q) ==
  \A i, j \in DOMAIN q : i < j /\ q[i].from = s /\ q[j].from = s => q[i].no < q[j].no

(* The messages of s in q are those with the numbers from a on, below b.   *)
Span(s, q, a, b) == a <= b /\ Rising(s, q) /\ Nos(s, q) = a..b-1

(* All of s that w got has a number below b, all of those if none is lost. *)
Handed(s, w, b) ==
  /\ Rising(s, got[w])
  /\ Nos(s, got[w]) \subseteq 1..b-1
  /\ w \notin lost => Nos(s, got[w]) = 1..b-1

Handing(w) == {p \in Processes : Name[p] = w /\ proc[p].doing = "returning"}

(* What w was handed of s and what is about to be, up to its cursor, and   *)
(* what a process that has not saved the cursor yet goes on with.          *)
Passing(s, w) ==
  /\ cursor[w][s] \in 1..Len(sends[s]) + 1
  /\ Handing(w) = {} => Handed(s, w, cursor[w][s])
  /\ \A p \in Handing(w) :
       \E a \in Nat \ {0} : Handed(s, w, a) /\ Span(s, proc[p].batch, a, cursor[w][s])
  /\ \A p \in Processes : Name[p] = w /\ proc[p].doing = "reading" =>
       /\ proc[p].next[s] \in 1..Len(sends[s]) + 1
       /\ Span(s, proc[p].batch, cursor[w][s], proc[p].next[s])

HandedOver == \A s, w \in Participants \ raced : Passing(s, w)

FolderInv == FilesKnown /\ OneAtATime /\ Numbered /\ HandedOver

-----------------------------------------------------------------------------
(* What pending takes from the files, in the order they are listed.        *)

Taken == [batch : Seq(Message), next : Cursor]

LEMMA TakeType ==
  ASSUME NEW acc \in Taken, NEW f \in File
  PROVE  Take(acc, f) \in Taken
<1>1. /\ acc.batch \in Seq(Message) /\ acc.next \in Cursor
      /\ f.sender \in Participants /\ f.body \in Message /\ acc.next[f.sender] \in Nat
  BY DEF Taken, File, Cursor
<1>2. Append(acc.batch, f.body) \in Seq(Message)
  BY <1>1
<1>3. [acc.next EXCEPT ![f.sender] = @ + 1] \in Cursor
  BY <1>1 DEF Cursor
<1> QED BY <1>2, <1>3 DEF Take, Taken

(* There is what was taken after each file, and the last is pending's.     *)
LEMMA PendingIs ==
  ASSUME NEW w \in Participants, NEW entries \in Seq(File), cursor[w] \in Cursor
  PROVE  \E taken \in [0..Len(entries) -> Taken] :
           /\ taken[0] = [batch |-> << >>, next |-> cursor[w]]
           /\ \A n \in 1..Len(entries) : taken[n] = Take(taken[n-1], entries[n])
           /\ Pending(w, entries) = taken[Len(entries)]
<1> DEFINE N == Len(entries)
           first == [batch |-> << >>, next |-> cursor[w]]
           After(t, k) == \A n \in 0..k : t[n] = IF n = 0 THEN first ELSE Take(t[n-1], entries[n])
           Reached == {k \in 0..N : \E t \in [0..k -> Taken] : After(t, k)}
<1>0. N \in Nat /\ first \in Taken /\ \A n \in 1..N : entries[n] \in File
  BY DEF Taken
<1> HIDE DEF first
<1>1. 0 \in Reached
  <2> DEFINE t == [n \in 0..0 |-> first]
  <2>1. t \in [0..0 -> Taken]
    BY <1>0
  <2>2. After(t, 0)
    OBVIOUS
  <2> HIDE DEF t, After
  <2> QED BY <1>0, <2>1, <2>2
<1>2. ASSUME NEW k \in 1..N, k-1 \in Reached PROVE k \in Reached
  <2>1. PICK t \in [0..k-1 -> Taken] : After(t, k-1)
    BY <1>2
  <2> DEFINE last == Take(t[k-1], entries[k])
             u == [n \in 0..k |-> IF n = k THEN last ELSE t[n]]
  <2>2. last \in Taken
    BY <1>0, <2>1, TakeType
  <2>3. ASSUME NEW n \in 0..k
        PROVE  u[n] = IF n = 0 THEN first ELSE Take(u[n-1], entries[n])
    <3>1. CASE n = k
      <4>1. u[n] = last /\ u[n-1] = t[k-1] /\ n # 0
        BY <3>1
      <4> QED
        BY <3>1, <4>1
    <3>2. CASE n # k
      <4>1. n \in 0..k-1 /\ u[n] = t[n] /\ (n # 0 => u[n-1] = t[n-1])
        BY <3>2
      <4> HIDE DEF u, last
      <4> QED
        BY <2>1, <4>1
    <3> QED
      BY <3>1, <3>2
  <2> HIDE DEF last
  <2>4. u \in [0..k -> Taken]
    BY <2>1, <2>2
  <2>5. After(u, k)
    BY <2>3
  <2> HIDE DEF u, After
  <2> QED
    BY <2>4, <2>5
<1> HIDE DEF Reached
<1>3. \A n \in 1..N : n-1 \in Reached => n \in Reached
  BY <1>2
<1> HIDE DEF N
<1>4. N \in Reached
  <2>1. \A n \in 0..N : n \in Reached
    BY <1>0, <1>1, <1>3, UpTo
  <2> QED BY <1>0, <2>1
<1>5. PICK t \in [0..N -> Taken] : After(t, N)
  BY <1>4 DEF Reached
<1> DEFINE taken == CHOOSE f : f = [n \in 0..N |-> IF n = 0 THEN first
                                                   ELSE Take(f[n-1], entries[n])]
<1>6. t = [n \in 0..N |-> IF n = 0 THEN first ELSE Take(t[n-1], entries[n])]
  BY <1>5
<1>7. taken = [n \in 0..N |-> IF n = 0 THEN first ELSE Take(taken[n-1], entries[n])]
  BY <1>6
<1>8. Pending(w, entries) = taken[N]
  BY DEF Pending, N, first
<1> HIDE DEF taken
<1> DEFINE Inside == {n \in 0..N : taken[n] \in Taken}
<1>9. 0 \in Inside
  BY <1>0, <1>7
<1>10. ASSUME NEW n \in 1..N, n-1 \in Inside PROVE n \in Inside
  <2>1. taken[n] = Take(taken[n-1], entries[n]) /\ taken[n-1] \in Taken
    BY <1>0, <1>7, <1>10
  <2> QED BY <1>0, <2>1, TakeType DEF N
<1> HIDE DEF Inside
<1>11. \A n \in 0..N : n \in Inside
  BY <1>0, <1>9, <1>10, UpTo
<1>12. /\ taken \in [0..N -> Taken] /\ taken[0] = first
       /\ \A n \in 1..N : taken[n] = Take(taken[n-1], entries[n])
  BY <1>0, <1>7, <1>11 DEF Inside
<1> QED BY <1>8, <1>12 DEF N, first

-----------------------------------------------------------------------------
(* Runs of numbers.                                                        *)

LEMMA Concat ==
  ASSUME NEW q \in Seq(Message), NEW r \in Seq(Message)
  PROVE  /\ q \o r \in Seq(Message)
         /\ \A i \in DOMAIN q : i \in DOMAIN (q \o r) /\ (q \o r)[i] = q[i]
         /\ \A i \in DOMAIN r : i + Len(q) \in DOMAIN (q \o r) /\ (q \o r)[i + Len(q)] = r[i]
         /\ \A i \in DOMAIN (q \o r) :
              \/ i \in DOMAIN q
              \/ i > Len(q) /\ i - Len(q) \in DOMAIN r
         /\ Len(q) \in Nat /\ DOMAIN q = 1..Len(q) /\ DOMAIN r \in SUBSET Nat
         /\ DOMAIN (q \o r) \in SUBSET Nat
OBVIOUS

(* A sequence and one that goes on with higher numbers.                    *)
LEMMA RisingOn ==
  ASSUME NEW s \in Participants, NEW q \in Seq(Message), NEW r \in Seq(Message),
         Rising(s, q), Rising(s, r),
         \A n \in Nos(s, q), k \in Nos(s, r) : n < k
  PROVE  Rising(s, q \o r) /\ Nos(s, q \o r) = Nos(s, q) \cup Nos(s, r)
<1> DEFINE t == q \o r
           L == Len(q)
<1>1. /\ \A i \in DOMAIN q : i \in DOMAIN t /\ t[i] = q[i]
      /\ \A i \in DOMAIN r : i + L \in DOMAIN t /\ t[i + L] = r[i]
      /\ \A i \in DOMAIN t : i \in DOMAIN q \/ (i > L /\ i - L \in DOMAIN r)
      /\ L \in Nat /\ DOMAIN q = 1..L /\ DOMAIN r \in SUBSET Nat /\ DOMAIN t \in SUBSET Nat
  BY Concat
<1> HIDE DEF t, L
<1>2. \A i \in DOMAIN t : i > L /\ i - L \in DOMAIN r => t[i] = r[i - L]
  <2> TAKE i \in DOMAIN t
  <2> HAVE i > L /\ i - L \in DOMAIN r
  <2>1. t[(i - L) + L] = r[i - L] /\ (i - L) + L = i
    BY <1>1
  <2> QED BY <2>1
<1>3. Rising(s, t)
  <2> SUFFICES ASSUME NEW i \in DOMAIN t, NEW j \in DOMAIN t, i < j,
                      t[i].from = s, t[j].from = s
               PROVE  t[i].no < t[j].no
    BY DEF Rising
  <2>1. CASE i \in DOMAIN q /\ j \in DOMAIN q
    BY <1>1, <2>1 DEF Rising
  <2>2. CASE i \in DOMAIN q /\ j > L /\ j - L \in DOMAIN r
    <3>1. t[i] = q[i] /\ t[j] = r[j - L]
      BY <1>1, <1>2, <2>2
    <3>2. t[i].no \in Nos(s, q) /\ t[j].no \in Nos(s, r)
      BY <2>2, <3>1 DEF Nos
    <3> QED BY <3>2
  <2>3. CASE i > L /\ i - L \in DOMAIN r /\ j > L /\ j - L \in DOMAIN r
    <3>1. t[i] = r[i - L] /\ t[j] = r[j - L] /\ i - L < j - L
      BY <1>1, <1>2, <2>3
    <3> QED BY <2>3, <3>1 DEF Rising
  <2>4. CASE i > L /\ j \in DOMAIN q
    BY <1>1, <2>4
  <2> QED BY <1>1, <2>1, <2>2, <2>3, <2>4
<1>4. Nos(s, t) \subseteq Nos(s, q) \cup Nos(s, r)
  <2> SUFFICES ASSUME NEW i \in DOMAIN t, t[i].from = s
               PROVE  t[i].no \in Nos(s, q) \cup Nos(s, r)
    BY DEF Nos
  <2> QED BY <1>1, <1>2 DEF Nos
<1>5. Nos(s, q) \subseteq Nos(s, t)
  BY <1>1 DEF Nos
<1>6. Nos(s, r) \subseteq Nos(s, t)
  <2> SUFFICES ASSUME NEW i \in DOMAIN r, r[i].from = s
               PROVE  r[i].no \in Nos(s, t)
    BY DEF Nos
  <2>1. i + L \in DOMAIN t /\ t[i + L] = r[i]
    BY <1>1
  <2> QED BY <2>1 DEF Nos
<1> QED BY <1>3, <1>4, <1>5, <1>6 DEF t

(* No message.                                                             *)
LEMMA NoSpan ==
  ASSUME NEW s, NEW c \in Nat
  PROVE  Span(s, << >>, c, c)
<1>1. Rising(s, << >>)
  BY DEF Rising
<1>2. Nos(s, << >>) = {}
  BY DEF Nos
<1>3. c..c-1 = {}
  OBVIOUS
<1>4. c <= c
  OBVIOUS
<1> QED BY <1>1, <1>2, <1>3, <1>4, Zenon DEF Span

(* One more message.                                                       *)
LEMMA SpanOn ==
  ASSUME NEW s \in Participants, NEW q \in Seq(Message), NEW m \in Message,
         NEW a \in Nat, NEW b \in Nat, Span(s, q, a, b), m.from = s => m.no = b
  PROVE  Span(s, Append(q, m), a, IF m.from = s THEN b + 1 ELSE b)
<1> DEFINE r == <<m>>
<1>1. r \in Seq(Message) /\ Append(q, m) = q \o r /\ DOMAIN r = {1} /\ r[1] = m
  OBVIOUS
<1> HIDE DEF r
<1>2. Nos(s, r) = IF m.from = s THEN {m.no} ELSE {}
  BY <1>1 DEF Nos
<1>3. Rising(s, r)
  BY <1>1 DEF Rising
<1>4. \A n \in Nos(s, q), k \in Nos(s, r) : n < k
  BY <1>2 DEF Span
<1>5. /\ Rising(s, Append(q, m))
      /\ Nos(s, Append(q, m)) = Nos(s, q) \cup Nos(s, r)
  <2>1. r \in Seq(Message) /\ Rising(s, q)
    BY <1>1 DEF Span
  <2>2. Rising(s, q \o r) /\ Nos(s, q \o r) = Nos(s, q) \cup Nos(s, r)
    BY <1>3, <1>4, <2>1, RisingOn
  <2> QED BY <1>1, <2>2
<1>6. Nos(s, q) = a..b-1 /\ a <= b
  BY DEF Span
<1> QED
  <2>1. CASE m.from = s
    <3>1. (a..b-1) \cup {b} = a..(b + 1) - 1
      BY <1>6
    <3> QED BY <1>2, <1>5, <1>6, <2>1, <3>1 DEF Span
  <2>2. CASE m.from # s
    BY <1>2, <1>5, <1>6, <2>2 DEF Span
  <2> QED BY <2>1, <2>2

-----------------------------------------------------------------------------
(* What pending takes of a sender is the next run of its messages.         *)
LEMMA PendingSpan ==
  ASSUME FilesKnown, Numbered,
         NEW w \in Participants, NEW entries \in Sorted(arrived[w])
  PROVE  /\ Pending(w, entries) \in Taken
         /\ \A s \in Participants \ raced : cursor[w][s] \in 1..Len(sends[s]) + 1 =>
              /\ Pending(w, entries).next[s] \in 1..Len(sends[s]) + 1
              /\ Span(s, Pending(w, entries).batch, cursor[w][s], Pending(w, entries).next[s])
<1> DEFINE N == Len(entries)
<1>1. entries \in Seq(arrived[w])
  <2>1. Cardinality(arrived[w]) \in Nat
    BY FS_CardinalityType DEF FilesKnown
  <2> QED BY <2>1 DEF Sorted, SetToSeqs
<1>2. /\ entries \in Seq(File) /\ N \in Nat /\ cursor[w] \in Cursor
      /\ \A n \in 1..N : entries[n] \in arrived[w] /\ entries[n] \in File
  <2>1. arrived[w] \subseteq File /\ cursor[w] \in Cursor
    BY DEF FilesKnown, FilesTyped
  <2> QED BY <1>1, <2>1
<1>3. PICK taken \in [0..N -> Taken] :
        /\ taken[0] = [batch |-> << >>, next |-> cursor[w]]
        /\ \A n \in 1..N : taken[n] = Take(taken[n-1], entries[n])
        /\ Pending(w, entries) = taken[N]
  BY <1>2, PendingIs
<1>4. ASSUME NEW s \in Participants \ raced, cursor[w][s] \in 1..Len(sends[s]) + 1
      PROVE  /\ taken[N].next[s] \in 1..Len(sends[s]) + 1
             /\ Span(s, taken[N].batch, cursor[w][s], taken[N].next[s])
  <2> DEFINE c == cursor[w][s]
             last == Len(sends[s]) + 1
             Inside == {n \in 0..N : /\ taken[n].next[s] \in 1..last
                                     /\ Span(s, taken[n].batch, c, taken[n].next[s])}
  <2>0. c \in Nat /\ last \in Nat /\ c \in 1..last
    BY <1>4 DEF FilesKnown, FilesTyped
  <2>1. 0 \in Inside
    <3>1. taken[0].batch = << >> /\ taken[0].next[s] = c
      BY <1>3
    <3> HIDE DEF c, last
    <3>2. Span(s, << >>, c, c)
      BY <2>0, NoSpan
    <3>3. Span(s, taken[0].batch, c, taken[0].next[s]) /\ taken[0].next[s] \in 1..last
      BY <2>0, <3>1, <3>2
    <3> QED BY <1>2, <3>3
  <2>2. ASSUME NEW n \in 1..N, n-1 \in Inside PROVE n \in Inside
    <3> DEFINE acc == taken[n-1]
               f == entries[n]
    <3>1. /\ acc \in Taken /\ f \in File /\ f \in files /\ f.body.from = f.sender
          /\ taken[n] = Take(acc, f)
          /\ acc.next[s] \in 1..last /\ Span(s, acc.batch, c, acc.next[s])
      BY <1>2, <1>3, <2>2 DEF FilesKnown
    <3>2. f.sender = s => f.body.no = f.number /\ f.number + 1 \in 1..last
      <4>1. f.sender = s => f.body.no = f.number /\ f.number \in DOMAIN sends[s]
        BY <3>1 DEF Numbered, Own
      <4>2. sends[s] \in Seq(Message)
        BY DEF FilesKnown, FilesTyped
      <4> QED BY <4>1, <4>2
    <3> HIDE DEF acc, f, c, last
    <3>3. /\ acc.batch \in Seq(Message) /\ acc.next \in Cursor
          /\ f.body \in Message /\ f.sender \in Participants
      BY <3>1 DEF Taken, File
    <3>4. CASE f.number # acc.next[f.sender]
      BY <3>1, <3>4 DEF Take
    <3>5. CASE f.number = acc.next[f.sender]
      <4>1. /\ taken[n].batch = Append(acc.batch, f.body)
            /\ taken[n].next = [acc.next EXCEPT ![f.sender] = @ + 1]
        BY <3>1, <3>5 DEF Take
      <4>2. taken[n].next[s] = IF f.body.from = s THEN acc.next[s] + 1 ELSE acc.next[s]
        BY <3>1, <3>3, <4>1 DEF Cursor
      <4>3. Span(s, Append(acc.batch, f.body), c,
                 IF f.body.from = s THEN acc.next[s] + 1 ELSE acc.next[s])
        BY <2>0, <3>1, <3>2, <3>3, <3>5, SpanOn DEF Cursor
      <4>4. taken[n].next[s] \in 1..last
        BY <3>1, <3>2, <3>5, <4>2
      <4>5. n \in 0..N
        BY <1>2
      <4> QED BY <4>1, <4>2, <4>3, <4>4, <4>5
    <3> QED BY <3>4, <3>5
  <2> HIDE DEF Inside
  <2>3. \A n \in 0..N : n \in Inside
    BY <1>2, <2>1, <2>2, UpTo
  <2> QED BY <1>2, <2>3 DEF Inside
<1> QED BY <1>2, <1>3, <1>4

-----------------------------------------------------------------------------
(* What the actions share.                                                 *)

LEMMA Becomes ==
  ASSUME FilesKnown, NEW p \in Processes, NEW state \in Proc, Become(p, state)
  PROVE  /\ proc' \in [Processes -> Proc] /\ proc'[p] = state
         /\ \A q \in Processes \ {p} : proc'[q] = proc[q]
BY DEF FilesKnown, FilesTyped, Become

LEMMA IdleType == Idle \in Proc /\ Idle.doing = "nothing" /\ Start \in Cursor
<1>1. Start \in Cursor
  BY DEF Start, Cursor
<1> QED BY <1>1 DEF Idle, Proc

(* A process that begins what another of its name is doing is noted.       *)
LEMMA OneStays ==
  ASSUME FilesKnown, OneAtATime, NEW p \in Processes, NEW state \in Proc, Become(p, state),
         raced \subseteq raced',
         \A doings \in {{"sending"}, {"reading", "returning"}} :
           state.doing \in doings =>
             \/ proc[p].doing \in doings
             \/ \A q \in Processes \ {p} : Name[q] = Name[p] /\ proc[q].doing \in doings
                  => Name[p] \in raced'
  PROVE  OneAtATime'
<1> SUFFICES ASSUME NEW doings \in {{"sending"}, {"reading", "returning"}},
                    NEW q \in Processes, NEW r \in Processes, q # r, Name[q] = Name[r],
                    proc'[q].doing \in doings, proc'[r].doing \in doings
             PROVE  Name[q] \in raced'
  BY DEF OneAtATime, Together
<1>0. /\ proc'[p] = state /\ \A t \in Processes \ {p} : proc'[t] = proc[t]
      /\ Name[q] \in Participants
  BY Becomes, ProcessesAssumption
<1>1. ASSUME NEW t \in Processes, NEW u \in Processes, t # u, Name[t] = Name[u],
             proc[t].doing \in doings, proc[u].doing \in doings
      PROVE  Name[t] \in raced'
  BY <1>1, ProcessesAssumption DEF OneAtATime, Together
<1>2. CASE q # p /\ r # p
  BY <1>0, <1>1, <1>2
<1>3. CASE q = p /\ r # p
  BY <1>0, <1>1, <1>3
<1>4. CASE r = p /\ q # p
  BY <1>0, <1>1, <1>4
<1> QED BY <1>2, <1>3, <1>4

(* Nothing is sent.                                                        *)
LEMMA NumberedStays ==
  ASSUME Numbered, NEW p \in Processes, proc[p] \in Proc,
         UNCHANGED <<files, sends>>, raced \subseteq raced',
         \A q \in Processes \ {p} : proc'[q] = proc[q],
         proc'[p].doing = "sending" /\ Name[p] \notin raced' =>
           proc'[p].number = Len(sends[Name[p]]) + 1
  PROVE  Numbered'
<1> SUFFICES ASSUME NEW s \in Participants \ raced'
             PROVE  /\ \A n \in DOMAIN sends[s] : sends[s][n] = [from |-> s, no |-> n]
                    /\ {f.number : f \in Own(s)} = DOMAIN sends[s]
                    /\ \A f \in Own(s) : f.body.no = f.number
                    /\ \A q \in Processes : Name[q] = s /\ proc'[q].doing = "sending" =>
                         proc'[q].number = Len(sends[s]) + 1
  BY DEF Numbered, Own
<1>1. s \in Participants \ raced
  OBVIOUS
<1> QED BY <1>1 DEF Numbered

Receives(q) == proc[q].doing \in {"reading", "returning"}

(* Nobody receives.                                                        *)
LEMMA HandedStays ==
  ASSUME HandedOver, FilesKnown,
         UNCHANGED <<cursor, got, lost>>, raced \subseteq raced',
         \A s \in Participants : Len(sends[s]) <= Len(sends'[s]) /\ Len(sends'[s]) \in Nat,
         \A q \in Processes : proc'[q] = proc[q] \/ ~(Receives(q) \/ Receives(q)')
  PROVE  HandedOver'
<1> SUFFICES ASSUME NEW s \in Participants \ raced', NEW w \in Participants \ raced'
             PROVE  /\ cursor[w][s] \in 1..Len(sends'[s]) + 1
                    /\ Handing(w)' = {} => Handed(s, w, cursor[w][s])'
                    /\ \A p \in Handing(w)' :
                         \E a \in Nat \ {0} :
                           Handed(s, w, a)' /\ Span(s, proc'[p].batch, a, cursor[w][s])
                    /\ \A p \in Processes : Name[p] = w /\ proc'[p].doing = "reading" =>
                         /\ proc'[p].next[s] \in 1..Len(sends'[s]) + 1
                         /\ Span(s, proc'[p].batch, cursor[w][s], proc'[p].next[s])
  BY DEF HandedOver, Passing
<1>1. s \in Participants \ raced /\ w \in Participants \ raced /\ Passing(s, w)
  BY DEF HandedOver
<1>2. /\ Handing(w)' = Handing(w)
      /\ \A p \in Handing(w) : proc'[p] = proc[p]
      /\ \A p \in Processes : proc'[p].doing = "reading" => proc'[p] = proc[p]
  BY DEF Handing, Receives
<1>3. \A a : Handed(s, w, a)' <=> Handed(s, w, a)
  BY DEF Handed
<1>4. \A n \in 1..Len(sends[s]) + 1 : n \in 1..Len(sends'[s]) + 1
  <2>1. Len(sends[s]) \in Nat
    BY DEF FilesKnown, FilesTyped
  <2> QED BY <2>1
<1>5. cursor[w][s] \in 1..Len(sends'[s]) + 1
  BY <1>1, <1>4 DEF Passing
<1>6. ASSUME Handing(w)' = {} PROVE Handed(s, w, cursor[w][s])'
  <2>1. Handed(s, w, cursor[w][s])
    BY <1>1, <1>2, <1>6 DEF Passing
  <2> QED BY <2>1 DEF Handed
<1>7. ASSUME NEW p \in Handing(w)'
      PROVE  \E a \in Nat \ {0} :
               Handed(s, w, a)' /\ Span(s, proc'[p].batch, a, cursor[w][s])
  <2>1. p \in Handing(w) /\ proc'[p] = proc[p]
    BY <1>2, <1>7
  <2>2. PICK a \in Nat \ {0} : Handed(s, w, a) /\ Span(s, proc[p].batch, a, cursor[w][s])
    BY <1>1, <2>1 DEF Passing
  <2> QED BY <1>3, <2>1, <2>2
<1>8. ASSUME NEW p \in Processes, Name[p] = w, proc'[p].doing = "reading"
      PROVE  /\ proc'[p].next[s] \in 1..Len(sends'[s]) + 1
             /\ Span(s, proc'[p].batch, cursor[w][s], proc'[p].next[s])
  <2>1. proc'[p] = proc[p]
    BY <1>2, <1>8
  <2>2. /\ proc[p].next[s] \in 1..Len(sends[s]) + 1
        /\ Span(s, proc[p].batch, cursor[w][s], proc[p].next[s])
    BY <1>1, <1>8, <2>1 DEF Passing
  <2> QED BY <1>4, <2>1, <2>2
<1> QED BY <1>5, <1>6, <1>7, <1>8

-----------------------------------------------------------------------------
(* The actions.                                                            *)

LEMMA ListKeeps ==
  ASSUME FolderInv, NEW p \in Processes, NEW now \in Clock, List(p, now)
  PROVE  FolderInv'
<1> DEFINE w == Name[p]
           mine == Own(w)
           numbers == {f.number : f \in mine} \cup {0}
           times == {f.time + 1 : f \in mine} \cup {now}
           state == [Idle EXCEPT !.doing = "sending", !.number = Max(numbers) + 1,
                                 !.time = Max(times)]
<1>0. /\ FilesKnown /\ OneAtATime /\ Numbered /\ HandedOver /\ FilesTyped
      /\ w \in Participants /\ now \in Nat /\ proc[p].doing = "nothing"
      /\ Become(p, state) /\ Noting(p, {"sending"})
      /\ UNCHANGED <<files, arrived, cursor, sends, got, lost, stops>>
  BY ProcessesAssumption, ClockAssumption DEF FolderInv, List, FilesKnown
<1>1. \A f \in mine : f \in files /\ f.number \in Nat /\ f.time \in Nat
  BY <1>0 DEF Own, FilesTyped, File
<1>2. Max(numbers) \in numbers /\ (\A n \in numbers : n <= Max(numbers)) /\ Max(numbers) \in Nat
  <2>1. PICK bound \in Nat : \A f \in files : f.number <= bound
    BY <1>0 DEF FilesKnown
  <2>2. numbers \in SUBSET Nat /\ numbers # {} /\ \A n \in numbers : n <= bound
    BY <1>1, <2>1
  <2> HIDE DEF numbers
  <2> QED BY <2>2, MaxIs
<1>3. Max(times) \in Nat
  <2>1. PICK bound \in Nat : \A f \in files : f.time <= bound
    BY <1>0 DEF FilesKnown
  <2>2. times \in SUBSET Nat /\ times # {} /\ \A n \in times : n <= bound + 1 + now
    BY <1>0, <1>1, <2>1
  <2>3. bound + 1 + now \in Nat
    BY <1>0
  <2> HIDE DEF times
  <2> QED BY <2>2, <2>3, MaxIs
<1>4. state \in Proc /\ state.doing = "sending" /\ state.number = Max(numbers) + 1
  <2> DEFINE n == Max(numbers) + 1
             t == Max(times)
  <2>1. n \in Nat /\ t \in Nat /\ Idle \in Proc
    BY <1>2, <1>3, IdleType
  <2>2. state = [Idle EXCEPT !.doing = "sending", !.number = n, !.time = t]
    OBVIOUS
  <2> HIDE DEF n, t, state
  <2>3. state \in Proc /\ state.doing = "sending" /\ state.number = n
    BY <2>1, <2>2 DEF Proc
  <2> QED BY <2>3 DEF n
<1> HIDE DEF state
<1>5. /\ proc' \in [Processes -> Proc] /\ proc'[p] = state
      /\ \A q \in Processes \ {p} : proc'[q] = proc[q]
  BY <1>0, <1>4, Becomes
<1>6. /\ raced \subseteq raced' /\ raced' \subseteq Participants
      /\ \A q \in Processes \ {p} : Name[q] = w /\ proc[q].doing = "sending" => w \in raced'
  BY <1>0 DEF Noting, FilesTyped
<1>7. FilesKnown'
  BY <1>0, <1>5, <1>6 DEF FilesKnown, FilesTyped
<1>8. OneAtATime'
  BY <1>0, <1>4, <1>6, OneStays
<1>9. Numbered'
  <2>1. w \notin raced => Max(numbers) = Len(sends[w])
    <3>1. Len(sends[w]) \in Nat /\ DOMAIN sends[w] = 1..Len(sends[w])
      BY <1>0 DEF FilesTyped
    <3>2. w \notin raced => numbers = 0..Len(sends[w])
      <4>1. w \notin raced => {f.number : f \in mine} = 1..Len(sends[w])
        BY <1>0, <3>1 DEF Numbered
      <4>2. (1..Len(sends[w])) \cup {0} = 0..Len(sends[w])
        BY <3>1
      <4> QED BY <4>1, <4>2
    <3> SUFFICES ASSUME w \notin raced PROVE Max(numbers) = Len(sends[w])
      OBVIOUS
    <3> HIDE DEF numbers, w
    <3>3. Max(numbers) <= Len(sends[w]) /\ Len(sends[w]) <= Max(numbers)
      BY <1>2, <3>1, <3>2
    <3> QED BY <1>2, <3>1, <3>3
  <2>2. proc[p] \in Proc
    BY <1>0 DEF FilesTyped
  <2> QED BY <1>0, <1>4, <1>5, <1>6, <2>1, <2>2, NumberedStays
<1>10. HandedOver'
  <2>1. \A s \in Participants : Len(sends[s]) \in Nat
    BY <1>0 DEF FilesTyped
  <2>2. \A q \in Processes : proc'[q] = proc[q] \/ ~(Receives(q) \/ Receives(q)')
    BY <1>0, <1>4, <1>5 DEF Receives
  <2> QED BY <1>0, <1>6, <2>1, <2>2, HandedStays
<1> QED BY <1>7, <1>8, <1>9, <1>10 DEF FolderInv

LEMMA CreateKeeps ==
  ASSUME FolderInv, NEW p \in Processes, Create(p)
  PROVE  FolderInv'
<1> DEFINE w == Name[p]
           body == [from |-> w, no |-> Len(sends[w]) + 1]
           file == [time |-> proc[p].time, sender |-> w, number |-> proc[p].number, body |-> body]
<1>0. /\ FilesKnown /\ OneAtATime /\ Numbered /\ HandedOver /\ FilesTyped
      /\ w \in Participants /\ proc[p].doing = "sending"
      /\ files' = files \cup {file}
      /\ sends' = [sends EXCEPT ![w] = Append(@, body)]
      /\ Become(p, Idle)
      /\ UNCHANGED <<arrived, cursor, got, history>>
  BY ProcessesAssumption DEF FolderInv, Create, FilesKnown
<1>1. /\ proc[p] \in Proc /\ Len(sends[w]) \in Nat /\ sends[w] \in Seq(Message)
      /\ body \in Message /\ body.from = w /\ body.no = Len(sends[w]) + 1
      /\ \A s \in Participants : sends[s] \in Seq(Message)
  BY <1>0 DEF FilesTyped, Message
<1> HIDE DEF body
<1>2. /\ file \in File /\ file.sender = w /\ file.body = body
      /\ file.number = proc[p].number /\ file.time = proc[p].time
      /\ file.number \in Nat /\ file.time \in Nat
  BY <1>0, <1>1 DEF File, Proc
<1> HIDE DEF file
<1>3. /\ proc' \in [Processes -> Proc] /\ proc'[p] = Idle
      /\ \A q \in Processes \ {p} : proc'[q] = proc[q]
  BY <1>0, Becomes, IdleType
<1>4. /\ sends' \in [Participants -> Seq(Message)]
      /\ sends'[w] = Append(sends[w], body)
      /\ \A s \in Participants \ {w} : sends'[s] = sends[s]
  BY <1>0, <1>1 DEF FilesTyped
<1>5. FilesKnown'
  <2>1. \E bound \in Nat : \A f \in files' : f.number <= bound /\ f.time <= bound
    <3>1. PICK bound \in Nat : \A f \in files : f.number <= bound /\ f.time <= bound
      BY <1>0 DEF FilesKnown
    <3>2. \A f \in files : f.number \in Nat /\ f.time \in Nat
      BY <1>0 DEF FilesTyped, File
    <3> DEFINE more == bound + file.number + file.time
    <3>3. more \in Nat /\ \A f \in files' : f.number <= more /\ f.time <= more
      BY <1>0, <1>2, <3>1, <3>2
    <3> QED BY <3>3
  <2>2. FilesTyped'
    BY <1>0, <1>2, <1>3, <1>4 DEF FilesTyped, history
  <2>3. \A f \in files' : f.body.from = f.sender
    BY <1>0, <1>1, <1>2 DEF FilesKnown
  <2> QED BY <1>0, <2>1, <2>2, <2>3 DEF FilesKnown
<1>6. OneAtATime'
  BY <1>0, IdleType, OneStays DEF history
<1>7. Numbered'
  <2> SUFFICES ASSUME NEW s \in Participants \ raced
               PROVE  /\ \A n \in DOMAIN sends'[s] : sends'[s][n] = [from |-> s, no |-> n]
                      /\ {f.number : f \in Own(s)'} = DOMAIN sends'[s]
                      /\ \A f \in Own(s)' : f.body.no = f.number
                      /\ \A q \in Processes : Name[q] = s /\ proc'[q].doing = "sending" =>
                           proc'[q].number = Len(sends'[s]) + 1
    BY <1>0 DEF Numbered, history
  <2>1. CASE s # w
    <3>1. Own(s)' = Own(s) /\ sends'[s] = sends[s]
      BY <1>0, <1>2, <1>4, <2>1 DEF Own
    <3>2. \A q \in Processes : Name[q] = s => proc'[q] = proc[q]
      BY <1>3, <2>1
    <3>3. /\ \A n \in DOMAIN sends[s] : sends[s][n] = [from |-> s, no |-> n]
          /\ {f.number : f \in Own(s)} = DOMAIN sends[s]
          /\ \A f \in Own(s) : f.body.no = f.number
      BY <1>0 DEF Numbered
    <3>4. \A q \in Processes : Name[q] = s /\ proc'[q].doing = "sending" =>
            proc'[q].number = Len(sends[s]) + 1
      BY <1>0, <3>2 DEF Numbered
    <3> QED BY <3>1, <3>3, <3>4
  <2>2. CASE s = w
    <3> DEFINE L == Len(sends[w])
    <3>1. file.number = L + 1
      BY <1>0, <1>2, <2>2 DEF Numbered
    <3>2. Own(w)' = Own(w) \cup {file}
      BY <1>0, <1>2 DEF Own
    <3>3. DOMAIN sends'[w] = 1..L+1 /\ DOMAIN sends[w] = 1..L /\ Len(sends'[w]) = L + 1
      BY <1>1, <1>4
    <3>4. \A n \in 1..L+1 : sends'[w][n] = IF n = L + 1 THEN body ELSE sends[w][n]
      BY <1>1, <1>4
    <3>5. body = [from |-> w, no |-> L + 1]
      BY DEF body
    <3>6. \A n \in DOMAIN sends'[w] : sends'[w][n] = [from |-> w, no |-> n]
      <4>1. \A n \in 1..L : sends[w][n] = [from |-> w, no |-> n]
        BY <1>0, <2>2, <3>3 DEF Numbered
      <4>2. \A n \in 1..L+1 : n = L + 1 \/ n \in 1..L
        BY <1>1
      <4> QED BY <3>3, <3>4, <3>5, <4>1, <4>2
    <3>7. {f.number : f \in Own(w)'} = DOMAIN sends'[w]
      <4>1. {f.number : f \in Own(w)'} = {f.number : f \in Own(w)} \cup {L + 1}
        BY <3>1, <3>2
      <4>2. {f.number : f \in Own(w)} = 1..L
        BY <1>0, <2>2, <3>3 DEF Numbered
      <4>3. (1..L) \cup {L + 1} = 1..L+1
        BY <1>1
      <4> QED BY <3>3, <4>1, <4>2, <4>3
    <3>8. \A f \in Own(w)' : f.body.no = f.number
      BY <1>0, <1>1, <1>2, <2>2, <3>1, <3>2 DEF Numbered
    <3>9. \A q \in Processes : Name[q] = w => proc'[q].doing # "sending"
      <4> SUFFICES ASSUME NEW q \in Processes, Name[q] = w, proc'[q].doing = "sending"
                   PROVE  FALSE
        OBVIOUS
      <4>1. q # p /\ proc[q].doing = "sending"
        BY <1>3, IdleType
      <4>2. w \in Together({"sending"})
        BY <1>0, <4>1 DEF Together
      <4> QED BY <1>0, <2>2, <4>2 DEF OneAtATime
    <3> QED BY <2>2, <3>6, <3>7, <3>8, <3>9
  <2> QED BY <2>1, <2>2
<1>8. HandedOver'
  <2>1. \A s \in Participants : Len(sends[s]) <= Len(sends'[s]) /\ Len(sends'[s]) \in Nat
    <3>1. Len(sends'[w]) = Len(sends[w]) + 1
      BY <1>1, <1>4
    <3>2. \A s \in Participants : Len(sends[s]) \in Nat
      BY <1>1
    <3>3. \A s \in Participants \ {w} : Len(sends'[s]) = Len(sends[s])
      BY <1>4
    <3>4. ASSUME NEW s \in Participants
          PROVE  Len(sends[s]) <= Len(sends'[s]) /\ Len(sends'[s]) \in Nat
      <4> DEFINE before == Len(sends[s])
                 after == Len(sends'[s])
      <4>1. before \in Nat /\ (after = before + 1 \/ after = before)
        BY <3>1, <3>2, <3>3
      <4> HIDE DEF before, after
      <4>2. before <= after /\ after \in Nat
        BY <4>1
      <4> QED BY <4>2 DEF before, after
    <3> QED BY <3>4
  <2>2. \A q \in Processes : proc'[q] = proc[q] \/ ~(Receives(q) \/ Receives(q)')
    BY <1>0, <1>3, IdleType DEF Receives
  <2> QED BY <1>0, <2>1, <2>2, HandedStays DEF history
<1> QED BY <1>5, <1>6, <1>7, <1>8 DEF FolderInv

LEMMA CollideKeeps ==
  ASSUME FolderInv, NEW p \in Processes, Collide(p)
  PROVE  FolderInv'
<1> DEFINE w == Name[p]
           state == IF proc[p].tries + 1 < SendAttempts
                    THEN [proc[p] EXCEPT !.number = @ + 1, !.tries = @ + 1]
                    ELSE Idle
<1>0. /\ FilesKnown /\ OneAtATime /\ Numbered /\ HandedOver /\ FilesTyped
      /\ w \in Participants /\ proc[p].doing = "sending"
      /\ Become(p, state) /\ proc[p] \in Proc
      /\ UNCHANGED <<files, arrived, cursor, sends, got, history>>
  BY ProcessesAssumption DEF FolderInv, Collide, FilesKnown, FilesTyped
<1>1. PICK f \in files : SameName(f, p)
  BY DEF Collide
<1>2. state \in Proc /\ state.doing \in {"sending", "nothing"}
  <2> DEFINE more == [proc[p] EXCEPT !.number = @ + 1, !.tries = @ + 1]
  <2> DEFINE n == proc[p].number + 1
             t == proc[p].tries + 1
             r == proc[p]
  <2>1. n \in Nat /\ t \in Nat /\ r \in Proc /\ r.doing = "sending"
    BY <1>0 DEF Proc
  <2>2. more \in Proc /\ more.doing = "sending"
    <3>1. more = [r EXCEPT !.number = n, !.tries = t]
      OBVIOUS
    <3> HIDE DEF n, t, r, more
    <3> QED BY <2>1, <3>1 DEF Proc
  <2>3. state = more \/ state = Idle
    OBVIOUS
  <2> HIDE DEF more, state
  <2> QED BY <2>2, <2>3, IdleType
<1> HIDE DEF state
<1>3. /\ proc' \in [Processes -> Proc] /\ proc'[p] = state
      /\ \A q \in Processes \ {p} : proc'[q] = proc[q]
  BY <1>0, <1>2, Becomes
<1>4. w \in raced
  <2> SUFFICES ASSUME w \notin raced PROVE FALSE
    OBVIOUS
  <2>1. f.number = Len(sends[w]) + 1 /\ f \in Own(w)
    BY <1>0, <1>1 DEF Numbered, SameName, Own
  <2>2. Len(sends[w]) + 1 \in DOMAIN sends[w]
    BY <1>0, <2>1 DEF Numbered
  <2>3. sends[w] \in Seq(Message)
    BY <1>0 DEF FilesTyped
  <2> QED BY <2>2, <2>3
<1>5. FilesKnown'
  BY <1>0, <1>3 DEF FilesKnown, FilesTyped, history
<1>6. OneAtATime'
  BY <1>0, <1>2, OneStays DEF history
<1>7. Numbered'
  BY <1>0, <1>3, <1>4, NumberedStays DEF history
<1>8. HandedOver'
  <2>1. \A s \in Participants : Len(sends[s]) \in Nat
    BY <1>0 DEF FilesTyped
  <2>2. \A q \in Processes : proc'[q] = proc[q] \/ ~(Receives(q) \/ Receives(q)')
    BY <1>0, <1>2, <1>3 DEF Receives
  <2> QED BY <1>0, <2>1, <2>2, HandedStays DEF history
<1> QED BY <1>5, <1>6, <1>7, <1>8 DEF FolderInv

LEMMA ArriveKeeps ==
  ASSUME FolderInv, NEW w \in Participants, NEW f \in files, Arrive(w, f)
  PROVE  FolderInv'
<1>0. /\ FilesKnown /\ OneAtATime /\ Numbered /\ HandedOver /\ FilesTyped
      /\ f \in files /\ f.sender # w
      /\ arrived' = [arrived EXCEPT ![w] = @ \cup {f}]
      /\ UNCHANGED <<files, cursor, proc, sends, got, history>>
  BY DEF FolderInv, Arrive, FilesKnown
<1>1. FilesKnown'
  <2>1. arrived' \in [Participants -> SUBSET File]
    BY <1>0 DEF FilesTyped
  <2>2. \A v \in Participants :
          arrived'[v] = IF v = w THEN arrived[w] \cup {f} ELSE arrived[v]
    BY <1>0 DEF FilesTyped
  <2>3. IsFiniteSet(arrived[w] \cup {f})
    BY <1>0, FS_AddElement DEF FilesKnown
  <2> QED BY <1>0, <2>1, <2>2, <2>3 DEF FilesKnown, FilesTyped, history
<1>2. OneAtATime'
  BY <1>0 DEF OneAtATime, Together, history
<1>3. Numbered'
  BY <1>0 DEF Numbered, Own, history
<1>4. HandedOver'
  <2>1. \A s \in Participants : Len(sends[s]) \in Nat
    BY <1>0 DEF FilesTyped
  <2> QED BY <1>0, <2>1, HandedStays DEF history
<1> QED BY <1>1, <1>2, <1>3, <1>4 DEF FolderInv

(* Who is not of the name that takes a step.                               *)
LEMMA OthersPass ==
  ASSUME NEW s \in Participants, NEW w \in Participants, Passing(s, w),
         NEW p \in Processes, Name[p] # w,
         \A q \in Processes \ {p} : proc'[q] = proc[q],
         cursor'[w] = cursor[w], got'[w] = got[w], sends' = sends,
         w \in lost' <=> w \in lost
  PROVE  Passing(s, w)'
<1>1. /\ Handing(w)' = Handing(w)
      /\ \A q \in Processes : Name[q] = w => proc'[q] = proc[q]
      /\ \A q \in Handing(w) : proc'[q] = proc[q]
  BY DEF Handing
<1>2. \A a : Handed(s, w, a)' <=> Handed(s, w, a)
  BY DEF Handed
<1>3. cursor'[w][s] \in 1..Len(sends'[s]) + 1
  BY DEF Passing
<1>4. ASSUME Handing(w)' = {} PROVE Handed(s, w, cursor[w][s])'
  <2>1. Handed(s, w, cursor[w][s])
    BY <1>1, <1>4 DEF Passing
  <2> QED BY <2>1 DEF Handed
<1>5. ASSUME NEW q \in Handing(w)'
      PROVE  \E a \in Nat \ {0} :
               Handed(s, w, a)' /\ Span(s, proc'[q].batch, a, cursor'[w][s])
  <2>1. q \in Handing(w) /\ proc'[q] = proc[q]
    BY <1>1, <1>5
  <2>2. PICK a \in Nat \ {0} : Handed(s, w, a) /\ Span(s, proc[q].batch, a, cursor[w][s])
    BY <2>1 DEF Passing
  <2> QED BY <1>2, <2>1, <2>2
<1>6. ASSUME NEW q \in Processes, Name[q] = w, proc'[q].doing = "reading"
      PROVE  /\ proc'[q].next[s] \in 1..Len(sends'[s]) + 1
             /\ Span(s, proc'[q].batch, cursor'[w][s], proc'[q].next[s])
  <2>1. proc'[q] = proc[q]
    BY <1>1, <1>6
  <2> QED BY <1>6, <2>1 DEF Passing
<1> QED BY <1>3, <1>4, <1>5, <1>6 DEF Passing

LEMMA ReadKeeps ==
  ASSUME FolderInv, NEW p \in Processes, Read(p)
  PROVE  FolderInv'
<1> DEFINE w == Name[p]
<1>1. PICK entries \in Sorted(arrived[w]) :
        LET pending == Pending(w, entries)
        IN  Become(p, [Idle EXCEPT !.doing = "reading", !.batch = pending.batch,
                                   !.next = pending.next])
  BY DEF Read
<1> DEFINE pending == Pending(w, entries)
           state == [Idle EXCEPT !.doing = "reading", !.batch = pending.batch,
                                 !.next = pending.next]
<1>0. /\ FilesKnown /\ OneAtATime /\ Numbered /\ HandedOver /\ FilesTyped
      /\ w \in Participants /\ proc[p].doing = "nothing" /\ proc[p] \in Proc
      /\ Become(p, state) /\ Noting(p, {"reading", "returning"})
      /\ UNCHANGED <<files, arrived, cursor, sends, got, lost, stops>>
  BY <1>1, ProcessesAssumption DEF FolderInv, Read, FilesKnown, FilesTyped
<1>2. /\ pending \in Taken
      /\ \A s \in Participants \ raced : cursor[w][s] \in 1..Len(sends[s]) + 1 =>
           /\ pending.next[s] \in 1..Len(sends[s]) + 1
           /\ Span(s, pending.batch, cursor[w][s], pending.next[s])
  BY <1>0, PendingSpan
<1> HIDE DEF pending
<1>3. /\ state \in Proc /\ state.doing = "reading"
      /\ state.batch = pending.batch /\ state.next = pending.next
  <2> DEFINE b == pending.batch
             n == pending.next
  <2>1. b \in Seq(Message) /\ n \in Cursor /\ Idle \in Proc
    BY <1>2, IdleType DEF Taken
  <2>2. state = [Idle EXCEPT !.doing = "reading", !.batch = b, !.next = n]
    OBVIOUS
  <2> HIDE DEF b, n, state
  <2>3. state \in Proc /\ state.doing = "reading" /\ state.batch = b /\ state.next = n
    BY <2>1, <2>2 DEF Proc
  <2> QED BY <2>3 DEF b, n
<1> HIDE DEF state
<1>4. /\ proc' \in [Processes -> Proc] /\ proc'[p] = state
      /\ \A q \in Processes \ {p} : proc'[q] = proc[q]
  BY <1>0, <1>3, Becomes
<1>5. /\ raced \subseteq raced' /\ raced' \subseteq Participants
      /\ \A q \in Processes \ {p} :
           Name[q] = w /\ proc[q].doing \in {"reading", "returning"} => w \in raced'
  BY <1>0 DEF Noting, FilesTyped
<1>6. FilesKnown'
  BY <1>0, <1>4, <1>5 DEF FilesKnown, FilesTyped
<1>7. OneAtATime'
  BY <1>0, <1>3, <1>5, OneStays
<1>8. Numbered'
  BY <1>0, <1>3, <1>4, <1>5, NumberedStays
<1>9. HandedOver'
  <2> SUFFICES ASSUME NEW s \in Participants \ raced', NEW v \in Participants \ raced'
               PROVE  Passing(s, v)'
    BY DEF HandedOver
  <2>1. Passing(s, v) /\ s \in Participants \ raced
    BY <1>0, <1>5 DEF HandedOver
  <2>2. CASE v # w
    BY <1>0, <1>4, <2>1, <2>2, OthersPass
  <2>3. CASE v = w
    <3>1. Handing(w)' = {} /\ Handing(w) = {}
      BY <1>0, <1>3, <1>4, <1>5, <2>3 DEF Handing
    <3>2. cursor'[w][s] \in 1..Len(sends'[s]) + 1 /\ Handed(s, w, cursor[w][s])'
      <4>1. Handed(s, w, cursor[w][s]) /\ cursor[w][s] \in 1..Len(sends[s]) + 1
        BY <2>1, <2>3, <3>1 DEF Passing
      <4> QED BY <1>0, <4>1 DEF Handed
    <3>3. ASSUME NEW q \in Processes, Name[q] = w, proc'[q].doing = "reading"
          PROVE  /\ proc'[q].next[s] \in 1..Len(sends'[s]) + 1
                 /\ Span(s, proc'[q].batch, cursor'[w][s], proc'[q].next[s])
      <4>1. q = p
        BY <1>4, <1>5, <2>3, <3>3
      <4> QED BY <1>0, <1>2, <1>3, <1>4, <2>1, <3>2, <4>1
    <3> QED BY <2>3, <3>1, <3>2, <3>3 DEF Passing
  <2> QED BY <2>2, <2>3
<1> QED BY <1>6, <1>7, <1>8, <1>9 DEF FolderInv

(* A participant not noted has one process that receives.                  *)
LEMMA Alone ==
  ASSUME OneAtATime, NEW p \in Processes, Receives(p), Name[p] \notin raced
  PROVE  \A q \in Processes \ {p} : Name[q] = Name[p] => ~Receives(q)
<1> SUFFICES ASSUME NEW q \in Processes \ {p}, Name[q] = Name[p], Receives(q)
             PROVE  FALSE
  OBVIOUS
<1>1. Name[p] \in Together({"reading", "returning"})
  BY ProcessesAssumption DEF Together, Receives
<1> QED BY <1>1 DEF OneAtATime

LEMMA SaveCursorKeeps ==
  ASSUME FolderInv, NEW p \in Processes, SaveCursor(p)
  PROVE  FolderInv'
<1> DEFINE w == Name[p]
           state == [proc[p] EXCEPT !.doing = "returning"]
<1>0. /\ FilesKnown /\ OneAtATime /\ Numbered /\ HandedOver /\ FilesTyped
      /\ w \in Participants /\ proc[p].doing = "reading" /\ proc[p] \in Proc
      /\ cursor' = [cursor EXCEPT ![w] = proc[p].next]
      /\ Become(p, state)
      /\ UNCHANGED <<files, arrived, sends, got, history>>
  BY ProcessesAssumption DEF FolderInv, SaveCursor, FilesKnown, FilesTyped
<1>1. /\ state \in Proc /\ state.doing = "returning"
      /\ state.batch = proc[p].batch /\ state.next = proc[p].next
      /\ proc[p].next \in Cursor
  <2> DEFINE r == proc[p]
  <2>1. state = [r EXCEPT !.doing = "returning"]
    OBVIOUS
  <2>2. r \in Proc
    BY <1>0
  <2> HIDE DEF r, state
  <2>3. /\ state \in Proc /\ state.doing = "returning"
        /\ state.batch = r.batch /\ state.next = r.next /\ r.next \in Cursor
    BY <2>1, <2>2 DEF Proc
  <2> QED BY <2>3 DEF r
<1> HIDE DEF state
<1>2. /\ proc' \in [Processes -> Proc] /\ proc'[p] = state
      /\ \A q \in Processes \ {p} : proc'[q] = proc[q]
  BY <1>0, <1>1, Becomes
<1>3. /\ cursor' \in [Participants -> Cursor] /\ cursor'[w] = proc[p].next
      /\ \A v \in Participants \ {w} : cursor'[v] = cursor[v]
  BY <1>0, <1>1 DEF FilesTyped
<1>4. FilesKnown'
  BY <1>0, <1>2, <1>3 DEF FilesKnown, FilesTyped, history
<1>5. OneAtATime'
  BY <1>0, <1>1, OneStays DEF history
<1>6. Numbered'
  BY <1>0, <1>1, <1>2, NumberedStays DEF history
<1>7. HandedOver'
  <2> SUFFICES ASSUME NEW s \in Participants \ raced, NEW v \in Participants \ raced
               PROVE  Passing(s, v)'
    BY <1>0 DEF HandedOver, history
  <2>1. Passing(s, v)
    BY <1>0 DEF HandedOver
  <2>2. CASE v # w
    BY <1>0, <1>2, <1>3, <2>1, <2>2, OthersPass DEF history
  <2>3. CASE v = w
    <3>1. \A q \in Processes \ {p} : Name[q] = w => ~Receives(q)
      BY <1>0, <2>3, Alone DEF Receives
    <3>2. Handing(w) = {} /\ Handing(w)' = {p}
      BY <1>0, <1>1, <1>2, <3>1 DEF Handing, Receives
    <3>3. /\ proc[p].next[s] \in 1..Len(sends[s]) + 1
          /\ Span(s, proc[p].batch, cursor[w][s], proc[p].next[s])
          /\ Handed(s, w, cursor[w][s]) /\ cursor[w][s] \in Nat \ {0}
      <4>1. Len(sends[s]) \in Nat
        BY <1>0 DEF FilesTyped
      <4>2. cursor[w][s] \in 1..Len(sends[s]) + 1
        BY <2>1, <2>3 DEF Passing
      <4>3. cursor[w][s] \in Nat \ {0}
        BY <4>1, <4>2
      <4> QED BY <1>0, <2>1, <2>3, <3>2, <4>3 DEF Passing
    <3>4. cursor'[w][s] \in 1..Len(sends'[s]) + 1
      BY <1>0, <1>3, <3>3
    <3>5. \A a : Handed(s, w, a)' <=> Handed(s, w, a)
      BY <1>0 DEF Handed, history
    <3>6. \E a \in Nat \ {0} :
            Handed(s, w, a)' /\ Span(s, proc'[p].batch, a, cursor'[w][s])
      BY <1>1, <1>2, <1>3, <3>3, <3>5
    <3>7. \A q \in Processes : Name[q] = w => proc'[q].doing # "reading"
      BY <1>1, <1>2, <3>1 DEF Receives
    <3> QED BY <2>3, <3>2, <3>4, <3>6, <3>7 DEF Passing
  <2> QED BY <2>2, <2>3
<1> QED BY <1>4, <1>5, <1>6, <1>7 DEF FolderInv

(* A process that has saved the cursor ends.                               *)
LEMMA EndPasses ==
  ASSUME FilesKnown, OneAtATime, NEW p \in Processes, proc[p].doing = "returning",
         NEW s \in Participants, Name[p] \notin raced, Passing(s, Name[p]),
         proc'[p].doing = "nothing", \A q \in Processes \ {p} : proc'[q] = proc[q],
         cursor' = cursor, sends' = sends,
         \A a \in Nat \ {0} :
           /\ Handed(s, Name[p], a)
           /\ Span(s, proc[p].batch, a, cursor[Name[p]][s])
           => Handed(s, Name[p], cursor[Name[p]][s])'
  PROVE  Passing(s, Name[p])'
<1> DEFINE w == Name[p]
<1>1. \A q \in Processes : Name[q] = w => ~Receives(q)'
  <2>1. \A q \in Processes \ {p} : Name[q] = w => ~Receives(q)
    BY Alone DEF Receives
  <2> QED BY <2>1 DEF Receives
<1>2. Handing(w)' = {}
  BY <1>1 DEF Handing, Receives
<1>3. p \in Handing(w)
  BY DEF Handing
<1>4. PICK a \in Nat \ {0} : Handed(s, w, a) /\ Span(s, proc[p].batch, a, cursor[w][s])
  BY <1>3 DEF Passing
<1>5. Handed(s, w, cursor[w][s])'
  BY <1>4
<1>6. \A q \in Processes : Name[q] = w => proc'[q].doing # "reading"
  BY <1>1 DEF Receives
<1>7. cursor'[w][s] \in 1..Len(sends'[s]) + 1
  BY DEF Passing
<1> QED BY <1>2, <1>5, <1>6, <1>7 DEF Passing

LEMMA ReturnKeeps ==
  ASSUME FolderInv, NEW p \in Processes, Return(p)
  PROVE  FolderInv'
<1> DEFINE w == Name[p]
           batch == proc[p].batch
<1>0. /\ FilesKnown /\ OneAtATime /\ Numbered /\ HandedOver /\ FilesTyped
      /\ w \in Participants /\ proc[p].doing = "returning" /\ proc[p] \in Proc
      /\ got' = [got EXCEPT ![w] = @ \o batch]
      /\ Become(p, Idle)
      /\ UNCHANGED <<files, arrived, cursor, sends, history>>
  BY ProcessesAssumption DEF FolderInv, Return, FilesKnown, FilesTyped
<1>1. /\ proc' \in [Processes -> Proc] /\ proc'[p].doing = "nothing"
      /\ \A q \in Processes \ {p} : proc'[q] = proc[q]
  BY <1>0, Becomes, IdleType
<1>2. batch \in Seq(Message) /\ got[w] \in Seq(Message) /\ got[w] \o batch \in Seq(Message)
  <2>1. batch \in Seq(Message) /\ got[w] \in Seq(Message)
    BY <1>0 DEF Proc, FilesTyped
  <2> QED BY <2>1, Concat
<1>3. /\ got' \in [Participants -> Seq(Message)] /\ got'[w] = got[w] \o batch
      /\ \A v \in Participants \ {w} : got'[v] = got[v]
  BY <1>0, <1>2 DEF FilesTyped
<1> HIDE DEF batch
<1>4. FilesKnown'
  BY <1>0, <1>1, <1>3 DEF FilesKnown, FilesTyped, history
<1>5. OneAtATime'
  BY <1>0, IdleType, OneStays DEF history
<1>6. Numbered'
  BY <1>0, <1>1, NumberedStays DEF history
<1>7. HandedOver'
  <2> SUFFICES ASSUME NEW s \in Participants \ raced, NEW v \in Participants \ raced
               PROVE  Passing(s, v)'
    BY <1>0 DEF HandedOver, history
  <2>1. Passing(s, v)
    BY <1>0 DEF HandedOver
  <2>2. CASE v # w
    BY <1>0, <1>1, <1>3, <2>1, <2>2, OthersPass DEF history
  <2>3. CASE v = w
    <3> DEFINE c == cursor[w][s]
    <3>1. c \in Nat
      BY <1>0 DEF FilesTyped, Cursor
    <3> HIDE DEF c
    <3>2. ASSUME NEW a \in Nat \ {0}, Handed(s, w, a), Span(s, batch, a, c)
          PROVE  Handed(s, w, c)'
      <4>1. /\ Rising(s, got[w]) /\ Rising(s, batch) /\ a <= c
            /\ Nos(s, got[w]) \subseteq 1..a-1 /\ Nos(s, batch) = a..c-1
            /\ w \notin lost => Nos(s, got[w]) = 1..a-1
        BY <3>2 DEF Handed, Span
      <4>2. \A n \in Nos(s, got[w]), k \in Nos(s, batch) : n < k
        BY <3>1, <4>1
      <4>3. Rising(s, got'[w]) /\ Nos(s, got'[w]) = Nos(s, got[w]) \cup Nos(s, batch)
        <5>1. /\ Rising(s, got[w] \o batch)
              /\ Nos(s, got[w] \o batch) = Nos(s, got[w]) \cup Nos(s, batch)
          BY <1>2, <4>1, <4>2, RisingOn
        <5> QED BY <1>3, <5>1
      <4>4. (1..a-1) \cup (a..c-1) = 1..c-1
        BY <3>1, <4>1
      <4>5. Nos(s, got'[w]) \subseteq 1..c-1 /\ (w \notin lost => Nos(s, got'[w]) = 1..c-1)
        BY <4>1, <4>3, <4>4
      <4>6. c' = c /\ lost' = lost
        BY <1>0 DEF c, history
      <4> QED BY <4>3, <4>5, <4>6 DEF Handed
    <3>3. /\ c' = c
          /\ \A a \in Nat \ {0} : /\ Handed(s, w, a)
                                  /\ Span(s, proc[p].batch, a, cursor[w][s])
                                  => Handed(s, w, cursor[w][s])'
      BY <1>0, <3>2 DEF c, batch
    <3> QED BY <1>0, <1>1, <2>1, <2>3, <3>3, EndPasses
  <2> QED BY <2>2, <2>3
<1> QED BY <1>4, <1>5, <1>6, <1>7 DEF FolderInv

LEMMA StopKeeps ==
  ASSUME FolderInv, NEW p \in Processes, Stop(p)
  PROVE  FolderInv'
<1> DEFINE w == Name[p]
<1>0. /\ FilesKnown /\ OneAtATime /\ Numbered /\ HandedOver /\ FilesTyped
      /\ w \in Participants /\ proc[p].doing # "nothing" /\ proc[p] \in Proc
      /\ lost' = IF proc[p].doing = "returning" THEN lost \cup {w} ELSE lost
      /\ stops' = stops + 1
      /\ Become(p, Idle)
      /\ UNCHANGED <<files, arrived, cursor, sends, got, raced>>
  BY ProcessesAssumption DEF FolderInv, Stop, FilesKnown, FilesTyped
<1>1. /\ proc' \in [Processes -> Proc] /\ proc'[p].doing = "nothing"
      /\ \A q \in Processes \ {p} : proc'[q] = proc[q]
  BY <1>0, Becomes, IdleType
<1>2. FilesKnown'
  <2>1. lost' \subseteq Participants /\ stops' \in Nat
    BY <1>0 DEF FilesTyped
  <2> QED BY <1>0, <1>1, <2>1 DEF FilesKnown, FilesTyped
<1>3. OneAtATime'
  BY <1>0, IdleType, OneStays
<1>4. Numbered'
  BY <1>0, <1>1, NumberedStays
<1>5. HandedOver'
  <2> SUFFICES ASSUME NEW s \in Participants \ raced, NEW v \in Participants \ raced
               PROVE  Passing(s, v)'
    BY <1>0 DEF HandedOver
  <2>1. Passing(s, v)
    BY <1>0 DEF HandedOver
  <2>2. CASE v # w
    <3>1. v \in lost' <=> v \in lost
      BY <1>0, <2>2
    <3> QED BY <1>0, <1>1, <2>1, <2>2, <3>1, OthersPass
  <2>3. CASE v = w /\ proc[p].doing = "returning"
    <3>1. ASSUME NEW a \in Nat \ {0}, Handed(s, w, a), Span(s, proc[p].batch, a, cursor[w][s])
          PROVE  Handed(s, w, cursor[w][s])'
      <4>1. a <= cursor[w][s] /\ cursor[w][s] \in Nat
        BY <1>0, <3>1 DEF FilesTyped, Cursor, Span
      <4>2. 1..a-1 \subseteq 1..cursor[w][s]-1
        BY <4>1
      <4>3. w \in lost'
        BY <1>0, <2>3
      <4> QED BY <1>0, <3>1, <4>2, <4>3 DEF Handed
    <3> QED BY <1>0, <1>1, <2>1, <2>3, <3>1, EndPasses
  <2>4. CASE v = w /\ proc[p].doing # "returning"
    <3>1. Handing(w)' = Handing(w) /\ lost' = lost
      BY <1>0, <1>1, <2>4 DEF Handing
    <3>2. \A q \in Handing(w) : proc'[q] = proc[q]
      BY <1>1, <2>4 DEF Handing
    <3>3. \A q \in Processes : proc'[q].doing = "reading" => proc'[q] = proc[q]
      BY <1>1
    <3>4. \A a : Handed(s, w, a)' <=> Handed(s, w, a)
      BY <1>0, <3>1 DEF Handed
    <3>5. cursor[w][s] \in 1..Len(sends[s]) + 1
      BY <2>1, <2>4 DEF Passing
    <3>6. ASSUME Handing(w) = {} PROVE Handed(s, w, cursor[w][s])'
      <4>1. Handed(s, w, cursor[w][s])
        BY <2>1, <2>4, <3>6 DEF Passing
      <4> QED BY <1>0, <3>1, <4>1 DEF Handed
    <3>7. \A q \in Handing(w) :
            \E a \in Nat \ {0} : Handed(s, w, a)' /\ Span(s, proc'[q].batch, a, cursor[w][s])
      BY <2>1, <2>4, <3>2, <3>4 DEF Passing
    <3>8. \A q \in Processes : Name[q] = w /\ proc'[q].doing = "reading" =>
            /\ proc'[q].next[s] \in 1..Len(sends[s]) + 1
            /\ Span(s, proc'[q].batch, cursor[w][s], proc'[q].next[s])
      BY <2>1, <2>4, <3>3 DEF Passing
    <3> QED BY <1>0, <2>4, <3>1, <3>5, <3>6, <3>7, <3>8 DEF Passing
  <2> QED BY <2>2, <2>3, <2>4
<1> QED BY <1>2, <1>3, <1>4, <1>5 DEF FolderInv

LEMMA InitKeeps == Init => FolderInv
<1> SUFFICES ASSUME Init PROVE FolderInv
  OBVIOUS
<1>0. /\ files = {} /\ raced = {} /\ lost = {} /\ stops = 0
      /\ \A p \in Processes : proc[p] = Idle /\ proc[p].doing = "nothing"
      /\ \A w \in Participants : /\ arrived[w] = {} /\ cursor[w] = Start
                                 /\ sends[w] = << >> /\ got[w] = << >>
  BY IdleType DEF Init
<1>1. FilesTyped
  BY IdleType DEF Init, FilesTyped
<1>2. FilesKnown
  <2>1. IsFiniteSet({})
    BY FS_EmptySet
  <2>2. \E bound \in Nat : \A f \in files : f.number <= bound /\ f.time <= bound
    BY <1>0
  <2> QED BY <1>0, <1>1, <2>1, <2>2 DEF FilesKnown
<1>3. OneAtATime
  BY <1>0 DEF OneAtATime, Together
<1>4. Numbered
  BY <1>0 DEF Numbered, Own
<1>5. HandedOver
  <2> SUFFICES ASSUME NEW s \in Participants, NEW w \in Participants
               PROVE  Passing(s, w)
    BY DEF HandedOver
  <2>1. cursor[w][s] = 1 /\ got[w] = << >> /\ Len(sends[s]) = 0
    BY <1>0 DEF Start
  <2>2. Handed(s, w, 1)
    BY <2>1 DEF Handed, Rising, Nos
  <2> QED BY <1>0, <2>1, <2>2 DEF Passing, Handing
<1> QED BY <1>2, <1>3, <1>4, <1>5 DEF FolderInv

LEMMA NextKeeps == FolderInv /\ [Next]_vars => FolderInv'
<1> SUFFICES ASSUME FolderInv, [Next]_vars PROVE FolderInv'
  OBVIOUS
<1>1. ASSUME NEW p \in Processes, Operation(p) PROVE FolderInv'
  BY <1>1, CreateKeeps, CollideKeeps, ReadKeeps, SaveCursorKeeps, ReturnKeeps DEF Operation
<1>2. ASSUME NEW p \in Processes, Stop(p) PROVE FolderInv'
  BY <1>2, StopKeeps
<1>3. ASSUME NEW p \in Processes, NEW now \in Clock, List(p, now) PROVE FolderInv'
  BY <1>3, ListKeeps
<1>4. ASSUME NEW w \in Participants, NEW f \in files, Arrive(w, f) PROVE FolderInv'
  BY <1>4, ArriveKeeps
<1>5. ASSUME UNCHANGED vars PROVE FolderInv'
  <2>0. UNCHANGED <<files, arrived, cursor, proc, sends, got, raced, lost, stops>>
    BY <1>5 DEF vars, history
  <2>1. FilesKnown'
    BY <2>0 DEF FolderInv, FilesKnown, FilesTyped
  <2>2. OneAtATime' /\ Numbered'
    BY <2>0 DEF FolderInv, OneAtATime, Together, Numbered, Own
  <2>3. HandedOver'
    <3>1. \A s \in Participants : Len(sends[s]) \in Nat
      BY DEF FolderInv, FilesKnown, FilesTyped
    <3> QED BY <2>0, <3>1, HandedStays DEF FolderInv
  <2> QED BY <2>1, <2>2, <2>3 DEF FolderInv
<1> QED BY <1>1, <1>2, <1>3, <1>4, <1>5 DEF Next

LEMMA FolderInvariant == Spec => []FolderInv
<1> QED BY InitKeeps, NextKeeps, PTL DEF Spec

(* The files, the copies of the folder, the cursors and the memory of      *)
(* every process hold what their types say, for every number of            *)
(* participants and processes (dirtransport.rs).                           *)
THEOREM AlwaysFilesTyped == Spec => []FilesTyped
<1>1. FolderInv => FilesTyped
  BY DEF FolderInv, FilesKnown
<1> QED BY <1>1, FolderInvariant, PTL

(* All of s that w got is a sequence of rising numbers of what s sent.     *)
LEMMA GotInv ==
  ASSUME FolderInv, NEW s \in Participants \ raced, NEW w \in Participants \ raced
  PROVE  \E c \in 1..Len(sends[s]) + 1 : Handed(s, w, c)
<1>1. Passing(s, w)
  BY DEF FolderInv, HandedOver
<1>2. Len(sends[s]) \in Nat /\ cursor[w][s] \in 1..Len(sends[s]) + 1
  BY <1>1 DEF FolderInv, FilesKnown, FilesTyped, Passing
<1>3. CASE Handing(w) = {}
  BY <1>1, <1>2, <1>3 DEF Passing
<1>4. CASE Handing(w) # {}
  <2>1. PICK p \in Handing(w) : TRUE
    BY <1>4
  <2>2. PICK a \in Nat \ {0} : Handed(s, w, a) /\ Span(s, proc[p].batch, a, cursor[w][s])
    BY <1>1, <2>1 DEF Passing
  <2>3. a \in 1..Len(sends[s]) + 1
    BY <1>2, <2>2 DEF Span
  <2> QED BY <2>2, <2>3
<1> QED BY <1>3, <1>4

(* Who ran one process at a time gets nothing of such a sender twice, and  *)
(* nothing after a later message of it, even when processes were stopped   *)
(* while they handed messages over (receive, dirtransport.rs).             *)
THEOREM AlwaysNeverTwice == Spec => []NeverTwice
<1>1. FolderInv => NeverTwice
  BY GotInv DEF NeverTwice, Handed, Rising
<1> QED BY <1>1, FolderInvariant, PTL

(* What receive returned of a sender's messages is the beginning of what   *)
(* that sender sent, for every number of processes and of messages,        *)
(* readings of the clocks and order of arrival (pending and receive).      *)
THEOREM AlwaysInOrder == Spec => []InOrder
<1>1. ASSUME FolderInv PROVE InOrder
  <2> SUFFICES ASSUME NEW s \in Participants \ raced,
                      NEW w \in Participants \ (raced \cup lost),
                      NEW i \in DOMAIN got[w], got[w][i].from = s
               PROVE  \E k \in DOMAIN sends[s] :
                        /\ got[w][i] = sends[s][k]
                        /\ Earlier(s, w, i) = {sends[s][n] : n \in 1..k-1}
    BY DEF InOrder
  <2> DEFINE q == got[w]
             k == q[i].no
  <2>1. PICK c \in 1..Len(sends[s]) + 1 : Handed(s, w, c)
    BY <1>1, GotInv
  <2>2. Rising(s, q) /\ Nos(s, q) = 1..c-1
    BY <2>1 DEF Handed
  <2>3. /\ Len(sends[s]) \in Nat /\ DOMAIN sends[s] = 1..Len(sends[s])
        /\ q \in Seq(Message) /\ DOMAIN q = 1..Len(q) /\ Len(q) \in Nat
        /\ \A j \in DOMAIN q : q[j] \in Message
    BY <1>1 DEF FolderInv, FilesKnown, FilesTyped
  <2>4. \A n \in DOMAIN sends[s] : sends[s][n] = [from |-> s, no |-> n]
    BY <1>1 DEF FolderInv, Numbered
  <2>5. ASSUME NEW j \in DOMAIN q, q[j].from = s
        PROVE  /\ q[j].no \in DOMAIN sends[s] /\ q[j].no <= c-1
               /\ q[j] = sends[s][q[j].no]
    <3>1. q[j].no \in 1..c-1
      BY <2>2, <2>5 DEF Nos
    <3>2. q[j].no \in DOMAIN sends[s] /\ q[j].no <= c-1
      BY <2>3, <3>1
    <3>3. q[j] = [from |-> s, no |-> q[j].no]
      BY <2>3, <2>5 DEF Message
    <3> QED BY <2>4, <3>2, <3>3
  <2>6. k \in DOMAIN sends[s] /\ q[i] = sends[s][k] /\ k <= c-1 /\ k \in Nat
    BY <2>3, <2>5
  <2>7. Earlier(s, w, i) \subseteq {sends[s][n] : n \in 1..k-1}
    <3> SUFFICES ASSUME NEW j \in 1..i-1, q[j].from = s
                 PROVE  q[j] \in {sends[s][n] : n \in 1..k-1}
      BY DEF Earlier
    <3>1. j \in DOMAIN q /\ j < i
      BY <2>3
    <3>2. q[j].no < k
      BY <2>2, <3>1 DEF Rising
    <3>3. q[j].no \in DOMAIN sends[s] /\ q[j] = sends[s][q[j].no]
      BY <2>5, <3>1
    <3>4. q[j].no \in 1..k-1
      <4>1. q[j].no \in 1..Len(sends[s])
        BY <2>3, <3>3
      <4> HIDE DEF k
      <4> QED BY <2>3, <2>6, <3>2, <4>1
    <3> QED BY <3>3, <3>4
  <2>8. {sends[s][n] : n \in 1..k-1} \subseteq Earlier(s, w, i)
    <3> SUFFICES ASSUME NEW n \in 1..k-1 PROVE sends[s][n] \in Earlier(s, w, i)
      OBVIOUS
    <3>1. n \in Nos(s, q)
      BY <2>2, <2>6
    <3>2. PICK j \in DOMAIN q : q[j].from = s /\ q[j].no = n
      BY <3>1 DEF Nos
    <3>3. j < i
      <4> SUFFICES ASSUME ~(j < i) PROVE FALSE
        OBVIOUS
      <4>1. j = i \/ i < j
        BY <2>3
      <4>2. i < j => k < n
        BY <2>2, <3>2 DEF Rising
      <4> QED BY <2>6, <3>2, <4>1, <4>2
    <3>4. j \in 1..i-1
      BY <2>3, <3>3
    <3>5. q[j] = sends[s][n]
      BY <2>5, <3>2
    <3> QED BY <3>2, <3>4, <3>5 DEF Earlier
  <2> QED BY <2>6, <2>7, <2>8
<1>2. FolderInv => InOrder
  BY <1>1
<1> QED BY <1>2, FolderInvariant, PTL
=============================================================================
