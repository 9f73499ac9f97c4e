---------------------------- MODULE SpScanProofs ----------------------------
(***************************************************************************)
(* Proofs about the search for silent payments, for any payments, chain,   *)
(* depth of reorganisations and --from: the tables keep their types, what  *)
(* a searched block pays is stored, the watermark answers for the blocks   *)
(* below it, none is missed in between, and no row of a searched height is *)
(* left of another branch, except for the reasons SpScan names, which no   *)
(* scan has means to notice.                                               *)
(***************************************************************************)
EXTENDS SpScan, SequenceTheorems, TLAPS

At(h) == BlockAt(chain, h)
Heights == 0..Top(chain)

(* A branch begins with genesis, no payment is in two of its blocks, and   *)
(* its hashes are among the first k.                                       *)
IsBranch(c, k) ==
  /\ k \in Nat
  /\ c \in Seq(Block) /\ Len(c) \in Nat \ {0}
  /\ c[1] = Genesis
  /\ \A i \in 1..Len(c) : c[i].hash <= k
  /\ \A i, j \in 1..Len(c) : c[i].pays \cap c[j].pays # {} => i = j

ChainGood == IsBranch(chain, blocks)

-----------------------------------------------------------------------------
(* How a chain grows.                                                      *)

(* new is c with n more blocks after the first k ever found: what the      *)
(* definition of Grown comes to, block by block.                           *)
IsGrown(new, c, k, n) ==
  /\ new \in Seq(Block) /\ Len(new) = Len(c) + n
  /\ \A i \in 1..Len(c) : new[i] = c[i]
  /\ \A i \in 1..n : new[Len(c) + i].hash = k + i
  /\ \A i \in 1..n, j \in 1..Len(c) : new[Len(c) + i].pays \cap c[j].pays = {}
  /\ \A i, j \in 1..n : new[Len(c) + i].pays \cap new[Len(c) + j].pays # {} => i = j

LEMMA GrownIs ==
  ASSUME NEW c \in Seq(Block), NEW k \in Nat, NEW n \in Nat, NEW new \in Grown(c, k, n)
  PROVE  IsGrown(new, c, k, n)
<1>1. PICK place \in [Payments \ Mined(c) -> 0..n] :
         new = c \o [i \in 1..n |-> [hash |-> k + i, pays |-> {p \in DOMAIN place : place[p] = i}]]
  BY DEF Grown
<1> DEFINE more == [i \in 1..n |-> [hash |-> k + i, pays |-> {p \in DOMAIN place : place[p] = i}]]
<1>2. \A i \in 1..n : more[i] = [hash |-> k + i, pays |-> {p \in DOMAIN place : place[p] = i}]
  OBVIOUS
<1>16. \A i \in 1..n : more[i].hash = k + i
  OBVIOUS
<1>17. \A i \in 1..n : \A p \in more[i].pays : p \in DOMAIN place /\ place[p] = i
  OBVIOUS
<1>3. \A i \in 1..n : more[i] \in Block
  BY <1>2 DEF Block
<1>4. more \in [1..n -> Block]
  BY <1>3
<1>5. more \in Seq(Block)
  BY SMTT(30), <1>4, SeqDef
<1>6. Len(more) = n
  BY <1>5, <1>4, LenProperties
<1>7. new = c \o more
  BY <1>1
<1> HIDE DEF more
<1>8. /\ new \in Seq(Block)
      /\ Len(new) = Len(c) + n
      /\ \A i \in 1..Len(c) + n : new[i] = IF i <= Len(c) THEN c[i] ELSE more[i - Len(c)]
  BY <1>5, <1>6, <1>7, ConcatProperties
<1>9. Len(c) \in Nat
  BY LenProperties
<1>10. \A i \in 1..Len(c) : new[i] = c[i]
  BY <1>8, <1>9
<1>11. \A i \in 1..n : new[Len(c) + i] = more[i]
  <2> TAKE i \in 1..n
  <2>1. \A l \in Nat : l + i \in 1..l + n /\ ~(l + i <= l) /\ (l + i) - l = i
    OBVIOUS
  <2>2. Len(c) + i \in 1..Len(c) + n /\ ~(Len(c) + i <= Len(c)) /\ (Len(c) + i) - Len(c) = i
    BY <2>1, <1>9
  <2>3. new[Len(c) + i] = IF Len(c) + i <= Len(c) THEN c[Len(c) + i] ELSE more[(Len(c) + i) - Len(c)]
    BY <2>2, <1>8
  <2> QED BY <2>2, <2>3
<1>12. \A i \in 1..n : \A p \in new[Len(c) + i].pays : p \in DOMAIN place /\ place[p] = i
  BY <1>11, <1>17
<1>13. \A i \in 1..n, j \in 1..Len(c) : new[Len(c) + i].pays \cap c[j].pays = {}
  <2> SUFFICES ASSUME NEW i \in 1..n, NEW j \in 1..Len(c), NEW p,
                      p \in new[Len(c) + i].pays, p \in c[j].pays
               PROVE  FALSE
    OBVIOUS
  <2>1. p \in Mined(c)
    BY LenProperties DEF Mined, ToSet
  <2> QED BY <2>1, <1>12
<1>14. \A i \in 1..n : new[Len(c) + i].hash = k + i
  BY <1>11, <1>16
<1>15. \A i, j \in 1..n : new[Len(c) + i].pays \cap new[Len(c) + j].pays # {} => i = j
  BY <1>12
<1> QED BY <1>8, <1>10, <1>13, <1>14, <1>15 DEF IsGrown

LEMMA GrownIsBranch ==
  ASSUME NEW c, NEW k, NEW n \in Nat, NEW new, IsBranch(c, k), IsGrown(new, c, k, n)
  PROVE  IsBranch(new, k + n)
<1> DEFINE l == Len(c)
<1>1. /\ k \in Nat /\ l \in Nat \ {0} /\ c[1] = Genesis
      /\ \A i \in 1..l : c[i].hash <= k
      /\ \A i, j \in 1..l : c[i].pays \cap c[j].pays # {} => i = j
  BY DEF IsBranch
<1>2. /\ new \in Seq(Block) /\ Len(new) = l + n
      /\ \A i \in 1..l : new[i] = c[i]
      /\ \A i \in 1..n : new[l + i].hash = k + i
      /\ \A i \in 1..n, j \in 1..l : new[l + i].pays \cap c[j].pays = {}
      /\ \A i, j \in 1..n : new[l + i].pays \cap new[l + j].pays # {} => i = j
  BY DEF IsGrown
<1>3. c \in Seq(Block)
  BY DEF IsBranch
<1>4. \A i \in 1..l : c[i].hash \in Nat
  <2>1. \A i \in 1..l : c[i] \in Block
    BY <1>3, ElementOfSeq
  <2> QED BY <2>1 DEF Block
<1> HIDE DEF l
<1>5. \A i \in 1..l + n : i \in 1..l \/ (i - l \in 1..n /\ i = l + (i - l))
  BY <1>1
<1>6. \A i \in 1..l + n : new[i].hash <= k + n
  <2> TAKE i \in 1..l + n
  <2>1. CASE i \in 1..l
    BY <2>1, <1>1, <1>2, <1>4
  <2>2. CASE i - l \in 1..n /\ i = l + (i - l)
    <3>1. new[i].hash = k + (i - l)
      BY <2>2, <1>2
    <3> QED BY <3>1, <2>2, <1>1
  <2> QED BY <2>1, <2>2, <1>5
<1>7. \A i, j \in 1..l + n : new[i].pays \cap new[j].pays # {} => i = j
  <2> SUFFICES ASSUME NEW i \in 1..l + n, NEW j \in 1..l + n, new[i].pays \cap new[j].pays # {}
               PROVE  i = j
    OBVIOUS
  <2>1. CASE i \in 1..l /\ j \in 1..l
    BY <2>1, <1>1, <1>2
  <2>2. CASE i - l \in 1..n /\ i = l + (i - l) /\ j \in 1..l
    BY <2>2, <1>2
  <2>3. CASE j - l \in 1..n /\ j = l + (j - l) /\ i \in 1..l
    BY <2>3, <1>2
  <2>4. CASE i - l \in 1..n /\ i = l + (i - l) /\ j - l \in 1..n /\ j = l + (j - l)
    <3>1. i - l = j - l
      BY <2>4, <1>2
    <3> QED BY <3>1, <2>4
  <2> QED BY <2>1, <2>2, <2>3, <2>4, <1>5
<1>8. l + n \in Nat \ {0} /\ k + n \in Nat /\ new[1] = Genesis
  BY <1>1, <1>2
<1> QED BY <1>2, <1>6, <1>7, <1>8 DEF IsBranch

LEMMA CutIsBranch ==
  ASSUME NEW c, NEW k, IsBranch(c, k), NEW n \in 1..Len(c)
  PROVE  /\ IsBranch(SubSeq(c, 1, n), k) /\ Len(SubSeq(c, 1, n)) = n
         /\ \A i \in 1..n : SubSeq(c, 1, n)[i] = c[i]
<1>1. /\ c \in Seq(Block) /\ Len(c) \in Nat \ {0} /\ k \in Nat /\ c[1] = Genesis
      /\ \A i \in 1..Len(c) : c[i].hash <= k
      /\ \A i, j \in 1..Len(c) : c[i].pays \cap c[j].pays # {} => i = j
  BY DEF IsBranch
<1>2. n \in Int /\ 1 <= n /\ n <= Len(c) /\ \A i \in 1..n : i \in 1..Len(c)
  BY <1>1
<1>3. \A i \in 1..n : c[i] \in Block
  BY <1>1, <1>2, ElementOfSeq
<1> DEFINE s == SubSeq(c, 1, n)
<1>4. /\ s \in Seq(Block) /\ Len(s) = n
      /\ \A i \in 1..n-1+1 : s[i] = c[1+i-1]
  BY <1>2, <1>3, SubSeqProperties
<1> HIDE DEF s
<1>5. \A i \in 1..n : s[i] = c[i]
  <2> TAKE i \in 1..n
  <2>1. i \in 1..n-1+1 /\ 1+i-1 = i
    BY <1>2
  <2>2. s[i] = c[1+i-1]
    BY <2>1, <1>4
  <2> QED BY <2>1, <2>2
<1>6. IsBranch(s, k)
  <2>1. Len(s) \in Nat \ {0} /\ s[1] = Genesis
    BY <1>4, <1>5, <1>1, <1>2
  <2>2. \A i \in 1..Len(s) : s[i].hash <= k
    BY <1>4, <1>5, <1>1, <1>2
  <2>3. \A i, j \in 1..Len(s) : s[i].pays \cap s[j].pays # {} => i = j
    BY <1>4, <1>5, <1>1, <1>2
  <2> QED BY <2>1, <2>2, <2>3, <1>1, <1>4 DEF IsBranch
<1> QED BY <1>4, <1>5, <1>6 DEF s

-----------------------------------------------------------------------------
(* The branches the chain has been on.                                     *)

Branches == left \cup {chain}

(* Branches that have the same hash at a height are the same up to there.  *)
Joined(c, d) ==
  \A h \in 0..Top(c) : h <= Top(d) /\ BlockAt(c, h).hash = BlockAt(d, h).hash =>
    \A i \in 0..h : BlockAt(c, i) = BlockAt(d, i)

LeftGood ==
  /\ \A c \in left : IsBranch(c, blocks) /\ Len(c) < Len(chain)
  /\ \A c, d \in Branches : Joined(c, d)

(* What a step of the network does to the chain: it is longer than before, *)
(* and up to any block that was found before it is a branch it has been on.*)
Turned ==
  /\ Top(chain) < Top(chain')
  /\ blocks' \in Nat /\ blocks <= blocks'
  /\ Branches' \subseteq Branches \cup {chain'}
  /\ \A h \in 0..Top(chain') : BlockAt(chain', h).hash <= blocks =>
       \E c \in Branches : h <= Top(c) /\ \A i \in 0..h : BlockAt(chain', i) = BlockAt(c, i)
  /\ \A c \in Branches : Joined(chain', c)

LEMMA BranchesAre ==
  ASSUME ChainGood, LeftGood
  PROVE  /\ blocks \in Nat /\ Len(chain) \in Nat \ {0} /\ Top(chain) \in Nat
         /\ \A c \in Branches :
              /\ IsBranch(c, blocks) /\ Len(c) \in 1..Len(chain)
              /\ Top(c) \in Nat /\ Top(c) <= Top(chain)
              /\ \A h \in 0..Top(c) : BlockAt(c, h) \in Block /\ BlockAt(c, h).hash \in Nat
                                      /\ BlockAt(c, h).hash <= blocks
<1>1. blocks \in Nat /\ Len(chain) \in Nat \ {0} /\ Top(chain) \in Nat
  BY DEF ChainGood, IsBranch, Top
<1> SUFFICES ASSUME NEW c \in Branches
             PROVE  /\ IsBranch(c, blocks) /\ Len(c) \in 1..Len(chain)
                    /\ Top(c) \in Nat /\ Top(c) <= Top(chain)
                    /\ \A h \in 0..Top(c) : BlockAt(c, h) \in Block /\ BlockAt(c, h).hash \in Nat
                                            /\ BlockAt(c, h).hash <= blocks
  BY <1>1
<1>2. IsBranch(c, blocks) /\ (c = chain \/ Len(c) < Len(chain))
  BY DEF Branches, LeftGood, ChainGood
<1>3. /\ c \in Seq(Block) /\ Len(c) \in Nat \ {0}
      /\ \A i \in 1..Len(c) : c[i].hash <= blocks
  BY <1>2 DEF IsBranch
<1>4. Len(c) \in 1..Len(chain) /\ Top(c) \in Nat /\ Top(c) <= Top(chain)
  BY <1>1, <1>2, <1>3 DEF Top
<1>5. \A h \in 0..Top(c) : h + 1 \in 1..Len(c)
  BY <1>3 DEF Top
<1>6. \A h \in 0..Top(c) : BlockAt(c, h) \in Block /\ BlockAt(c, h).hash <= blocks
  BY <1>3, <1>5, ElementOfSeq DEF BlockAt
<1> QED BY <1>2, <1>4, <1>6 DEF Block

LEMMA GrownTurns ==
  ASSUME ChainGood, LeftGood, NEW branch \in Branches, NEW fork \in 1..Len(branch), NEW n \in Nat,
         IsGrown(chain', SubSeq(branch, 1, fork), blocks, n),
         blocks' = blocks + n, fork + n > Len(chain), left' \subseteq left \cup {chain}
  PROVE  ChainGood' /\ LeftGood' /\ Turned
<1>1. /\ blocks \in Nat /\ Len(chain) \in Nat \ {0} /\ Top(chain) \in Nat
      /\ \A c \in Branches :
              /\ IsBranch(c, blocks) /\ Len(c) \in 1..Len(chain)
              /\ Top(c) \in Nat /\ Top(c) <= Top(chain)
              /\ \A h \in 0..Top(c) : BlockAt(c, h) \in Block /\ BlockAt(c, h).hash \in Nat
                                      /\ BlockAt(c, h).hash <= blocks
  BY BranchesAre
<1>2. /\ IsBranch(SubSeq(branch, 1, fork), blocks) /\ Len(SubSeq(branch, 1, fork)) = fork
      /\ \A i \in 1..fork : SubSeq(branch, 1, fork)[i] = branch[i]
  BY <1>1, CutIsBranch
<1>3. ChainGood'
  BY <1>2, GrownIsBranch DEF ChainGood
<1>4. /\ Len(chain') = fork + n
      /\ \A i \in 1..fork : chain'[i] = branch[i]
      /\ \A i \in 1..n : chain'[fork + i].hash = blocks + i
  BY <1>2 DEF IsGrown
<1>5. fork \in Nat /\ fork <= Top(branch) + 1 /\ fork >= 1
  BY <1>1 DEF Top
<1>6. Top(chain') \in Nat /\ Top(chain) < Top(chain')
  BY <1>1, <1>4, <1>5 DEF Top
<1>7. \A h \in 0..fork - 1 : BlockAt(chain', h) = BlockAt(branch, h)
  <2> TAKE h \in 0..fork - 1
  <2>1. h + 1 \in 1..fork
    BY <1>5
  <2> QED BY <2>1, <1>4 DEF BlockAt
<1>8. \A h \in fork..Top(chain') : BlockAt(chain', h).hash > blocks
  <2> TAKE h \in fork..Top(chain')
  <2>1. h + 1 - fork \in 1..n /\ h + 1 = fork + (h + 1 - fork)
    BY <1>4, <1>5 DEF Top
  <2>2. chain'[h + 1].hash = blocks + (h + 1 - fork)
    BY <2>1, <1>4
  <2> QED BY <2>1, <2>2, <1>1 DEF BlockAt
<1>9. ASSUME NEW h \in 0..Top(chain'), BlockAt(chain', h).hash <= blocks
      PROVE  /\ h \in 0..fork - 1 /\ h \in 0..Top(branch)
             /\ \A i \in 0..h : BlockAt(chain', i) = BlockAt(branch, i)
  <2>1. h \notin fork..Top(chain')
    <3>1. h + 1 \in 1..Len(chain') /\ chain' \in Seq(Block)
      BY <1>1, <1>3, <1>4, <1>5 DEF ChainGood, IsBranch, Top
    <3>2. BlockAt(chain', h) \in Block
      BY <3>1, ElementOfSeq DEF BlockAt
    <3>3. BlockAt(chain', h).hash \in Nat
      BY <3>2 DEF Block
    <3> QED BY <1>8, <1>9, <3>3, <1>1
  <2>2. h \in 0..fork - 1 /\ h \in 0..Top(branch) /\ \A i \in 0..h : i \in 0..fork - 1
    BY <2>1, <1>5, <1>6, <1>1
  <2> QED BY <2>2, <1>7
<1>10. ASSUME NEW c \in Branches, NEW h \in 0..Top(chain'), h <= Top(c),
              BlockAt(chain', h).hash = BlockAt(c, h).hash, NEW i \in 0..h
       PROVE  BlockAt(chain', i) = BlockAt(c, i)
  <2>1. h \in 0..Top(c)
    BY <1>10, <1>1, <1>6
  <2>2. BlockAt(chain', h).hash <= blocks
    BY <2>1, <1>10, <1>1
  <2>3. /\ h \in 0..fork - 1 /\ h \in 0..Top(branch)
        /\ \A k \in 0..h : BlockAt(chain', k) = BlockAt(branch, k)
    BY <2>2, <1>9
  <2>4. BlockAt(branch, h).hash = BlockAt(c, h).hash
    BY <2>3, <1>7, <1>10
  <2>5. Joined(branch, c)
    BY DEF LeftGood
  <2>6. BlockAt(branch, i) = BlockAt(c, i)
    BY <2>3, <2>4, <2>5, <1>10 DEF Joined
  <2> QED BY <2>3, <2>6
<1>11. \A c \in Branches : Joined(chain', c)
  BY <1>10 DEF Joined
<1>12. \A c \in Branches : Joined(c, chain')
  <2> SUFFICES ASSUME NEW c \in Branches, NEW h \in 0..Top(c), h <= Top(chain'),
                      BlockAt(c, h).hash = BlockAt(chain', h).hash, NEW i \in 0..h
               PROVE  BlockAt(c, i) = BlockAt(chain', i)
    BY DEF Joined
  <2>1. h \in 0..Top(chain') /\ h <= Top(c)
    BY <1>1, <1>6
  <2> QED BY <2>1, <1>10
<1>13. Joined(chain', chain')
  BY DEF Joined
<1>14. Branches' \subseteq Branches \cup {chain'}
  BY DEF Branches
<1>15. blocks' \in Nat /\ blocks <= blocks'
  BY <1>1
<1>16. LeftGood'
  <2>1. ASSUME NEW c \in left' PROVE IsBranch(c, blocks') /\ Len(c) < Len(chain')
    <3>1. c \in Branches
      BY <2>1 DEF Branches
    <3>2. /\ IsBranch(c, blocks) /\ Len(c) \in 1..Len(chain)
      BY <3>1, <1>1
    <3>3. \A i \in 1..Len(c) : c[i].hash \in Nat
      <4>1. c \in Seq(Block)
        BY <3>2 DEF IsBranch
      <4>2. \A i \in 1..Len(c) : c[i] \in Block
        BY <4>1, ElementOfSeq
      <4> QED BY <4>2 DEF Block
    <3>4. \A i \in 1..Len(c) : c[i].hash <= blocks'
      BY <3>2, <3>3, <1>1, <1>15 DEF IsBranch
    <3> QED BY <3>2, <3>4, <1>1, <1>4, <1>15 DEF IsBranch
  <2>2. ASSUME NEW c \in Branches', NEW d \in Branches' PROVE Joined(c, d)
    <3>1. (c \in Branches \/ c = chain') /\ (d \in Branches \/ d = chain')
      BY <1>14
    <3>2. c \in Branches /\ d \in Branches => Joined(c, d)
      BY DEF LeftGood
    <3> QED BY <3>1, <3>2, <1>11, <1>12, <1>13
  <2> QED BY <2>1, <2>2 DEF LeftGood, Joined, Branches, Top, BlockAt
<1>17. \A h \in 0..Top(chain') : BlockAt(chain', h).hash <= blocks =>
         \E c \in Branches : h <= Top(c) /\ \A i \in 0..h : BlockAt(chain', i) = BlockAt(c, i)
  <2> SUFFICES ASSUME NEW h \in 0..Top(chain'), BlockAt(chain', h).hash <= blocks
               PROVE  h <= Top(branch) /\ \A i \in 0..h : BlockAt(chain', i) = BlockAt(branch, i)
    OBVIOUS
  <2> QED BY <1>9, <1>1
<1> QED BY <1>3, <1>6, <1>11, <1>14, <1>15, <1>16, <1>17 DEF Turned

(* What a scan has no means to notice, and is noted for that.              *)
Noticed ==
  /\ unseen \subseteq unseen'
  /\ "during" \in unseen' \/ ~(Scanning /\ scan.at \in Gone)
  /\ \/ "deep" \in unseen'
     \/ ~(watermark.hash \in Nat /\ \E h \in Gone : h < watermark.height - MaxReorgDepth)
  /\ \/ "never" \in unseen'
     \/ ~(watermark.hash \notin Nat /\ \E p \in DOMAIN outputs : outputs[p] \in Gone)
  /\ \/ "ahead" \in unseen'
     \/ ~(/\ watermark.hash \in Nat /\ \E p \in DOMAIN outputs : outputs[p] \in Gone
          /\ watermark.height \notin Gone \/ (Scanning /\ scan.at \notin Gone))
  /\ \/ "back" \in unseen'
     \/ ~(/\ ComesBack
          /\ Scanning \/ strayed \/ \E p \in DOMAIN outputs : outputs[p] > watermark.height)
  /\ UNCHANGED <<indexed, store, scan, others, history, events>>

Turns ==
  \/ Mine
  \/ \E fork \in 1..Top(chain) : Reorg(chain, fork)
  \/ \E branch \in left : \E fork \in 1..Len(branch) : Reorg(branch, fork)

LEMMA MineTurns ==
  ASSUME ChainGood, LeftGood, Mine
  PROVE  ChainGood' /\ LeftGood' /\ Turned /\ Noticed /\ unseen' = unseen
<1>1. chain \in Seq(Block) /\ blocks \in Nat /\ Len(chain) \in Nat \ {0}
  BY DEF ChainGood, IsBranch
<1>2. IsGrown(chain', chain, blocks, 1) /\ blocks' = blocks + 1 /\ left' = left
  BY <1>1, GrownIs DEF Mine
<1>3. SubSeq(chain, 1, Len(chain)) = chain
  BY <1>1, SubSeqFull
<1>4. Len(chain) \in 1..Len(chain) /\ Len(chain) + 1 > Len(chain) /\ chain \in Branches
  BY <1>1 DEF Branches
<1>5. ChainGood' /\ LeftGood' /\ Turned
  BY <1>2, <1>3, <1>4, GrownTurns
<1>6. Gone = {}
  <2>1. \A i \in 1..Len(chain) : chain'[i] = chain[i]
    BY <1>2 DEF IsGrown
  <2>2. \A h \in 0..Top(chain) : h + 1 \in 1..Len(chain)
    BY <1>1 DEF Top
  <2> QED BY <2>1, <2>2 DEF Gone, BlockAt
<1>7. ~ComesBack
  BY <1>6 DEF ComesBack
<1>8. UNCHANGED <<indexed, store, scan, others, history, events>> /\ unseen' = unseen
  BY DEF Mine
<1> QED BY <1>5, <1>6, <1>7, <1>8 DEF Noticed

LEMMA Noted ==
  ASSUME NEW reasons, Note(reasons)
  PROVE  unseen' = unseen \cup reasons
BY DEF Note

LEMMA ReorgTurns ==
  ASSUME ChainGood, LeftGood, NEW branch \in Branches, NEW fork \in 1..Len(branch),
         fork <= Top(chain) + 1, Reorg(branch, fork)
  PROVE  ChainGood' /\ LeftGood' /\ Turned /\ Noticed
<1> DEFINE n == Top(chain) - fork + 2
<1>1. /\ blocks \in Nat /\ Len(chain) \in Nat \ {0} /\ IsBranch(branch, blocks) /\ Len(branch) \in Nat
  BY BranchesAre
<1>2. n \in Nat /\ fork + n > Len(chain)
  BY <1>1 DEF Top
<1>3. /\ chain' \in Grown(SubSeq(branch, 1, fork), blocks, n) /\ blocks' = blocks + n
      /\ left' = left \cup {chain}
  BY DEF Reorg
<1> HIDE DEF n
<1>4. SubSeq(branch, 1, fork) \in Seq(Block)
  BY <1>1, CutIsBranch DEF IsBranch
<1>5. IsGrown(chain', SubSeq(branch, 1, fork), blocks, n)
  BY <1>1, <1>2, <1>3, <1>4, GrownIs
<1>6. ChainGood' /\ LeftGood' /\ Turned
  BY <1>2, <1>3, <1>5, GrownTurns
<1>7. Noticed
  BY Noted DEF Reorg, Reason, Noticed, Note
<1> QED BY <1>6, <1>7

LEMMA TurnsTurn ==
  ASSUME ChainGood, LeftGood, Turns
  PROVE  ChainGood' /\ LeftGood' /\ Turned /\ Noticed
<1>1. ASSUME NEW fork \in 1..Top(chain), Reorg(chain, fork)
      PROVE  ChainGood' /\ LeftGood' /\ Turned /\ Noticed
  <2>1. chain \in Branches /\ fork \in 1..Len(chain) /\ fork <= Top(chain) + 1
    BY BranchesAre DEF Branches, Top
  <2> QED BY <1>1, <2>1, ReorgTurns
<1>2. ASSUME NEW branch \in left, NEW fork \in 1..Len(branch), Reorg(branch, fork)
      PROVE  ChainGood' /\ LeftGood' /\ Turned /\ Noticed
  <2>1. branch \in Branches
    BY DEF Branches
  <2>2. fork <= Top(chain) + 1
    BY <2>1, BranchesAre DEF Top
  <2> QED BY <1>2, <2>1, <2>2, ReorgTurns
<1> QED BY <1>1, <1>2, MineTurns DEF Turns

(* What a step of the network leaves in place: all below a block that is   *)
(* still there; and what it puts in the other places, if nothing comes     *)
(* back, is new.                                                           *)
LEMMA Stays ==
  ASSUME ChainGood, LeftGood, ChainGood', Turned
  PROVE  /\ Top(chain') \in Nat /\ 0..Top(chain) \subseteq 0..Top(chain')
         /\ Gone \subseteq 0..Top(chain)
         /\ \A h \in 0..Top(chain) : h \notin Gone =>
              \A i \in 0..h : BlockAt(chain', i) = BlockAt(chain, i)
         /\ \A h \in 0..Top(chain) : BlockAt(chain', h).hash = BlockAt(chain, h).hash =>
              h \notin Gone
         /\ ~ComesBack => \A h \in Gone : ~(BlockAt(chain', h).hash <= blocks)
<1>1. /\ Top(chain) \in Nat /\ Top(chain') \in Nat /\ chain \in Branches
  BY BranchesAre DEF Branches, ChainGood, IsBranch, Top
<1>2. Top(chain) < Top(chain') /\ Joined(chain', chain)
  BY <1>1 DEF Turned
<1>3. \A h \in 0..Top(chain) : h \in 0..Top(chain') /\ h <= Top(chain)
  BY <1>1, <1>2
<1>4. \A h \in 0..Top(chain) : BlockAt(chain', h).hash = BlockAt(chain, h).hash =>
        \A i \in 0..h : BlockAt(chain', i) = BlockAt(chain, i)
  BY <1>2, <1>3 DEF Joined
<1>5. \A h \in 0..Top(chain) : h \in 0..h
  BY <1>1
<1>6. \A h \in 0..Top(chain) : h \notin Gone => BlockAt(chain', h) = BlockAt(chain, h)
  BY DEF Gone
<1>7. \A h \in 0..Top(chain) : BlockAt(chain', h) = BlockAt(chain, h) => h \notin Gone
  BY DEF Gone
<1> QED BY <1>1, <1>3, <1>4, <1>5, <1>6, <1>7 DEF Gone, ComesBack

-----------------------------------------------------------------------------
(* Types, and what every block held somewhere has to do with the chain.    *)

(* A block that was at height h once: wherever its hash is the one at that *)
(* height, it is the block there.  l are branches that were left.          *)
Known(l, c, k, b, h) ==
  /\ b \in Block /\ b.hash <= k
  /\ h \in 0..Top(c)
  /\ \A d \in l \cup {c} : h <= Top(d) /\ b.hash = BlockAt(d, h).hash => b = BlockAt(d, h)

IndexGood ==
  /\ indexed \in Seq(Block) /\ Len(indexed) \in 1..Len(chain)
  /\ \A h \in 0..Top(indexed) : Known(left, chain, blocks, BlockAt(indexed, h), h)

(* The scan has read a block of the height it is at.                       *)
HasBlock == scan.doing \in {"search", "store", "hash", "mark"}

ScanGood ==
  /\ scan \in Scan
  /\ Scanning => scan.at <= scan.tip /\ scan.tip <= Top(indexed)
  /\ HasBlock => Known(left, chain, blocks, scan.block, scan.at)
  /\ scan.doing = "store" => scan.found \subseteq scan.block.pays
  /\ scan.hash <= blocks
  /\ scan.doing = "search" => scan.source = "BlindBit"
  /\ scan.doing = "hash" => scan.source = "Electrum"

Look(c) == [pay : Payments, height : 0..Top(c)]

TablesGood ==
  /\ DOMAIN outputs \subseteq Payments
  /\ \A p \in DOMAIN outputs : outputs[p] \in Heights
  /\ watermark \in [height : Heights, hash : Int]
  /\ watermark.hash <= blocks
  /\ watermark.hash \in Nat \/ watermark.hash = NoHash \/ watermark = NoWatermark
  /\ look = << >> \/ \E r \in Look(chain) : look = <<r>>
  /\ balance \subseteq Payments
  /\ unseen \subseteq Reasons

(* Heights are searched as far as the watermark, once it has a hash.       *)
SearchedGood ==
  /\ DOMAIN searched \subseteq 0..watermark.height
  /\ watermark.hash \notin Nat => DOMAIN searched = {}
  /\ \A h \in DOMAIN searched : searched[h] \in Nat /\ searched[h] <= blocks

Good == ChainGood /\ LeftGood /\ IndexGood /\ ScanGood /\ TablesGood /\ SearchedGood

(* The chain by height.                                                    *)
LEMMA ByHeight ==
  ASSUME ChainGood
  PROVE  /\ blocks \in Nat /\ Len(chain) = Top(chain) + 1 /\ Top(chain) \in Nat
         /\ \A h \in Heights : At(h) \in Block /\ At(h).hash \in Nat /\ At(h).hash <= blocks
         /\ 0 \in Heights /\ At(0).pays = {}
         /\ \A h, i \in Heights : At(h).pays \cap At(i).pays # {} => h = i
<1>1. /\ blocks \in Nat /\ chain \in Seq(Block) /\ Len(chain) \in Nat \ {0} /\ chain[1] = Genesis
      /\ \A i \in 1..Len(chain) : chain[i].hash <= blocks
      /\ \A i, j \in 1..Len(chain) : chain[i].pays \cap chain[j].pays # {} => i = j
  BY DEF ChainGood, IsBranch
<1>2. Len(chain) = Top(chain) + 1 /\ Top(chain) \in Nat /\ \A h \in Heights : h + 1 \in 1..Len(chain) /\ h \in Nat
  BY <1>1 DEF Top, Heights
<1>3. \A h \in Heights : At(h) \in Block
  BY <1>1, <1>2, ElementOfSeq DEF At, BlockAt
<1>4. \A h \in Heights : At(h).hash \in Nat
  BY <1>3 DEF Block
<1>5. \A h \in Heights : At(h).hash <= blocks
  BY <1>1, <1>2 DEF At, BlockAt
<1>6. 0 \in Heights /\ At(0).pays = {}
  BY <1>1, <1>2 DEF At, BlockAt, Heights, Genesis
<1>7. \A h, i \in Heights : At(h).pays \cap At(i).pays # {} => h = i
  <2> SUFFICES ASSUME NEW h \in Heights, NEW i \in Heights, At(h).pays \cap At(i).pays # {} PROVE h = i
    OBVIOUS
  <2>1. h + 1 = i + 1
    BY <1>1, <1>2 DEF At, BlockAt
  <2> QED BY <2>1, <1>2
<1> QED BY <1>1, <1>2, <1>3, <1>4, <1>5, <1>6, <1>7

(* The height Esplora gives is that of the block that has the payment.     *)
LEMMA HeightTells ==
  ASSUME ChainGood, NEW p
  PROVE  /\ HeightOf(p) \in Heights
         /\ p \in Mined(chain) => HeightOf(p) # 0 /\ p \in At(HeightOf(p)).pays
         /\ p \notin Mined(chain) => HeightOf(p) = 0
         /\ \A h \in Heights : p \in At(h).pays => p \in Mined(chain) /\ HeightOf(p) = h /\ h # 0
<1>1. chain \in Seq(Block) /\ DOMAIN chain = 1..Len(chain) /\ Len(chain) \in Nat \ {0}
  BY LenProperties DEF ChainGood, IsBranch
<1>2. p \in Mined(chain) => \E h \in Heights : p \in At(h).pays
  <2> SUFFICES ASSUME p \in Mined(chain) PROVE \E h \in Heights : p \in At(h).pays
    OBVIOUS
  <2>1. PICK i \in 1..Len(chain) : p \in chain[i].pays
    BY <1>1 DEF Mined, ToSet
  <2>2. i - 1 \in Heights /\ i - 1 + 1 = i
    BY <1>1 DEF Heights, Top
  <2>3. p \in At(i - 1).pays
    BY <2>1, <2>2 DEF At, BlockAt
  <2> QED BY <2>2, <2>3
<1>3. \A h \in Heights : p \in At(h).pays => p \in Mined(chain) /\ h # 0
  <2> SUFFICES ASSUME NEW h \in Heights, p \in At(h).pays PROVE p \in Mined(chain) /\ h # 0
    OBVIOUS
  <2>1. h + 1 \in 1..Len(chain)
    BY <1>1 DEF Heights, Top
  <2>2. p \in chain[h + 1].pays
    BY DEF At, BlockAt
  <2>3. p \in Mined(chain)
    BY <1>1, <2>1, <2>2 DEF Mined, ToSet
  <2>4. h # 0
    BY ByHeight
  <2> QED BY <2>3, <2>4
<1>4. p \in Mined(chain) => HeightOf(p) \in Heights /\ p \in At(HeightOf(p)).pays
  BY <1>2 DEF HeightOf, Heights, At
<1>5. p \notin Mined(chain) => HeightOf(p) = 0
  BY DEF HeightOf, UNCONFIRMED
<1>6. \A h \in Heights : p \in At(h).pays => HeightOf(p) = h
  BY <1>3, <1>4, ByHeight
<1> QED BY <1>3, <1>4, <1>5, <1>6, ByHeight

LEMMA ChainKnown ==
  ASSUME ChainGood, LeftGood
  PROVE  \A h \in Heights : Known(left, chain, blocks, At(h), h)
<1> SUFFICES ASSUME NEW h \in Heights PROVE Known(left, chain, blocks, At(h), h)
  OBVIOUS
<1>1. /\ At(h) \in Block /\ At(h).hash <= blocks /\ h \in 0..Top(chain) /\ h \in 0..h
  BY ByHeight DEF Heights
<1>2. \A d \in left \cup {chain} : Joined(chain, d)
  BY DEF LeftGood, Branches
<1> QED BY <1>1, <1>2 DEF Known, Joined, At

LEMMA KnownStays ==
  ASSUME ChainGood, LeftGood, ChainGood', Turned
  PROVE  \A b, h : Known(left, chain, blocks, b, h) => Known(left', chain', blocks', b, h)
<1> SUFFICES ASSUME NEW b, NEW h, Known(left, chain, blocks, b, h)
             PROVE  Known(left', chain', blocks', b, h)
  OBVIOUS
<1>1. /\ blocks \in Nat /\ blocks' \in Nat /\ blocks <= blocks'
      /\ 0..Top(chain) \subseteq 0..Top(chain') /\ left' \cup {chain'} \subseteq Branches \cup {chain'}
  BY Stays DEF Turned, ChainGood, IsBranch, Branches
<1>2. /\ b \in Block /\ b.hash <= blocks /\ b.hash \in Nat /\ h \in 0..Top(chain)
      /\ \A d \in Branches : h <= Top(d) /\ b.hash = BlockAt(d, h).hash => b = BlockAt(d, h)
  BY DEF Known, Block, Branches
<1>3. h \in 0..Top(chain') /\ b.hash <= blocks' /\ h \in 0..h
  BY <1>1, <1>2
<1>4. b.hash = BlockAt(chain', h).hash => b = BlockAt(chain', h)
  <2> SUFFICES ASSUME b.hash = BlockAt(chain', h).hash PROVE b = BlockAt(chain', h)
    OBVIOUS
  <2>1. PICK c \in Branches : h <= Top(c) /\ BlockAt(chain', h) = BlockAt(c, h)
    BY <1>2, <1>3 DEF Turned
  <2> QED BY <2>1, <1>2
<1> QED BY <1>1, <1>2, <1>3, <1>4 DEF Known

-----------------------------------------------------------------------------
(* Every step keeps types.                                                 *)

LEMMA ReasonsAre ==
  /\ \A happened : \A reason \in Reasons : Reason(happened, reason) \subseteq Reasons
  /\ "during" \in Reasons /\ "deep" \in Reasons /\ "ahead" \in Reasons /\ "never" \in Reasons
  /\ "back" \in Reasons /\ "gap" \in Reasons /\ "branch" \in Reasons /\ "look" \in Reasons
  /\ "forget" \in Reasons /\ \A why \in {"from", "unanswered"} : Unaware(why) \subseteq Reasons
BY DEF Reason, Reasons, Unaware

LEMMA TurnedKeeps ==
  ASSUME Good, ChainGood', LeftGood', Turned, unseen' \subseteq Reasons,
         UNCHANGED <<indexed, store, scan, others, searched>>
  PROVE  Good'
<1>1. /\ blocks \in Nat /\ Len(chain) = Top(chain) + 1 /\ Top(chain) \in Nat
      /\ Len(chain') = Top(chain') + 1 /\ Top(chain') \in Nat
  BY ByHeight DEF Good, Top, ChainGood, IsBranch
<1>2. Top(chain) < Top(chain') /\ blocks' \in Nat /\ blocks <= blocks'
  BY DEF Turned
<1>3. \A b, h : Known(left, chain, blocks, b, h) => Known(left', chain', blocks', b, h)
  BY KnownStays DEF Good
<1>4. Heights \subseteq Heights'
  BY <1>1, <1>2 DEF Heights
<1>5. IndexGood'
  BY <1>1, <1>2, <1>3 DEF Good, IndexGood
<1>6. ScanGood'
  <2>1. scan.hash <= blocks'
    BY <1>1, <1>2 DEF Good, ScanGood, Scan
  <2> QED BY <2>1, <1>3 DEF Good, ScanGood, Scanning, HasBlock
<1>7. TablesGood'
  <2>1. Look(chain) \subseteq Look(chain')
    BY <1>1, <1>2 DEF Look
  <2>2. watermark.hash <= blocks'
    BY <1>1, <1>2 DEF Good, TablesGood
  <2> QED BY <2>1, <2>2, <1>4 DEF Good, TablesGood, store, others
<1>8. SearchedGood'
  <2>1. \A h \in DOMAIN searched : searched[h] <= blocks'
    BY <1>1, <1>2 DEF Good, SearchedGood
  <2> QED BY <2>1 DEF Good, SearchedGood, store
<1> QED BY <1>5, <1>6, <1>7, <1>8 DEF Good

LEMMA IndexFollows ==
  ASSUME ChainGood, IndexGood, Index
  PROVE  /\ \E n \in Len(indexed)..Len(chain) :
              /\ indexed' \in Seq(Block) /\ Len(indexed') = n
              /\ \A i \in 1..n : indexed'[i] = chain[i]
         /\ UNCHANGED <<chain, left, blocks, store, scan, others, searched, unseen, events>>
<1>1. /\ chain \in Seq(Block) /\ indexed \in Seq(Block)
      /\ Len(chain) \in Nat /\ Len(indexed) \in 1..Len(chain)
  BY DEF ChainGood, IsBranch, IndexGood
<1>2. IsPrefix(indexed, chain) => Len(indexed) + 1 <= Len(chain)
  <2>1. SubSeq(indexed, 1, Len(indexed)) = indexed /\ SubSeq(chain, 1, Len(chain)) = chain
    BY <1>1, SubSeqFull
  <2>2. IsPrefix(indexed, chain) /\ Len(indexed) = Len(chain) => indexed = chain
    BY <2>1 DEF IsPrefix
  <2>3. indexed # chain
    BY DEF Index
  <2> QED BY <2>2, <2>3, <1>1
<1>3. PICK n \in Len(indexed)..Len(chain) : n \in 1..Len(chain) /\ indexed' = SubSeq(chain, 1, n)
  <2>1. CASE IsPrefix(indexed, chain)
    <3>1. indexed' = SubSeq(chain, 1, Len(indexed) + 1)
      BY <2>1 DEF Index
    <3> QED BY <3>1, <2>1, <1>1, <1>2
  <2>2. CASE ~IsPrefix(indexed, chain)
    <3>1. indexed' = SubSeq(chain, 1, Len(indexed))
      BY <2>2 DEF Index
    <3> QED BY <3>1, <1>1
  <2> QED BY <2>1, <2>2
<1>4. /\ IsBranch(SubSeq(chain, 1, n), blocks) /\ Len(SubSeq(chain, 1, n)) = n
      /\ \A i \in 1..n : SubSeq(chain, 1, n)[i] = chain[i]
  BY <1>3, CutIsBranch DEF ChainGood
<1> QED BY <1>3, <1>4 DEF IsBranch, Index, history

LEMMA IndexKeeps ==
  ASSUME Good, Index
  PROVE  Good'
<1>1. PICK n \in Len(indexed)..Len(chain) :
         /\ indexed' \in Seq(Block) /\ Len(indexed') = n
         /\ \A i \in 1..n : indexed'[i] = chain[i]
  BY IndexFollows DEF Good
<1>2. UNCHANGED <<chain, left, blocks, store, scan, others, searched, unseen, events>>
  BY IndexFollows DEF Good
<1>3. Len(chain) \in Nat /\ Len(indexed) \in 1..Len(chain)
  BY DEF Good, ChainGood, IsBranch, IndexGood
<1>4. IndexGood'
  <2>1. \A h \in 0..Top(indexed') : Known(left, chain, blocks, BlockAt(indexed', h), h)
    <3> TAKE h \in 0..Top(indexed')
    <3>1. h + 1 \in 1..n /\ h \in Heights
      BY <1>1, <1>3 DEF Top, Heights
    <3>2. BlockAt(indexed', h) = At(h)
      BY <3>1, <1>1 DEF BlockAt, At
    <3> QED BY <3>1, <3>2, ChainKnown DEF Good
  <2>2. Len(indexed') \in 1..Len(chain)
    BY <1>1, <1>3
  <2> QED BY <1>1, <1>2, <2>1, <2>2 DEF IndexGood
<1>5. Top(indexed) \in Int /\ Top(indexed') \in Int /\ Top(indexed) <= Top(indexed')
  BY <1>1, <1>3 DEF Top
<1>6. ScanGood'
  <2>1. Scanning => scan.tip <= Top(indexed')
    BY <1>5 DEF Good, ScanGood, Scan
  <2> QED BY <1>2, <2>1 DEF Good, ScanGood, Scanning, HasBlock
<1>7. TablesGood' /\ SearchedGood' /\ ChainGood' /\ LeftGood'
  BY <1>2 DEF Good, TablesGood, SearchedGood, ChainGood, LeftGood, Branches, store, others, Heights
<1> QED BY <1>4, <1>6, <1>7 DEF Good

(* Where a scan may be.                                                    *)
LEMMA ScanIsOnChain ==
  ASSUME Good
  PROVE  /\ Top(indexed) \in Nat /\ Top(indexed) <= Top(chain) /\ Top(chain) \in Nat
         /\ \A h \in 0..Top(indexed) : Known(left, chain, blocks, BlockAt(indexed, h), h)
         /\ Scanning => scan.at \in Heights /\ scan.at \in 0..Top(indexed)
         /\ \A h \in Heights : Known(left, chain, blocks, At(h), h)
         /\ Tweaks \subseteq Payments
<1>1. /\ Top(indexed) \in Nat /\ Top(indexed) <= Top(chain) /\ Top(chain) \in Nat
  BY DEF Good, ChainGood, IsBranch, IndexGood, Top
<1>2. Scanning => scan.at \in Heights /\ scan.at \in 0..Top(indexed)
  BY <1>1 DEF Good, ScanGood, Scan, Heights
<1>3. \A h \in 0..Top(indexed) : Known(left, chain, blocks, BlockAt(indexed, h), h)
  BY DEF Good, IndexGood
<1>4. \A h \in Heights : Known(left, chain, blocks, At(h), h)
  BY ChainKnown DEF Good
<1>5. Tweaks \subseteq Payments
  <2>1. scan.at \in Nat
    BY DEF Good, ScanGood, Scan
  <2>2. scan.at <= Top(indexed) => BlockAt(indexed, scan.at) \in Block
    BY <1>1, <1>3, <2>1 DEF Known
  <2> QED BY <2>2 DEF Tweaks, Block
<1> QED BY <1>1, <1>2, <1>3, <1>4, <1>5

(* A scan that begins is at a height the tweak server has.                 *)
LEMMA BeginKeeps ==
  ASSUME Good, NEW source \in {"BlindBit", "Electrum"}, NEW start \in Nat, Begin(source, start),
         UNCHANGED network
  PROVE  ChainGood' /\ LeftGood' /\ IndexGood' /\ ScanGood'
<1>1. Top(indexed) \in Nat /\ blocks \in Nat
  BY ScanIsOnChain, ByHeight DEF Good
<1>2. Genesis \in Block
  BY DEF Genesis, Block
<1>3. NoScan \in Scan
  BY <1>2 DEF NoScan, Scan
<1>4. CASE start > Ceiling
  BY <1>1, <1>3, <1>4 DEF Good, ChainGood, LeftGood, Branches, IndexGood, ScanGood, Begin,
                          network, NoScan, Scanning, HasBlock
<1>5. CASE ~(start > Ceiling)
  <2>1. scan' = [NoScan EXCEPT !.doing = "height", !.source = source, !.at = start, !.tip = Ceiling]
    BY <1>5 DEF Begin
  <2>2. /\ scan' \in Scan /\ scan'.doing = "height" /\ scan'.at = start /\ scan'.tip = Top(indexed)
        /\ scan'.hash = 0 /\ start <= Top(indexed)
    <3>1. scan' = [doing |-> "height", source |-> source, at |-> start, tip |-> Ceiling,
                   block |-> Genesis, found |-> {}, hash |-> 0]
      BY <2>1 DEF NoScan
    <3>2. Ceiling = Top(indexed) /\ start <= Top(indexed)
      BY <1>1, <1>5 DEF Ceiling
    <3> QED BY <3>1, <3>2, <1>1, <1>2 DEF Scan
  <2>3. scan'.at <= scan'.tip /\ scan'.tip <= Top(indexed) /\ scan'.hash <= blocks
    BY <2>2, <1>1
  <2> QED BY <2>2, <2>3 DEF Good, ChainGood, LeftGood, Branches, IndexGood, ScanGood, network, HasBlock
<1> QED BY <1>4, <1>5

LEMMA StartsAt ==
  ASSUME Good
  PROVE  Ceiling \in Nat /\ watermark.height \in Nat /\ RewindTo \in Nat /\ RewindTo <= watermark.height
<1>1. watermark.height \in Nat
  BY DEF Good, TablesGood, Heights
<1> QED BY <1>1, ScanIsOnChain, ScanAssumption DEF Ceiling, RewindTo

LEMMA StartKeeps ==
  ASSUME Good, NEW source \in {"BlindBit", "Electrum"},
         StartScan(source) \/ \E from \in Froms : ScanFrom(source, from)
  PROVE  Good'
<1>1. CASE ScanFirst(source)
  <2>1. UNCHANGED <<network, store, others, searched, unseen, events>> /\ Begin(source, Ceiling)
    BY <1>1 DEF ScanFirst, history
  <2>2. ChainGood' /\ LeftGood' /\ IndexGood' /\ ScanGood'
    BY <2>1, StartsAt, BeginKeeps
  <2> QED BY <2>1, <2>2 DEF Good, TablesGood, SearchedGood, network, store, others, Heights
<1>2. CASE ScanOn(source)
  <2>1. UNCHANGED <<network, store, others, searched, events>> /\ Begin(source, watermark.height)
    BY <1>2 DEF ScanOn, history
  <2>2. ChainGood' /\ LeftGood' /\ IndexGood' /\ ScanGood'
    BY <2>1, StartsAt, BeginKeeps
  <2>3. unseen' \subseteq Reasons
    BY <1>2, ReasonsAre DEF ScanOn, Note, Good, TablesGood
  <2> QED BY <2>1, <2>2, <2>3 DEF Good, TablesGood, SearchedGood, network, store, others, Heights
<1>3. ASSUME NEW from \in Froms, ScanFrom(source, from) PROVE Good'
  <2>1. UNCHANGED <<network, store, others, searched, events>> /\ Begin(source, from)
    BY <1>3 DEF ScanFrom, history
  <2>2. ChainGood' /\ LeftGood' /\ IndexGood' /\ ScanGood'
    BY <2>1, BeginKeeps, ScanAssumption
  <2>3. unseen' \subseteq Reasons
    BY <1>3, ReasonsAre DEF ScanFrom, Note, Good, TablesGood
  <2> QED BY <2>1, <2>2, <2>3 DEF Good, TablesGood, SearchedGood, network, store, others, Heights
<1>4. CASE Rewind(source)
  <2>1. UNCHANGED <<network, watermark, others, searched, unseen, events>> /\ Begin(source, RewindTo)
    BY <1>4 DEF Rewind
  <2>2. ChainGood' /\ LeftGood' /\ IndexGood' /\ ScanGood'
    BY <2>1, StartsAt, BeginKeeps
  <2>3. DOMAIN outputs' \subseteq DOMAIN outputs /\ \A p \in DOMAIN outputs' : outputs'[p] = outputs[p]
    BY <1>4 DEF Rewind, ForgetFrom, Without
  <2>5. TablesGood'
    BY <2>1, <2>3 DEF Good, TablesGood, network, others, Heights
  <2>6. SearchedGood'
    BY <2>1 DEF Good, SearchedGood, network
  <2> QED BY <2>2, <2>5, <2>6 DEF Good
<1> QED BY <1>1, <1>2, <1>3, <1>4 DEF StartScan

(* The steps of a scan that only it sees.                                  *)
LEMMA ScanMovesKeep ==
  ASSUME Good, ScanGood', UNCHANGED <<network, outputs, watermark, others, searched>>,
         unseen' \subseteq Reasons
  PROVE  Good'
BY DEF Good, ChainGood, LeftGood, Branches, IndexGood, TablesGood, SearchedGood, network, others,
       Heights

LEMMA StoresKeep ==
  ASSUME Good, ScanGood', UNCHANGED <<network, watermark, others, searched>>,
         unseen' \subseteq Reasons,
         NEW found \in SUBSET Payments, NEW height \in Heights, PutFound(found, height)
  PROVE  Good'
<1>1. /\ DOMAIN outputs' = DOMAIN outputs \cup found
      /\ \A p \in DOMAIN outputs' : outputs'[p] = IF p \in found THEN height ELSE outputs[p]
  BY DEF PutFound
<1>2. TablesGood'
  BY <1>1 DEF Good, TablesGood, network, others, Heights
<1> QED BY <1>2 DEF Good, ChainGood, LeftGood, Branches, IndexGood, SearchedGood, network

LEMMA NotScanning == Good => (scan' = NoScan /\ UNCHANGED network => ScanGood')
<1>1. Genesis \in Block
  BY DEF Genesis, Block
<1>2. NoScan \in Scan
  BY <1>1 DEF NoScan, Scan
<1> QED BY <1>2, ByHeight DEF Good, ScanGood, network, NoScan, Scanning, HasBlock

LEMMA StepKeeps ==
  ASSUME Good, Step \/ StopScan
  PROVE  Good'
<1>0. /\ blocks \in Nat /\ scan \in Scan
      /\ Top(indexed) \in Nat /\ Top(indexed) <= Top(chain) /\ Top(chain) \in Nat
      /\ \A h \in 0..Top(indexed) : Known(left, chain, blocks, BlockAt(indexed, h), h)
      /\ Scanning => scan.at \in Heights /\ scan.at \in 0..Top(indexed)
      /\ \A h \in Heights : Known(left, chain, blocks, At(h), h)
      /\ \A h \in Heights : At(h) \in Block /\ At(h).hash \in Nat /\ At(h).hash <= blocks
      /\ Tweaks \subseteq Payments
  BY ScanIsOnChain, ByHeight DEF Good, ScanGood
<1>1. CASE BlockHash
  <2>1. scan' = [scan EXCEPT !.doing = "search", !.block = At(scan.at), !.hash = At(scan.at).hash]
        /\ Scanning /\ scan.source = "BlindBit"
    BY <1>1 DEF BlockHash, Scanning, At
  <2>2. scan' \in Scan /\ scan'.doing = "search" /\ scan'.at = scan.at /\ scan'.tip = scan.tip
        /\ scan'.block = At(scan.at) /\ scan'.hash = At(scan.at).hash /\ scan'.source = "BlindBit"
    BY <2>1, <1>0 DEF Scan
  <2>3. ScanGood'
    BY <2>1, <2>2, <1>0, <1>1 DEF BlockHash, Good, ScanGood, network, Scanning, HasBlock
  <2> QED BY <2>3, <1>1, ScanMovesKeep DEF BlockHash, store, history, Good, TablesGood
<1>2. CASE SearchBlock
  <2> DEFINE found == Tweaks \cap scan.block.pays
  <2>1. scan' = [scan EXCEPT !.doing = IF found = {} THEN "mark" ELSE "store", !.found = found]
        /\ Scanning /\ scan.doing = "search" /\ HasBlock
    BY <1>2 DEF SearchBlock, Scanning, HasBlock
  <2>2. scan' \in Scan /\ scan'.doing \in {"mark", "store"} /\ scan'.at = scan.at /\ scan'.tip = scan.tip
        /\ scan'.block = scan.block /\ scan'.hash = scan.hash /\ scan'.found \subseteq scan'.block.pays
    BY <2>1, <1>0 DEF Scan
  <2>3. ScanGood'
    BY <2>1, <2>2, <1>2 DEF SearchBlock, Good, ScanGood, network, Scanning, HasBlock
  <2>4. unseen' \subseteq Reasons
    BY <1>2 DEF SearchBlock, Note, Reason, Reasons, Good, TablesGood
  <2> QED BY <2>3, <2>4, <1>2, ScanMovesKeep DEF SearchBlock, store, history
<1>3. CASE BlockMissing
  BY <1>3, NotScanning, ScanMovesKeep DEF BlockMissing, store, history, Good, TablesGood
<1>4. CASE StoreBlock
  <2>1. scan' = [scan EXCEPT !.doing = "mark", !.found = {}] /\ Scanning /\ HasBlock
    BY <1>4 DEF StoreBlock, Scanning, HasBlock
  <2>2. scan' \in Scan /\ scan'.doing = "mark" /\ scan'.at = scan.at /\ scan'.tip = scan.tip
        /\ scan'.block = scan.block /\ scan'.hash = scan.hash
    BY <2>1, <1>0 DEF Scan
  <2>3. ScanGood'
    BY <2>1, <2>2, <1>4 DEF StoreBlock, Good, ScanGood, network, Scanning, HasBlock
  <2>4. scan.found \in SUBSET Payments
    BY <1>0 DEF Scan
  <2> QED BY <2>1, <2>3, <2>4, <1>0, <1>4, StoresKeep DEF StoreBlock, Good, TablesGood
<1>5. CASE Stream
  <2>1. scan' = [scan EXCEPT !.doing = IF Tweaks = {} THEN "hash" ELSE "store",
                             !.found = Tweaks, !.block = BlockAt(indexed, scan.at)]
        /\ Scanning /\ scan.source = "Electrum"
    BY <1>5 DEF Stream, Scanning
  <2>2. Known(left, chain, blocks, BlockAt(indexed, scan.at), scan.at)
    BY <2>1, <1>0
  <2>3. scan' \in Scan /\ scan'.doing \in {"hash", "store"} /\ scan'.at = scan.at /\ scan'.tip = scan.tip
        /\ scan'.block = BlockAt(indexed, scan.at) /\ scan'.hash = scan.hash /\ scan'.found = Tweaks
        /\ scan'.source = "Electrum"
    BY <2>1, <2>2, <1>0 DEF Scan, Known
  <2>4. Tweaks = BlockAt(indexed, scan.at).pays
    BY <2>1, <1>0 DEF Tweaks
  <2>5. ScanGood'
    BY <2>1, <2>2, <2>3, <2>4, <1>5 DEF Stream, Good, ScanGood, network, Scanning, HasBlock
  <2>6. unseen' \subseteq Reasons
    BY <1>5 DEF Stream, Note, Reason, Reasons, Good, TablesGood
  <2> QED BY <2>5, <2>6, <1>5, ScanMovesKeep DEF Stream, store, history
<1>6. CASE HashLast
  <2>1. scan' = [scan EXCEPT !.doing = "mark", !.hash = At(scan.at).hash] /\ Scanning /\ HasBlock
    BY <1>6 DEF HashLast, Scanning, HasBlock, At
  <2>2. scan' \in Scan /\ scan'.doing = "mark" /\ scan'.at = scan.at /\ scan'.tip = scan.tip
        /\ scan'.block = scan.block /\ scan'.hash = At(scan.at).hash
    BY <2>1, <1>0 DEF Scan
  <2>3. ScanGood'
    BY <2>1, <2>2, <1>0, <1>6 DEF HashLast, Good, ScanGood, network, Scanning, HasBlock
  <2> QED BY <2>3, <1>6, ScanMovesKeep DEF HashLast, store, history, Good, TablesGood
<1>7. CASE SetWatermark
  <2>1. Scanning /\ HasBlock /\ Known(left, chain, blocks, scan.block, scan.at) /\ scan.hash \in Nat
        /\ scan.hash <= blocks /\ scan.at \in Nat /\ scan.tip \in Nat /\ scan.at <= scan.tip
        /\ scan.tip <= Top(indexed)
    BY <1>7 DEF SetWatermark, Scanning, HasBlock, Good, ScanGood, Scan
  <2>2. ScanGood'
    <3>1. CASE scan.at = scan.tip
      BY <3>1, <1>7, NotScanning DEF SetWatermark
    <3>2. CASE scan.at # scan.tip
      <4>1. scan' = [doing |-> "height", source |-> scan.source, at |-> scan.at + 1, tip |-> scan.tip,
                     block |-> Genesis, found |-> {}, hash |-> 0]
        BY <3>2, <1>7 DEF SetWatermark, NextHeight, NoScan
      <4>2. Genesis \in Block
        BY DEF Genesis, Block
      <4>3. scan' \in Scan
        BY <4>1, <4>2, <2>1, <1>0 DEF Scan
      <4>4. scan.at + 1 <= scan.tip /\ 0 <= blocks
        BY <3>2, <2>1, <1>0
      <4> QED BY <4>1, <4>3, <4>4, <2>1, <1>7 DEF SetWatermark, Good, ScanGood, network, HasBlock
    <3> QED BY <3>1, <3>2
  <2>3. watermark' = [height |-> scan.at, hash |-> scan.hash]
    BY <1>7 DEF SetWatermark
  <2>4. TablesGood'
    BY <2>1, <2>3, <1>0, <1>7 DEF SetWatermark, Good, TablesGood, network, others, Heights
  <2>5. /\ DOMAIN searched' = {k \in DOMAIN searched : k < scan.at} \cup {scan.at}
        /\ \A h \in DOMAIN searched' : searched'[h] = IF h = scan.at THEN scan.block.hash ELSE searched[h]
    BY <1>7 DEF SetWatermark
  <2>6. DOMAIN searched' \subseteq 0..scan.at
    <3>1. DOMAIN searched \subseteq Nat
      BY DEF Good, SearchedGood, TablesGood, Heights
    <3> QED BY <3>1, <2>1, <2>5
  <2>7. scan.block.hash \in Nat /\ scan.block.hash <= blocks
    BY <2>1 DEF Known, Block
  <2>8. SearchedGood'
    <3>1. \A h \in DOMAIN searched' : searched'[h] \in Nat /\ searched'[h] <= blocks
      BY <2>5, <2>7 DEF Good, SearchedGood
    <3> QED BY <3>1, <2>1, <2>3, <2>6, <1>7 DEF SetWatermark, SearchedGood, network
  <2> QED BY <2>2, <2>4, <2>8, <1>7 DEF SetWatermark, Good, ChainGood, LeftGood, Branches,
                                        IndexGood, network
<1>8. ASSUME NEW p \in Payments, StoreConfirmed(p) PROVE Good'
  <2>1. scan' = [scan EXCEPT !.doing = IF scan.found = {p} THEN "hash" ELSE "store", !.found = @ \ {p}]
        /\ Scanning /\ HasBlock /\ scan.doing = "store" /\ scan.source = "Electrum"
    BY <1>8 DEF StoreConfirmed, Scanning, HasBlock
  <2>2. scan' \in Scan /\ scan'.doing \in {"hash", "store"} /\ scan'.at = scan.at /\ scan'.tip = scan.tip
        /\ scan'.block = scan.block /\ scan'.hash = scan.hash /\ scan'.found \subseteq scan.found
        /\ scan'.source = "Electrum"
    BY <2>1, <1>0 DEF Scan
  <2>3. ScanGood'
    BY <2>1, <2>2, <1>8 DEF StoreConfirmed, Good, ScanGood, network, Scanning, HasBlock
  <2>4. {p} \in SUBSET Payments
    OBVIOUS
  <2> QED BY <2>1, <2>3, <2>4, <1>0, <1>8, StoresKeep DEF StoreConfirmed, Good, TablesGood
<1>9. ASSUME NEW p \in Payments, NotConfirmed(p) PROVE Good'
  BY <1>9, NotScanning, ScanMovesKeep DEF NotConfirmed, store, history, Good, TablesGood
<1>10. CASE StopScan
  BY <1>10, NotScanning, ScanMovesKeep DEF StopScan, store, history, Good, TablesGood
<1> QED BY <1>1, <1>2, <1>3, <1>4, <1>5, <1>6, <1>7, <1>8, <1>9, <1>10 DEF Step

(* sp-scan --tx and sp-balance.                                            *)
Other ==
  \/ \E p \in Payments : Missing(p) \/ \E height \in 0..Top(chain) : LookUp(p, height)
  \/ StoreLook \/ Forget

LEMMA OtherKeeps ==
  ASSUME Good, Other
  PROVE  Good'
<1>1. ASSUME NEW p \in Payments, Missing(p) PROVE Good'
  <2>1. balance' \subseteq Payments /\ UNCHANGED <<network, store, scan, look, searched, unseen>>
    BY <1>1 DEF Missing, history
  <2> QED BY <2>1 DEF Good, ChainGood, LeftGood, Branches, IndexGood, ScanGood, TablesGood,
                      SearchedGood, network, store,
                       Heights, Scanning, HasBlock
<1>2. ASSUME NEW p \in Payments, NEW height \in 0..Top(chain), LookUp(p, height) PROVE Good'
  <2>1. look' = <<[pay |-> p, height |-> height]>>
        /\ UNCHANGED <<network, store, scan, balance, searched, unseen>>
    BY <1>2 DEF LookUp, history
  <2>2. [pay |-> p, height |-> height] \in Look(chain)
    BY DEF Look
  <2>3. TablesGood'
    BY <2>1, <2>2 DEF Good, TablesGood, network, store, Heights
  <2> QED BY <2>1, <2>3 DEF Good, ChainGood, LeftGood, Branches, IndexGood, ScanGood,
                            SearchedGood, network, store,
                             Scanning, HasBlock
<1>3. CASE StoreLook
  <2>1. PICK r \in Look(chain) : look = <<r>>
    BY <1>3 DEF StoreLook, Good, TablesGood
  <2>2. look[1] = r
    BY <2>1
  <2>3. /\ PutFound({r.pay}, r.height) /\ look' = << >>
        /\ UNCHANGED <<network, watermark, scan, balance, searched, events>>
    BY <1>3, <2>2 DEF StoreLook
  <2>4. /\ DOMAIN outputs' = DOMAIN outputs \cup {r.pay}
        /\ \A p \in DOMAIN outputs' : outputs'[p] = IF p \in {r.pay} THEN r.height ELSE outputs[p]
    BY <2>3 DEF PutFound
  <2>5. unseen' \subseteq Reasons
    BY <1>3 DEF StoreLook, Note, Reason, Reasons, Good, TablesGood
  <2>6. TablesGood'
    BY <2>1, <2>3, <2>4, <2>5 DEF Look, Good, TablesGood, network, Heights
  <2> QED BY <2>3, <2>6 DEF Good, ChainGood, LeftGood, Branches, IndexGood, ScanGood,
                            SearchedGood, network,
                             Scanning, HasBlock
<1>4. CASE Forget
  <2>1. /\ outputs' = Without(balance) /\ balance' = {}
        /\ UNCHANGED <<network, watermark, scan, look, searched, events>>
    BY <1>4 DEF Forget
  <2>2. /\ DOMAIN outputs' \subseteq DOMAIN outputs
        /\ \A p \in DOMAIN outputs' : outputs'[p] = outputs[p]
    BY <2>1 DEF Without
  <2>3. unseen' \subseteq Reasons
    BY <1>4 DEF Forget, Note, Reason, Reasons, Good, TablesGood
  <2>4. TablesGood'
    BY <2>1, <2>2, <2>3 DEF Good, TablesGood, network, Heights
  <2> QED BY <2>1, <2>4 DEF Good, ChainGood, LeftGood, Branches, IndexGood, ScanGood,
                            SearchedGood, network,
                             Scanning, HasBlock
<1> QED BY <1>1, <1>2, <1>3, <1>4 DEF Other

LEMMA InitGood == Init => Good
<1> SUFFICES ASSUME Init PROVE Good
  OBVIOUS
<1>1. IsBranch(<<Genesis>>, 0)
  <2>1. Genesis \in Block /\ Genesis.hash = 0 /\ Genesis.pays = {}
    BY DEF Genesis, Block
  <2> QED BY <2>1 DEF IsBranch
<1>2. <<Genesis>> \in Seq(Block) /\ Len(<<Genesis>>) = 1
  BY <1>1 DEF IsBranch
<1>3. IsGrown(chain, <<Genesis>>, 0, StartHeight)
  BY <1>2, GrownIs, ScanAssumption DEF Init
<1>4. ChainGood
  <2>1. IsBranch(chain, 0 + StartHeight)
    BY <1>1, <1>3, GrownIsBranch, ScanAssumption
  <2> QED BY <2>1, ScanAssumption DEF Init, ChainGood
<1>10. LeftGood
  BY DEF Init, LeftGood, Branches, Joined
<1>5. IndexGood
  <2>1. Len(chain) \in Nat \ {0} /\ indexed = <<Genesis>>
    BY <1>4 DEF ChainGood, IsBranch, Init
  <2>2. \A h \in 0..Top(indexed) : h = 0
    BY <2>1, <1>2 DEF Top
  <2>3. BlockAt(indexed, 0) = Genesis /\ At(0) = Genesis /\ At(0) \in Block /\ At(0).hash <= blocks
        /\ 0 \in Heights
    BY <2>1, <1>2, <1>4, ByHeight DEF BlockAt, At, ChainGood, IsBranch
  <2>4. Known(left, chain, blocks, Genesis, 0)
    BY <2>3, <1>4, <1>10, ChainKnown
  <2> QED BY <2>1, <2>2, <2>3, <2>4, <1>2 DEF IndexGood
<1>6. ScanGood
  <2>1. Genesis \in Block
    BY DEF Genesis, Block
  <2>2. NoScan \in Scan
    BY <2>1 DEF NoScan, Scan
  <2> QED BY <2>2, <1>4, ByHeight DEF Init, ScanGood, NoScan, Scanning, HasBlock
<1>7. DOMAIN << >> = {}
  OBVIOUS
<1>8. TablesGood
  <2>1. /\ watermark \in [height : Heights, hash : Int] /\ watermark.hash <= blocks
        /\ watermark.hash = NoHash \/ watermark = NoWatermark
    BY <1>4, ByHeight DEF Init, NoWatermark, NoHash
  <2> QED BY <2>1, <1>7 DEF Init, TablesGood
<1>9. SearchedGood
  BY <1>7 DEF Init, SearchedGood
<1> QED BY <1>4, <1>10, <1>5, <1>6, <1>8, <1>9 DEF Good

LEMMA NextKeeps == Good /\ [Next]_vars => Good'
<1> SUFFICES ASSUME Good, [Next]_vars PROVE Good'
  OBVIOUS
<1>1. CASE Turns
  <2>1. ChainGood' /\ LeftGood' /\ Turned /\ Noticed
    BY <1>1, TurnsTurn DEF Good
  <2>2. unseen' \subseteq Reasons
    <3>1. unseen \subseteq Reasons
      BY DEF Good, TablesGood
    <3>2. \A branch : \A fork : Reorg(branch, fork) => unseen' \subseteq Reasons
      BY <3>1, ReasonsAre DEF Reorg, Note
    <3>3. Mine => unseen' = unseen
      BY DEF Mine
    <3> QED BY <1>1, <3>1, <3>2, <3>3 DEF Turns
  <2> QED BY <2>1, <2>2, TurnedKeeps DEF Noticed, history
<1>3. CASE UNCHANGED vars
  BY <1>3 DEF Good, ChainGood, LeftGood, Branches, IndexGood, ScanGood, TablesGood, SearchedGood,
              Heights,
              Scanning, HasBlock, vars, network, store, others, history
<1> QED
  BY <1>1, <1>3, IndexKeeps, StartKeeps, StepKeeps, OtherKeeps DEF Next, Network, Turns, Other

StrayedTyped == strayed \in BOOLEAN

LEMMA StrayedIs == StrayedTyped /\ [Next]_vars => StrayedTyped'
<1> SUFFICES ASSUME strayed \in BOOLEAN, [Next]_vars PROVE strayed' \in BOOLEAN
  BY DEF StrayedTyped
<1>1. Written => strayed' \in BOOLEAN
  BY DEF Written
<1>2. SetWatermark => strayed' \in BOOLEAN
  BY DEF SetWatermark, Astray
<1>3. CASE strayed' = strayed
  BY <1>3
<1>4. Network => strayed' = strayed
  BY DEF Network, Mine, Index, Reorg, history
<1>5. \A source \in {"BlindBit", "Electrum"} :
        StartScan(source) \/ (\E from \in Froms : ScanFrom(source, from)) => strayed' = strayed \/ Written
  BY DEF StartScan, ScanFirst, ScanOn, Rewind, ScanFrom, history
<1>6. Step \/ StopScan => strayed' = strayed \/ Written \/ SetWatermark
  BY DEF Step, BlockHash, SearchBlock, BlockMissing, StoreBlock, Stream, StoreConfirmed, NotConfirmed,
         HashLast, StopScan, history
<1>7. Other => strayed' = strayed \/ Written
  BY DEF Other, Missing, LookUp, StoreLook, Forget, history
<1>8. UNCHANGED vars => strayed' = strayed
  BY DEF vars, history
<1> QED BY <1>1, <1>2, <1>3, <1>4, <1>5, <1>6, <1>7, <1>8 DEF Next, Other

LEMMA AlwaysGood == Spec => [](Good /\ StrayedTyped)
<1>1. Init => StrayedTyped
  BY DEF Init, StrayedTyped
<1> QED BY <1>1, InitGood, NextKeeps, StrayedIs, PTL DEF Spec

(* Types: no row, watermark, answer or history is of a height the chain    *)
(* does not have, whichever blocks were replaced in the meantime.          *)
THEOREM ScanTypeCorrect == Spec => []ScanTyped
<1>1. Good /\ StrayedTyped => ScanTyped
  <2> SUFFICES ASSUME Good, strayed \in BOOLEAN PROVE ScanTyped
    BY DEF StrayedTyped
  <2>1. chain \in Seq(Block) /\ left \subseteq Seq(Block) /\ indexed \in Seq(Block) /\ scan \in Scan
    BY DEF Good, ChainGood, LeftGood, IsBranch, IndexGood, ScanGood
  <2>2. /\ DOMAIN outputs \subseteq Payments
        /\ \A p \in DOMAIN outputs : outputs[p] \in 0..Top(chain)
        /\ watermark \in [height : 0..Top(chain), hash : Int]
        /\ balance \subseteq Payments /\ unseen \subseteq Reasons
    BY DEF Good, TablesGood, Heights
  <2>3. look \in Seq([pay : Payments, height : Nat])
    <3>1. CASE look = << >>
      BY <3>1
    <3>2. ASSUME NEW r \in Look(chain), look = <<r>> PROVE look \in Seq([pay : Payments, height : Nat])
      <4>1. r \in [pay : Payments, height : Nat]
        BY ByHeight DEF Good, Look
      <4> QED BY <4>1, <3>2
    <3> QED BY <3>1, <3>2 DEF Good, TablesGood
  <2>4. DOMAIN searched \subseteq 0..Top(chain)
    <3>1. watermark.height \in 0..Top(chain) /\ Top(chain) \in Nat
      BY <2>2, ByHeight DEF Good
    <3> QED BY <3>1 DEF Good, SearchedGood
  <2> QED BY <2>1, <2>2, <2>3, <2>4 DEF ScanTyped
<1> QED BY <1>1, AlwaysGood, PTL

-----------------------------------------------------------------------------
(* The block a scan searches.                                              *)

(* Unless its blocks were replaced while it ran, or the tweak server was   *)
(* on another branch, it is the block of that height.                      *)
OnChain ==
  unseen \cap {"during", "branch"} = {} => (HasBlock => scan.block = At(scan.at))

(* A scan of the tweak server's holds the hash from the first, the other   *)
(* reads it last.                                                          *)
HasHash == scan.doing = "mark" \/ (scan.source = "BlindBit" /\ scan.doing \in {"search", "store"})

HashRight == "during" \notin unseen => (HasHash => scan.hash = At(scan.at).hash)

(* What stays of the chain above and below, in one place.                  *)
LEMMA TurnsLeave ==
  ASSUME Good, Turns
  PROVE  /\ ChainGood /\ LeftGood /\ ChainGood' /\ LeftGood' /\ Turned /\ Noticed
         /\ unseen \subseteq unseen' /\ UNCHANGED <<indexed, store, scan, others, history>>
         /\ \A h \in Heights : h \in Nat /\ h \in Heights'
         /\ \A h \in Heights : h \notin Gone =>
              \A i \in 0..h : BlockAt(chain', i) = At(i)
         /\ \A h \in Heights : h \notin Gone => BlockAt(chain', h) = At(h)
         /\ \A h \in Heights : BlockAt(chain', h).hash = At(h).hash => h \notin Gone
         /\ \A h \in Gone : h \in Heights
         /\ ~ComesBack => \A h \in Gone : ~(BlockAt(chain', h).hash <= blocks)
<1>1. ChainGood /\ LeftGood /\ ChainGood' /\ LeftGood' /\ Turned /\ Noticed
  BY TurnsTurn DEF Good
<1>2. /\ Top(chain') \in Nat /\ 0..Top(chain) \subseteq 0..Top(chain')
      /\ Gone \subseteq 0..Top(chain)
      /\ \A h \in 0..Top(chain) : h \notin Gone =>
              \A i \in 0..h : BlockAt(chain', i) = BlockAt(chain, i)
      /\ \A h \in 0..Top(chain) : BlockAt(chain', h).hash = BlockAt(chain, h).hash =>
              h \notin Gone
      /\ ~ComesBack => \A h \in Gone : ~(BlockAt(chain', h).hash <= blocks)
  BY <1>1, Stays
<1>3. \A h \in 0..Top(chain) : h \in 0..h
  OBVIOUS
<1>4. unseen \subseteq unseen' /\ UNCHANGED <<indexed, store, scan, others, history>>
  BY <1>1 DEF Noticed
<1> QED BY <1>1, <1>2, <1>3, <1>4 DEF Heights, At

LEMMA TurnsOnChain ==
  ASSUME Good, OnChain, HashRight, Turns
  PROVE  OnChain' /\ HashRight'
<1>1. /\ unseen \subseteq unseen' /\ scan' = scan
      /\ \A h \in Heights : h \notin Gone => BlockAt(chain', h) = At(h)
      /\ "during" \in unseen' \/ ~(Scanning /\ scan.at \in Gone)
  BY TurnsLeave DEF Noticed
<1>2. Scanning => scan.at \in Heights
  BY ScanIsOnChain
<1>3. OnChain'
  BY <1>1, <1>2 DEF OnChain, HasBlock, Scanning, At
<1>4. HashRight'
  BY <1>1, <1>2 DEF HashRight, HasHash, Scanning, At
<1> QED BY <1>3, <1>4

LEMMA StartHasNoBlock ==
  ASSUME NEW source, StartScan(source) \/ \E from \in Froms : ScanFrom(source, from)
  PROVE  /\ ~HasBlock' /\ scan'.found = {} /\ scan'.doing \in {"nothing", "height"}
         /\ UNCHANGED <<network, watermark, others, searched>> /\ unseen \subseteq unseen'
         /\ ~Scanning
         /\ Rewind(source) \/ UNCHANGED <<outputs, strayed>>
<1>1. \A start : Begin(source, start) =>
        ~HasBlock' /\ scan'.doing \in {"nothing", "height"} /\ scan'.found = {}
  BY DEF Begin, NoScan, HasBlock
<1>2. Rewind(source) => UNCHANGED <<network, watermark, others, searched>> /\ unseen \subseteq unseen' /\ ~Scanning
  BY DEF Rewind
<1>3. ScanFirst(source) => UNCHANGED <<network, watermark, others, outputs, history>> /\ unseen \subseteq unseen' /\ ~Scanning
  BY DEF ScanFirst, store, history
<1>4. ScanOn(source) => UNCHANGED <<network, watermark, others, outputs, history>> /\ unseen \subseteq unseen' /\ ~Scanning
  BY Noted DEF ScanOn, store, history, Note
<1>5. \A from \in Froms : ScanFrom(source, from) =>
         UNCHANGED <<network, watermark, others, outputs, history>> /\ unseen \subseteq unseen' /\ ~Scanning
  BY Noted DEF ScanFrom, store, history, Note
<1>6. \E start : Begin(source, start)
  BY DEF StartScan, Rewind, ScanFirst, ScanOn, ScanFrom
<1> QED BY <1>1, <1>2, <1>3, <1>4, <1>5, <1>6 DEF StartScan, history

(* A step of a scan stays with the block, or takes one of the chain.       *)
LEMMA StepBlock ==
  ASSUME Good, Step \/ StopScan
  PROVE  /\ UNCHANGED <<network, others>> /\ unseen \subseteq unseen' /\ Scanning
         /\ \/ ~HasBlock'
            \/ HasBlock /\ scan'.block = scan.block /\ scan'.at = scan.at
            \/ scan'.at = scan.at /\ scan'.block = At(scan.at)
            \/ "branch" \in unseen'
<1>0. scan \in Scan /\ (Scanning => scan.at \in 0..Top(indexed))
  BY ScanIsOnChain DEF Good, ScanGood
<1>1. CASE BlockHash
  BY <1>0, <1>1 DEF BlockHash, Scan, HasBlock, At, Scanning
<1>2. CASE SearchBlock
  BY <1>0, <1>2, Noted DEF SearchBlock, Scan, HasBlock, Scanning, Note
<1>3. CASE BlockMissing
  BY <1>3 DEF BlockMissing, NoScan, HasBlock, Scanning
<1>4. CASE StoreBlock
  BY <1>0, <1>4 DEF StoreBlock, Scan, HasBlock, Scanning
<1>5. CASE Stream
  <2>1. unseen' = unseen \cup Reason(OnBranch, "branch") /\ Scanning
        /\ scan'.at = scan.at /\ scan'.block = BlockAt(indexed, scan.at)
    BY <1>0, <1>5, Noted DEF Stream, Scan, Scanning
  <2>2. OnBranch \/ BlockAt(indexed, scan.at) = At(scan.at)
    BY <1>0, <2>1, <1>5 DEF Stream, OnBranch, At
  <2>3. OnBranch => "branch" \in unseen'
    BY <2>1 DEF Reason
  <2>4. unseen \subseteq unseen'
    BY <2>1
  <2> QED BY <2>1, <2>2, <2>3, <2>4, <1>5 DEF Stream
<1>6. CASE HashLast
  BY <1>0, <1>6 DEF HashLast, Scan, HasBlock, Scanning
<1>7. CASE SetWatermark
  BY <1>7 DEF SetWatermark, NextHeight, NoScan, HasBlock, Scanning
<1>8. ASSUME NEW p \in Payments, StoreConfirmed(p)
      PROVE  /\ UNCHANGED <<network, others>> /\ unseen \subseteq unseen' /\ Scanning
             /\ HasBlock /\ scan'.block = scan.block /\ scan'.at = scan.at
  BY <1>0, <1>8 DEF StoreConfirmed, Scan, HasBlock, Scanning
<1>9. ASSUME NEW p \in Payments, NotConfirmed(p)
      PROVE  ~HasBlock' /\ UNCHANGED <<network, others>> /\ unseen \subseteq unseen' /\ Scanning
  BY <1>9 DEF NotConfirmed, NoScan, HasBlock, Scanning
<1>10. CASE StopScan
  BY <1>10 DEF StopScan, NoScan, HasBlock, Scanning
<1> QED BY <1>1, <1>2, <1>3, <1>4, <1>5, <1>6, <1>7, <1>8, <1>9, <1>10 DEF Step

LEMMA OtherLeaves ==
  ASSUME Other
  PROVE  UNCHANGED <<network, scan, watermark, searched>> /\ unseen \subseteq unseen'
<1>1. \A p \in Payments : Missing(p) => UNCHANGED <<network, scan, watermark, searched>> /\ unseen \subseteq unseen'
  BY DEF Missing, store, history
<1>2. \A p \in Payments : \A height \in 0..Top(chain) : LookUp(p, height) =>
         UNCHANGED <<network, scan, watermark, searched>> /\ unseen \subseteq unseen'
  BY DEF LookUp, store, history
<1>3. StoreLook => UNCHANGED <<network, scan, watermark, searched>> /\ unseen \subseteq unseen'
  BY Noted DEF StoreLook, Note
<1>4. Forget => UNCHANGED <<network, scan, watermark, searched>> /\ unseen \subseteq unseen'
  BY Noted DEF Forget, Note
<1> QED BY <1>1, <1>2, <1>3, <1>4 DEF Other

LEMMA StepHash ==
  ASSUME Good, Step \/ StopScan
  PROVE  \/ ~HasHash'
         \/ HasHash /\ scan'.hash = scan.hash /\ scan'.at = scan.at
         \/ scan'.at = scan.at /\ scan'.hash = At(scan.at).hash
<1>0. scan \in Scan /\ (scan.doing = "search" => scan.source = "BlindBit")
      /\ (scan.doing = "hash" => scan.source = "Electrum")
  BY DEF Good, ScanGood
<1>1. CASE BlockHash
  BY <1>0, <1>1 DEF BlockHash, Scan, At
<1>2. CASE SearchBlock
  BY <1>0, <1>2 DEF SearchBlock, Scan, HasHash
<1>3. CASE BlockMissing \/ StopScan \/ \E p \in Payments : NotConfirmed(p)
  BY <1>3 DEF BlockMissing, StopScan, NotConfirmed, NoScan, HasHash
<1>4. CASE StoreBlock
  BY <1>0, <1>4 DEF StoreBlock, Scan, HasHash
<1>5. CASE Stream
  BY <1>0, <1>5 DEF Stream, Scan, HasHash
<1>6. CASE HashLast
  BY <1>0, <1>6 DEF HashLast, Scan, At
<1>7. CASE SetWatermark
  BY <1>7 DEF SetWatermark, NextHeight, NoScan, HasHash
<1>8. ASSUME NEW p \in Payments, StoreConfirmed(p) PROVE ~HasHash'
  BY <1>0, <1>8 DEF StoreConfirmed, Scan, HasHash
<1> QED BY <1>1, <1>2, <1>3, <1>4, <1>5, <1>6, <1>7, <1>8 DEF Step

LEMMA NextOnChain == Good /\ OnChain /\ HashRight /\ [Next]_vars => OnChain' /\ HashRight'
<1> SUFFICES ASSUME Good, OnChain, HashRight, [Next]_vars PROVE OnChain' /\ HashRight'
  OBVIOUS
<1>1. CASE Turns
  BY <1>1, TurnsOnChain
<1>2. CASE Index
  BY <1>2 DEF Index, OnChain, HasBlock, HashRight, HasHash, At
<1>3. CASE \E source \in {"BlindBit", "Electrum"} :
             StartScan(source) \/ \E from \in Froms : ScanFrom(source, from)
  BY <1>3, StartHasNoBlock DEF OnChain, HashRight, HasHash
<1>4. CASE Step \/ StopScan
  <2>1. chain' = chain /\ unseen \subseteq unseen'
    BY <1>4, StepBlock DEF network
  <2>2. OnChain'
    BY <1>4, <2>1, StepBlock DEF OnChain, At
  <2>3. HashRight'
    BY <1>4, <2>1, StepHash DEF HashRight, At
  <2> QED BY <2>2, <2>3
<1>5. CASE Other
  BY <1>5, OtherLeaves DEF OnChain, HasBlock, HashRight, HasHash, At, network
<1>6. CASE UNCHANGED vars
  BY <1>6 DEF OnChain, HasBlock, HashRight, HasHash, At, vars, network
<1> QED BY <1>1, <1>2, <1>3, <1>4, <1>5, <1>6 DEF Next, Network, Turns, Other

-----------------------------------------------------------------------------
(* No row is left over.                                                    *)

(* A branch that has the block the watermark names.                        *)
Vouches(c) ==
  /\ watermark.hash \in Nat /\ watermark.height <= Top(c)
  /\ BlockAt(c, watermark.height).hash = watermark.hash

(* The row of p is unconfirmed, or of the block that has p.                *)
Right(p) == outputs[p] # UNCONFIRMED => p \in At(outputs[p]).pays

(* The next scan drops the row of p and those above it.                    *)
WillDrop(p) == ~Scanning /\ Moved /\ outputs[p] >= RewindTo

Rows == \A p \in DOMAIN outputs : Right(p) \/ WillDrop(p)

(* What the rows up to the watermark are on a branch, should it be back.   *)
RightOn(c) ==
  \A p \in DOMAIN outputs :
    outputs[p] <= watermark.height /\ outputs[p] # UNCONFIRMED => p \in BlockAt(c, outputs[p]).pays

RowsRight ==
  unseen = {} => Rows /\ (~strayed => \A c \in Branches : Vouches(c) => RightOn(c))

(* The watermark on the chain and on the branches it has left.             *)
LEMMA WatermarkIs ==
  ASSUME Good
  PROVE  /\ watermark.height \in Heights /\ watermark.height \in Nat /\ watermark.height <= Top(chain)
         /\ watermark.hash <= blocks
         /\ Agrees <=> Vouches(chain)
         /\ watermark.hash \in Nat => watermark # NoWatermark /\ watermark.hash # NoHash
         /\ watermark.hash \in Nat \/ watermark.hash = NoHash \/ watermark = NoWatermark
<1>1. /\ watermark.height \in Heights /\ watermark.hash <= blocks
      /\ watermark.hash \in Nat \/ watermark.hash = NoHash \/ watermark = NoWatermark
  BY DEF Good, TablesGood
<1>2. watermark.height \in Nat /\ watermark.height <= Top(chain) /\ At(watermark.height).hash \in Nat
  BY <1>1, ByHeight DEF Good, Heights
<1>3. watermark.hash \in Nat => watermark # NoWatermark /\ watermark.hash # NoHash
  BY DEF NoWatermark, NoHash
<1>4. Agrees <=> Vouches(chain)
  BY <1>2 DEF Agrees, Vouches, At
<1> QED BY <1>1, <1>2, <1>3, <1>4

LEMMA TurnsWatermark ==
  ASSUME Good, Turns
  PROVE  /\ watermark' = watermark
         /\ Agrees' => \E c \in Branches :
              Vouches(c) /\ \A i \in 0..watermark.height : BlockAt(chain', i) = BlockAt(c, i)
         /\ \A c \in Branches' : Vouches(c)' => \E d \in Branches :
              Vouches(d) /\ \A i \in 0..watermark.height : BlockAt(c, i) = BlockAt(d, i)
         /\ watermark.height \notin Gone => (Agrees' <=> Agrees)
         /\ Agrees' /\ watermark.height \in Gone => ComesBack
<1>1. /\ watermark.height \in Heights /\ watermark.height \in Nat /\ watermark.height <= Top(chain)
      /\ watermark.hash <= blocks
  BY WatermarkIs
<1>2. /\ Turned /\ ChainGood' /\ watermark' = watermark /\ watermark.height \in 0..Top(chain')
      /\ watermark.height \notin Gone => BlockAt(chain', watermark.height) = At(watermark.height)
  BY <1>1, TurnsLeave DEF store, Heights
<1>3. Top(chain') \in Nat /\ watermark.height <= Top(chain')
  BY <1>1, <1>2 DEF ChainGood, IsBranch, Top
<1>4. BlockAt(chain', watermark.height).hash \in Nat
  <2>1. watermark.height + 1 \in 1..Len(chain') /\ chain' \in Seq(Block)
    BY <1>1, <1>2, <1>3 DEF ChainGood, IsBranch, Top
  <2>2. BlockAt(chain', watermark.height) \in Block
    BY <2>1, ElementOfSeq DEF BlockAt
  <2> QED BY <2>2 DEF Block
<1>5. Agrees' <=> watermark.hash = BlockAt(chain', watermark.height).hash
  BY <1>2, <1>3 DEF Agrees
<1>6. Agrees' => watermark.hash \in Nat /\ \E c \in Branches :
        Vouches(c) /\ \A i \in 0..watermark.height : BlockAt(chain', i) = BlockAt(c, i)
  <2> SUFFICES ASSUME Agrees'
               PROVE  watermark.hash \in Nat /\ \E c \in Branches :
                        Vouches(c) /\ \A i \in 0..watermark.height : BlockAt(chain', i) = BlockAt(c, i)
    OBVIOUS
  <2>1. watermark.hash = BlockAt(chain', watermark.height).hash /\ watermark.hash \in Nat
    BY <1>4, <1>5
  <2>2. PICK c \in Branches : watermark.height <= Top(c)
              /\ \A i \in 0..watermark.height : BlockAt(chain', i) = BlockAt(c, i)
    BY <2>1, <1>1, <1>2 DEF Turned
  <2>3. watermark.height \in 0..watermark.height
    BY <1>1
  <2>4. BlockAt(chain', watermark.height) = BlockAt(c, watermark.height)
    BY <2>2, <2>3
  <2>5. Vouches(c)
    BY <2>1, <2>2, <2>4 DEF Vouches
  <2> QED BY <2>1, <2>2, <2>5
<1>7. ASSUME NEW c \in Branches', Vouches(c)'
      PROVE  \E d \in Branches :
               Vouches(d) /\ \A i \in 0..watermark.height : BlockAt(c, i) = BlockAt(d, i)
  <2>1. c \in Branches \/ c = chain'
    BY <1>2 DEF Turned
  <2>2. CASE c \in Branches
    <3>1. Vouches(c)
      BY <1>2, <1>7 DEF Vouches
    <3> QED BY <2>2, <3>1
  <2>3. CASE c = chain'
    <3>1. Agrees'
      BY <2>3, <1>2, <1>5, <1>7 DEF Vouches
    <3> QED BY <3>1, <1>6, <2>3
  <2> QED BY <2>1, <2>2, <2>3
<1>8. watermark.height \notin Gone => (Agrees' <=> Agrees)
  BY <1>1, <1>2, <1>5 DEF Agrees, At
<1>9. Agrees' /\ watermark.height \in Gone => ComesBack
  BY <1>1, <1>5 DEF ComesBack
<1> QED BY <1>2, <1>6, <1>7, <1>8, <1>9

LEMMA TurnsRows ==
  ASSUME Good, RowsRight, Turns
  PROVE  RowsRight'
<1> SUFFICES ASSUME unseen' = {} PROVE Rows' /\ (~strayed' => \A c \in Branches' : Vouches(c)' => RightOn(c)')
  BY DEF RowsRight
<1>1. /\ unseen = {} /\ outputs' = outputs /\ watermark' = watermark /\ scan' = scan /\ strayed' = strayed
      /\ Noticed
      /\ \A h \in Heights : h \notin Gone => BlockAt(chain', h) = At(h)
  BY TurnsLeave DEF store, history
<1>2. /\ watermark.height \in Nat /\ watermark.height \in Heights
      /\ \A p \in DOMAIN outputs : outputs[p] \in Heights /\ outputs[p] \in Nat
      /\ MaxReorgDepth \in Nat
  BY WatermarkIs, ByHeight, ScanAssumption DEF Good, TablesGood, Heights
<1>3. ~strayed => \A c \in Branches' : Vouches(c)' => RightOn(c)'
  <2> SUFFICES ASSUME ~strayed, NEW c \in Branches', Vouches(c)' PROVE RightOn(c)'
    OBVIOUS
  <2>1. PICK d \in Branches : Vouches(d) /\ \A i \in 0..watermark.height : BlockAt(c, i) = BlockAt(d, i)
    BY TurnsWatermark
  <2>2. RightOn(d)
    BY <2>1, <1>1 DEF RowsRight
  <2>3. \A p \in DOMAIN outputs : outputs[p] <= watermark.height => outputs[p] \in 0..watermark.height
    BY <1>2
  <2> QED BY <2>1, <2>2, <2>3, <1>1 DEF RightOn
<1>4. ASSUME NEW p \in DOMAIN outputs PROVE Right(p)' \/ WillDrop(p)'
  <2>1. Right(p) \/ WillDrop(p)
    BY <1>1 DEF RowsRight, Rows
  <2>2. CASE Right(p) /\ outputs[p] \notin Gone
    BY <2>2, <1>1, <1>2 DEF Right, At
  <2>3. CASE (Right(p) /\ outputs[p] \in Gone) \/ WillDrop(p)
    <3>1. /\ ~Scanning /\ watermark.hash \in Nat /\ outputs[p] >= RewindTo
          /\ watermark.height \in Gone \/ ~Agrees
      <4>1. CASE WillDrop(p)
        BY <4>1, WatermarkIs DEF WillDrop, Moved
      <4>2. CASE Right(p) /\ outputs[p] \in Gone
        <5>1. watermark.hash \in Nat /\ watermark.height \in Gone /\ ~Scanning
          BY <4>2, <1>1 DEF Noticed
        <5>2. ~(outputs[p] < watermark.height - MaxReorgDepth)
          BY <4>2, <5>1, <1>1 DEF Noticed
        <5>3. outputs[p] >= RewindTo
          BY <5>2, <1>2 DEF RewindTo
        <5> QED BY <5>1, <5>3
      <4> QED BY <4>1, <4>2, <2>3
    <3>2. CASE ~Agrees'
      <4>1. Moved'
        BY <3>1, <3>2, <1>1, WatermarkIs DEF Moved
      <4> QED BY <4>1, <3>1, <1>1 DEF WillDrop, Scanning, RewindTo
    <3>3. CASE Agrees'
      <4>1. ComesBack
        BY <3>1, <3>3, TurnsWatermark
      <4>2. ~strayed /\ ~(outputs[p] > watermark.height)
        BY <4>1, <1>1 DEF Noticed
      <4>3. outputs[p] \in 0..watermark.height
        BY <4>2, <1>2
      <4>4. PICK c \in Branches :
              Vouches(c) /\ \A i \in 0..watermark.height : BlockAt(chain', i) = BlockAt(c, i)
        BY <3>3, TurnsWatermark
      <4>5. RightOn(c)
        BY <4>2, <4>4, <1>1 DEF RowsRight
      <4>6. outputs[p] # UNCONFIRMED => p \in BlockAt(chain', outputs[p]).pays
        BY <4>3, <4>4, <4>5 DEF RightOn
      <4> QED BY <4>6, <1>1 DEF Right, At
    <3> QED BY <3>2, <3>3
  <2> QED BY <2>1, <2>2, <2>3
<1> QED BY <1>1, <1>3, <1>4 DEF Rows

(* While a scan runs every row is right.                                   *)
LEMMA WhileScanning == RowsRight /\ unseen = {} /\ Scanning => \A p \in DOMAIN outputs : Right(p)
BY DEF RowsRight, Rows, WillDrop

(* When the tables are written and the chain has the block the watermark   *)
(* names then, every branch that has it is the chain up to there.          *)
LEMMA VouchedNow ==
  ASSUME Good, UNCHANGED network, watermark'.height \in Heights, ~Moved',
         NEW c \in Branches, Vouches(c)'
  PROVE  \A i \in 0..watermark'.height : BlockAt(c, i) = At(i)
<1>1. watermark'.hash \in Nat /\ watermark'.height <= Top(c)
      /\ BlockAt(c, watermark'.height).hash = watermark'.hash
  BY DEF Vouches
<1>2. watermark' # NoWatermark /\ watermark'.hash # NoHash
  BY <1>1 DEF NoWatermark, NoHash
<1>3. watermark'.hash = BlockAt(chain, watermark'.height).hash
  BY <1>2 DEF Moved, Agrees, network
<1>4. Joined(chain, c)
  BY DEF Good, LeftGood, Branches
<1> QED BY <1>1, <1>3, <1>4 DEF Joined, Heights, At

(* So rows that are right are right on each of those.                      *)
LEMMA WrittenRows ==
  ASSUME Good, UNCHANGED network, watermark'.height \in Heights,
         \A p \in DOMAIN outputs' : outputs'[p] \in Heights,
         ~strayed' => ~Moved', Rows'
  PROVE  RowsRight'
<1> SUFFICES ASSUME ~strayed', NEW c \in Branches, Vouches(c)',
                    NEW p \in DOMAIN outputs', outputs'[p] <= watermark'.height, outputs'[p] # UNCONFIRMED
             PROVE  p \in BlockAt(c, outputs'[p]).pays
  <2>1. Branches' = Branches
    BY DEF Branches, network
  <2> QED BY <2>1 DEF RowsRight, RightOn
<1>1. \A i \in 0..watermark'.height : BlockAt(c, i) = At(i)
  BY VouchedNow
<1>2. Right(p)'
  BY DEF Rows, WillDrop
<1>3. outputs'[p] \in 0..watermark'.height
  BY DEF Heights
<1> QED BY <1>1, <1>2, <1>3 DEF Right, At, network

LEMMA WritesTell == Written /\ UNCHANGED <<network, watermark>> /\ ~strayed' => ~Moved' /\ ~strayed
BY DEF Written, Astray, Moved, Agrees, network

LEMMA StartRows ==
  ASSUME Good, RowsRight, NEW source,
         StartScan(source) \/ \E from \in Froms : ScanFrom(source, from)
  PROVE  RowsRight'
<1> SUFFICES ASSUME unseen' = {} PROVE RowsRight'
  BY DEF RowsRight
<1>1. UNCHANGED <<network, watermark, others>> /\ unseen = {}
  BY StartHasNoBlock
<1>2. watermark = NoWatermark => ~Moved
  BY DEF Moved
<1>3. CASE Rewind(source)
  <2>1. ASSUME NEW p \in DOMAIN outputs' PROVE Right(p)'
    <3>1. p \in DOMAIN outputs /\ outputs'[p] = outputs[p]
          /\ ~(outputs[p] >= RewindTo /\ outputs[p] # UNCONFIRMED)
      BY <1>3, <2>1 DEF Rewind, ForgetFrom, Without
    <3> QED BY <3>1, <1>1 DEF RowsRight, Rows, WillDrop, Right, At, network
  <2>2. strayed'
    BY <1>3 DEF Rewind, Written, Astray
  <2> QED BY <2>1, <2>2 DEF RowsRight, Rows
<1>4. CASE ~Rewind(source)
  <2>1. outputs' = outputs /\ strayed' = strayed
    BY <1>4, StartHasNoBlock
  <2>2. ~Moved
    <3>1. CASE ScanFirst(source)
      BY <3>1, <1>2 DEF ScanFirst
    <3>2. CASE ScanOn(source)
      BY <3>2, <1>1, Noted DEF ScanOn, Unaware, Reason
    <3>3. ASSUME NEW from \in Froms, ScanFrom(source, from) PROVE ~Moved
      BY <3>3, <1>1, Noted DEF ScanFrom, Unaware, Reason
    <3> QED BY <3>1, <3>2, <3>3, <1>4 DEF StartScan
  <2>3. \A p \in DOMAIN outputs' : Right(p)'
    BY <2>1, <2>2, <1>1 DEF RowsRight, Rows, WillDrop, Right, At, network
  <2>4. ~strayed' => \A c \in Branches' : Vouches(c)' => RightOn(c)'
    BY <2>1, <1>1 DEF RowsRight, Vouches, RightOn, Branches, network
  <2> QED BY <2>3, <2>4 DEF RowsRight, Rows
<1> QED BY <1>3, <1>4

(* Rows a step of a scan writes are of the block it searches.              *)
LEMMA StepRows ==
  ASSUME Good, OnChain, RowsRight, Step \/ StopScan
  PROVE  RowsRight'
<1> SUFFICES ASSUME unseen' = {} PROVE RowsRight'
  BY DEF RowsRight
<1>1. UNCHANGED network /\ chain' = chain /\ unseen = {} /\ Scanning
  BY StepBlock DEF network
<1>2. \A q \in DOMAIN outputs : Right(q)
  BY <1>1, WhileScanning
<1>3. /\ watermark'.height \in Heights /\ \A p \in DOMAIN outputs' : outputs'[p] \in Heights
  <2>1. Good'
    BY StepKeeps
  <2> QED BY <2>1, <1>1 DEF Good, TablesGood, Heights
<1>4. ASSUME StoreBlock, NEW p \in DOMAIN outputs' PROVE Right(p)'
  <2>1. HasBlock /\ scan.doing = "store"
    BY <1>4 DEF StoreBlock, HasBlock
  <2>2. scan.block = At(scan.at) /\ scan.found \subseteq scan.block.pays
    BY <2>1, <1>1 DEF OnChain, Good, ScanGood
  <2>3. outputs'[p] = IF p \in scan.found THEN scan.at ELSE outputs[p]
    BY <1>4 DEF StoreBlock, PutFound
  <2>4. p \in scan.found \/ p \in DOMAIN outputs
    BY <1>4 DEF StoreBlock, PutFound
  <2> QED BY <2>2, <2>3, <2>4, <1>1, <1>2 DEF Right, At
<1>5. ASSUME NEW q \in Payments, StoreConfirmed(q), NEW p \in DOMAIN outputs' PROVE Right(p)'
  <2>1. HasBlock /\ scan.doing = "store"
    BY <1>5 DEF StoreConfirmed, HasBlock
  <2>2. scan.block = At(scan.at) /\ q \in scan.block.pays
    BY <2>1, <1>1, <1>5 DEF OnChain, Good, ScanGood, StoreConfirmed
  <2>3. outputs'[p] = IF p \in {q} THEN scan.at ELSE outputs[p]
    BY <1>5 DEF StoreConfirmed, PutFound
  <2>4. p = q \/ p \in DOMAIN outputs
    BY <1>5 DEF StoreConfirmed, PutFound
  <2> QED BY <2>2, <2>3, <2>4, <1>1, <1>2 DEF Right, At
<1>6. CASE StoreBlock \/ \E q \in Payments : StoreConfirmed(q)
  <2>1. Written /\ UNCHANGED <<network, watermark>>
    BY <1>6 DEF StoreBlock, StoreConfirmed
  <2>2. Rows'
    BY <1>4, <1>5, <1>6 DEF Rows
  <2> QED BY <2>1, <2>2, <1>1, <1>3, WritesTell, WrittenRows
<1>7. CASE SetWatermark
  <2>1. outputs' = outputs /\ strayed' = Astray'
    BY <1>7 DEF SetWatermark
  <2>2. Rows'
    BY <2>1, <1>1, <1>2 DEF Rows, Right, At
  <2>3. ~strayed' => ~Moved'
    BY <2>1 DEF Astray
  <2> QED BY <2>2, <2>3, <1>1, <1>3, WrittenRows
<1>8. CASE UNCHANGED <<store, history>>
  <2>1. Rows'
    BY <1>8, <1>1, <1>2 DEF Rows, Right, At, store
  <2> QED BY <1>8, <2>1, <1>1 DEF RowsRight, Vouches, RightOn, Branches, network, store, history
<1>9. \/ UNCHANGED <<store, history>> \/ StoreBlock \/ SetWatermark \/ \E q \in Payments : StoreConfirmed(q)
  BY DEF Step, BlockHash, SearchBlock, BlockMissing, Stream, HashLast, NotConfirmed, StopScan
<1> QED BY <1>6, <1>7, <1>8, <1>9

(* sp-scan --tx writes the height the payment has, or it is noted.         *)
LEMMA OtherRows ==
  ASSUME Good, Other
  PROVE  /\ UNCHANGED <<network, scan, watermark, searched>> /\ unseen \subseteq unseen'
         /\ UNCHANGED <<outputs, strayed>> \/ Written
         /\ "look" \in unseen' \/ \A p \in DOMAIN outputs' :
              (p \in DOMAIN outputs /\ outputs'[p] = outputs[p]) \/ outputs'[p] = HeightOf(p)
         /\ "forget" \in unseen' \/ \A p \in DOMAIN outputs :
              p \in Mined(chain) => p \in DOMAIN outputs'
<1>1. \A p \in Payments : Missing(p) => UNCHANGED <<outputs, strayed>>
  BY DEF Missing, store, history
<1>2. \A p \in Payments : \A height \in 0..Top(chain) : LookUp(p, height) => UNCHANGED <<outputs, strayed>>
  BY DEF LookUp, store, history
<1>3. ASSUME StoreLook
      PROVE  /\ "look" \in unseen' \/ \A p \in DOMAIN outputs' :
                  (p \in DOMAIN outputs /\ outputs'[p] = outputs[p]) \/ outputs'[p] = HeightOf(p)
             /\ DOMAIN outputs \subseteq DOMAIN outputs' /\ Written
  <2>1. /\ DOMAIN outputs' = DOMAIN outputs \cup {look[1].pay}
        /\ \A p \in DOMAIN outputs' : outputs'[p] = IF p \in {look[1].pay} THEN look[1].height ELSE outputs[p]
    BY <1>3 DEF StoreLook, PutFound
  <2>2. "look" \in unseen' \/ look[1].height = HeightOf(look[1].pay)
    BY <1>3, Noted DEF StoreLook, Reason
  <2>3. Written
    BY <1>3 DEF StoreLook
  <2> QED BY <2>1, <2>2, <2>3
<1>4. ASSUME Forget
      PROVE  /\ \A p \in DOMAIN outputs' : p \in DOMAIN outputs /\ outputs'[p] = outputs[p]
             /\ "forget" \in unseen' \/ \A p \in DOMAIN outputs :
                  p \in Mined(chain) => p \in DOMAIN outputs'
             /\ Written
  <2>1. /\ DOMAIN outputs' = DOMAIN outputs \ balance
        /\ \A p \in DOMAIN outputs' : outputs'[p] = outputs[p]
    BY <1>4 DEF Forget, Without
  <2>2. "forget" \in unseen' \/ balance \cap Mined(chain) = {}
    BY <1>4, Noted DEF Forget, Reason
  <2>3. Written
    BY <1>4 DEF Forget
  <2> QED BY <2>1, <2>2, <2>3
<1> QED BY <1>1, <1>2, <1>3, <1>4, OtherLeaves DEF Other

LEMMA NextRows == Good /\ OnChain /\ RowsRight /\ [Next]_vars => RowsRight'
<1> SUFFICES ASSUME Good, OnChain, RowsRight, [Next]_vars PROVE RowsRight'
  OBVIOUS
<1>1. CASE Turns
  BY <1>1, TurnsRows
<1>2. CASE \E source \in {"BlindBit", "Electrum"} :
             StartScan(source) \/ \E from \in Froms : ScanFrom(source, from)
  BY <1>2, StartRows
<1>3. CASE Step \/ StopScan
  BY <1>3, StepRows
<1>4. CASE Other
  <2> SUFFICES ASSUME unseen' = {} PROVE RowsRight'
    BY DEF RowsRight
  <2>1. UNCHANGED <<network, scan, watermark>> /\ unseen = {}
    BY <1>4, OtherRows
  <2>2. Rows'
    <3> SUFFICES ASSUME NEW p \in DOMAIN outputs' PROVE Right(p)' \/ WillDrop(p)'
      BY DEF Rows
    <3>1. CASE p \in DOMAIN outputs /\ outputs'[p] = outputs[p]
      BY <2>1, <3>1 DEF RowsRight, Rows, Right, WillDrop, At, Moved, Agrees, Scanning, RewindTo, network
    <3>2. CASE outputs'[p] = HeightOf(p)
      <4>1. HeightOf(p) # 0 => p \in At(HeightOf(p)).pays
        BY HeightTells DEF Good
      <4> QED BY <4>1, <2>1, <3>2 DEF Right, At, network, UNCONFIRMED
    <3> QED BY <3>1, <3>2, <1>4, <2>1, OtherRows
  <2>3. CASE UNCHANGED <<outputs, strayed>>
    BY <2>1, <2>2, <2>3 DEF RowsRight, Vouches, RightOn, Branches, network
  <2>4. CASE Written
    <3>1. watermark'.height \in Heights /\ \A p \in DOMAIN outputs' : outputs'[p] \in Heights
      <4>1. Good'
        BY <1>4, OtherKeeps
      <4> QED BY <4>1, <2>1 DEF Good, TablesGood, Heights, network
    <3> QED BY <3>1, <2>1, <2>2, <2>4, WritesTell, WrittenRows
  <2> QED BY <2>3, <2>4, <1>4, OtherRows
<1>5. CASE Index \/ UNCHANGED vars
  <2>1. UNCHANGED <<chain, left, store, scan, history, unseen>>
    BY <1>5 DEF Index, vars, network
  <2> QED BY <2>1 DEF RowsRight, Rows, Right, WillDrop, At, store, history, Moved, Agrees,
                      Scanning, RewindTo,
                      Vouches, RightOn, Branches
<1> QED BY <1>1, <1>2, <1>3, <1>4, <1>5 DEF Next, Network, Turns, Other

LEMMA AlwaysRight == Spec => [](Good /\ OnChain /\ HashRight /\ RowsRight)
<1>1. Init => OnChain /\ HashRight /\ RowsRight
  <2>1. DOMAIN << >> = {}
    OBVIOUS
  <2> QED BY <2>1 DEF Init, OnChain, HashRight, HasHash, RowsRight, Rows, RightOn, HasBlock, NoScan
<1> QED BY <1>1, InitGood, NextKeeps, NextOnChain, NextRows, PTL DEF Spec

(* A row of a searched height is of the block the chain has there, when    *)
(* none of the reasons SpScan names happened: what resume_from drops is    *)
(* all that can be left over, and it is dropped before the watermark       *)
(* agrees with the chain again.                                            *)
THEOREM NoRowIsLeftOver == Spec => []NothingStale
<1>1. Good /\ RowsRight => NothingStale
  BY DEF RowsRight, Rows, Right, WillDrop, NothingStale, Settled, Moved, At
<1> QED BY <1>1, AlwaysRight, PTL

-----------------------------------------------------------------------------
(* The watermark answers for the blocks below it.                          *)

Blind == {"during", "deep", "from", "unanswered", "above", "branch"}

(* What was searched is still there: on a branch that has the block the    *)
(* watermark names, below where a scan is, and below what a reorganisation *)
(* that is seen can reach.                                                 *)
Tells ==
  unseen \cap Blind = {} =>
    /\ \A c \in Branches : Vouches(c) => \A h \in DOMAIN searched : BlockAt(c, h).hash = searched[h]
    /\ Scanning => \A h \in DOMAIN searched : h < scan.at => Kept(h)
    /\ watermark.hash \in Nat =>
         \A h \in DOMAIN searched : h < watermark.height - MaxReorgDepth => Kept(h)

LEMMA SearchedHeights ==
  ASSUME Good
  PROVE  /\ watermark.height \in Nat /\ MaxReorgDepth \in Nat /\ scan.at \in Nat
         /\ \A h \in DOMAIN searched : h \in Heights /\ h \in Nat /\ h <= watermark.height
         /\ \A h \in DOMAIN searched : searched[h] \in Nat /\ searched[h] <= blocks
         /\ DOMAIN searched # {} => watermark.hash \in Nat
<1>1. watermark.height \in Heights /\ Top(chain) \in Nat /\ watermark.height \in Nat
      /\ watermark.height <= Top(chain)
  BY ScanIsOnChain DEF Good, TablesGood, Heights
<1>2. DOMAIN searched \subseteq 0..watermark.height
  BY DEF Good, SearchedGood
<1>3. \A h \in DOMAIN searched : h \in Heights /\ h \in Nat /\ h <= watermark.height
  BY <1>1, <1>2 DEF Heights
<1> QED BY <1>1, <1>3, ScanAssumption DEF Good, SearchedGood, ScanGood, Scan

LEMMA AllKept ==
  ASSUME Good, Tells, unseen \cap Blind = {}, Agrees
  PROVE  \A h \in DOMAIN searched : Kept(h)
BY WatermarkIs DEF Tells, Kept, Branches

LEMMA TurnsTells ==
  ASSUME Good, Tells, Turns
  PROVE  Tells'
<1> SUFFICES ASSUME unseen' \cap Blind = {} PROVE Tells'
  BY DEF Tells
<1>1. /\ unseen \cap Blind = {} /\ watermark' = watermark /\ scan' = scan /\ searched' = searched
      /\ Noticed /\ "during" \notin unseen' /\ "deep" \notin unseen'
      /\ \A h \in Heights : h \notin Gone => \A i \in 0..h : BlockAt(chain', i) = At(i)
      /\ \A h \in Heights : h \notin Gone => BlockAt(chain', h) = At(h)
  BY TurnsLeave DEF store, history, Blind
<1>2. /\ watermark.height \in Nat /\ MaxReorgDepth \in Nat /\ scan.at \in Nat
      /\ \A h \in DOMAIN searched : h \in Heights /\ h \in Nat /\ h <= watermark.height
      /\ Scanning => scan.at \in Heights
  BY SearchedHeights, ScanIsOnChain
<1>3. ASSUME NEW c \in Branches', Vouches(c)', NEW h \in DOMAIN searched
      PROVE  BlockAt(c, h).hash = searched[h]
  <2>1. PICK d \in Branches : Vouches(d) /\ \A i \in 0..watermark.height : BlockAt(c, i) = BlockAt(d, i)
    BY <1>3, TurnsWatermark
  <2>2. h \in 0..watermark.height
    BY <1>2
  <2> QED BY <2>1, <2>2, <1>1 DEF Tells
<1>4. ASSUME Scanning, NEW h \in DOMAIN searched, h < scan.at PROVE Kept(h)'
  <2>1. scan.at \notin Gone /\ h \in 0..scan.at
    BY <1>1, <1>2, <1>4 DEF Noticed
  <2>2. BlockAt(chain', h) = At(h)
    BY <2>1, <1>1, <1>2, <1>4
  <2> QED BY <2>2, <1>1, <1>4 DEF Tells, Kept, At
<1>5. ASSUME watermark.hash \in Nat, NEW h \in DOMAIN searched, h < watermark.height - MaxReorgDepth
      PROVE  Kept(h)'
  <2>1. BlockAt(chain', h) = At(h)
    BY <1>1, <1>2, <1>5 DEF Noticed
  <2> QED BY <2>1, <1>1, <1>5 DEF Tells, Kept, At
<1> QED BY <1>1, <1>3, <1>4, <1>5 DEF Tells, Scanning

LEMMA BeginAt == \A source, start : Begin(source, start) /\ Scanning' => scan'.at = start
BY DEF Begin, NoScan, Scanning

LEMMA StartTells ==
  ASSUME Good, Tells, NEW source,
         StartScan(source) \/ \E from \in Froms : ScanFrom(source, from)
  PROVE  Tells'
<1> SUFFICES ASSUME unseen' \cap Blind = {} PROVE Tells'
  BY DEF Tells
<1>1. UNCHANGED <<network, watermark, searched>> /\ chain' = chain /\ Branches' = Branches
      /\ unseen \cap Blind = {}
  BY StartHasNoBlock DEF network, Branches
<1>2. /\ watermark.height \in Nat /\ MaxReorgDepth \in Nat
      /\ \A h \in DOMAIN searched : h \in Nat /\ h <= watermark.height
  BY SearchedHeights
<1>3. ASSUME Scanning', NEW h \in DOMAIN searched, h < scan'.at PROVE Kept(h)
  <2>1. CASE Rewind(source)
    <3>1. scan'.at = RewindTo
      BY <2>1, <1>3, BeginAt DEF Rewind
    <3>2. h < watermark.height - MaxReorgDepth
      BY <3>1, <1>2, <1>3 DEF RewindTo
    <3>3. watermark.hash \in Nat
      BY <1>3, SearchedHeights
    <3> QED BY <3>2, <3>3, <1>1, <1>3 DEF Tells
  <2>2. CASE ~Rewind(source)
    <3>1. ~Moved \/ watermark = NoWatermark
      <4>1. CASE ScanFirst(source)
        BY <4>1 DEF ScanFirst
      <4>2. CASE ScanOn(source)
        BY <4>2, Noted DEF ScanOn, Unaware, Reason, Blind
      <4>3. ASSUME NEW from \in Froms, ScanFrom(source, from) PROVE ~Moved
        BY <4>3, Noted DEF ScanFrom, Unaware, Reason, Blind
      <4> QED BY <4>1, <4>2, <4>3, <2>2 DEF StartScan
    <3>2. watermark.hash \in Nat
      BY <1>3, SearchedHeights
    <3>3. Agrees
      BY <3>1, <3>2, WatermarkIs DEF Moved
    <3> QED BY <3>3, <1>1, <1>3, AllKept
  <2> QED BY <2>1, <2>2
<1> QED BY <1>1, <1>3 DEF Tells, Kept, Vouches

(* Only set_watermark moves a scan to another height.                      *)
LEMMA StepStays ==
  ASSUME Good, Step \/ StopScan
  PROVE  \/ SetWatermark
         \/ UNCHANGED <<watermark, searched>> /\ (Scanning' => scan'.at = scan.at)
<1> SUFFICES ASSUME ~SetWatermark
             PROVE  UNCHANGED <<watermark, searched>> /\ (Scanning' => scan'.at = scan.at)
  OBVIOUS
<1>1. UNCHANGED <<watermark, searched>>
  BY DEF Step, BlockHash, SearchBlock, BlockMissing, Stream, HashLast, NotConfirmed, StoreBlock,
         StoreConfirmed, StopScan, store, history
<1>2. scan \in Scan
  BY DEF Good, ScanGood
<1>3. BlockHash \/ SearchBlock \/ StoreBlock \/ Stream \/ HashLast => scan'.at = scan.at
  BY <1>2 DEF BlockHash, SearchBlock, StoreBlock, Stream, HashLast, Scan
<1>4. \A p \in Payments : StoreConfirmed(p) => scan'.at = scan.at
  BY <1>2 DEF StoreConfirmed, Scan
<1>5. BlockMissing \/ StopScan \/ (\E p \in Payments : NotConfirmed(p)) => ~Scanning'
  BY DEF BlockMissing, StopScan, NotConfirmed, NoScan, Scanning
<1> QED BY <1>1, <1>3, <1>4, <1>5 DEF Step

LEMMA StepTells ==
  ASSUME Good, OnChain, HashRight, Tells, Step \/ StopScan
  PROVE  Tells'
<1> SUFFICES ASSUME unseen' \cap Blind = {} PROVE Tells'
  BY DEF Tells
<1>1. chain' = chain /\ Branches' = Branches /\ Scanning /\ unseen \cap Blind = {}
  BY StepBlock DEF network, Branches
<1>2. CASE SetWatermark
  <2>1. /\ DOMAIN searched' = {k \in DOMAIN searched : k < scan.at} \cup {scan.at}
        /\ \A h \in DOMAIN searched' : searched'[h] = IF h = scan.at THEN scan.block.hash ELSE searched[h]
        /\ watermark' = [height |-> scan.at, hash |-> scan.hash]
    BY <1>2 DEF SetWatermark
  <2>2. scan.block = At(scan.at) /\ scan.hash = At(scan.at).hash
    BY <1>1, <1>2 DEF OnChain, HasBlock, HashRight, HasHash, SetWatermark, Blind
  <2>3. \A h \in DOMAIN searched' : Kept(h)'
    BY <2>1, <2>2, <1>1 DEF Tells, Kept, At
  <2>4. \A h \in DOMAIN searched' : h \in 0..scan.at /\ searched'[h] = At(h).hash
    <3>1. \A h \in DOMAIN searched' : h \in 0..scan.at
      BY <2>1, SearchedHeights
    <3> QED BY <3>1, <2>3, <1>1 DEF Kept, At
  <2>5. ASSUME NEW c \in Branches, Vouches(c)', NEW h \in DOMAIN searched'
        PROVE  BlockAt(c, h).hash = searched'[h]
    <3>1. scan.at <= Top(c) /\ BlockAt(c, scan.at).hash = BlockAt(chain, scan.at).hash
      BY <2>1, <2>2, <2>5 DEF Vouches, At
    <3>2. Joined(chain, c) /\ scan.at \in 0..Top(chain)
      BY <1>1, ScanIsOnChain DEF Good, LeftGood, Branches, Heights
    <3>3. BlockAt(chain, h) = BlockAt(c, h)
      BY <3>1, <3>2, <2>4, <2>5 DEF Joined
    <3> QED BY <3>3, <2>4, <2>5 DEF At
  <2> QED BY <2>3, <2>5, <1>1 DEF Tells
<1>3. CASE ~SetWatermark
  BY <1>1, <1>3, StepStays DEF Tells, Kept, Vouches
<1> QED BY <1>2, <1>3

LEMMA NextTells == Good /\ OnChain /\ HashRight /\ Tells /\ [Next]_vars => Tells'
<1> SUFFICES ASSUME Good, OnChain, HashRight, Tells, [Next]_vars PROVE Tells'
  OBVIOUS
<1>1. CASE Turns
  BY <1>1, TurnsTells
<1>2. CASE \E source \in {"BlindBit", "Electrum"} :
             StartScan(source) \/ \E from \in Froms : ScanFrom(source, from)
  BY <1>2, StartTells
<1>3. CASE Step \/ StopScan
  BY <1>3, StepTells
<1>4. CASE Other
  BY <1>4, OtherLeaves DEF Tells, Kept, Vouches, Branches, Scanning, network
<1>5. CASE Index \/ UNCHANGED vars
  <2>1. UNCHANGED <<chain, left, watermark, scan, searched, unseen>>
    BY <1>5 DEF Index, vars, network, store, history
  <2> QED BY <2>1 DEF Tells, Kept, Vouches, Branches, Scanning
<1> QED BY <1>1, <1>2, <1>3, <1>4, <1>5 DEF Next, Network, Turns, Other

LEMMA AlwaysTells == Spec => [](Good /\ OnChain /\ HashRight /\ Tells)
<1>1. Init => OnChain /\ HashRight /\ Tells
  <2>1. DOMAIN << >> = {}
    OBVIOUS
  <2> QED BY <2>1 DEF Init, OnChain, HashRight, HasHash, Tells, HasBlock, NoScan
<1> QED BY <1>1, InitGood, NextKeeps, NextOnChain, NextTells, PTL DEF Spec

(* While the chain has the block the watermark names, every block searched *)
(* below it is still there, for the reasons WatermarkTells excepts: what   *)
(* set_watermark records the hash for, how far resume_from goes back when  *)
(* the hash is another one, and why it may go on when a branch that was    *)
(* left is back with the hash it had.                                      *)
THEOREM WatermarkAnswers == Spec => []WatermarkTells
<1>1. Good /\ Tells => WatermarkTells
  <2> SUFFICES ASSUME Good, Tells, unseen \cap Blind = {}, watermark # NoWatermark, Agrees,
                      NEW h \in DOMAIN searched, h <= watermark.height
               PROVE  Settled(h)
    BY DEF WatermarkTells, Blind
  <2> QED BY AllKept DEF Settled
<1> QED BY <1>1, AlwaysTells, PTL

-----------------------------------------------------------------------------
(* No height is skipped.                                                   *)

(* The heights searched reach up to the watermark without a gap, and a     *)
(* scan goes on there or below.                                            *)
Unbroken ==
  "gap" \notin unseen =>
    /\ \A first \in DOMAIN searched : \A h \in first..watermark.height : h \in DOMAIN searched
    /\ Scanning /\ DOMAIN searched # {} => scan.at <= watermark.height + 1

LEMMA StartUnbroken ==
  ASSUME Good, Unbroken, NEW source,
         StartScan(source) \/ \E from \in Froms : ScanFrom(source, from)
  PROVE  Unbroken'
<1> SUFFICES ASSUME "gap" \notin unseen' PROVE Unbroken'
  BY DEF Unbroken
<1>1. UNCHANGED <<watermark, searched>> /\ "gap" \notin unseen /\ watermark.height \in Nat
  BY StartHasNoBlock, StartsAt
<1>2. ASSUME Scanning', DOMAIN searched # {} PROVE scan'.at <= watermark.height + 1
  <2>1. CASE ScanFirst(source)
    <3>1. watermark.hash \in Nat /\ watermark = NoWatermark
      BY <2>1, <1>2, SearchedHeights DEF ScanFirst
    <3> QED BY <3>1 DEF NoWatermark
  <2>2. CASE ScanOn(source)
    BY <2>2, <1>1, <1>2, BeginAt DEF ScanOn
  <2>3. CASE Rewind(source)
    <3>1. scan'.at = RewindTo
      BY <2>3, <1>2, BeginAt DEF Rewind
    <3> QED BY <3>1, StartsAt
  <2>4. ASSUME NEW from \in Froms, ScanFrom(source, from) PROVE scan'.at <= watermark.height + 1
    <3>1. scan'.at = from /\ from \in Nat
      BY <2>4, <1>2, BeginAt, ScanAssumption DEF ScanFrom
    <3>2. ~(from > watermark.height + 1)
      BY <2>4, <1>2, Noted DEF ScanFrom, Reason
    <3> QED BY <3>1, <3>2, <1>1
  <2> QED BY <2>1, <2>2, <2>3, <2>4 DEF StartScan
<1> QED BY <1>1, <1>2 DEF Unbroken

LEMMA StepUnbroken ==
  ASSUME Good, Unbroken, Step \/ StopScan
  PROVE  Unbroken'
<1> SUFFICES ASSUME "gap" \notin unseen' PROVE Unbroken'
  BY DEF Unbroken
<1>1. "gap" \notin unseen /\ Scanning /\ scan.at \in Nat /\ watermark.height \in Nat
  BY StepBlock, SearchedHeights
<1>2. CASE SetWatermark
  <2>1. /\ DOMAIN searched' = {k \in DOMAIN searched : k < scan.at} \cup {scan.at}
        /\ watermark'.height = scan.at
    BY <1>2 DEF SetWatermark
  <2>2. ASSUME NEW first \in DOMAIN searched', NEW h \in first..scan.at PROVE h \in DOMAIN searched'
    <3>1. CASE h = scan.at
      BY <3>1, <2>1
    <3>2. CASE h # scan.at
      <4>1. first \in Nat
        BY <2>1, <1>1, SearchedHeights
      <4>2. h < scan.at /\ first # scan.at /\ first <= h /\ h \in Nat
        BY <3>2, <4>1, <1>1
      <4>3. first \in DOMAIN searched /\ scan.at <= watermark.height + 1
        BY <4>2, <2>1, <1>1 DEF Unbroken
      <4>4. h \in first..watermark.height
        BY <4>1, <4>2, <4>3, <1>1
      <4> QED BY <4>2, <4>3, <4>4, <2>1, <1>1 DEF Unbroken
    <3> QED BY <3>1, <3>2
  <2>3. Scanning' => scan'.at <= scan.at + 1
    BY <1>1, <1>2 DEF SetWatermark, NextHeight, NoScan, Scanning
  <2> QED BY <2>1, <2>2, <2>3 DEF Unbroken
<1>3. CASE ~SetWatermark
  BY <1>1, <1>3, StepStays DEF Unbroken
<1> QED BY <1>2, <1>3

LEMMA NextUnbroken == Good /\ Unbroken /\ [Next]_vars => Unbroken'
<1> SUFFICES ASSUME Good, Unbroken, [Next]_vars PROVE Unbroken'
  OBVIOUS
<1>1. CASE Turns
  <2>1. unseen \subseteq unseen' /\ UNCHANGED <<store, scan, history>>
    BY <1>1, TurnsLeave
  <2> QED BY <2>1 DEF Unbroken, Scanning, store, history
<1>2. CASE \E source \in {"BlindBit", "Electrum"} :
             StartScan(source) \/ \E from \in Froms : ScanFrom(source, from)
  BY <1>2, StartUnbroken
<1>3. CASE Step \/ StopScan
  BY <1>3, StepUnbroken
<1>4. CASE Other
  BY <1>4, OtherLeaves DEF Unbroken, Scanning
<1>5. CASE Index \/ UNCHANGED vars
  BY <1>5 DEF Index, vars, store, history, Unbroken, Scanning
<1> QED BY <1>1, <1>2, <1>3, <1>4, <1>5 DEF Next, Network, Turns, Other

-----------------------------------------------------------------------------
(* What a searched block pays is stored.                                   *)

(* The payments of the block at h are in the table.                        *)
Full(h) == \A p \in At(h).pays : Stored(p, h)

Misled == {"branch", "look", "forget", "back", "above"}

(* A block the watermark answers for, a rewind keeps or a scan has passed. *)
Answered(h) == Agrees \/ h < RewindTo \/ (Scanning /\ h < scan.at)

SearchedFull == \A h \in DOMAIN searched : Kept(h) /\ Answered(h) => Full(h)

(* What was searched is in the table also for a branch that was left, as   *)
(* long as nothing was written while the chain was elsewhere.              *)
OnAnyBranch ==
  ~strayed => \A c \in Branches : \A h \in DOMAIN searched :
    h <= Top(c) /\ BlockAt(c, h).hash = searched[h] => \A p \in BlockAt(c, h).pays : Stored(p, h)

(* A block that hash was read for shares no payment with one searched at   *)
(* another height.                                                         *)
Apart ==
  scan.doing \in {"search", "store"} /\ scan.source = "BlindBit" =>
    \A h \in DOMAIN searched :
      Kept(h) /\ At(h).pays \cap scan.block.pays # {} => h = scan.at

(* Of the block that is searched now all that is not found still is in the *)
(* table, if the chain has it.                                             *)
Sought ==
  /\ scan.doing = "store" /\ scan.block = At(scan.at) =>
       \A p \in scan.block.pays \ scan.found : Stored(p, scan.at)
  /\ scan.doing \in {"hash", "mark"} /\ scan.block = At(scan.at) => Full(scan.at)

StoredInv == unseen \cap Misled = {} => SearchedFull /\ OnAnyBranch /\ Apart /\ Sought

LEMMA TurnsStored ==
  ASSUME Good, StoredInv, Turns
  PROVE  StoredInv'
<1> SUFFICES ASSUME unseen' \cap Misled = {}
             PROVE  SearchedFull' /\ OnAnyBranch' /\ Apart' /\ Sought'
  BY DEF StoredInv
<1>1. /\ unseen \cap Misled = {} /\ outputs' = outputs /\ watermark' = watermark /\ scan' = scan
      /\ searched' = searched /\ strayed' = strayed /\ Noticed /\ Turned
      /\ \A h \in Heights : h \in Heights'
      /\ \A h \in Heights : h \notin Gone => BlockAt(chain', h) = At(h)
      /\ ~ComesBack => \A h \in Gone : ~(BlockAt(chain', h).hash <= blocks)
  BY TurnsLeave DEF store, history
<1>2. /\ \A h \in DOMAIN searched : h \in Heights /\ h \in Nat /\ searched[h] <= blocks
      /\ watermark.height \in Heights
  BY SearchedHeights, WatermarkIs
<1>3. OnAnyBranch'
  <2> SUFFICES ASSUME ~strayed, NEW c \in Branches', NEW h \in DOMAIN searched,
                      h <= Top(c), BlockAt(c, h).hash = searched[h], NEW p \in BlockAt(c, h).pays
               PROVE  Stored(p, h)
    BY <1>1 DEF OnAnyBranch, Stored
  <2>1. c \in Branches \/ c = chain'
    BY <1>1 DEF Turned
  <2>2. CASE c \in Branches
    BY <2>2, <1>1 DEF StoredInv, OnAnyBranch
  <2>3. CASE c = chain'
    <3>1. h \in 0..Top(chain') /\ h \in 0..h
      BY <1>1, <1>2 DEF Heights
    <3>2. PICK d \in Branches : h <= Top(d) /\ \A i \in 0..h : BlockAt(chain', i) = BlockAt(d, i)
      BY <3>1, <2>3, <1>1, <1>2 DEF Turned
    <3>3. BlockAt(c, h) = BlockAt(d, h)
      BY <3>1, <3>2, <2>3
    <3> QED BY <3>2, <3>3, <1>1 DEF StoredInv, OnAnyBranch
  <2> QED BY <2>1, <2>2, <2>3
<1>4. CASE ComesBack
  <2>1. ~Scanning /\ ~strayed
    BY <1>1, <1>4 DEF Noticed, Misled
  <2>2. SearchedFull'
    <3> SUFFICES ASSUME NEW h \in DOMAIN searched, Kept(h)' PROVE Full(h)'
      BY <1>1 DEF SearchedFull
    <3>1. chain' \in Branches' /\ h <= Top(chain') /\ BlockAt(chain', h).hash = searched'[h]
      BY <1>1, <1>2 DEF Branches, Kept, Heights
    <3> QED BY <3>1, <2>1, <1>1, <1>3 DEF OnAnyBranch, Full, At
  <2>3. Apart' /\ Sought'
    BY <2>1, <1>1 DEF Apart, Sought, Scanning
  <2> QED BY <1>3, <2>2, <2>3
<1>5. CASE ~ComesBack
  <2>1. ASSUME NEW h \in DOMAIN searched, Kept(h)' PROVE Kept(h) /\ BlockAt(chain', h) = At(h)
    <3>1. BlockAt(chain', h).hash <= blocks
      BY <2>1, <1>1, <1>2 DEF Kept
    <3>2. h \notin Gone
      BY <3>1, <1>1, <1>5
    <3> QED BY <3>2, <2>1, <1>1, <1>2 DEF Kept, At
  <2>2. Agrees' => Agrees
    BY <1>5, TurnsWatermark
  <2>3. SearchedFull'
    <3>1. \A h \in DOMAIN searched : Answered(h)' => Answered(h)
      BY <2>2, <1>1 DEF Answered, Scanning, RewindTo
    <3> QED BY <3>1, <2>1, <1>1 DEF StoredInv, SearchedFull, Full, Stored, At
  <2>4. Apart'
    BY <2>1, <1>1 DEF StoredInv, Apart, At
  <2>5. ASSUME HasBlock, scan.block = BlockAt(chain', scan.at) PROVE scan.block = At(scan.at)
    <3>1. Known(left, chain, blocks, scan.block, scan.at)
      BY <2>5 DEF Good, ScanGood
    <3>2. scan.at \in Heights /\ BlockAt(chain', scan.at).hash <= blocks
      BY <3>1, <2>5 DEF Known, Heights
    <3> QED BY <3>2, <2>5, <1>1, <1>5
  <2>6. Sought'
    BY <2>5, <1>1 DEF StoredInv, Sought, HasBlock, Full, Stored, At
  <2> QED BY <1>3, <2>3, <2>4, <2>6
<1> QED BY <1>4, <1>5

LEMMA StartStored ==
  ASSUME Good, StoredInv, NEW source,
         StartScan(source) \/ \E from \in Froms : ScanFrom(source, from)
  PROVE  StoredInv'
<1> SUFFICES ASSUME unseen' \cap Misled = {}
             PROVE  SearchedFull' /\ OnAnyBranch' /\ Apart' /\ Sought'
  BY DEF StoredInv
<1>1. /\ chain' = chain /\ Branches' = Branches /\ watermark' = watermark /\ searched' = searched
      /\ unseen \cap Misled = {} /\ scan'.doing \in {"nothing", "height"} /\ ~Scanning
  BY StartHasNoBlock DEF network, Branches
<1>2. Apart' /\ Sought'
  BY <1>1 DEF Apart, Sought
<1>3. /\ RewindTo' = RewindTo /\ (Agrees' <=> Agrees) /\ RewindTo \in Nat
      /\ \A h \in DOMAIN searched : h \in Nat /\ h \in Heights /\ watermark.hash \in Nat
  BY <1>1, StartsAt, SearchedHeights DEF RewindTo, Agrees
<1>4. CASE Rewind(source)
  <2>1. strayed' /\ ~Agrees
    BY <1>4 DEF Rewind, Written, Astray, Moved
  <2>2. /\ DOMAIN outputs' = {p \in DOMAIN outputs : ~(outputs[p] >= RewindTo /\ outputs[p] # UNCONFIRMED)}
        /\ \A p \in DOMAIN outputs' : outputs'[p] = outputs[p]
    BY <1>4 DEF Rewind, ForgetFrom, Without
  <2>3. Scanning' => scan'.at = RewindTo
    BY <1>4, BeginAt DEF Rewind
  <2>4. ASSUME NEW h \in DOMAIN searched, Kept(h)', Answered(h)', NEW p \in At(h).pays PROVE Stored(p, h)'
    <3>1. h < RewindTo /\ h \in Nat
      BY <2>1, <2>3, <2>4, <1>3 DEF Answered
    <3>2. Stored(p, h)
      BY <3>1, <2>4, <1>1 DEF StoredInv, SearchedFull, Answered, Full, Kept, At
    <3>3. p \in DOMAIN outputs /\ outputs[p] = h /\ ~(h >= RewindTo)
      BY <3>1, <3>2, <1>3 DEF Stored
    <3> QED BY <3>3, <2>2 DEF Stored
  <2>5. SearchedFull'
    BY <2>4, <1>1 DEF SearchedFull, Full, At
  <2> QED BY <2>1, <2>5, <1>2 DEF OnAnyBranch
<1>5. CASE ~Rewind(source)
  <2>1. outputs' = outputs /\ strayed' = strayed
    BY <1>5, StartHasNoBlock
  <2>2. OnAnyBranch'
    BY <2>1, <1>1 DEF StoredInv, OnAnyBranch, Stored
  <2>3. ~Moved \/ ~strayed \/ watermark = NoWatermark
    <3>1. CASE ScanFirst(source)
      BY <3>1 DEF ScanFirst
    <3>2. CASE ScanOn(source)
      BY <3>2, Noted DEF ScanOn, Unaware, Reason, Misled
    <3>3. ASSUME NEW from \in Froms, ScanFrom(source, from) PROVE ~Moved \/ ~strayed
      BY <3>3, Noted DEF ScanFrom, Unaware, Reason, Misled
    <3> QED BY <3>1, <3>2, <3>3, <1>5 DEF StartScan
  <2>4. ASSUME NEW h \in DOMAIN searched, Kept(h) PROVE Full(h)
    <3>1. Agrees \/ ~strayed
      BY <2>3, <2>4, <1>3, WatermarkIs DEF Moved
    <3>2. CASE Agrees
      BY <3>2, <2>4, <1>1 DEF StoredInv, SearchedFull, Answered
    <3>3. CASE ~strayed
      <4>1. chain \in Branches /\ h <= Top(chain) /\ BlockAt(chain, h).hash = searched[h]
        BY <2>4, <1>3 DEF Branches, Kept, Heights
      <4> QED BY <4>1, <3>3, <2>4, <1>1 DEF StoredInv, OnAnyBranch, Full, At
    <3> QED BY <3>1, <3>2, <3>3
  <2>5. SearchedFull'
    BY <2>1, <2>4, <1>1 DEF SearchedFull, Full, Kept, Stored, At
  <2> QED BY <2>2, <2>5, <1>2
<1> QED BY <1>4, <1>5

(* When the tables are written and the chain has every block that was      *)
(* searched, a branch that has one of them has the same block.             *)
LEMMA KeptNow ==
  ASSUME Good, UNCHANGED network, DOMAIN searched' \subseteq Heights,
         \A h \in DOMAIN searched' : Kept(h)' /\ Full(h)'
  PROVE  OnAnyBranch'
<1> SUFFICES ASSUME NEW c \in Branches, NEW h \in DOMAIN searched', h <= Top(c),
                    BlockAt(c, h).hash = searched'[h], NEW p \in BlockAt(c, h).pays
             PROVE  Stored(p, h)'
  <2>1. Branches' = Branches
    BY DEF Branches, network
  <2> QED BY <2>1 DEF OnAnyBranch
<1>1. searched'[h] = BlockAt(chain, h).hash
  BY DEF Kept, network
<1>2. Joined(chain, c) /\ h \in 0..Top(chain) /\ h \in 0..h
  BY DEF Good, LeftGood, Branches, Heights
<1>3. BlockAt(chain, h) = BlockAt(c, h)
  BY <1>1, <1>2 DEF Joined
<1> QED BY <1>3 DEF Full, At, network

(* A write that leaves what is in the table where it is.                   *)
LEMMA WrittenStored ==
  ASSUME Good, SearchedFull, OnAnyBranch, UNCHANGED <<network, watermark, searched>>,
         UNCHANGED <<outputs, strayed>> \/ Written,
         Scanning' => Scanning /\ scan'.at = scan.at,
         \A h \in DOMAIN searched : Kept(h) /\ Full(h) => Full(h)'
  PROVE  SearchedFull' /\ OnAnyBranch'
<1>1. chain' = chain /\ Branches' = Branches /\ \A h \in DOMAIN searched : h \in Heights
  BY SearchedHeights DEF network, Branches
<1>2. \A h \in DOMAIN searched : Kept(h)' <=> Kept(h)
  BY <1>1 DEF Kept
<1>3. \A h : Answered(h)' => Answered(h)
  BY <1>1 DEF Answered, Agrees, RewindTo
<1>4. SearchedFull'
  BY <1>2, <1>3 DEF SearchedFull
<1>5. CASE UNCHANGED <<outputs, strayed>>
  BY <1>1, <1>4, <1>5 DEF OnAnyBranch, Stored
<1>6. CASE Written
  <2> SUFFICES ASSUME ~strayed' PROVE OnAnyBranch'
    BY <1>4 DEF OnAnyBranch
  <2>1. ~strayed /\ \A h \in DOMAIN searched : Kept(h)
    BY <1>6 DEF Written, Astray
  <2>2. \A h \in DOMAIN searched : Full(h)
    <3> TAKE h \in DOMAIN searched
    <3>1. chain \in Branches /\ h <= Top(chain) /\ BlockAt(chain, h).hash = searched[h]
      BY <2>1, <1>1 DEF Branches, Kept, Heights
    <3> QED BY <3>1, <2>1 DEF OnAnyBranch, Full, At
  <2>3. \A h \in DOMAIN searched' : Kept(h)' /\ Full(h)'
    BY <2>1, <2>2, <1>2
  <2> QED BY <2>3, <1>1, KeptNow
<1> QED BY <1>4, <1>5, <1>6

(* An index that is on the chain has the payments of the block.            *)
LEMMA TweaksTell ==
  ASSUME Good, Scanning, ~OnBranch
  PROVE  Tweaks = At(scan.at).pays /\ BlockAt(indexed, scan.at) = At(scan.at)
BY ScanIsOnChain DEF Tweaks, OnBranch, At

LEMMA StepStored ==
  ASSUME Good, StoredInv, Step \/ StopScan
  PROVE  StoredInv'
<1> SUFFICES ASSUME unseen' \cap Misled = {}
             PROVE  SearchedFull' /\ OnAnyBranch' /\ Apart' /\ Sought'
  BY DEF StoredInv
<1>1. /\ UNCHANGED network /\ chain' = chain /\ unseen \cap Misled = {} /\ Scanning /\ scan \in Scan
      /\ scan.at \in Heights /\ "branch" \notin unseen'
      /\ SearchedFull /\ OnAnyBranch /\ Apart /\ Sought
  BY StepBlock, ScanIsOnChain DEF network, Misled, Good, ScanGood, StoredInv
<1>2. \A h \in DOMAIN searched : h \in Heights /\ h \in Nat
  BY SearchedHeights
<1>a. ASSUME UNCHANGED <<store, history>>, Scanning' => scan'.at = scan.at
      PROVE  SearchedFull' /\ OnAnyBranch'
  <2>1. \A h \in DOMAIN searched : Kept(h) /\ Full(h) => Full(h)'
    BY <1>a, <1>1 DEF Full, Stored, At, store
  <2> QED BY <1>a, <2>1, <1>1, WrittenStored DEF store, history
<1>3. CASE BlockHash
  <2>1. UNCHANGED <<store, history>> /\ scan'.doing = "search" /\ scan'.at = scan.at
        /\ scan'.block = At(scan.at)
    BY <1>3, <1>1 DEF BlockHash, Scan, At
  <2>2. \A h \in DOMAIN searched : At(h).pays \cap At(scan.at).pays # {} => h = scan.at
    BY <1>1, <1>2, ByHeight DEF Good
  <2>3. Apart'
    BY <2>1, <2>2, <1>1 DEF Apart, At, history
  <2>4. Sought'
    BY <2>1 DEF Sought
  <2> QED BY <1>a, <2>1, <2>3, <2>4
<1>4. CASE SearchBlock
  <2> DEFINE found == Tweaks \cap scan.block.pays
  <2>1. /\ UNCHANGED <<store, history>> /\ scan.doing = "search" /\ ~OnBranch
        /\ scan'.doing = IF found = {} THEN "mark" ELSE "store"
        /\ scan'.found = found /\ scan'.block = scan.block /\ scan'.at = scan.at /\ scan'.source = scan.source
    BY <1>4, <1>1, Noted DEF SearchBlock, Scan, Reason
  <2>2. scan.block = At(scan.at) => found = scan.block.pays
    BY <2>1, <1>1, TweaksTell
  <2> HIDE DEF found
  <2>3. Apart'
    BY <2>1, <1>1 DEF Apart, Kept, At, history
  <2>4. Sought'
    <3>1. CASE found = {}
      <4>1. scan'.doing = "mark"
        BY <2>1, <3>1
      <4>2. scan.block = At(scan.at) => Full(scan.at)'
        BY <3>1, <2>1, <2>2, <1>1 DEF Full, At
      <4> QED BY <4>1, <4>2, <2>1, <1>1 DEF Sought, At
    <3>2. CASE found # {}
      <4>1. scan'.doing = "store"
        BY <2>1, <3>2
      <4> QED BY <4>1, <2>1, <2>2, <1>1 DEF Sought, At
    <3> QED BY <3>1, <3>2
  <2> QED BY <1>a, <2>1, <2>3, <2>4
<1>5. CASE BlockMissing \/ StopScan \/ \E p \in Payments : NotConfirmed(p)
  <2>1. UNCHANGED <<store, history>> /\ scan'.doing = "nothing"
    BY <1>5 DEF BlockMissing, StopScan, NotConfirmed, NoScan
  <2> QED BY <2>1, <1>a DEF Apart, Sought, Scanning
<1>6. CASE StoreBlock
  <2>1. /\ scan.doing = "store" /\ scan.source = "BlindBit" /\ Written
        /\ UNCHANGED <<network, watermark, searched>>
        /\ scan'.doing = "mark" /\ scan'.block = scan.block /\ scan'.at = scan.at
        /\ DOMAIN outputs' = DOMAIN outputs \cup scan.found
        /\ \A p \in DOMAIN outputs' : outputs'[p] = IF p \in scan.found THEN scan.at ELSE outputs[p]
    BY <1>6, <1>1 DEF StoreBlock, PutFound, Scan
  <2>2. \A p \in scan.found : Stored(p, scan.at)' /\ p \in scan.block.pays
    BY <2>1 DEF Stored, Good, ScanGood
  <2>3. \A p, h : Stored(p, h) /\ p \notin scan.found => Stored(p, h)'
    BY <2>1 DEF Stored
  <2>4. ASSUME NEW h \in DOMAIN searched, Kept(h), Full(h) PROVE Full(h)'
    <3> SUFFICES ASSUME NEW p \in At(h).pays PROVE Stored(p, h)'
      BY <1>1 DEF Full, At
    <3>1. CASE p \in scan.found
      <4>1. At(h).pays \cap scan.block.pays # {}
        BY <2>2, <3>1
      <4>2. h = scan.at
        BY <4>1, <2>1, <2>4, <1>1 DEF Apart
      <4> QED BY <4>2, <3>1, <2>1, <2>2 DEF Stored
    <3>2. CASE p \notin scan.found
      BY <3>2, <2>3, <2>4 DEF Full
    <3> QED BY <3>1, <3>2
  <2>5. SearchedFull' /\ OnAnyBranch'
    BY <2>1, <2>4, <1>1, WrittenStored
  <2>6. scan.block = At(scan.at) => \A p \in At(scan.at).pays : Stored(p, scan.at)'
    BY <2>1, <2>2, <2>3, <1>1 DEF Sought
  <2>7. Sought'
    BY <2>1, <2>6, <1>1 DEF Sought, Full, Stored, At
  <2>8. Apart'
    BY <2>1 DEF Apart
  <2> QED BY <2>5, <2>7, <2>8
<1>7. CASE Stream
  <2>1. /\ UNCHANGED <<store, history>> /\ ~OnBranch
        /\ scan'.doing = IF Tweaks = {} THEN "hash" ELSE "store"
        /\ scan'.found = Tweaks /\ scan'.block = BlockAt(indexed, scan.at) /\ scan'.at = scan.at
        /\ scan'.source = "Electrum"
    BY <1>7, <1>1, Noted DEF Stream, Scan, Reason
  <2>2. Tweaks = At(scan.at).pays /\ BlockAt(indexed, scan.at) = At(scan.at)
    BY <2>1, <1>1, TweaksTell
  <2>3. scan'.doing = "hash" => \A p \in At(scan.at).pays : Stored(p, scan.at)'
    BY <2>1, <2>2
  <2>4. scan'.doing \in {"hash", "store"} /\ scan'.block.pays \ scan'.found = {}
    BY <2>1, <2>2
  <2>5. Full(scan.at)' <=> \A p \in At(scan.at).pays : Stored(p, scan.at)'
    BY <2>1, <1>1 DEF Full, Stored, At
  <2>6. Sought'
    BY <2>1, <2>3, <2>4, <2>5 DEF Sought
  <2>7. Apart'
    BY <2>1 DEF Apart
  <2> QED BY <1>a, <2>1, <2>6, <2>7
<1>8. CASE HashLast
  <2>1. UNCHANGED <<store, history>> /\ scan.doing = "hash" /\ scan'.doing = "mark"
        /\ scan'.block = scan.block /\ scan'.at = scan.at
    BY <1>8, <1>1 DEF HashLast, Scan
  <2>2. scan.block = At(scan.at) => Full(scan.at)
    BY <2>1, <1>1 DEF Sought
  <2>3. Sought'
    BY <2>1, <2>2, <1>1 DEF Sought, Full, Stored, At, store
  <2>4. Apart'
    BY <2>1 DEF Apart
  <2> QED BY <1>a, <2>1, <2>3, <2>4
<1>9. CASE SetWatermark
  <2>1. /\ DOMAIN searched' = {k \in DOMAIN searched : k < scan.at} \cup {scan.at}
        /\ \A h \in DOMAIN searched' : searched'[h] = IF h = scan.at THEN scan.block.hash ELSE searched[h]
        /\ outputs' = outputs /\ scan.doing = "mark" /\ strayed' = Astray'
    BY <1>9 DEF SetWatermark
  <2>2. scan'.doing \in {"nothing", "height"}
    BY <1>9 DEF SetWatermark, NextHeight, NoScan
  <2>3. scan.block.hash = At(scan.at).hash => Full(scan.at)
    <3>1. Known(left, chain, blocks, scan.block, scan.at)
      BY <2>1 DEF HasBlock, Good, ScanGood
    <3>2. scan.at <= Top(chain)
      BY <3>1, ScanIsOnChain DEF Known
    <3>3. scan.block.hash = At(scan.at).hash => scan.block = At(scan.at)
      BY <3>1, <3>2 DEF Known, At
    <3> QED BY <3>3, <2>1, <1>1 DEF Sought
  <2>4. ASSUME NEW h \in DOMAIN searched', Kept(h)' PROVE Full(h)'
    <3>1. CASE h = scan.at
      BY <3>1, <2>1, <2>3, <2>4, <1>1 DEF Kept, Full, Stored, At
    <3>2. CASE h # scan.at
      <4>1. Kept(h) /\ Answered(h) /\ h \in DOMAIN searched
        BY <3>2, <2>1, <2>4, <1>1 DEF Kept, Answered
      <4> QED BY <4>1, <2>1, <1>1 DEF SearchedFull, Full, Stored, At
    <3> QED BY <3>1, <3>2
  <2>5. SearchedFull'
    BY <2>4 DEF SearchedFull
  <2>6. DOMAIN searched' \subseteq Heights
    BY <2>1, <1>1, <1>2
  <2>7. OnAnyBranch'
    <3>1. CASE strayed'
      BY <3>1 DEF OnAnyBranch
    <3>2. CASE ~strayed'
      <4>1. \A h \in DOMAIN searched' : Kept(h)' /\ Full(h)'
        BY <3>2, <2>1, <2>4 DEF Astray
      <4> QED BY <4>1, <2>6, <1>1, KeptNow
    <3> QED BY <3>1, <3>2
  <2> QED BY <2>2, <2>5, <2>7 DEF Apart, Sought
<1>10. ASSUME NEW q \in Payments, StoreConfirmed(q)
       PROVE  SearchedFull' /\ OnAnyBranch' /\ Apart' /\ Sought'
  <2>1. /\ scan.doing = "store" /\ scan.source = "Electrum" /\ q \in scan.found
        /\ Written /\ UNCHANGED <<network, watermark, searched>>
        /\ scan'.doing = (IF scan.found = {q} THEN "hash" ELSE "store")
        /\ scan'.block = scan.block /\ scan'.at = scan.at /\ scan'.source = "Electrum"
        /\ scan'.found = scan.found \ {q} /\ q \in Mined(chain) /\ HeightOf(q) = scan.at
        /\ DOMAIN outputs' = DOMAIN outputs \cup {q}
        /\ \A p \in DOMAIN outputs' : outputs'[p] = IF p \in {q} THEN scan.at ELSE outputs[p]
    BY <1>10, <1>1 DEF StoreConfirmed, PutFound, Scan
  <2>2. Stored(q, scan.at)' /\ \A p, h : Stored(p, h) /\ p # q => Stored(p, h)'
    BY <2>1 DEF Stored
  <2>3. \A h \in Heights : q \in At(h).pays => h = scan.at
    BY <2>1, HeightTells DEF Good
  <2>4. ASSUME NEW h \in DOMAIN searched, Kept(h), Full(h) PROVE Full(h)'
    <3> SUFFICES ASSUME NEW p \in At(h).pays PROVE Stored(p, h)'
      BY <1>1 DEF Full, At
    <3>1. CASE p = q
      BY <3>1, <2>1, <2>2, <2>3, <1>2 DEF Stored
    <3>2. CASE p # q
      BY <3>2, <2>2, <2>4 DEF Full
    <3> QED BY <3>1, <3>2
  <2>5. SearchedFull' /\ OnAnyBranch'
    BY <2>1, <2>4, <1>1, WrittenStored
  <2>6. scan.block = At(scan.at) => \A p \in scan.block.pays \ scan'.found : Stored(p, scan.at)'
    BY <2>1, <2>2, <1>1 DEF Sought
  <2>7. scan'.doing = "hash" => scan'.found = {}
    BY <2>1
  <2>8. scan'.doing \in {"hash", "store"}
    BY <2>1
  <2>9. scan'.doing = "store" /\ scan'.block = At(scan.at)' =>
          \A p \in scan'.block.pays \ scan'.found : Stored(p, scan.at)'
    BY <2>1, <2>6, <1>1 DEF At, Stored
  <2>10. scan'.doing = "hash" /\ scan'.block = At(scan.at)' => Full(scan.at)'
    BY <2>1, <2>6, <2>7, <1>1 DEF Full, At, Stored
  <2>11. Sought'
    BY <2>1, <2>8, <2>9, <2>10, <1>1 DEF Sought, Full, Stored, At
  <2>12. Apart'
    BY <2>1 DEF Apart
  <2> QED BY <2>5, <2>11, <2>12
<1> QED BY <1>3, <1>4, <1>5, <1>6, <1>7, <1>8, <1>9, <1>10 DEF Step

LEMMA OtherStored ==
  ASSUME Good, StoredInv, Other
  PROVE  StoredInv'
<1> SUFFICES ASSUME unseen' \cap Misled = {}
             PROVE  SearchedFull' /\ OnAnyBranch' /\ Apart' /\ Sought'
  BY DEF StoredInv
<1>1. /\ UNCHANGED <<network, watermark, scan, searched>> /\ chain' = chain /\ unseen \cap Misled = {}
      /\ SearchedFull /\ OnAnyBranch /\ Apart /\ Sought
      /\ UNCHANGED <<outputs, strayed>> \/ Written
  BY OtherRows DEF network, StoredInv
<1>2. \A h \in Heights : \A p \in At(h).pays : Stored(p, h) => Stored(p, h)'
  <2> SUFFICES ASSUME NEW h \in Heights, NEW p \in At(h).pays, Stored(p, h) PROVE Stored(p, h)'
    OBVIOUS
  <2>1. p \in Mined(chain) /\ HeightOf(p) = h
    BY HeightTells DEF Good
  <2>2. p \in DOMAIN outputs'
    BY <2>1, OtherRows DEF Stored, Misled
  <2>3. outputs'[p] = outputs[p] \/ outputs'[p] = HeightOf(p)
    BY <2>2, OtherRows DEF Misled
  <2> QED BY <2>1, <2>2, <2>3 DEF Stored
<1>3. \A h \in Heights : Full(h) => Full(h)'
  BY <1>1, <1>2 DEF Full, At
<1>4. SearchedFull' /\ OnAnyBranch'
  <2>1. \A h \in DOMAIN searched : Kept(h) /\ Full(h) => Full(h)'
    BY <1>3, SearchedHeights
  <2> QED BY <2>1, <1>1, WrittenStored DEF Scanning
<1>5. Apart'
  BY <1>1 DEF Apart, Kept, At
<1>6. scan.doing \in {"hash", "mark", "store"} => scan.at \in Heights
  BY ScanIsOnChain DEF Scanning
<1>7. Sought'
  BY <1>1, <1>2, <1>3, <1>6 DEF Sought, At
<1> QED BY <1>4, <1>5, <1>7

LEMMA NextStored == Good /\ StoredInv /\ [Next]_vars => StoredInv'
<1> SUFFICES ASSUME Good, StoredInv, [Next]_vars PROVE StoredInv'
  OBVIOUS
<1>1. CASE Turns
  BY <1>1, TurnsStored
<1>2. CASE \E source \in {"BlindBit", "Electrum"} :
             StartScan(source) \/ \E from \in Froms : ScanFrom(source, from)
  BY <1>2, StartStored
<1>3. CASE Step \/ StopScan
  BY <1>3, StepStored
<1>4. CASE Other
  BY <1>4, OtherStored
<1>5. CASE Index \/ UNCHANGED vars
  <2>1. UNCHANGED <<chain, left, outputs, watermark, scan, searched, strayed, unseen>>
    BY <1>5 DEF Index, vars, network, store, history
  <2> QED BY <2>1 DEF StoredInv, SearchedFull, Answered, OnAnyBranch, Apart, Sought, Kept, Full,
                      Stored, At,
                      Agrees, RewindTo, Scanning, Branches
<1> QED BY <1>1, <1>2, <1>3, <1>4, <1>5 DEF Next, Network, Turns, Other

LEMMA AlwaysStored == Spec => [](Good /\ StoredInv)
<1>1. Init => StoredInv
  <2>1. DOMAIN << >> = {}
    OBVIOUS
  <2> QED BY <2>1 DEF Init, StoredInv, SearchedFull, OnAnyBranch, Apart, Sought, NoScan
<1> QED BY <1>1, InitGood, NextKeeps, NextStored, PTL DEF Spec

(* Every payment in a block that was searched, is at or below the block of *)
(* the watermark and still on the chain with it, is in the table with the  *)
(* height of that block: wherever put_found, forget_from and set_watermark *)
(* were interrupted, also when a branch that was left is back, except for  *)
(* the reasons FoundIsStored names.  What an interrupted rewind dropped is *)
(* one of them, "back" and "above": RescanRestores shows it lost.          *)
THEOREM FoundStaysStored == Spec => []FoundIsStored
<1>1. Good /\ StoredInv => FoundIsStored
  BY DEF StoredInv, SearchedFull, Answered, Misled, Kept, Full, FoundIsStored, Settled, At
<1> QED BY <1>1, AlwaysStored, PTL

(* No payment is missed between the first block searched and the one the   *)
(* watermark names, while the chain has that one, when none of the reasons *)
(* SpScan names happened: a scan leaves out no height, what it passes is   *)
(* still there, and what it searched is in the table.                      *)
THEOREM NoPaymentIsMissed == Spec => []NoneMissed
<1>1. Good /\ Tells /\ Unbroken /\ StoredInv => NoneMissed
  <2> SUFFICES ASSUME Good, Tells, Unbroken, StoredInv, unseen = {}, watermark # NoWatermark, Agrees,
                      NEW first \in DOMAIN searched, NEW h \in first..watermark.height,
                      NEW p \in BlockAt(chain, h).pays
               PROVE  Stored(p, h)
    BY DEF NoneMissed
  <2>1. h \in DOMAIN searched
    BY DEF Unbroken
  <2>2. Kept(h)
    BY <2>1, AllKept DEF Blind
  <2> QED BY <2>1, <2>2 DEF StoredInv, SearchedFull, Answered, Misled, Full, At
<1>2. Init => OnChain /\ HashRight /\ Tells /\ Unbroken /\ StoredInv
  <2>1. DOMAIN << >> = {}
    OBVIOUS
  <2> QED BY <2>1 DEF Init, OnChain, HashRight, HasHash, HasBlock, Tells, Unbroken, NoScan,
                      StoredInv, SearchedFull, OnAnyBranch, Apart, Sought
<1> QED
  BY <1>1, <1>2, InitGood, NextKeeps, NextOnChain, NextTells, NextUnbroken, NextStored, PTL DEF Spec
=============================================================================
