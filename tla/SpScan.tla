------------------------------- MODULE SpScan -------------------------------
(***************************************************************************)
(* The search for silent payments (sp-scan, sp-scan --tx and sp-balance in *)
(* main.rs, over spscan.rs) and the tables it fills (spstore.rs): the      *)
(* outputs found, and the watermark, which is the last block searched and  *)
(* the hash it had.  A scan asks two backends, the tweak server for what   *)
(* to look at and Esplora for the chain; they answer one call at a time,   *)
(* and the chain may be reorganised between any two calls.                 *)
(*                                                                         *)
(* At most one sp-scan runs on a wallet; sp-scan --tx and sp-balance may   *)
(* run beside it.  Every write is a SQLite transaction of its own, and a   *)
(* scan can be stopped between any two of them.                            *)
(***************************************************************************)
EXTENDS Integers, SequencesExt

CONSTANTS
  Payments,         \* outputs that pay this wallet, each of its own transaction
  Froms,            \* heights users give as --from
  MaxReorgDepth,    \* MAX_REORG_DEPTH
  StartHeight,      \* height of the chain at first
  MaxHeight,        \* bound: height of the chain
  MaxBlocks,        \* bound: blocks found after that
  MaxEvents,        \* bound: scans stopped, sp-scan --tx and sp-balance begun
  MaxUnseen         \* bound: reasons in `unseen` at once

ASSUME ScanAssumption ==
  /\ Froms \subseteq Nat
  /\ MaxReorgDepth \in Nat
  /\ StartHeight \in Nat /\ MaxHeight \in Nat /\ MaxBlocks \in Nat
  /\ MaxEvents \in Nat /\ MaxUnseen \in Nat

VARIABLES
  chain,      \* the blocks Esplora serves, from genesis at height 0
  left,       \* the branches it served before
  indexed,    \* the blocks the tweak server has searched
  outputs,    \* kiss_sp_outputs: the height of every output found
  watermark,  \* kiss_sp_watermark
  scan,       \* what a running sp-scan holds in memory
  look,       \* what a running sp-scan --tx is about to store
  balance,    \* what a running sp-balance is about to forget
  searched,   \* history: the hash of the block searched at a height
  strayed,    \* history: the tables were written while the chain had left
              \* what was searched, and nothing was searched since
  unseen,     \* history: what happened that a scan has no means to notice
  blocks,     \* blocks found so far
  events      \* scans stopped, sp-scan --tx and sp-balance begun so far

network == <<chain, left, indexed, blocks>>
store == <<outputs, watermark>>
others == <<look, balance>>
history == <<searched, strayed>>
vars == <<network, store, scan, others, history, unseen, events>>

Block == [hash : Nat, pays : SUBSET Payments]
Genesis == [hash |-> 0, pays |-> {}]

UNCONFIRMED == 0
NoHash == -1          \* the hash of a watermark from before it was recorded
NoWatermark == [height |-> 0, hash |-> -2]

(* doing   what the scan does next                                         *)
(* source  the tweak server it uses                                        *)
(* at      the height it is at                                             *)
(* tip     the height it stops after                                       *)
(* block   the block of that height it searches                            *)
(* found   payments in it that are not stored yet                          *)
(* hash    the hash the watermark will get                                 *)
Scan == [doing : {"nothing", "height", "search", "store", "hash", "mark"},
         source : {"BlindBit", "Electrum"}, at : Nat, tip : Nat,
         block : Block, found : SUBSET Payments, hash : Nat]

NoScan == [doing |-> "nothing", source |-> "BlindBit", at |-> 0, tip |-> 0,
           block |-> Genesis, found |-> {}, hash |-> 0]

Scanning == scan.doing # "nothing"

(* What a scan has no means to notice:                                     *)
(* during      blocks it already searched are replaced while it runs       *)
(* deep        a reorganisation deeper than MAX_REORG_DEPTH                *)
(* ahead       rows above the watermark, whose block is replaced           *)
(* never       the same while no hash is recorded                          *)
(* from        --from is given, so the hash is not compared                *)
(* unanswered  Esplora does not answer, so neither                         *)
(* above       either of them, after the tables were written while the     *)
(*             chain had left what was searched: a rewind may be undone    *)
(* back        blocks the chain had left come back, while a scan runs or   *)
(*             after such a write, or with rows above the watermark        *)
(* gap         --from skips blocks above the watermark                     *)
(* branch      the tweak server answers from a branch the chain has left   *)
(* look        sp-scan --tx stores a height that is not the height any more*)
(* forget      sp-balance forgets a row that was mined in the meantime     *)
Reasons == {"during", "deep", "ahead", "never", "from", "unanswered", "above",
            "back", "gap", "branch", "look", "forget"}

Reason(happened, reason) == IF happened THEN {reason} ELSE {}

Note(reasons) ==
  /\ unseen' = unseen \cup reasons
  /\ Cardinality(unseen') <= MaxUnseen

Top(c) == Len(c) - 1
BlockAt(c, h) == c[h + 1]
Mined(c) == UNION {b.pays : b \in ToSet(c)}

(* The height Esplora gives a transaction.                                 *)
HeightOf(p) == IF p \in Mined(chain)
               THEN CHOOSE h \in 0..Top(chain) : p \in BlockAt(chain, h).pays
               ELSE UNCONFIRMED

(* c with n more blocks after the first k ever found, which hold some of   *)
(* the payments c does not.                                                *)
Grown(c, k, n) ==
  {c \o [i \in 1..n |-> [hash |-> k + i, pays |-> {p \in DOMAIN place : place[p] = i}]] :
     place \in [Payments \ Mined(c) -> 0..n]}

Agrees == /\ watermark.height <= Top(chain)
          /\ watermark.hash = BlockAt(chain, watermark.height).hash

(* The chain no longer has the block that was searched.                    *)
Moved == /\ watermark # NoWatermark
         /\ watermark.hash # NoHash
         /\ ~Agrees

(* The block searched at a height is the one there.                        *)
Kept(h) == h \in DOMAIN searched /\ searched[h] = BlockAt(chain, h).hash

Astray == Moved \/ \E h \in DOMAIN searched : ~Kept(h)

(* The tables are written.                                                 *)
Written == strayed' = (strayed \/ Astray)

Init ==
  /\ blocks = StartHeight
  /\ chain \in Grown(<<Genesis>>, 0, StartHeight)
  /\ left = {}
  /\ indexed = <<Genesis>>
  /\ outputs = << >>
  /\ watermark \in {NoWatermark, [height |-> 0, hash |-> NoHash]}
  /\ scan = NoScan
  /\ look = << >>
  /\ balance = {}
  /\ searched = << >>
  /\ strayed = FALSE
  /\ unseen = {}
  /\ events = 0

-----------------------------------------------------------------------------
(* The network, which nothing in the program decides.                      *)

Mine ==
  /\ Top(chain) < MaxHeight /\ blocks < StartHeight + MaxBlocks
  /\ chain' \in Grown(chain, blocks, 1)
  /\ blocks' = blocks + 1
  /\ UNCHANGED <<left, indexed, store, scan, others, history, unseen, events>>

(* The heights whose block is replaced, and whether one that was there     *)
(* before comes back.                                                      *)
Gone == {h \in 0..Top(chain) : BlockAt(chain', h) # BlockAt(chain, h)}
ComesBack == \E h \in Gone : BlockAt(chain', h).hash <= blocks

(* The blocks from `fork` on are replaced by a longer branch, or the chain *)
(* goes back to one it has left and grows from its block `fork` on.        *)
Reorg(branch, fork) ==
  LET longer == Top(chain) - fork + 2
      known == watermark.hash \in Nat
      above == \E p \in DOMAIN outputs : outputs[p] \in Gone
      ahead == \E p \in DOMAIN outputs : outputs[p] > watermark.height
  IN  /\ Top(chain) < MaxHeight /\ blocks + longer <= StartHeight + MaxBlocks
      /\ chain' \in Grown(SubSeq(branch, 1, fork), blocks, longer)
      /\ left' = left \cup {chain}
      /\ blocks' = blocks + longer
      /\ Note(Reason(Scanning /\ scan.at \in Gone, "during")
              \cup Reason(known /\ \E h \in Gone : h < watermark.height - MaxReorgDepth, "deep")
              \cup Reason(~known /\ above, "never")
              \cup Reason(/\ known /\ above
                          /\ \/ watermark.height \notin Gone
                             \/ Scanning /\ scan.at \notin Gone, "ahead")
              \cup Reason(ComesBack /\ (Scanning \/ strayed \/ ahead), "back"))
      /\ UNCHANGED <<indexed, store, scan, others, history, events>>

(* The tweak server follows the chain, one block at a time, and leaves a   *)
(* branch that was replaced.                                               *)
Index ==
  /\ indexed # chain
  /\ indexed' = SubSeq(chain, 1, IF IsPrefix(indexed, chain) THEN Len(indexed) + 1
                                                             ELSE Len(indexed))
  /\ UNCHANGED <<chain, left, blocks, store, scan, others, history, unseen, events>>

-----------------------------------------------------------------------------
(* spstore                                                                 *)

(* put_found: a row for every output, and a new height for a known one.    *)
PutFound(found, height) ==
  outputs' = [p \in DOMAIN outputs \cup found |->
                IF p \in found THEN height ELSE outputs[p]]

Without(rows) == [p \in DOMAIN outputs \ rows |-> outputs[p]]

MutForgetFrom(height) == outputs' = outputs   \* mutant: rows are left to the rescan

ForgetFrom(height) ==
  outputs' = Without({p \in DOMAIN outputs :
                        outputs[p] >= height /\ outputs[p] # UNCONFIRMED})

-----------------------------------------------------------------------------
(* resume_from: where a scan starts.                                       *)

MutCeiling == Top(chain)   \* mutant: the tip of the chain

(* The ceiling is what the tweak server has, asked once.                   *)
Ceiling == Top(indexed)

Begin(source, start) ==
  scan' = IF start > Ceiling THEN NoScan
          ELSE [NoScan EXCEPT !.doing = "height", !.source = source,
                              !.at = start, !.tip = Ceiling]

(* A scan starts although the chain has moved.                             *)
Unaware(why) == Reason(Moved, IF strayed THEN "above" ELSE why)

(* --from                                                                  *)
ScanFrom(source, from) ==
  /\ ~Scanning
  /\ from <= Ceiling
  /\ Begin(source, from)
  /\ Note(Unaware("from") \cup
          Reason(DOMAIN searched # {} /\ from > watermark.height + 1, "gap"))
  /\ UNCHANGED <<network, store, others, history, events>>

(* Never scanned: the scan starts where the chain is now.                  *)
ScanFirst(source) ==
  /\ ~Scanning
  /\ watermark = NoWatermark
  /\ Begin(source, Ceiling)
  /\ UNCHANGED <<network, store, others, history, unseen, events>>

(* The hash is the one recorded, or there is none, or Esplora does not say.*)
ScanOn(source) ==
  /\ ~Scanning
  /\ watermark # NoWatermark
  /\ Begin(source, watermark.height)
  /\ Note(Unaware("unanswered"))
  /\ UNCHANGED <<network, store, others, history, events>>

MutRewindTo == watermark.height   \* mutant: only that block is gone back to

RewindTo == IF watermark.height < MaxReorgDepth THEN 0
            ELSE watermark.height - MaxReorgDepth

(* Mutant: only the block of the watermark is searched again.              *)
MutRewind(source) ==
  /\ ~Scanning
  /\ Moved
  /\ ForgetFrom(RewindTo)
  /\ Begin(source, watermark.height)
  /\ Written
  /\ UNCHANGED <<network, watermark, others, searched, unseen, events>>

(* The hash is another one: what was found from there on is dropped and    *)
(* has to be searched again.  It stays dropped when the scan ends here     *)
(* because the tweak server is behind.                                     *)
Rewind(source) ==
  /\ ~Scanning
  /\ Moved
  /\ ForgetFrom(RewindTo)
  /\ Begin(source, RewindTo)
  /\ Written
  /\ UNCHANGED <<network, watermark, others, searched, unseen, events>>

-----------------------------------------------------------------------------
(* One height of a scan.                                                   *)

(* What the tweak server has for the height the scan is at: nothing, if it *)
(* has not searched it.                                                    *)
Tweaks == IF scan.at <= Top(indexed) THEN BlockAt(indexed, scan.at).pays ELSE {}

(* The server is on a branch the chain has left.                           *)
OnBranch == scan.at <= Top(indexed) /\ BlockAt(indexed, scan.at) # BlockAt(chain, scan.at)

(* BlindBit: the hash first, ...                                           *)
BlockHash ==
  /\ scan.doing = "height" /\ scan.source = "BlindBit"
  /\ scan' = [scan EXCEPT !.doing = "search", !.block = BlockAt(chain, scan.at),
                          !.hash = BlockAt(chain, scan.at).hash]
  /\ UNCHANGED <<network, store, others, history, unseen, events>>

(* ... then the tweaks, and if there are any the block of that hash, whose *)
(* transactions they are tried on.                                         *)
SearchBlock ==
  /\ scan.doing = "search"
  /\ LET found == Tweaks \cap scan.block.pays
     IN  scan' = [scan EXCEPT !.doing = IF found = {} THEN "mark" ELSE "store",
                              !.found = found]
  /\ Note(Reason(OnBranch, "branch"))
  /\ UNCHANGED <<network, store, others, history, events>>

(* Esplora no longer has a block of that hash.                             *)
BlockMissing ==
  /\ scan.doing = "search"
  /\ Tweaks # {} /\ scan.block \notin ToSet(chain)
  /\ scan' = NoScan
  /\ UNCHANGED <<network, store, others, history, unseen, events>>

(* put_found with all of them.                                             *)
StoreBlock ==
  /\ scan.doing = "store" /\ scan.source = "BlindBit"
  /\ PutFound(scan.found, scan.at)
  /\ scan' = [scan EXCEPT !.doing = "mark", !.found = {}]
  /\ Written
  /\ UNCHANGED <<network, watermark, others, searched, unseen, events>>

(* Electrum: the server streams the candidates of a height, ...            *)
Stream ==
  /\ scan.doing = "height" /\ scan.source = "Electrum"
  /\ scan.at <= Top(indexed)
  /\ scan' = [scan EXCEPT !.doing = IF Tweaks = {} THEN "hash" ELSE "store",
                          !.found = Tweaks, !.block = BlockAt(indexed, scan.at)]
  /\ Note(Reason(OnBranch, "branch"))
  /\ UNCHANGED <<network, store, others, history, events>>

(* ... each match is confirmed on the chain and stored, ...                *)
StoreConfirmed(p) ==
  /\ scan.doing = "store" /\ scan.source = "Electrum"
  /\ p \in scan.found
  /\ p \in Mined(chain) /\ HeightOf(p) = scan.at
  /\ PutFound({p}, scan.at)
  /\ scan' = [scan EXCEPT !.doing = IF scan.found = {p} THEN "hash" ELSE "store",
                          !.found = @ \ {p}]
  /\ Written
  /\ UNCHANGED <<network, watermark, others, searched, unseen, events>>

(* ... or ends the scan, ...                                               *)
NotConfirmed(p) ==
  /\ scan.doing = "store" /\ scan.source = "Electrum"
  /\ p \in scan.found
  /\ ~(p \in Mined(chain) /\ HeightOf(p) = scan.at)
  /\ scan' = NoScan
  /\ UNCHANGED <<network, store, others, history, unseen, events>>

(* ... and the hash is read last.                                          *)
HashLast ==
  /\ scan.doing = "hash"
  /\ scan' = [scan EXCEPT !.doing = "mark", !.hash = BlockAt(chain, scan.at).hash]
  /\ UNCHANGED <<network, store, others, history, unseen, events>>

NextHeight == [NoScan EXCEPT !.doing = "height", !.source = scan.source,
                             !.at = scan.at + 1, !.tip = scan.tip]

(* Mutant: the watermark is the next height.                               *)
MutSetWatermark ==
  /\ scan.doing = "mark"
  /\ watermark' = [height |-> scan.at + 1, hash |-> scan.hash]
  /\ searched' = [h \in {k \in DOMAIN searched : k < scan.at} \cup {scan.at} |->
                    IF h = scan.at THEN scan.block.hash ELSE searched[h]]
  /\ scan' = IF scan.at = scan.tip THEN NoScan ELSE NextHeight
  /\ UNCHANGED <<network, outputs, others, unseen, events>>
  /\ strayed' = Astray'

(* set_watermark; the scan goes on with the next height.                   *)
SetWatermark ==
  /\ scan.doing = "mark"
  /\ watermark' = [height |-> scan.at, hash |-> scan.hash]
  /\ searched' = [h \in {k \in DOMAIN searched : k < scan.at} \cup {scan.at} |->
                    IF h = scan.at THEN scan.block.hash ELSE searched[h]]
  /\ scan' = IF scan.at = scan.tip THEN NoScan ELSE NextHeight
  /\ UNCHANGED <<network, outputs, others, unseen, events>>
  /\ strayed' = Astray'

(* The process is stopped, or a backend fails.                             *)
StopScan ==
  /\ Scanning
  /\ events < MaxEvents
  /\ events' = events + 1
  /\ scan' = NoScan
  /\ UNCHANGED <<network, store, others, history, unseen>>

-----------------------------------------------------------------------------
(* sp-scan --tx: the transaction is fetched, mined or in the mempool, and  *)
(* its status asked for.  No status counts as unconfirmed.                 *)
LookUp(p, height) ==
  /\ look = << >>
  /\ events < MaxEvents
  /\ events' = events + 1
  /\ height \in {HeightOf(p), UNCONFIRMED}
  /\ look' = <<[pay |-> p, height |-> height]>>
  /\ UNCHANGED <<network, store, scan, balance, history, unseen>>

(* put_found.                                                              *)
StoreLook ==
  /\ look # << >>
  /\ PutFound({look[1].pay}, look[1].height)
  /\ look' = << >>
  /\ Note(Reason(look[1].height # HeightOf(look[1].pay), "look"))
  /\ Written
  /\ UNCHANGED <<network, watermark, scan, balance, searched, events>>

(* sp-balance: a row that was stored as unconfirmed, and Esplora knows no  *)
(* such transaction: not in a block, and just then not in the mempool ...  *)
Missing(p) ==
  /\ balance = {}
  /\ events < MaxEvents
  /\ events' = events + 1
  /\ p \in DOMAIN outputs /\ outputs[p] = UNCONFIRMED
  /\ p \notin Mined(chain)
  /\ balance' = {p}
  /\ UNCHANGED <<network, store, scan, look, history, unseen>>

(* ... is forgotten.                                                       *)
Forget ==
  /\ balance # {}
  /\ outputs' = Without(balance)
  /\ balance' = {}
  /\ Note(Reason(balance \cap Mined(chain) # {}, "forget"))
  /\ Written
  /\ UNCHANGED <<network, watermark, scan, look, searched, events>>

-----------------------------------------------------------------------------
Network ==
  \/ Mine \/ Index
  \/ \E fork \in 1..Top(chain) : Reorg(chain, fork)
  \/ \E branch \in left : \E fork \in 1..Len(branch) : Reorg(branch, fork)

StartScan(source) == ScanFirst(source) \/ ScanOn(source) \/ Rewind(source)

Step ==
  \/ BlockHash \/ SearchBlock \/ BlockMissing \/ StoreBlock
  \/ Stream \/ HashLast \/ SetWatermark
  \/ \E p \in Payments : StoreConfirmed(p) \/ NotConfirmed(p)

Next ==
  \/ Network
  \/ \E source \in {"BlindBit", "Electrum"} :
       StartScan(source) \/ \E from \in Froms : ScanFrom(source, from)
  \/ Step \/ StopScan
  \/ \E p \in Payments : Missing(p) \/ \E height \in 0..Top(chain) : LookUp(p, height)
  \/ StoreLook \/ Forget

Spec == Init /\ [][Next]_vars

-----------------------------------------------------------------------------
(* The tables, what commands hold and the chain have their types.          *)
ScanTyped ==
  /\ chain \in Seq(Block) /\ left \subseteq Seq(Block) /\ indexed \in Seq(Block)
  /\ DOMAIN outputs \subseteq Payments
  /\ \A p \in DOMAIN outputs : outputs[p] \in 0..Top(chain)
  /\ watermark \in [height : 0..Top(chain), hash : Int]
  /\ scan \in Scan
  /\ look \in Seq([pay : Payments, height : Nat])
  /\ balance \subseteq Payments
  /\ DOMAIN searched \subseteq 0..Top(chain)
  /\ strayed \in BOOLEAN
  /\ unseen \subseteq Reasons

(* A height the watermark stands for, whose block is the one searched.     *)
Settled(h) ==
  /\ watermark # NoWatermark /\ Agrees
  /\ h <= watermark.height /\ Kept(h)

Stored(p, h) == p \in DOMAIN outputs /\ outputs[p] = h

(* While the chain has the block the watermark names, every payment in a   *)
(* block below it that was searched is in the table, with the height of    *)
(* that block, wherever scans and rewinds were stopped and whatever else   *)
(* wrote to the table: unless the tweak server was on another branch, an   *)
(* old answer of sp-scan --tx or sp-balance was written down, or what a    *)
(* rewind dropped was not searched again, because the branch came back or  *)
(* the next scan was started above it.                                     *)
FoundIsStored ==
  unseen \cap {"branch", "look", "forget", "back", "above"} = {} =>
    \A h \in 0..Top(chain) : Settled(h) =>
      \A p \in BlockAt(chain, h).pays : Stored(p, h)

(* No payment is missed between the first block searched and the one the   *)
(* watermark names, while the chain has that one: no height was skipped,   *)
(* no block was replaced since and nothing was lost from the table.        *)
NoneMissed ==
  unseen = {} /\ watermark # NoWatermark /\ Agrees =>
    \A first \in DOMAIN searched : \A h \in first..watermark.height :
      \A p \in BlockAt(chain, h).pays : Stored(p, h)

(* While the chain has the block the watermark names, every block searched *)
(* below it is still on the chain: what the hash is recorded for.  It does *)
(* not see a chain that is reorganised below it while a scan runs, or      *)
(* deeper than MAX_REORG_DEPTH, and is not asked after --from, when        *)
(* Esplora does not answer, or when the tweak server is on another branch. *)
WatermarkTells ==
  unseen \cap {"during", "deep", "from", "unanswered", "above", "branch"} = {} =>
    (watermark # NoWatermark /\ Agrees =>
       \A h \in DOMAIN searched : h <= watermark.height => Settled(h))

(* No row of a height that was searched is left over from a branch that    *)
(* was replaced.                                                           *)
NothingStale ==
  unseen = {} =>
    \A p \in DOMAIN outputs : Settled(outputs[p]) /\ outputs[p] # UNCONFIRMED =>
      p \in BlockAt(chain, outputs[p]).pays

(* The hash lets a scan tell a resumed chain from a reorganised one, also  *)
(* when the chain is reorganised while a scan runs.                        *)
ReorgIsNoticed ==
  unseen \subseteq {"during"} =>
    (watermark # NoWatermark /\ Agrees =>
       \A h \in DOMAIN searched : h <= watermark.height => Settled(h))

(* What a rewind drops and the chain still has is searched again, or will  *)
(* be: it is not below the watermark, from where the next scan goes on.    *)
RescanRestores ==
  unseen \subseteq {"back"} /\ ~Scanning =>
    \A h \in 0..watermark.height - 1 : Settled(h) =>
      BlockAt(chain, h).pays \subseteq DOMAIN outputs
=============================================================================
