# kiss-bdk in TLA+

kiss-bdk is a watch-only Bitcoin wallet for the KISS signing device. It keeps
the public side of a wallet in a folder, builds PSBTs for the device, checks
what the device returns, scans the chain for silent payments, and lets two
wallets pay one silent payment together (a *shared send*). These modules
specify the parts of it that keep state over time: the shared send, where two
wallets, two signing devices, a message channel and the network act
concurrently and any command may be stopped at any point, once as a loop
over a channel and once by hand from files; the two channels; the scan for
silent payments over a chain that is reorganised; and the payment from
`create` over the signing device to `broadcast`.

All paths are relative to the repository that holds `src/shared.rs`. In
`PROJECT.json` the repository itself is under `src/`, so the same file is
`src/src/shared.rs` there.

## 1. The system

| component | source | state it keeps | operations | covered |
|---|---|---|---|---|
| session state machine | `src/shared.rs` | `Session`: role, stage, who sent the newest state, PSBT, outbox, txid | propose, join, respond, receive, finish; the fee of the two halves | `SharedSession`, `SharedFee` |
| flow driver | `src/sharedflow.rs` | session file (inbox, session), records of finished sends | begin, join, retire, step, listen | `SharedSend` |
| shared commands | `src/shared_cmd.rs` | memory of the running command | start, join (`SharedSend`); propose, accept, request, answer, receive, broadcast (`SharedFiles`); status only reads | `SharedSend`, `SharedFiles` |
| folder channel | `src/dirtransport.rs`, `src/transport.rs` | message files, one cursor for each participant | send, receive | `DirTransport` |
| Marmot channel | `src/marmot.rs`, `src/bin/kiss-marmot.rs` | `mls.json`, `state.json` (seen events, counter) | init, invite, accept, send, receive | `MarmotTransport` |
| silent payment store | `src/spstore.rs` | scan keys, found outputs with heights, watermark | put_found, forget, forget_from, set_watermark (`SpScan`); put_keys, candidates, contains (`SpSpend`) | `SpScan`, `SpSpend` |
| silent payment scan | `src/spscan.rs`, `src/main.rs` | none of its own; drives the store | sp-scan, sp-scan --tx, sp-balance | `SpScan` |
| scan backends | `src/electrum.rs`, `src/blindbit.rs` | one connection | tweaks, tip | as the scan sees them, `SpScan` |
| silent payment spend | `src/spspend.rs` | none | select, checked, sp_inputs, finalize | `SpSelect`, `SpSpend` |
| send and verify | `src/spsend.rs`, `src/spverify.rs` | none | placeholders, PSBT conversion both ways, check of what the signer returned | `SpSpend` |
| wallet commands | `src/main.rs` | BDK's database, PSBT files | sync, sp-pair, create, scan, broadcast (`SpSpend`); not init, receive, balance, faucet, inspect | partly |
| addresses, keys, proofs | `src/sp.rs`, `src/spreceive.rs`, `src/dleq.rs` | none | the script derived for a code, as a value; the rest is encodings and elliptic curve arithmetic | `SpSpend` |
| descriptor and PSBT files | `src/lib.rs` | none | the check that a PSBT is fully signed; the rest is parsing | `SpSpend` |
| QR codes | `src/qr.rs`, `src/k_quirc.rs` | parts of a multi part QR | receive | no: images and cameras are I/O; the part decoder is in the plan |

How they interact. A `shared start` or `shared join` command (`shared_cmd.rs`)
runs a loop around `Flow::step` (`sharedflow.rs`). A step loads the session
file, does the one next thing, and replaces the file. What the next thing is
depends on `Session` (`shared.rs`), a value without I/O. The step reaches the
other wallet through the `Transport` trait, which the folder channel and the
Marmot channel implement, the signing device through `SignerLink`, and the
wallet's coins and the network through `WalletLink`. The file commands do the
same operations of `Session` one at a time: each loads the session file, does
one of them in memory, writes the messages it owes to a new file and replaces
the session file, and people carry the files. Commands that receive and spend
silent payments share only the wallet folder and its database with this: a scan
fills the store, `create` reads it and writes a PSBT, the signing device answers
that, and `broadcast` checks the answer against the PSBT and against what the
store and the pairing say then.

What is hard about it, and what makes each part correct:

- *Session.* Shares come from two signers over two wallets, in any number of
  messages that may be repeated; a signature may only be given when the
  recipient's output is fixed, which is when all shares are there. Correct
  means: nothing is signed early, nothing that is held is taken back, and a
  half is signed into one transaction only.
- *Flow.* Every step has one effect outside (messages sent, messages taken from
  the channel, transaction broadcast) and one inside (the file saved), and the
  command can stop between them. Correct means: wallets agree on the outcome,
  what is called done was broadcast, and every send that is under way ends.
- *File commands.* Nothing locks the session file, and answers and message
  files are used in any order and again. Correct means: what the other wallet
  has to hear is never lost between the two files, and nothing is paid that was
  not signed for.
- *Fee of a shared send.* Each half is priced, rounded and refunded on its own,
  the whole is checked with another weight. Correct means: two halves built at
  the rate are never refused.
- *Folder channel.* Files arrive late and in any order, clocks differ, several
  processes may use one name. Correct means: each message once, in order.
- *Marmot channel.* The ratchet, the cursor and the messages handed over are
  three states saved at different moments, and relays return messages in any
  order. Correct means: no key used twice, nothing returned twice, nothing
  dropped but what a stop in the hand over loses, and in order as long as the
  relays and the clock are.
- *Scan and store.* Blocks are replaced while they are searched, two backends
  answer at different times, a scan stops between storing what it found and
  moving the watermark. Correct means: while the chain has the block that the
  watermark names, what was searched below it is what the chain has, what is
  paid there is stored, and nothing is stored there that is not.
- *Spend.* What was checked when a PSBT was built may be stale when it is
  broadcast, the device may answer anything, and BDK prices the transaction its
  own way. Correct means: what is handed to the network is what was asked for,
  signed by the owner of its coins; coins that are chosen are enough; and a
  PSBT that can still be paid is not refused on the way.

`PROJECT.json` lists the hazards line by line, with the properties that cover
each of them, or a note why none does.

## 2. The modules

| module | what it is |
|---|---|
| `SharedSession` | `shared.rs` as operators on PSBTs, messages and sessions, and what of them may be relied on. No variables. |
| `SharedSend` | `sharedflow.rs` and the long running commands: files, channel, network, stops. Properties and the inductive invariant are at its end. |
| `SharedFiles` | the commands that work from files, two of them on one folder if they are. Properties and the inductive invariant are at its end. |
| `SharedPayment` | what a shared send promises, without messages, files or commands. |
| `SharedFee` | the amounts and the fee of a shared send, beside BDK's. No variables. |
| `SharedSessionProofs` | that the operators of `SharedSession` keep what they are given sound, and the amounts and the fee of `SharedFee`. |
| `SharedSendProofs`, `SharedFilesProofs` | proofs about `SharedSend` and `SharedFiles`, both over `SharedSessionProofs`. |
| `SharedPaymentProofs` | that `SharedSend` implements `SharedPayment`, and what relates the sessions of several wallets; over `SharedSendProofs`. |
| `MCSharedSend`, `MCSharedFiles` | small instances for TLC. |
| `DirTransport`, `DirTransportProofs`, `MCDirTransport` | `dirtransport.rs`: files, cursors, processes. |
| `MarmotTransport`, `MarmotProofs`, `MCMarmotTransport` | `marmot.rs`: the two state files, the group, the relays. |
| `SpScan`, `SpScanProofs`, `MCSpScan` | the scan commands of `main.rs`, `spscan.rs` and `spstore.rs`, over a chain and a tweak server. |
| `SpSelect` | which coins a spend of silent payments takes and what it costs, beside BDK's price. No variables. |
| `SpSpend`, `SpSpendProofs`, `MCSpSpend` | `create`, the signing device, `scan` and `broadcast`, over the store, the pairing and the network. |

### SharedSession

A PSBT is abstracted to what decides the outcome: the deal (recipient and
amount), the halves (one wallet's coins and change each), `open`
(`tx_modifiable_flags`), the coins whose inputs carry a share, whether the
recipient's output has a script, and the coins whose inputs carry a
signature. The transaction id is a function of deal and halves. Each operator
has the name of the Rust function or of the decision it makes:
`AbsorbAccepts` and `Absorbed` are `absorb`, `AdoptAccepts` and `AdoptedPsbt`
are `adopt_join`, `RespondAccepts` and `Responded` are `Session::respond`,
`Received` is `Session::receive` with its rule that a message that is refused
or ignored leaves the session as it was.

Left out, and why that is sound for the properties here: amounts, fee rates
and weights (they decide whether a proposal is accepted, never what happens
after, and are `SharedFee`); keys, DLEQ proofs and signature verification (a share or a signature
in the model is one that verifies, so a message with one that does not is a
message that is refused, which is in the model as a message that is never
sent); texts and encodings.

Answers of the signing device are the ones the reference signer of the tests
gives: shares for its coins, signatures for its coins once every other share
is in the request. With `PartialSigners` it may answer for some of its coins.

### SharedSend

| variable | in the program |
|---|---|
| `session`, `inbox` | `Saved` in `shared-send.json` |
| `kept` | the records `shared-send-<id>.json` that `retire` writes |
| `run` | memory of the running command: position in the outbox, batch returned by the channel, `Flow.waited`, whether broadcast has returned, answers refused |
| `channel` | what the transport holds for a wallet and has not returned |
| `chain`, `mined` | transactions the network took, and those in a block |
| `view` | coins BDK knows to be spent |
| `made` | change addresses reserved, one for each half |
| `stops`, `givenUp`, `shared`, `signed` | history and bounds |

`Flow::step` is split where another wallet or a stop can come between: send a
message / clear the outbox; take the batch / save the inbox; broadcast / save
Done. Everything else in a step is one action, the save included. The order
of the branches is in the guards: `Owes` first, then the inbox, then what the
session decides (`Quiet`).

| action | code |
|---|---|
| `ResumeStart`, `StartNew`, `StartFails` | `begin` |
| `RunJoin` | the `Join` command up to the loop |
| `SendOne`, `ClearOutbox` | `step`, the outbox |
| `HandleMessage`, `DropMessage`, `JoinProposal`, `JoinFails` | `step`, the inbox; `handle`, `consider`, `join` |
| `EndDone` | `Progress::Done` |
| `Grace` | the grace period |
| `Broadcast`, `BroadcastRefused`, `BroadcastUnanswered`, `Finish` | broadcast, `finish` and save |
| `Visit`, `AnswerRefused` | request, sign, `respond` and save; `refused` |
| `Receive`, `StoreBatch` | `listen` |
| `Sync`, `GiveUp`, `Stop`, `Block` | `kiss-bdk sync`; the user deletes the file; the process stops; a block is found |

Simplifications a reader should know of:

- `StartNew` is one action. A stop between `fund` and `save` leaves an unused
  change address and the finished session retired; neither is in the model.
- The channel gives a message to every other wallet at once, so with three
  wallets they all see the messages of different senders in one order.
- A folder has one command at a time. The commands that work from files are in
  `SharedFiles`, which has no loop: the two are not composed.
- The network refuses a transaction that is in a block already or conflicts
  with one it took. `Takes` does not check signatures; that it need not is
  what `PaidByConsent` says.

### SharedFiles

| variable | in the program |
|---|---|
| `session`, `kept` | `shared-send.json` and the records `retire` writes |
| `command` | memory of a running command: the session it loaded and what it does next |
| `files` | message files, each what one `write_outbox` wrote |
| `answers` | PSBTs a signer returned |
| `made`, `chain` | change addresses reserved; what the network took |
| `shared`, `signed`, `stops`, `overlaps`, `overlapped`, `givenUp` | history and bounds |

A command is split where a second one or a stop makes a difference: when it
loads, when it writes the message file, when it replaces the session file.
`propose` has two more, because `begin` saves and the command loads again.

| action | code |
|---|---|
| `Propose`, `ProposeAgain`, `SaveBegun`, `Reload` | `propose`: `begin`, its save, and what the command offers |
| `Accept`, `AcceptRefused` | `accept`: `retire`, `join` and save, or the error after `retire` |
| `Request` | `request`, and the signer's answer to it |
| `AnswerWith` | `answer`, with any answer of any signer |
| `Receive` | `receive`: every message of a file, none when one is refused |
| `Broadcast`, `Push` | `broadcast`: the checks, the network, `finish` |
| `WriteOut`, `Save` | `write_outbox`, `Store::save` |
| `Stop`, `GiveUp` | the process stops or a write fails; the user deletes the session file |

Files are carried in any order, to anyone and more than once, so every command
takes any file there is. A signer answers for all its coins. `Propose` is one
step up to the save, and there is no sync: BDK may select a coin that an earlier
send, given up or paid, has selected. `overlapped` holds the wallets on whose
folder two commands ran at once, or whose file was deleted beside a command.

### SharedPayment

Four variables: the shares given, the signatures given, the transactions the
network took, what each wallet records as paid. Three actions: a signer
answers (it signs only when every input has its share, and gives shares for
the coins of one half in one transaction only), the network takes what is
fully signed and does not conflict, a wallet records what the network took.
`SharedSend` implements it under the mapping `Payment` in `SharedSend`, where
`done` is what the session file and the kept records name.

### SharedFee

`BdkHalf` is what BDK builds for `fund`, `HalfAsV2` the refund of half the
common bytes, `EstimatedWeight` and `CheckFee` what both wallets check. Wallets
spend P2WPKH coins: no other KISS descriptor can take part. Amounts are natural
numbers. Overflow of a `u64` is left out: the rate has passed BDK, which prices
the wallet's half with it, before `check_fee` multiplies it.

### DirTransport

`files` is the folder, `arrived[w]` what of it has reached w's copy, `cursor`
the cursor files, `proc` what each process is in the middle of. `send` is
`List`, then `Create` or `Collide`; `receive` is `Read`, `SaveCursor`,
`Return`. File names compare as `entries` sorts them: time, sender, number.
`Pending` goes through a listing file by file; it is a recursive function and
no fold, so that its steps can be reasoned about one at a time. For the same
reason `InOrder` compares positions of what was returned and not the sequence
filtered by sender.

Two history variables say what a property may not ask for: `raced` holds the
participants two of whose processes did the same thing at once (the order of
their messages is then nobody's to promise), `lost` those that were stopped
after the cursor was saved and before the messages were returned. `InOrder`
and `AllDelivered` speak of the others, `NeverTwice` of every participant not
in `raced`, and `NoneLeftBehind` of every sender not in it: one look at the folder
takes all that can be handed over, whatever the clocks did, because `send` never
puts a time into a name that is before its last one.

In `SharedSend` the channel is the part of this that a single process for each
wallet sees: messages in order, each returned at most once, lost when the
process stops after the cursor is saved. Showing that one implements the other
is in the plan; `InOrder` and `NeverTwice`, both proved, are the two facts it
rests on.

### MarmotTransport

`mls[w]` is what `mls.json` holds, `state[w]` what `state.json` does, `proc[w]`
the operation a process of w is in the middle of. Every step ends with the one
thing a stop can come after: a file saved, an event published, a batch
returned.

| action | code |
|---|---|
| `SavePackage`, `PublishPackage` | `publish_key_package` |
| `Invite`, `SaveInvite`, `SendWelcome` | `invite` |
| `Accept`, `SaveAccept` | `accept` |
| `Send`, `SaveSend`, `Publish` | `send` |
| `Poll`, `SavePoll`, `Return` | `receive` and `poll` |
| `Arrive` | from now on a query of the relays returns an event |
| `Stop` | the process is stopped, or a file or every relay fails |

MLS is abstracted to what decides whether a message decrypts: the group is
held, and the generation of the sender's ratchet was not used before. The MLS
library accepts generations out of order; that is how the test
`tests/marmot_local.rs` and the code use it. Whether accepting a welcome uses
up the key package is left open. `invite` takes the newest package and
`accept` the newest welcome of those the relays return; which those are is not
known, so the model lets them be any. One process at a time works on a wallet
folder. `upset` holds the senders whose order nobody can promise: one of their
messages was returned by the relays after a later one had been handled, or
their clock went back between two messages (the sort key of `poll` is the time
first). `lost` are messages of a batch whose hand over was stopped.

### SpScan

| variable | in the program |
|---|---|
| `outputs` | `kiss_sp_outputs`, the height of every output found; height 0 is `UNCONFIRMED` |
| `watermark` | `kiss_sp_watermark`, with the hash, without one, or absent |
| `scan` | memory of a running `sp-scan`: height, last height, block, matches not stored yet, hash |
| `look`, `balance` | memory of a running `sp-scan --tx` and `sp-balance` between asking and writing |
| `chain`, `indexed` | what Esplora serves and what the tweak server has searched |
| `left` | the branches Esplora served before |
| `searched` | history: the hash of the block that was searched at a height |
| `strayed` | history: the tables were written while the chain had left what was searched, and nothing was searched since |
| `unseen` | history: what happened that a scan has no means to notice |
| `blocks`, `events` | bounds |

| action | code |
|---|---|
| `ScanFrom`, `ScanFirst`, `ScanOn`, `Rewind` | `resume_from`: `--from`, never scanned, the hash agrees or is unknown, the hash differs |
| `BlockHash`, `SearchBlock`, `BlockMissing`, `StoreBlock` | the loop of `sp_scan` (BlindBit) |
| `Stream`, `StoreConfirmed`, `NotConfirmed`, `HashLast` | the callback of `sp_scan_electrum`, `confirm_on_chain` |
| `SetWatermark` | `set_watermark`, and the next height |
| `LookUp`, `StoreLook` | `sp_scan_tx` |
| `Missing`, `Forget` | `sp_balance` |
| `StopScan` | the process is stopped, or a backend fails |
| `Mine`, `Reorg`, `Index` | the network and the tweak server |

Keys, labels, tweaks and amounts are abstracted to the set of outputs that pay
this wallet. A payment is of one output, and whether Esplora has an unmined one
in its mempool is chosen when it is asked. A spent output is only reported by
`sp-balance`, so spending is left out. One `sp-scan` at a time runs on a wallet.
The start of a scan (the tweak server's height, the watermark, the hash of its
block) is one step; the chain moves before and after it.

`Reorg` replaces the blocks from a fork on by a longer branch, of the chain or of
any branch it left: a block that was replaced may come back with the hash it
had. `Rewind` is what `resume_from` does and no more: `forget_from` drops rows,
and the watermark stays. So does `searched`, which is cut back by
`SetWatermark` alone, as the watermark is: a row that was dropped below a
watermark which is not moved in the end counts as one that is missing.

The properties are conditional on `unseen`, because some things are beyond
what one recorded hash can tell, and the model names them rather than exclude
them: every reason is a behaviour of the model, and each property excepts
only the reasons for which it fails, but for `NothingStale` and `NoneMissed`,
which except them all. They are the limits listed in section 3.

### SpSelect and SpSpend

`SpSelect` has `needed` and `select` with the weights of `spspend.rs`, and what
BDK then charges for the same coins: it prices each input on its own, rounded
up, with one witness byte more. `SpSpend` is the way of a payment:

| variable | in the program |
|---|---|
| `paired`, `rows`, `known` | `kiss_sp_keys`, `kiss_sp_outputs`, BDK's unspent coins |
| `making` | memory of `create --from-sp` between choosing coins and building |
| `drafts`, `answers` | PSBT files of `create`, each with what it was asked for; PSBTs a device returned |
| `handed`, `net` | what `broadcast` gave to the network; what the network took |
| `mined`, `gone` | silent payments in a block; coins another wallet of the same keys spent |
| `events` | bound |

| action | code |
|---|---|
| `Pair`, `Find`, `See`, `Drop`, `Sync` | `sp-pair`; a scan; `sp-scan --tx`; `sp-balance` or a rewind; `sync` |
| `Prepare`, `CreateFromSp`, `CreateFails` | `create --from-sp`: `prepare_sp_spend`, then the PSBT or an error |
| `Create` | `create` from the BDK wallet |
| `Answer`, `WrongAnswer` | the device signs; a device that signs something else, or with other keys |
| `Broadcast` | `broadcast` with any PSBT file and any answer; `scan` makes the same check of the answer |
| `Arrive`, `Unmine`, `SpendElsewhere` | the network, another wallet |

A script is a value (the address, change, the stand-in for a code, none, the
one derived for the k-th output of a code), a signature names coin, key and
transaction, and a key and the code it belongs to go by the name of their
device. BDK's choice of ordinary coins is any choice that covers the payment.

Simplifications a reader should know of:

- `Prepare` asks Esplora about all candidates in one step. A payment is in a
  block or the network does not know it, and what the network took stays.
- The order of the coins is fixed. The limits on the size and the fields of a
  PSBT are left out; a transaction of this model never reaches
  the limit on outputs.
- Codes that share a spend key and differ in the scan key are not modelled.
- One row of an earlier pairing ends every `create --from-sp` with an error
  (`checked` in `prepare_sp_spend`). That is a guard of `Prepare`;
  `RefusedOnlyWhenPoor` speaks of `select` alone.
- All coins of the BDK wallet belong to one device, because the wallet has one
  descriptor (`SpendAssumption`).
- When more worthwhile coins than the input limit would be needed, `select`
  refuses, although fewer and larger coins further down the list might do;
  `RefusedOnlyWhenPoor` excepts that case.
- `select` asks of each coin whether it is worth an input of its own, rounded
  up, and then prices all inputs together. A coin that is worth exactly what
  its input costs on its own can cost a sat less beside others, so `select` may
  refuse a payment that such coins would just cover. `RefusedOnlyWhenPoor`
  allows one sat for each of them; without that it is false (coins of 58, 300
  and 299 sats, 400 sats to pay at 1 sat/vB), which came out when it was to be
  proved.

## 3. The runs

| run | bounds | asks |
|---|---|---|
| `shared_stops` | 2 wallets, 2 coins each, partial answers, 2 stops anywhere, blocks | Are the files consistent across stops? Is nothing signed before all shares are there, nothing paid without every signature, nothing taken back? |
| `shared_again` | both wallets start, one joins, 2 coins each spent one at a time, 2 halves a wallet, 1 stop, 1 send given up | What of an old send can reach a later one? Is `Sound` an invariant, and is `SharedPayment` implemented? |
| `shared_three` | 3 wallets, two of which join, 2 amounts of which one wallet can only fund the smaller | Do two takers of one proposal agree on what was paid? |
| `shared_live` | 2 wallets, 2 stops, none while messages are handed over, no blocks | Does every send end? |
| `files` | 2 wallets, 1 coin each, 3 processes of which two are on one folder, 2 halves a wallet, 1 stop, 1 overlap, 1 deleted file | Is what the other wallet has to hear owed or written? Is a half signed into one transaction, and nothing paid that was not signed for? |
| `folder` | 2 participants, 3 processes of which two have one name, 3 messages, 2 clock readings, 1 stop | Does the folder deliver in order, once, in the end everything, and at each look all it can? |
| `marmot` | 2 wallets, 1 key package, 2 groups, 3 messages, 2 clock readings, 2 stops | Is no key used twice, can every invitation be taken, is every message returned once and in order? |
| `spend` | 3 silent payments of two devices, one worth less than it costs, 1 ordinary coin, 3 kinds of payment at 1 and 2 sat/vB, input limit 2, 1 PSBT, 1 fault of a device, 1 event | Is what is broadcast what was asked for and signed by its owner, are chosen coins enough and refusals right, can a PSBT always be paid? |
| `scan` | 1 payment, a chain of 1 block that grows to 3, 4 more blocks, `MAX_REORG_DEPTH` 1, `--from 2`, 2 stops or other commands, 1 thing unnoticed | Does the watermark answer for what is below it, is what a searched block pays stored, and, when nothing went unnoticed, is no payment missed and no row stale? |

A shared send has at most three visits and six messages, and a run of it
between two stops passes through every branch of `step`, so two stops show a
stop in a command that is itself a repetition. Two coins are the smallest
number for which an answer can be partial, two halves the smallest for which a
wallet can mix up two sends, three wallets the smallest for which a proposal
has two takers. Session ids and coins differ by construction, so more of them
only repeat what these instances have. In the folder two messages are the
smallest number with an order, two clock readings the smallest with a clock
that goes backwards, two processes of one name the smallest that can collide.

For Marmot two groups are what an invitation that is stopped and repeated
makes, two stops the number for both wallets to be stopped or for one to be
stopped in the repetition. For the scan a reorganisation of one block with
`MAX_REORG_DEPTH` 1 goes back as far as a rewind does and no further, and four
more blocks are the fewest after which the chain can be back on a branch it left,
each time by a longer one. `--from 2` may leave out a block or search one again.
Two events are two stops, or a stop beside `sp-scan --tx` or `sp-balance`. One
payment is enough because rows do not depend on each other. A reorganisation
deeper than `MAX_REORG_DEPTH` below the watermark needs a longer chain than this;
the same properties were checked with `StartHeight` 3, `MaxHeight` 4 and
`MaxEvents` 1, which has one (2.2 million states), and hold.

In `files` two halves let a wallet confuse two sends, and two processes on the
folder of one wallet are the smallest number that can replace each other's
file; the two are interchangeable, so the run uses them as a symmetry set. For
`spend` the amounts are chosen at the boundaries: the second coin is one sat
too small for the payment, the third exactly enough, both together leave
change, and the first costs more than it is worth. Two codes of one payment are
equal when a wallet pays itself, which one of the payments does. One event and
one fault are enough because a payment passes through five commands and each
can come between any two of them; the two together are in the run.

The bounds are the constants `MaxHalves`, `MaxStops`, `MaxGivenUp` and
`SignerTries` of `SharedSend`, `MaxHalves`, `MaxStops`, `MaxOverlaps` and
`MaxGivenUp` of `SharedFiles`, `MaxDrafts`, `MaxFaults` and `MaxEvents` of
`SpSpend`, `MaxSends` and `MaxStops` of
`DirTransport`, `MaxPackages`, `MaxGroups`, `MaxSends` and `MaxStops` of
`MarmotTransport`, and `MaxHeight`, `MaxBlocks`, `MaxEvents` and `MaxUnseen` of
`SpScan`. Only `SignerTries` (`SIGNER_TRIES`), `SendAttempts`
(`SEND_ATTEMPTS`), `MaxReorgDepth` (`MAX_REORG_DEPTH`, 20) and `MaxInputs`
(`KISS_MAX_INPUTS`, 16) are in the code; the runs use smaller values where the
number of repetitions makes no difference.

Deadlock is not checked in any run: a shared send ends, and a wallet that
waits for a message nobody owes it waits for good; channels and chains have
nothing left to do when their bounds are reached, and file commands wait for
people.

### Where the code and its documents differ

Three runs state what a document or a comment says and find it violated. None
of them moves money without consent; that is proved (section 4).

| run | said | found |
|---|---|---|
| `shared_lost` | `docs/marmot.md:126-128`: a lost message is recovered because the shared send resends its full state; `src/sharedflow.rs:12-14`: a command that is stopped at any point picks up where it was | state is resent only when there is something new. A stop between the return of the channel and the save of the inbox loses the message, and both wallets wait for good. |
| `scan_reorg` | `src/main.rs:875-876`: the hash lets the next scan tell a resumed chain from a reorganised one; `src/spstore.rs:227`: the hash is what makes resuming safe | when the chain is reorganised below a running scan, the watermark gets a hash of the new branch, and blocks searched on the old one count as searched from then on |
| `scan_rewind` | `src/main.rs:1086-1087`: re-scanning restores the outputs that are still on the chain; `src/spstore.rs:263-264`: a re-scan of those blocks is what settles where they sit | `forget_from` is committed before the re-scan, and the watermark keeps its height and hash until the first block of it is done. When the scan ends in between and the branch with that hash comes back, the next one goes on at the watermark, and what was dropped below it is not searched again. |

More limits show in the models. `shared_live` excludes the first two by its
constants rather than claim them away:

- A command stopped after it broadcast and before it saved broadcasts again
  when it is run again (`src/sharedflow.rs:325-337`). Once the transaction is
  in a block a network that refuses it for that ends every further run, and
  the session stays Active. `shared_live` has no blocks
  (`BlocksFound = FALSE`).
- A proposal the wallet cannot fund stays in its inbox and is the first thing
  the next `shared join` takes up, which ends it again
  (`src/sharedflow.rs:467`), also when a proposal it could fund waits in the
  channel. In `shared_live` every wallet has the coins, so nothing is shown for
  this case. `shared_three` has a wallet that can fund only one of the two
  amounts, and checks safety alone.
- A session that is Done is retired with the news of it still in its outbox,
  when the command was stopped in between, and the news is never sent
  (`src/sharedflow.rs:232`). The other wallet finds out by broadcasting itself.
- Two file commands at once on one wallet folder can have a half signed into
  two transactions: each works on its own copy of the session, and the file
  does not lock. `SignedOnce` excepts wallets to whom this happened, and fails
  without that. No coin is paid twice by it, and nothing without all
  signatures; that is proved (`HandPaidWhenSigned`).

The channels and the scan have limits of the same kind. `folder`, `marmot` and
`scan` cover them and their properties except them by name:

- Two processes that send under one name at different times both create a file
  with the same number, because the name holds the time too
  (`src/dirtransport.rs:162`), where `src/dirtransport.rs:38-39` says that the
  loser of the race takes the next number. Receivers take the first and pass over
  the second for good. The properties of `DirTransport` except such wallets
  (`raced`).
- Marmot messages are sorted within one poll and handed over whatever their
  number; one that the relays return late comes after newer ones, where
  `src/transport.rs:15-16` says that delivery is in order per sender.
- A batch of Marmot messages whose hand over is stopped is lost whole
  (`src/marmot.rs:1508-1513`; `docs/marmot.md` says one message).
- `accept` stopped between its two files holds a group that `state.json` does
  not name; if the key package is used up, no later `accept` can open the
  welcome. `invite` stopped before the welcome is out leaves the wallet in a
  group nobody was invited to. In both cases the folder has to be removed.
- A reorganisation deeper than `MAX_REORG_DEPTH`, a `--from` that skips the
  comparison, an Esplora that does not answer it, and a tweak server that is
  still on a branch the chain has left: blocks count as searched that were not.
- Rows above the watermark, from `sp-scan --tx` or from a scan stopped between
  `put_found` and `set_watermark`, are kept when their block is replaced: the
  hash at the watermark still agrees, so nothing is dropped.
- The same happens to what an interrupted rewind dropped without the old branch
  coming back, when the next scan does not compare the hash: with a `--from`
  above it, or when Esplora does not answer (`above` in `Reasons`).
  `FoundIsStored` excepts both and the case of `scan_rewind` (`back`).
- `--from` may skip blocks above the watermark, which then count as searched
  (`gap`); `NoneMissed` excepts it, the other properties do not speak of them.
- `sp-pair` between two scans replaces the keys and keeps the watermark: blocks
  below it are not searched for the new keys. `SpScan` has one set of keys, so
  this is not modelled; what becomes of the coins found is in `SpSpend`.
- `sp-scan --tx` whose status request fails stores a confirmed output as
  unconfirmed (`src/main.rs:697-701`), and no later scan visits it below the
  watermark. `sp-balance` may forget a row that was mined and stored between
  its question and its write.

### Fairness

`SharedSend!FairSpec` assumes, for each wallet, weak fairness of `Work` (a
running command continues its loop: `drive` has no other exit; the signer in
the end gives the whole answer, the network in the end takes a transaction it
would take) and of `Rerun` (a user whose send is not finished runs the same
command again, which the documents give as the way to resume). Stops,
refusals and giving up are never fair. Without `Rerun` a stop would end every
send, without `Work` the loop would not loop.

`DirTransport!FairSpec` assumes that the folder is synced in the end and that
a process completes an operation it began and keeps polling (`receive` looks
again every 100 ms). That a participant sends is not assumed.

`MarmotTransport!FairSpec` assumes the same: an operation that was begun goes
on, a wallet keeps polling (`receive` looks again every 700 ms), and the relays
return every message to a query in the end. `SpScan`, `SpSpend` and
`SharedFiles` have safety properties only and assume no fairness: what their
users do next is their own choice.

## 4. The proofs

`SharedSendProofs` proves, for any number of wallets, coins and deals, any
selection of coins and every value of the bounds:

| theorem | |
|---|---|
| `Soundness` | `Spec => []Sound` |
| `Typed` | `Spec => []TypeOK` |
| `SignaturesWait` | `Spec => []SignedOnlyWhenComplete` |
| `Consent` | `Spec => []PaidByConsent` |
| `DoneMeansPaid` | `Spec => []DoneIsBroadcast` |
| `ReadyPasses` | `Spec => []ReadyIsFinal` |

The lemmas about the operators are in `SharedSessionProofs`, where
`SharedFilesProofs` finds them too. Assumptions: the four named in the modules
(`NoSession` is not a session; the coin sets BDK may select are nonempty and of
one wallet; constants have their types). TLC evaluates all of them in the runs.

Argument. None of the properties is inductive: `PaidByConsent` speaks of what
signers gave, but a wallet broadcasts because of what its PSBT carries, and
that came over a channel from another wallet's file. `Sound` closes the gap:
*wherever* a PSBT is, in a session file, an outbox, an inbox, the memory of a
command or the channel, each share and each signature in it was given by a
signer for exactly the transaction of that PSBT, the script is there only when
the shares are complete, signatures only when the script is, and an open
proposal carries none of them; a message or a session that says Done names a
transaction the network took; a command that has broadcast still holds the
session it broadcast. The lemmas follow the code's layers: `absorb`, `join`
and `adopt_join` keep a PSBT sound (`AbsorbedSound`, `JoinedSound`,
`AdoptedSound`), so the operations of `Session` keep a session sound
(`ReceivedSound`, `RespondedSound`, `FinishedSound`), so every kind of step
keeps `Sound` (`UserSteps` to `BlockSound`, joined in `NextSound`).

`SharedPaymentProofs` goes on from `Sound`, under the same assumptions:

| theorem | |
|---|---|
| `HalfSignedOnce` | `Spec => []OneTxPerHalf` |
| `OneOutcome` | `Spec => []SameOutcome` |
| `SessionsOnlyGrow` | `Spec => NothingTakenBack` |
| `RecordsStay` | `Spec => RecordsKept` |
| `PaymentImplemented` | `Spec => ImplementsPayment` |
| `NeverJoinedAgain` | `Spec => []NeverRejoined` |
| `TurnsAlternate` | `Spec => []OneTurnAtATime` |
| `SomeoneIsNext` | `Reliable /\ Spec => []SomeoneActs` |

Argument. `Sound` says what one PSBT may hold; these properties compare PSBTs of
different wallets and of different times. The module first reduces the actions
of `SharedSend` to the few things a step can do to a session file (start one,
join, take a message in, answer, finish, delete) and to what is carried between
wallets, and shows of each action that it does one of them. `HalvesInv` adds to
`Sound`:

- `KnownBy(B)` for some set B of halves: every half in a session file, message,
  record, share or signature is in B; those in B were built by their owner's BDK
  wallet, from coins it may select, no two with one number; a transaction has at
  most one half of each wallet; and a send is named by one of its halves. There
  is no variable for the halves built so far, so the invariant says that there is
  a B, and a step that builds a half adds it to B.
- `SharesBound`: while the owner of a half has a session about it, shares on its
  coins are for the transaction of that session, which is past Proposed.
- `SharedOnce`: two shares for coins of one half are for one transaction.

A wallet's signer signs its own half only, and for the transaction of its session
file; by `SharesBound` that is the one which earlier shares on the half are for,
so `SharedOnce` is kept. `SharesBound` is kept because a session past Proposed
never changes its transaction, and a new session is about a half that is not in B
yet. Signatures follow shares, so `OneTxPerHalf` and `SameOutcome` are
consequences, and the mapping `Payment` takes every step of `SharedSend` to a
`Visit`, `Pay` or `Learn` of `SharedPayment` or to a stutter.

`NeverRejoined` needs the order of the channel as well. What a wallet has not
taken in (its inbox, the batch in the memory of its command, the channel) is one
queue, from which messages can be lost but in which none overtakes another
(`Thinned`). The proposal of a send goes out before its proposer gives a share
(`Proposing`), so no proposal is behind something that has shares on the
proposer's half: a message (`InTurn`), the session of the wallet (`HeldFirst`) or
a record of an ended send (`KeptLast`). A session ends with every share on its
transaction (`DoneComplete`), so after the record of a send no proposal that would
rejoin it can come. `OrderInv` is the conjunction.

`OneTurnAtATime` compares two session files, but a wallet gets the turn from a
message, which may be old, repeated, or an answer to another joiner. `TurnsInv`
says what every pair of holders of one transaction has in common (`InTurns`):
one of them is `Whole`, that is, holds everything that was shared and signed in
the transaction, and if one has the turn, both are and the other has handed
over. Messages under way are included as what they would give to a holder
(`Noted`): one that is not whole has no news for anyone, so that taking it in
gives nobody the turn. A session that just joined is the case with nothing
given or sent in its transaction yet. The invariant was checked by
TLC on `shared_stops`, `shared_again` and `shared_three` before it was proved.

`SomeoneIsNext` has a hypothesis besides the assumptions. `Reliable` says of the
constants that no command is stopped between the return of the channel and the
save of the inbox (`~StopInHandOver`), that no send is given up (`MaxGivenUp =
0`) and that a signer gives all it can at each visit (`~PartialSigners`). It is
what `shared_live` sets; without any of the three TLC finds it violated (answers
in part need a wallet with two coins), and the first is the code's flaw that
`shared_lost` shows. Wallets, sends, stops and blocks are not limited. `RestInv`
adds to `TurnsInv` and `OrderInv`:

- `Delivered`: what a wallet had when it handed the turn over is with its
  partner, or in a message to it that is in the inbox, in the memory of the
  command, in the channel or not yet sent from the outbox (`Coming`). A visit
  puts it there, a step that takes the message in makes its partner have it
  (`UpdateArrives`), and no other step loses it. That needs `Paced`, for a
  command which counts a message as sent that was not would lose it.
- `Differ`: of two partners that handed over, one has something the other has
  not, because the last visit made it. So when nothing is on its way, not both
  have handed over.
- `PairedFiles`: a wallet that began a send is in it with at most one other,
  which holds the same transaction or has a record that the send ended
  (`Spoke`), and a wallet that joined is in it with the one that began it. And
  who has the turn can use it (`UsesTurn`): its own signatures are missing or
  none are. The last follows from `AllSigned` and `SigsHeld`, that a signer
  signs every coin of its wallet or none and that the wallet keeps what it got.
- `DoneFull` and `NoReturn`: a session that is Done has all signatures, and a
  send that ended is not begun again. `Told` says what messages must tell for
  all of this to be kept.

At rest, then, one of two partners has not handed over. If it has not signed, it
has its signer to visit; if it has, the transaction is complete and it can
broadcast, or it is Done and the other, which is `Whole`, can. `Delivered` and
`Differ` were checked by TLC on the constants of `shared_again` and
`shared_stops`, restricted to `Reliable`, before they were proved.

`MarmotProofs` proves of the Marmot channel, for any number of wallets, key
packages, groups, messages and stops, and any readings of the clock:

| theorem | |
|---|---|
| `MarmotTypeCorrect` | `Spec => []MarmotTyped` |
| `KeysUsedOnce` | `Spec => []KeyUsedOnce` |
| `GroupsHeld` | `Spec => []GroupIsHeld` |
| `WelcomesOpen` | `Spec => []InvitesOpen` |
| `OnceEach` | `Spec => []ReturnedOnce` |
| `SentOrder` | `Spec => []InOrder` |

Assumptions: readings of the clock are natural numbers; the bounds are not
used. Argument. `KeyUsedOnce` speaks of messages that are out, but the key is
chosen two steps earlier. The invariant `IInv` adds that `mls.json` is past
every key that was ever used, on the relays or by the message `send` holds
(`RatchetIsPast`), which is true because the ratchet is saved first; that the
key of a message under way differs from every one out; and that an invitation
or acceptance under way has its group in `mls.json` (`HeldBefore`), which is why
`state.json` never names a group whose keys are missing. `StepKeeps` shows
once that a step which replaces one wallet's files and memory by ones that
agree (`Fits`) keeps `IInv`; each action but two is then shown to be such a
step. `Publish` and `Arrive` change what the relays hold and are proved alone.

`InvitesOpen` relates a welcome on the relays to two files of two wallets, and
what makes it true was saved earlier: `OpenInv` adds that a published key
package can be opened or its wallet is in a group, and what an invitation or an
acceptance that is under way relies on (`UnderWay`). `ReturnedOnce` and `InOrder`
follow a message through three places. `SentInv` says that the number, the
counter and the time of a sender's messages rise together, unless its clock
went back, and that the message `send` holds is newer than all of them;
`HandledInv` that a message is handled after the earlier ones of its sender that
the relays had returned; `ReturnedInv` that the batch under way is sorted, has
nothing that was returned or lost before, and comes after all that was
returned. So sorting one batch by second and counter puts all batches in order.
`InOrder` is stated over pairs of positions in what was returned and not over the
sequence filtered by sender, since `SelectSeq` is recursive.

`SpScanProofs` proves of the scan and its store, for any payments, length of the
chain, depth of reorganisations and `--from`:

| theorem | |
|---|---|
| `ScanTypeCorrect` | `Spec => []ScanTyped` |
| `NoRowIsLeftOver` | `Spec => []NothingStale` |
| `WatermarkAnswers` | `Spec => []WatermarkTells` |
| `FoundStaysStored` | `Spec => []FoundIsStored` |
| `NoPaymentIsMissed` | `Spec => []NoneMissed` |

Assumptions: `ScanAssumption` (heights and bounds are numbers). Argument. What
the wallet holds are heights and hashes of blocks that the chain may have
replaced since, so nothing can be said of a block without saying which chain it
was on. `Good` states that once for every block held anywhere, on the tweak
server, in a running scan or as the hash in the watermark: it was at its height
once, and if the hash at that height is still the same, so is the block
(`Known`). Since branches come back, this is said of every branch the chain is on
or was on, and `LeftGood` adds what relates branches: two that have the same hash
at a height are the same up to there (`Joined`). What the proofs use of a new
block or a reorganisation is that the chain gets longer and, up to any block that
was found before, is a branch it has been on (`Turned`), and that each reason of
`unseen` that applies is noted (`Noticed`).

Each property then has an invariant of its own over `Good`, with the reasons
that are excepted in front. `OnChain` and `HashRight`: the block a scan has read
and the hash it holds are those of its height. `RowsRight`: a row is of the block
the chain has, or the next scan will notice that the watermark moved and drop it;
and, while the tables were not written astray, the same on every branch that has
the watermark's block, for any of them may come back. `Tells`: every branch that
has the watermark's block has every block searched, and those a scan has passed and
those deeper than a rewind goes are still there. `StoredInv`: what a searched
block pays is in the table where the watermark, a running scan or the depth of the
rewind answers for the height (`SearchedFull`), also on a branch that was left
(`OnAnyBranch`), which is what an interrupted rewind breaks and `strayed` records;
the block being searched shares no payment with one searched at another height
(`Apart`); and all it pays is stored that the scan does not hold as found
(`Sought`).

`FoundStaysStored` is about blocks that were searched and says nothing of one
that was skipped. `NoPaymentIsMissed` closes that: `Unbroken` states that the
heights searched have no gap up to the watermark unless `--from` made one, and
with `WatermarkTells` and `FoundIsStored` nothing between the first block searched
and the watermark is missing. It assumes that nothing happened that a scan has
no means to notice; section 3 says what is lost where that assumption fails.

`SharedFilesProofs` proves of the file commands, for any number of wallets,
coins, processes and files, and every value of the bounds:

| theorem | |
|---|---|
| `FilesStayGood` | `Spec => []IInv` |
| `HandPaidWhenSigned` | `Spec => []PaidWhenSigned` |
| `OwedOrWritten` | `Spec => []NothingOwedIsLost` |
| `CommandsKeepTypes` | `Spec => []CommandsTyped` |
| `HandSignedOnce` | `Spec => []SignedOnce` |

Assumptions: those of `SharedSession`, and `FilesAssumption`. Argument. The
properties speak of session files, but a session file is replaced by what a
command has in memory, and that is older than the file if another command was
quicker. `IInv` therefore asks the same of both: a session is `Good` when it is
sound, as in `SharedSend`, and what it has to tell is in its own outbox or in a
message file (`Told`). Then it does not matter which of two commands is the
last to save. Both parts only become easier to satisfy when files are written,
answers given or transactions paid (`GoodMono`), so a step that adds to the
world keeps every session good (`Grown`), and a step that replaces one session
or one command has to be looked at alone (`StepKeeps`). A file is a sequence of
messages, and `Receive` applies them in turn: that each session on the way is
good is an induction up to the length of the file, done with sets (`UpTo`,
`StepsExist`, `StepsIn`), because the provers cannot instantiate an induction
over operators.

`SignedOnce` speaks of what signers did in the past, and signers remember
nothing: it is the session that keeps to one transaction, and the session file
that keeps to one session. `HandInv` says for every wallet that is not in
`overlapped` that one command at most is under way, that what was ever shared
on a half of the wallet is in the one transaction of the session with that half,
in the file as in the memory of the command (`Bound`), and that the command
will not put another transaction in the place of the file's (`Follows`). With
that `SharedOnce` is kept as in `HalvesInv`, and signatures follow shares. Which
halves exist is a variable here (`made`), so no set of them has to be guessed.

`DirTransportProofs` proves of the folder, for any participants, processes,
messages and stops, any readings of the clocks and any order in which files
reach a copy of the folder:

| theorem | |
|---|---|
| `AlwaysFilesTyped` | `Spec => []FilesTyped` |
| `AlwaysInOrder` | `Spec => []InOrder` |
| `AlwaysNeverTwice` | `Spec => []NeverTwice` |

Assumptions: those of the module (`Participants` and clock readings are numbers,
every process has a name). Argument. Order in the folder is order of numbers,
and a process reads the numbers of one sender from its cursor on. `FolderInv`
says of every sender and receiver not in `raced` that a sender's files have
exactly the numbers of what it sent (`Numbered`) and that three runs of numbers
follow each other: what the receiver was handed, up to where a process of it
took over; what that process is about to return, up to the cursor; and what a
process that has not saved the cursor yet would go on with (`Passing`). A stop
in the hand over removes the run in the middle, so from then on the first run
is a subset only, and still in order: that is the difference between `InOrder`
and `NeverTwice`. That a batch is a run is shown by going through the
listing with the recursive function of `Pending`, for whatever order it has:
only a file with the next number is taken. The sort by time decides whether all
that arrived is taken, which is `NoneLeftBehind` and only model-checked.
Induction over the listing is done with sets (`UpTo`), as above.

`SpSpendProofs` proves of a payment, for any coins, amounts, rates, keys and
devices, and an input limit of at most 16:

| theorem | |
|---|---|
| `NeededIsEnough` | what `select` needs for up to 16 inputs is at least the amount and BDK's fee |
| `CoinsAreNeverShort` | `Spec => []NeverShort` |
| `RefusedWhenPoor` | `Spec => []RefusedOnlyWhenPoor` |
| `SpendTypeCorrect` | `Spec => []SpendTyped` |
| `AskedIsPaid` | `Spec => []PaidAsAsked` |
| `HandedIsSignedByOwner` | `Spec => []SignedByOwner` |
| `DraftsCanBePaid` | `Spec => []DraftCanBePaid` |

Assumptions: `SelectAssumption` and `SpendAssumption`; the rate is at least
1 sat/vB, the least that `create` accepts. Argument. `select` rounds once and BDK
rounds for every input and counts one weight unit more, so BDK's price grows
faster; the reserve of a change output in `OVERHEAD_WEIGHT` pays for the
difference. At 1 sat/vB it is used up soon after the 16th input, so the theorem
depends on `KISS_MAX_INPUTS` and would fail for a limit a few inputs higher.
`SignedByOwner` rests on the rows: a row holds what a scan stored and names the
key that a coin pays, `checked` compares that key with the pairing of the
moment, and only signatures by that key over this transaction count.

`PaidAsAsked` and `DraftCanBePaid` rest on what `create` writes. `SpendInv`
says of every PSBT file that its coins are of one kind and one device, within
the limit, that one output is the recipient's and any other is change, each
with its script or its code, and that the fee is BDK's plus at most what it
drops instead of making change (`AskedFor`); and that the BDK wallet knows its
coins that are left. The difficult part is who gets which stand-in:
`resolve_sp_outputs` goes through the codes paid, and when a wallet pays itself
both outputs have one stand-in, so the proof follows the claims in turn
(`ClaimsPlain`, `ClaimsWithChange`) to show that each output is claimed and by
its own code. What `broadcast` accepts then differs from the PSBT in derived
scripts only (`MatchesAnswers`), and two outputs of one code differ in their
place among them (`AnswerPays`). Conversely an answer of the device that owns
the coins passes all checks (`HonestMatches`, `HonestIsTaken`); this is a
statement about one state, without ENABLED.

`RefusedOnlyWhenPoor` compares any choice of coins with all worthwhile ones:
leaving out one of those loses at least a sat more than its input costs, adding
any other gains at most what its input costs, and rounding is within one sat
for each of the others (`NoOtherIsCheaper`). Sums and counts run down the list
together (`TotalSum`, `Counting`, `TotalAtLeast`, `TotalAtMost`).

`SharedSessionProofs` proves `NeverRefused`, what the comment at
`src/shared.rs:81-84` promises, for every amount, rate, number of coins and
change: `check_fee` never refuses two halves that were built at the rate. Each
half is `Fair`: it pays for its own coins and change and at least for 109 of
the 216 weight units both have in common, and at most for all of those, a
change output and the dust of one. The estimated weight is below the sum of the lower bounds,
also where the count of the inputs takes three bytes or five, because BDK
counts two weight units more for every input; and three times it and the slack
of 1000 sats are above the sum of the upper bounds. `SharesAddUp` says that the
shares are the amount and neither is dust. There is nothing to run here: no
state, no assumption on a constant.

Every invariant of a passing run is stated by a theorem, `SomeoneActs` under the
hypothesis above. `GroupsHeld` is proved and not in a run: it is a part of the
invariant the others rest on. The three properties that are found violated are
false. Liveness under fairness and ENABLED are out of the prover's reach and stay
with TLC: `EverySendEnds`, `AllDelivered` and `AtLeastOnce`. Of the action
properties `NoneLeftBehind` is only model-checked.

## 5. The plan

What is left, the most important behaviour first:

1. `Transport`: the trait as an abstract specification, implemented by
   `DirTransport` and, as far as its order goes, by `MarmotTransport`; and the
   shared send over a channel that may reorder.
2. File commands beside a loop on one folder: `SharedSend` and `SharedFiles`
   over one session file.
3. `SpScan`: that a payment is found in the end, and two scans at once; and the
   scan composed with `SpSpend`, which now sees rows come and go.
4. `QrParts`: the decoder of multi part QR codes.

## 6. Not modelled

- *QR codes, cameras, windows* (`qr.rs`, `k_quirc.rs`): images and devices. What
  they hand over is an answer, which the models let be any.
- *Encodings and curve arithmetic* (`sp.rs`, `spreceive.rs`, `dleq.rs`, parsing
  in `lib.rs` and `spsend.rs`): functions without state. A share, a proof or a
  signature in the models is one that verifies.
- *The tweak servers' wire formats* (`electrum.rs`, `blindbit.rs`): lines, JSON
  and HTTP. What their answers mean for a scan is in `SpScan`.
- *init, receive, balance, faucet, inspect, status*: they show or store what no
  other operation of the models reads.
