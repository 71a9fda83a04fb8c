# Verification of ebigentserver

TLA+ models of the core of the repository: what keeps a networked match
consistent while datagrams are lost and reordered, connections come and go, and
controllers misbehave; and what keeps the episodes it records, and the behaviour
distilled from them, in order while processes stop and overtake one another. TLC checks each model on a small instance, TLAPS proves the
central invariants for every value of the constants. Every definition is
translated from the Go source; `PROJECT.json` gives the lines ("map").

## 1. The system

A *session* owns the world of a match. Controllers (people, bots, peers over a
link) sit in slots; a loop collects their actions, applies the legal ones in slot
order and commits a tick. After each tick the session calls `Broadcast`: the
server encodes the world for every peer, and the peer's ack layer numbers the
datagram. The client puts the worlds together again, answers with inputs, and the
server's peer loop submits those to the slot's inbox.

| part | state | operations | hard because | correct when |
|---|---|---|---|---|
| `transport/seqack` | next number, in-flight table, receipt record, delivered number, confirmed tag, dirty flag | SendDatagram, Absorb, MaybeFlushAck, Confirmed | loss, reordering, wraparound, deadlines | acks only what was received, never delivers backwards |
| `statesync` Sender / Receiver | retained versions, confirmed and last sent tick, snapshot flag / retained versions | Confirm, Send, ResyncRequested / Apply | baselines that aged out or never arrived | shows only committed worlds, always finds the way back |
| `statesync` Hub, views | sender and channel per viewer, closed flag | Attach, Broadcast, RequestResync, Close | slow viewers lose packets their Sender counts as sent | the next packet decodes, readers end |
| `netplay` client | layer, receiver | Run | state decoded after it was acked | as above |
| `netplay` server, peers | peers, pending count, bucket, violations, gone flag | Admit, Broadcast, Peer.Run, depart, Close | goroutine per peer, sweep on the session's | ceiling held, loss reported once, rate bounded |
| `admission` | redeemed tickets | Verify, Accept, Join | concurrent handshakes | one ticket, one connection |
| `session` | lifecycle, world, tick, agents, rejections | OpenAdmission, Admit, Run, RunRealtime, drain, abort | cancellation and failure at every point of a tick | committed ticks only, one end for everyone |
| `session` inbox | queue, dropped count | Submit, takeNewest, takeAll | submitters on other goroutines | no input lost uncounted, none taken twice |
| `episode` | rows, the first write error | writer, reader, replay | what was recorded must be enough, wherever it stopped | replay commits the same worlds |
| `run` recordings | episode directories, the next index | ResumeIndex, OpenRecording, Close, Serve | directories reused, several processes, stops at any line | a complete log is one match's, finished episodes stay |
| `run` roster, match | seats, agents, inboxes, done | Sit, Leave, FillBots, Finalize, Start | checks and acts under separate locks | one occupant a seat |
| `run/lan` | roster, server, parked, admitted, closed | sit, ws, Serve, Rebind, endWith, Close | HTTP handlers against the wrapper's goroutine | nobody stays parked, links end with the match |
| `run/eb` | scene, match, host, guest | gather, Start, ended | - | - |
| `transport/framing` over `transport/pipe` | message id, partial messages / queue, inbox | Send, Absorb / SendReliable, Receive, Close | sends given up half-way, limits at both ends | whole messages, in order |
| `transport` adapters | queues of a socket | Send, Receive | I/O | - |
| `behavior` miner, validation | remaining records, the list | Propose, ValidateProposals, Evaluate | each rule counted on what the ones before left | the numbers are what the list plays |
| `behavior` library, `cli` merge, editor | one JSON file, a copy per process | Merge, Save, postChip | two writers, no lock, writes in two steps | approvals are a person's, decisions are kept |
| `signaltoken`, `discovery` | used tokens / beacons, both with expiry | Redeem / absorb, Sessions | boundary of the expiry | once only / no stale room |
| `codegen`, the rest of `cli`, `config`, `scaffold`, `analysis`, `budget`, `entity`, samples | none at run time, or pure | - | - | - |

## 2. The modules

| module | models | state and actions against the code |
|---|---|---|
| `SeqAck` | `seqack.go`, one layer | a layer is a record with the fields of `Layer`; `Frame`, `AfterSend`, `AfterFlush`, `Absorbed`, `Delivers` are its methods, each a function of the record |
| `SeqAckLink` | two layers over a link | `Send`, `MaybeFlushAck`, `Absorb` of either end, `Tick`; datagrams carry as history what the wire does not have (their number before wrapping) |
| `StateSync` | `statesync.go` | `Packet`/`AfterSending` are `Sender.Send`, `Confirm`, `ResyncRequested`; `Applied`/`ResyncNeeded` are `Receiver.Apply` |
| `StateStream` | a peer's send path, the link, the client's loop | `SendState` (`Peer.sendState`), `ClientTurn` (one turn of `Client.Run`: overtaken, resync or apply, then the ack policy), `ServerAbsorb`, `ServerResync` (`Peer.Run`) |
| `Replica` | abstract | what the stream promises: commits, and a view that jumps forward to some committed world |
| `Session` | `session.go`, `realtime.go`, `lifecycle.go` | `pc` is where the session's goroutine stands; `Top`, `Decide`, `TakeInputs`, `JudgeInput`, `Commit`, the drain steps; `Submit`, `Cancel` are other goroutines; `told[s]` (the calls of `OnSuspect`) and `weighed[s]` (the actions judged) are history |
| `EpisodeReplay` | `reader.go`, `replay.go`, the loops again | the record of a session that is over drives a second one: `stage` is where its loop stands, `left` the rows not handed out; `ReplayAnswer` is one recorded action judged again, `ReplaySilence` a slot whose rows have run out |
| `Netplay` | `handshake.go`, `ticket.go`, `server.go`, `peer.go` | `stage[c]` is where the goroutine of connection `c` stands; one action per critical section or received message |
| `Roster` | `roster.go` | a function from slots to occupants; each operator is one critical section |
| `LanHost` | `lan.go` with the wrapper's side of `eb.go`, `lobby.go`, `match.go` | `at` is where the window's goroutine stands, `stage[g]` where guest `g` or its handler stands; `holder[m]` is the roster of match `m`, `room` the one the offer fills; `FinalizeChecks`, `FinalizeSeats` and `FinalizeAgents` are the three locks `Roster.Finalize` takes, and `OwnSceneStarts` is a game's own gathering screen that calls it whenever it likes |
| `Hub` | `hub.go` with the viewers of `samples/pong/pong/client.go` | one action per operation of the hub (each holds its lock throughout); `ViewerTurn`, `ViewerEnds`, `ViewerLeaves` are the cases of a viewer's `select` |
| `Framing` | `framing.go` over the reliable half of `pipe.go` | `SendStarts`, `SendQueues`, `SendFails` cut `Framer.Send` at each frame; `PumpTakes`, `PumpDelivers`, `PumpEnds` are the pump; `ReaderWaits`, `ReaderEnds` the two selects of `Receive`; `Absorb` is one frame |
| `Chips` | `behavior.go`, `evaluate.go` | candidates, and which rule of a list answers a situation |
| `Mining` | `synthesize.go`, `exchange.go`, the tutorial's `Mine` | `MineRule` is one round of the covering miner, `Validate` one candidate of a proposals file, `ApproveClean` what `Mine` approves |
| `Library` | `merge.go`, `runMerge`, the behaviour editor | a file, and a copy of it in each process; `MergeReads`/`MergeOne`/`MergeEmpties`/`MergeFills` are the verb, `Click` and `EditorFills` one `postChip` |
| `Corpus` | `record.go`, `writer.go`, the match loops of `eb.go` and `serve.go` | `disk[i]` is an episode directory, a stream in it its last opener, the mode in its header and the ticks its rows name; `proc[p].phase` is where a process stands in the match it records: in a tick it takes any number of decision rows (`RecordDecision`), commits (`RecordWorld`) and makes a checkpoint if the match's `Canonical` and `CheckpointEvery` ask for one (`RecordCheckpoint`) |
| `StateStreamProofs`, `NetplayProofs`, `LanHostProofs`, `SessionProofs`, `FramingProofs`, `HubProofs`, `SeqAckLinkProofs` | | the theorems of the module each is named after |
| `BehaviourProofs` | | those of `Library`, `Mining` and `Corpus` |

`StateStream` composes `SeqAck` (twice) with `StateSync`. `EpisodeReplay` extends
`Session`, `LanHost` extends `Roster`, `Hub` extends `StateSync` and instantiates
`Replica` for each viewer, `Mining` and `Library` extend `Chips`. What happens inside `netplay`'s Admit is
the business of `Netplay`: for `LanHost` it succeeds or fails. `MC*` modules give the constants.

Data is abstracted to what the properties tell apart. A world of `StateStream` is
a function from fields to values and a delta the fields that differ, so that a
delta applied to the wrong baseline gives a world nobody committed. A world of
`Session` is the list of moves, so two worlds are equal only if every game
agrees. Sequence numbers keep their width: `SeqMod = 2 * HalfSeq` stands for
2^32, `AckBits` for 32. The retirement of in-flight entries by loss age is a cut
at any age the code could reach. Tickets are genuine; the signature is external,
and "the hello does not verify" is a choice.

## 3. The runs

| run | bounds | states, time (2 workers) | shows |
|---|---|---|---|
| `seqack_link` | 8 numbers, 2 ack bits, window 3, one end sends 9 frames (past the wrap), the other 2, drift at most 3 | 1.4 M, 100 s | acks, record and delivery across the wrap |
| `stream` | 6 ticks, history 3, snapshot every 4, depth 2, all three modes, player and spectator | 3.4 M, 70 s | all stream properties, refinement of `Replica` |
| `session` | 2 slots, 3 actions, retry budget 1, inbox of 2 with 3 inputs, threshold 2, both loops, both policies | 4.2 M, 160 s | all session properties, termination, and the replay of every record |
| `netplay` | 3 connections for 2 places, 3 tickets, time 0..2 | 1.5 M, 150 s | admission, peers, departures |
| `netplay_takeover` | 2 connections, time 0..3 | violation | finding 1 |
| `lan_host` | 3 slots, 2 guests, 2 matches | 1.2 M, 45 s | seats, Finalize's three readings, parking, admission, end of a match, closing |
| `lan_park` | 2 slots, 1 guest, 1 match | violation | finding 2 |
| `hub` | 2 viewers, channels of 2, 5 ticks, history 3, snapshot every 3, depth 2, all three modes | 0.5 M, 40 s | overflow, resync, attaching late and after the end, refinement of `Replica` per viewer |
| `framing` | 3 messages of 1 to 6 chunks, 16-number words, queue of 2, inbox of 1, 2 pending, smaller limits at the receiver | 1.1 M, 80 s | reassembly, and liveness of whole sends |
| `mining` | all corpora of 4 records over 3 features and 2 actions, at most 2 rules | 5.1 M, 50 s | the numbers of a list, and of every subset of it |
| `library` | 2 rounds, 3 merges, 3 decisions, 3 features, 2 actions | 1.9 M, 20 s | approvals and decisions over an unlocked file |
| `corpus` | 1 window and a batch of 2, 2 directories, 3 matches: one tick and no `Canonical`, two ticks with a checkpoint every other, none; the first may lose rows | 14 M, 110 s | recordings stopped and reused |

Why the bounds are enough. Nine frames in a space of eight cross the wrap and
the half-space limit with the drift the window allows; two ack bits have a first,
a last and a beyond, so each off-by-one of the shift is within reach. Six ticks
with a history of three let a baseline age out while its ack is under way, and the
periodic snapshot at four come before and after it. An inbox of two overflows with
three inputs. Two slots give a partial tick its first and its second controller; a
budget of one gives a retry that succeeds and one that exhausts. Three connections
fight for two places with two of them presenting one ticket. Three slots leave
two guests room to race for the lowest seat, to miss it and to find the next, and
FillBots a seat to take from under them; the second match is where a handler of
the first one wakes up late. A channel of two overflows with five ticks in which a
viewer may take nothing, and a history of three is shorter than the gap. Messages
of one, two, three, five and six chunks are one that needs no place, some that fit
the receiver, some it refuses at the first frame and some it refuses part-way, and
two places are exhausted by three of them. Four records let a rule take
some from two later ones, with and without counterexamples. Three matches in
two directories reuse one that was stopped and one that was finished. Of them one has
no `Canonical`, one a checkpoint after its second tick and none after its first, and
one is stopped before its first tick. What these
runs find for their bounds is proved for all in section 4, but for what it lists as
only model-checked.

`MCSeqAckLink` uses a VIEW: receipts too old for the record and for any send
in flight are history that no step and no property of that run reads.

`CHECK_DEADLOCK FALSE` is set because every bounded system stops: the ticks,
frames or inputs run out, or the session has ended.

### Fairness

`Session`, `Netplay`, `LanHost`, `Hub` and `Framing` have some. `Session`: the session's goroutine runs
(`WF(Loop)`), and a controller whose context is cancelled answers
(`WF(stop /\ Decide)`), which `agent.go:29-30` requires; a controller that is
not cancelled may think for ever. `Netplay`: a handshake whose hello arrived goes
on, `Peer.Run` returns once its transport is closed, and the session goes on
broadcasting and visits each peer. `LanHost`: the goroutine that waits for the end
of a match (`endWith`, on a channel that is closed) wakes at some time after it.
`Hub`: a viewer's goroutine takes what its
channel holds and notices that it is closed. `Framing`: the pump and the receive
loop are goroutines that run; where `select` may also pick the closed case, fairness
does not decide for it. Nothing makes a client speak, send a hello, or
close, and nothing makes a sender go on with a message.

### Findings

1. `netplay_takeover`: a peer declared silent still reaches its seat's inbox.
2. `lan_park`: a connection whose handler saw no match is parked after Serve has
   taken the list, and waits through the match.

### Other divergences the models show

The models have these behaviours, and the properties are stated around them: each
says what the code does keep.

- `seqack.go:172`: an end that has received nothing reports number 0, so the peer's
  lost first datagram counts as confirmed (`Confirmed` promises the newest tag the
  peer is known to hold). `statesync.go:150-157`: in the bounded mode the tick of a
  delta the decoder refused becomes the confirmed baseline. Neither lasts: a delta
  that does not decode ends in a resync (`NoWedge`, proved).
- `seqack.go:211`: the deadline of a delayed ack starts again with each receipt, so a
  steady one-way flow postpones the ack (`seqack.go:48-49`).
- `session.go:451`: `abort` ends the agents without the final Observe that
  `agent.go:15-16` and `31-32` promise. `session.go:294`: a step that stops at its
  second controller shows, and evaluates, a world of no committed tick.
  `EndedOnFinalPosition` is what holds of the others.
- `verbs.go:169-170`, `merge.go:4-5` promise that a merge never silently overwrites an
  approved or rejected chip. It keeps those it read; a decision the editor saves
  between the verb's reading and its writing is overwritten, and the editor writes
  its old copy over merged chips. `DecisionsKept` holds until the first such step
  (`raced`).
- `distill.go:366-368`: "a rule the corpus contradicts even once stays out". A rule no
  record contradicted behind the ones before it is approved; once those that were
  contradicted stay out, it reaches their records and may contradict them.
  `SubsetKeepsCoverage` is what is true: it still plays all it claimed.
- `eb.go:135-140`: a launch is to number past what the corpus holds. `ResumeIndex` stops at the
  first gap, and is asked once: after an episode was deleted, or with a second
  process on the corpus, the window counts on into used directories.
  `FinishedStays` is stated for a window that was alone and found nothing above it.
- `record.go:151-153` promises that a lost row surfaces at Close; `eb.go:337` drops what
  Close reports, so a window's damaged episode is known to nobody (`damaged`).
- `session.go:110`: a nil Canonical "disables checkpoints and the world stream".
  `recordCommit` writes the world row before it looks at Canonical (l. 323-324), so
  only the checkpoints are disabled: a complete episode of such a game has its worlds.
  `RecordIsPrefix` has it that way.
- A sampled match that reuses the directory of a complete one leaves its `world.jsonl`
  there (`record.go:135`); the header of `decisions.jsonl` is what tells
  (`ReplayableIsOneMatch`).
- `hub.go:51`: a slot attached after Close gets a channel nobody closes;
  `ClosedViewersEnd` is about those Close found.
- `framing.go:145`: a message of one frame is returned before its size is looked at.
  `pipe.go:86-104`: frames still queued when their sender closes are lost, and
  `WholeSendsArrive` is stated for links that stay open.

## 4. What is proved

`StateStreamProofs` assumes `StreamAssumption` with the assumptions of `SeqAck`
and `StateSync`: any window and record size, any history depth and snapshot
interval, any worlds, any set of modes, and a run that does not reach half the
sequence space (`MaxTick < HalfSeq`; what the layer keeps across the wrap is proved
in `SeqAckLinkProofs`).
None of the properties is inductive alone. `IInv` has, part by part: the
sender retains exactly the last ticks (`SenderInv`); a packet on the link is what
the codec says of committed worlds, and a delta's baseline was retained when it
was sent (`DownInv`); what the client reconstructed it still holds, unless its
history is full of newer versions (`ReceiverInv`); the number of a datagram is its
tick less one and the layers' records agree with that (`SLayerInv`, `CLayerInv`,
`UpInv`); and in the confirmed-only mode the ack record never runs ahead of what
the client reconstructed, on any stage of its way to a baseline (`ConfirmInv`). The one hard step is that a packet chosen before a baseline aged
out is either decodable or older than what the client shows: `RetainHistory` and
`AppliedBaselineDecodes`. From `IInv`: `TypeCorrect`, `ReconstructionHolds`,
`RetentionSufficesHolds`, `ConfirmedOnlyDecodesHolds`, `ConfirmedOnlyIsHeldHolds`,
`InOrderDecodesHolds`, `NoWedgeHolds` (itself inductive on top of `IInv`) and
`StreamImplementsReplica`.

`NetplayProofs` assumes `NetplayAssumption`: any finite set of connections,
any tickets and budgets. `IInv` adds to the checked properties that `pending`
counts the connections between reservation and release, that a held ticket is
spent, that an abuser's transport is closed, what each stage says about the
lists, and the exact balance of the token bucket. Theorems: `TypeCorrect`,
`CapacityHeldHolds`, `TicketOnceHolds`, `BooksAgreeHolds`, `InputRateHolds`.

`LanHostProofs` assumes `LanAssumption` and `SlotsAssumption`: any finite set of
guests, any slots, any number of matches. `SeatsAreKept` comes first: no step
takes an occupied seat from its occupant. With it, `IInv` says what each goroutine
may rely on between two locks: a handler has granted nothing until it is through
and works on a roster that exists (`HandlersTell`); the window's goroutine fills a
slot it has picked, and when Finalize comes to copy the seats the roster it found
complete under an earlier lock still is (`WindowTells`); and a finalized roster is
full and stays what the match was made with, its agents those of bots (`Frozen`).
That is why three readings under three locks agree, whatever handlers do between
them. Nothing is assumed of who calls Finalize: the lobby looks first, a game's own
screen need not (`OwnSceneStarts`), and it is Finalize's own refusal
(`FinalizeChecks`, `ErrIncomplete`) that the proof rests on. Theorems:
`TypeCorrect`, `GrantIsHeldHolds`, `GuestsPlayHolds`, `ClosedHoldsNothingHolds`,
`SeatsAreKept`.

`SessionProofs` assumes `SessionAssumption` and, of the rule set, that the acting
slots are slots of the session (`RuleSetActsInSlots`): any game, any slots, any
capacity, any number of inputs. `IInv` adds to the checked properties where the
session's goroutine stands in each state of its life (`StageTells`) and, of every
slot, one chain: what was judged comes before what is held, what is held before
what is queued, all of it before the last submission, and in `IntakeAll` their
numbers and the drops add up to it (`SlotInOrder`). The chain is needed because a
submission lands at any moment between the taking of a batch and its last
judgement; that the queue is emptied whole is what keeps it. `SuspectedOnce` counts what the
host sees: `told[s]` are the calls of `OnSuspect` (a Config that sets none hears
nothing), and the refusals of a slot are what was judged and left no row in the
record, counted apart from the session's own `rejections`. `LadderTells` relates the
two: each judged action was refused or recorded in every loop and retry, the flag
stands exactly when the refusals reached the threshold, and a standing flag keeps the
host from hearing again. Theorems:
`TypeCorrect`, `EndedOnceHolds`, `EndedOnFinalPositionHolds`,
`SuspectedOnceHolds`, `InputsInOrderHolds`, `InputsAccountedHolds`.
Of a session and the replay of its record (`RecordedSpec`, whose steps are steps of
the session or leave it alone), `ReplayInv` has two parts more. `RecordTells`: the
rows are in the order of ticks and slots, each legal where it stands; the world each
tick opened with is the one after exactly the rows of the ticks before it (`CutAt`);
in step the rows of a tick are of the first of the slots that acted, and of all of
them if the tick was committed (`OfFirst`, `Passed`); in realtime a slot has no more
rows in a tick than are polled. `ReplayTells`: at a tick of the record, the replay
has handed out exactly the first k rows, stands in the world after them, and the
slots it has still to ask are those the left rows are of. So what it asks next is
what the record has next (`StepFindsNext`, `RealtimeFindsNext`): a session that
stopped half-way through a tick, refusals, and slots without input shift nothing.
Theorems: `RecordedInvariance`, `ReplayReproducesHolds`.

`FramingProofs` assumes `FramingAssumption`: any sizes, any number of messages below
the number of ids, and any limits at the two ends that fit the width the sizes are
counted in (`Limits` has int32 fields). `IInv` reads the inbox, the pump's hand and
the queue as one wire (`Wire`) that only moves forward: its frames are in the order
they were cut (`WireTells`), every chunk in a reassembly is of the message its id
names and was cut before all that is still on the wire (`Piece`), and as many chunks
are there as were counted. So a reassembly whose count is full is full, its last
chunk was queued, and nothing of its message is to come. `PlacesTell` follows each
message that is neither given up nor refused: of its chunks the first j are in and
their sizes add up to j times the chunk size, and every later one is on the wire or
still to be cut (`Begun`); or it is through (`Gone`); or every place is taken by an
earlier message (`Crowded`), and then it stays so until its frames have passed. The
sum never reaches the end of the word because it never exceeds the message, so no
admitted message is cut off half-way. Two such messages cannot both wait: what the
later one has had came after all of the earlier one's chunks. Theorems: `TypeCorrect`
(with it the bounds of the queues and of the table), `DeliveredWholeHolds`,
`DeliveredInOrderHolds`, `PlacesAccountedHolds`.

`HubProofs` assumes `HubAssumption` with those of `StateSync`: any viewers, any
channel depth, history and snapshot interval, any worlds and modes. `IInv` says that
every version and every packet is of committed worlds (`Typed`), and of each viewer
that what its channel holds is a chain, each packet made against the one before it
and the first against what the viewer shows (`Chained`), and that unless the hub owes
it a snapshot, the last packet the hub made for it is the end of that chain
(`Remembers`). A broadcast that finds the channel full breaks the chain, and is what
makes the hub owe the snapshot. Theorems: `TypeCorrect`, `NextPacketDecodesHolds`,
`ShowsLastOrOwedHolds`, and `HubImplementsReplicas`, the refinement of `Replica` for
each viewer.

`SeqAckLinkProofs` assumes `SeqAckAssumption` and `LinkAssumption`: any sequence
space, any bitfield below half of it, any window and policies, a drift below half a
round. Frames in time are then less than half a round from all they are compared
with, so a comparison of two numbers on the wire compares the frames themselves
(`NewerIsLater`), on either side of the wrap. `IInv` says what each end has in flight
(`SendTells`), that its record is that of the frames it received (`RecvTells`), that
what it handed up last is the newest (`HandTells`), and that each frame under way
carries such a record (`FrameTells`). Theorems: `TypeCorrect`, `RecordIsExactHolds`,
`DeliversFreshHolds`, `AckedWasReceivedHolds`, `AckedWasReceivedOfCareful`,
`ConfirmedWasReceived`. `AckedWasReceived` is not true of every instance: entries in
flight are retired when something is sent, not when an ack is flushed, so an end
that only flushes acks for a whole round uses the number of its old send again, and
an ack of the flush counts for the send. The theorem therefore has the hypothesis
`[]NumbersFresh` (no number comes round with its send in flight), and
`AckedWasReceivedOfCareful` is without it, for ends that number less than a round of
frames, or that flush no acks and have a window below a round: the code's window of
128 in a space of 2^32. The run is an instance of that theorem.

`BehaviourProofs` has three parts. Of `Library` it assumes `ChipsAssumption` and
`LibraryAssumption`: any rounds, any number of merges and decisions. `LibraryInv` relates
three copies: a writer that stands on the file's version has that file's decisions,
and as long as nobody overwrote a version it had not read, whoever writes next stands
on it. Theorems: `TypeCorrect`, `ApprovalIsHumanHolds`, `DecisionsKeptHolds`.
Of `Mining` it assumes `MiningAssumption`: any finite corpus, any vocabulary and
minimum coverage. `MiningInv` says which records each rule took: those its condition
holds in and no earlier one's does. Since conditions are distinct and taken records
stay taken, the numbers counted on the shrinking pool are those of the whole list
(`ClaimsHoldHolds`), and leaving rules out can only add records
(`SubsetKeepsCoverageHolds`). `RoundIsDistinctHolds` follows from a taken record
never matching twice.
Of `Corpus` it assumes `CorpusAssumption`: any finite set of windows, any indices,
matches, ticks and failing writes, any set of matches with a `Canonical` and any
`CheckpointEvery`. `CorpusInv` says of a directory that one process
has open how far it has got (`Progress`: its worlds are those of the ticks counted,
and while the checkpoint of the last one is to come only that one may be missing,
`AtPhase`), of every directory that a complete log is
sound, and of a window that is alone that everything above its index is free
(`SureAhead`). Theorems: `ReplayableIsOneMatchHolds`, `RecordIsPrefixHolds`,
`FinishedStaysHolds`, the last an action property.

Only model-checked: liveness (`HostReturns`, `LossIsReported`, `LinksEnd`,
`ClosedViewersEnd`, `WholeSendsArrive`), which the prover does not reach. Every
invariant and action property of the passing runs is a theorem.

## 5. Not modelled, and why

- `statesync` world views: a pure projection around a Sender.
- `transport/pipe`'s datagrams, faults and delays: the link of `SeqAckLink` loses and
  reorders more than they do. Wraparound of `framing`'s message ids with a stale
  reassembly in the table needs 2^32 messages and is outside its bound.
- `signaltoken`: a once-only table under one lock, the shape of admission's tickets
  (`TicketOnce`). `discovery`: beacons with a time to live around sockets.
- `admission/unauth.go`: a counter per address that no other part reads.
- The text of episode rows. `Corpus` has which rows there are, `Session` what
  decision rows hold, `EpisodeReplay` reads them back. The lifecycle and rejection
  rows of `events.jsonl` are left out; rows of one tick in one stream are one, as are
  the outcomes of all slots.
- Of `Roster.Finalize`, the drivers and inboxes it makes, and `Roster.AgentKinds`, a
  fourth reading `eb.go` takes for the episode's labels before it calls Finalize.
- `Mining`'s `approved` is what the tutorial's `Mine` hands on. No property names it:
  `SubsetKeepsCoverage` is about every set of approved rules, that one among them.
- `Roster.Leave`: `lan.go:371-372` calls it when a ticket cannot be signed; signing
  with the host's own key does not fail, so `LanHost` has no such step, and
  `SeatsAreKept` holds because of it.
- The wrapper's drawing, input devices, the choice of a room and a guest's own
  scenes; rooms' terms and the `/room` page.
- `ws`, `wt`, `rtc`: adapters over third-party sockets. The link of the models
  loses and reorders, which is the most any of them does.
- `matchloop`: one session after another on one goroutine.
- `observe`, `budget`: counters and a table. The connection gauge is in `Netplay`.
- `config`, `codegen` beyond Diff and Apply, `cli` beyond merge, `scaffold`,
  `importcheck`, `analysis`, `entity`, and of `behavior` curation, loadouts and the
  text of generated code: pure or offline, one process, no state that outlives a
  call.
- The rules of samples, examples and tutorials: the session's free rules stand for
  any of them. Most of the repository's lines are these, generated codecs,
  build-time tools and adapters; the models cover the parts that keep state.

## 6. Plan

Done, in the order in which it matters: the stream of worlds, the session, the
server's peers, the host and its roster; then the hub, framing, the corpus, mining
and the library; and the proofs of their safety properties.

Next: the match a guest is admitted into against the match its ticket is of, and
Close's wait for the peers' loops, in `LanHost`.
