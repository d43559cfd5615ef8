# Verification of the streaming test

This directory holds TLA+ models of the Testground plan `plans/streaming_test`: one streamer
publishes video segments over IPFS gossip and bitswap, the viewers fetch, buffer and play
them. TLC checks the models on small instances; TLAPS proves the theorems of the `*Proofs`
modules for every value of the constants. Paths below are relative to
`src/plans/streaming_test/src/`.

    tlc -config <run>.cfg <module>      # the runs of section 4
    tlapm <Module>Proofs.tla            # the proofs of section 6

## 1. The system

| Component | State | Operations | Talks to |
|---|---|---|---|
| `BlockExchange` (`ipfs/block_exchange.rs`) | a table of peers, a table of cids, the data of some cids, the want list as two parallel vectors of indices | `add_want`, `remove_want`, `remove_wants`, `add_block`, `get_block`, `iter_*`, `insertion_sort_wants` | called by the background service only |
| Bitswap handling (`background.rs`, `bitswap()`) | the exchange, `pending_send_block`, `max_concurrent_send` | ReceivedWant, ReceivedBlock, ReceivedCancel, `Command::BlockAdd` | peers, through the bitswap behaviour |
| `IpfsBackgroundService` (`background.rs`) | `cmd_rx`; five maps from a pending request to the sender of its reply | `command()` (8 commands), `event()` (swarm events), `run()` | libp2p; `IpfsClient` by an unbounded channel and a oneshot per call |
| `IpfsClient` (`client.rs`) | the sending end of the channel, cloned freely | one async method per command | roles, player, fetch tasks |
| `VideoStream` (`video_player.rs`) | `gossips`, `fetching`, the buffer as two deques, `current_segment`, `stopped`, `buffering` | `add_gossip`, `add_segment`, `play`, `advance_stream`, `run` | client; fetch tasks by `block_sender` |
| Roles (`roles/streamer.rs`, `roles/viewer.rs`, `main.rs`) | the addresses read so far; the streamer's segment counter | rendezvous, streaming loop, stop | Testground's barriers and topics |
| Block generation (`utils.rs`) | none | `generate_blocks`, `random_block` | streamer |
| `ComposedBehaviour`, libp2p, ipfs-bitswap, Testground SDK | external | | |
| `neutral.rs`, dashboard, manifest, container | not compiled, or configuration | | |

What makes it hard:

- **parallel tables of indices**: every method of `BlockExchange` must keep two vectors of
  indices, two tables and the data consistent through any sequence of calls;
- **slots given back by somebody else**: only a peer's cancel frees a send slot, one event
  starts at most one send, and one of the three handlers does not look at the limit;
- **replies across events**: a oneshot sender is parked in a map until a later event, while
  other calls for the same key may come; a dropped end of a channel is a panic (`expect`);
- **a receiver that goes first**: the stream of a topic can be dropped while the service
  still holds its sender;
- **fetches in any order**, against a buffer that must stay sorted, a timer that catches up
  on missed ticks, and a skip that overtakes fetches still running;
- **unsigned arithmetic** at the start of a stream;
- **barriers**: every node waits for every other four times;
- **loops that end on their own clocks**: the streamer's and each viewer's streaming loop end by a
  local timer, while messages and fetches are still under way and the other nodes still stream.

`PROJECT.json` lists each hazard at its line with the properties that cover it.

## 2. Modules

| Module | Models | Composes |
|---|---|---|
| `ParallelSort` | the stable sort of a vector by the keys of another, as a function | |
| `InsertionSort` | the loop the code sorts with, test by test (`insertion_sort_wants`, `add_segment`) | `ParallelSort` |
| `BlockExchange` | the struct, one operator per method | `ParallelSort` |
| `ExchangeCalls` | a struct under any sequence of calls, or calls in order | `BlockExchange` |
| `WantLedger` | abstract: an ordered want list and a set of blocks | refined by `ExchangeCalls` |
| `Bitswap` | the handlers of wants, blocks and cancels, at a viewer and at the streamer | `BlockExchange` |
| `BlockServer` | abstract: first come first served, bounded, never idle | refined by `Bitswap` |
| `IpfsService` | client methods, command queue, service, events, replies, panics | `Bitswap` |
| `VideoStream` | the player with its gossip, fetch tasks and timer | `ParallelSort` |
| `Rendezvous` | addresses, barriers and stop of the roles, with streaming as one step | |
| `Streamer` | the streaming loop of `roles/streamer.rs`, `generate_blocks` turn by turn, the queue to the streamer's service | |
| `StreamingNetwork` | a streamer and its viewers from the first address to the stop | `Rendezvous`, `Streamer` |

`MC*` modules only give TLC its model values. `ParallelSortProofs`, `InsertionSortProofs`,
`BlockExchangeProofs`, `ExchangeProofs`, `BitswapProofs`, `ServiceProofs`, `VideoStreamProofs` and
`NetworkProofs` hold the theorems. Operators named
as a mutant by their comment are faulty variants of the definition that follows them; no
specification uses them. They are kept to show, per property, a plausible bug it catches.

### Abstractions

- A block's bytes are the cid they hash to (`random_block` computes the cid from the bytes),
  so "wrong bytes under a cid" is `data # cid`. `get_block` gives the empty set or a singleton.
- Vectors count from 1, not 0. Methods are operators on the struct: they run inside one
  handler of one task, and nothing sees them half done.
- The loops that `remove(i)` from the back are `Pick`: what is left, in order. The insertion sort
  is `StableSort`; module `InsertionSort` runs the loop itself and shows that it ends with
  `StableSort`, ties and all.
- In `Bitswap` a peer is its wants, its blocks and its cancels, in any order. At the streamer
  a want is for a block it has (`generate_video` adds the blocks before it publishes their
  cids; that a message names only blocks already held is `AnnouncedIsHeld` of `Streamer`).
- In `IpfsService` a call is a number; a oneshot, a listener and a query are named by their
  call. libp2p chooses every result. A panic of the service drops the queue and every sender.
- In `VideoStream` a message is its segment number. The biased `select!` is the priority of
  guards, and a message or fetch counts as *here* when the loop reads it. Metrics are left out.
- In `Rendezvous` the sync service is a counter per state and, per subscriber, the messages
  published since it subscribed.
- In `Streamer` a block is its size and its cid the pair of segment and place (random bytes do not
  repeat). Time is only the number of ticks that fit before the sleep ends, and the sleep may end
  earlier. A segment is at least a byte: with less, `generate_blocks` wraps (section 5). gossipsub's
  `publish` succeeds or fails as it likes, whoever listens: on failure no message goes out, the error is
  only printed, and the segment is never announced.
- In `StreamingNetwork` a message is its place among those that went out; gossip brings it
  to a subscribed viewer at most once, in any order, at any time or never. What the viewer's player
  does with a fetched segment is `VideoStream`'s matter and left out here; what its bitswap does is `Bitswap`'s, so a fetch either ends or does not.

## 3. How the code maps to the actions

`PROJECT.json` ("map") gives the lines of every definition. In short: `ExchangeCalls` has one
action per method. `Bitswap` has one per event, each with the early return on the limit and
the dispatch loop that follows it in the handler (`DispatchIfFree`, `Dispatch`); the `sent`
variable is the `send_block` of the last event. `IpfsService` has one action per `Command`
variant with every result libp2p may give, one per event that changes state, `Call` for the
client's methods, `DropStream` and `DropClient` for what Rust drops. `VideoStream` has one per
branch of the loop; `Play` is the whole of `play()`, `StartFetch` and then one of the three
ways through `advance_stream()`. `Rendezvous` has one action per await of the roles.

`Streamer` has one action for each branch of the `select!` (`Tick`, `SleepEnds`), one per turn of
the loop of `generate_blocks`, one for the commands `generate_video` queues (`Announce`) and one per
command the service takes. `StreamingNetwork` runs it while the streamer's rendezvous step is
`streaming` (`Stream`), and a viewer's `VideoStream::run` while the viewer's is: `SubscribeTopic`,
`StartFetch`, `PlayerEnds`. `Message` is the `GossipsubEvent::Message` branch of the viewer's service and
`FetchEnds` the end of a fetch task; these two run on until the node is done, so they may come after
the loop ended. `Leave` is `FinishStreaming` of `Rendezvous` once the node's loop is over, and `Meet` is
everything else there.

## 4. Runs

| Run | Module | Shows |
|---|---|---|
| `exchange_any_order` | `MCExchangeCalls` | any calls in any order: indices in bounds, tables without duplicates, exactly which `add_block` breaks the pairing of cids and data, and that what `get_block` returns it goes on returning |
| `exchange_in_order` | `MCExchangeCalls` | a caller that adds a block only while no other cid waits for data sees the documented layout, finds who asked, and sees a `WantLedger` |
| `exchange_layout` (violation) | `MCExchangeCalls` | finding 1 |
| `exchange_who_wants` (violation) | `MCExchangeCalls` | finding 2 |
| `bitswap_viewer` | `MCBitswap` | the limit of open sends holds, no block is sent twice, and with no send open nothing sendable waits |
| `bitswap_streamer` | `MCBitswap` | the streamer implements `BlockServer`, sends what is wanted, and serves every want unless peers that left hold every slot |
| `service` | `MCIpfsService` | only the first subscriber of a topic gets messages; callers lose their sender only in the two DHT calls of section 5; a message panics the service only on the dropped stream of a subscriber to its topic; a `get_block` returns when its block comes and not before; publish and subscribe return |
| `service_late_gossip` (violation) | `MCIpfsService` | finding 3 |
| `player` | `VideoStream` | segments are conserved, the buffer stays sorted, `fetching` is right, playback goes back only for a segment whose fetch ended late, stops last a multiple of three ticks, a skip goes to mid buffer |
| `player_skip` (violation) | `VideoStream` | finding 4 |
| `insertion_sort` | `InsertionSort` | the loop terminates with the stable sort of both vectors |
| `network` | `MCStreamingNetwork` | no address missed, all dialled before streaming, all stop together; the blocks of a segment are the segment; what a playing viewer was told of can be fetched; and all stop, whatever gossip loses or brings late |

Bounds. The exchange has two peers, three cids and three wants: enough for a cid in front of,
between and behind the one that gets its data, for a duplicate want, and for wants of two peers
that interleave. `bitswap_viewer` has one slot fewer than wants, so a want waits while slots are
taken; `bitswap_streamer` has two slots for four possible wants, so one peer that leaves can hold some
or all of them, and `BlockServer`'s order is put to the test. The service
makes three calls: two that collide on a key (or a topic) and one more; one peer, cid and topic
make collisions the rule. With one cid the run cannot answer a `get_block` by another cid's block; that
half of `BlockAnswersItsGet` rests on its theorem, for any number of cids. The type invariants of
`Bitswap` and `IpfsService` are not run: they are proved (section 6). The player has five segments against a buffer of three, so the
far-behind skip occurs with and without wrapping, and eight ticks, so a stop of three ticks can
occur twice. `Modulus` is 64, far above every segment number, as 2^64 is. The sort takes every
sequence up to five keys in three values, so with ties. The network has a streamer and two
viewers: with two nodes, "all the others" and "one other" would be the same. It streams two segments,
so publishes can fail singly and messages be lost singly and overtake each other, of one to three bytes with blocks of two:
shorter than a block, as long as one, and one byte longer; `Modulus` is 8, above them.

Fairness. `bitswap_streamer` assumes that a peer that stays connected gets the block it is sent
and cancels its want, as bitswap peers do; a peer that leaves owes nothing. `service` assumes
that a queued command is eventually taken: `tokio::select!` without `biased` picks among the
ready branches at random, so events cannot starve commands for ever. `network` assumes that
each node, a process of its own, keeps running, that its streaming loop ends (a timer: weak fairness
of `SleepEnds` and `PlayerEnds`) and that a client's command is answered. Gossip and fetches owe
nothing: no message need arrive and no fetch need end for all to stop. The
sort loop is sequential code, with no other fairness than that it goes on. Deadlock checking is off where the system stops: after `sim_time`,
at the end of the sort, after the stop barrier, after the service returned or panicked with no
client left, and at a viewer whose peers all left.

## 5. Findings

1. `exchange_layout`: the comment on `cids` (`block_exchange.rs:20`) says cids with data come
   first. `add_block` pushes the data at `datums.len()` but swaps its cid with the *last* cid
   (line 189) or appends the cid behind those that wait (line 201). With another cid waiting the
   data is stored under that other cid.
2. `exchange_who_wants`: the renumbering of the want list after that swap (lines 192-198) is two
   `if`s in a row, so an index becomes last and at once i again; afterwards wants for either cid
   point at one. The test `want_exchange` says the list yields who asked.
3. `service_late_gossip`: a message on a topic whose stream was dropped panics the service
   (`background.rs:271`, "Receiver not dropped"): `pending_subscribe` keeps the sender and nothing
   unsubscribes.
4. `player_skip`: `advance_stream` subtracts `buffer_size` from a `u64` segment number
   (`video_player.rs:198`, 202). In a release build, the Dockerfile's, this wraps below segment
   `buffer_size`; a head that is not "too far" behind (line 196) is then skipped.

Met on the way, stated as exceptions or assumptions of the models and not given runs of their own:

- `DhtAdd` drops the sender of an earlier call for the same peer and `DhtBootstrap` drops its
  sender when libp2p returns an error (`background.rs:131`, 138-144): the callers panic. The
  roles have both calls commented out. `SenderNotDropped` names these two as its exception.
- A peer that disconnects keeps its slots (`background.rs:211-216`): `ServedUnlessSlotsLeak`.
- `Command::BlockAdd` never starts a send. At the streamer no want can be waiting for it.
- Playback can go back: a segment that arrives after a later one was played is played next.
  `GoesBackOnlyForLate` says that this is the only way.
- `latency` is a difference of two hosts' clocks in `u64` (`video_player.rs:87`) and wraps when
  the streamer's clock is ahead; it reaches a metric only.
- `generate_blocks` underflows on a bitrate of less than a byte per segment (`utils.rs:85`).
  `StreamerAssumption` excludes such parameters, and `NoUnderflow` says that it happens with no others.
- A viewer's service panics (finding 3) whenever a message comes between the end of its loop and the
  stop barrier. `network` has this case: the role waits at the barrier all the same, so all stop.

## 6. Proofs

Assumptions are those on the constants: `MaxWantsAssumption`, `SendAssumption`, `CallAssumption`,
`SortAssumption` (natural numbers), `PlayerAssumption` (a positive buffer size; `MaxSegments` and
`BufferSize` below the modulus), `NodesAssumption` (finitely many nodes, at least two),
`RolesAssumption` (one of them streams) and `StreamerAssumption` (a positive block size; a segment
of at least a byte and less than the modulus). Peers, cids, topics, limits, numbers of calls,
segments, nodes and bytes are otherwise arbitrary. TLC was used to find the invariants before they
were proved.

**The sort** (`ParallelSortProofs`, `InsertionSortProofs`). `StableSort` is defined by choosing, for
every place, the position whose rank it is. That such a position exists needs that the ranks of n
distinct positions are 1..n: they differ (`RankDistinct`) and lie in 1..n, and an injection of a
finite set into as many numbers is onto (`NumberingIsOnto`, from the library's facts on
cardinalities). From it, `StableSortPermutes` (same length, the elements of the vector moved as their
keys are) and `StableSortSorts` (ascending, equal keys in order) follow for vectors of any length.
Of the loop, `LoopInvariant` (what is before i is in order, but for the pair on its way down) is
inductive together with `FromBehind`: that pair comes from behind all it passes, so equal keys stay
in order. At the end the order is total, and then the place of each pair is its rank: `LoopSortsStably`.
Every position the loops read exists (`SortStaysInBounds`), and what is left of them is a natural
number that every step decreases (`LoopsGetShorter`): a round of the outer loop weighs more than all
that the inner loop can do in it.

**The exchange** (`BlockExchangeProofs`, `ExchangeProofs`). The inductive invariant is
`WellFormed`: the struct's type, `InBounds`, and both tables injective. None of the three is
inductive alone: `add_want` keeps indices in bounds only because `position` finds the entry, which
the tables' type gives; a removal keeps them because it takes the same positions from both vectors;
the tables stay injective because of the tests for presence, in `add_block` because a swap moves
entries and adds none. One lemma per method. `TypeCorrect`, `IndicesInBounds` and
`TablesStayDistinct` follow. `AlignmentLostByBlocksOutOfOrder` and `InOrderKeepsLayout` characterise
finding 1 for every size of table: an `add_block` that stores data keeps the layout if and only if
no *other* cid is waiting. Whatever is lost, a cid that has data keeps it (`StoredForGood`): indices below
`datums.len()` are never swapped, and no method takes data away. For a caller that adds its blocks in order, `AInv` adds that the want list, as
a set, is what was asked and not removed (`InOrderKnowsWhoAsked`), and one lemma per method
(`AddWantList` ... `SortKeepsWants`, `AddBlockWantList`) says what the method does to the want *list*: that is the
refinement `InOrderImplementsLedger`. A removal takes positions from two vectors and
the ledger from one; both keep an element at the rank of its position among those kept (`IsLeft`).

Findings 1 and 2 are also proved in their exact form, for callers in any order and tables of any size.
`AddedIsLast`: after `add_block` the cid is the last of the table and its data the last of the datums, so
`get_block` finds the block if and only if both have the same index, that is, if no other cid waited
(`BlocksAreBackOnlyInOrder`; otherwise it finds nothing). And since the two `if`s map both indices of a
swap to the same one (`Remap`), every want for the block's cid becomes one for the cid that was last, and
no other want changes (`WantsMoveToLastCid`).

**The block server** (`BitswapProofs`). The invariant adds to `WellFormed` the type of
`pending_send_block` and `sent`, the finiteness of the former and the bound itself (`SlotBound`). A
cancel that starts a send first removed a slot, so it does not exceed the bound although it does not
compare: the case needs that the slot was taken, which the handler's `if` gives. `SendsAreBounded` and
`NothingIsResent` are proved for both roles. `NothingStallsIdle` is proved of viewers: with no slot
taken every event ends with a dispatch (if anything sendable waited), and `max_concurrent_send > 0`
lets it through. At the streamer `BlockAdd` does not dispatch, so more is needed: every cid of its tables
has its data (`AllHeld`, in `HInv`, which also gives `SlotsStayWanted` and `SendsAreWanted`), so a new
block is wanted by nobody yet; and a free slot means that every want has one (`NoneWaits`,
`NoWantWaitsForFreeSlot`), because a want that comes while a slot is free is dispatched at once and a
freed slot is given to the oldest want without one. `NothingStallsAtStreamer` and the
refinement `StreamerImplementsBlockServer` follow. `StreamerCallsInOrder` joins this component to the one
below it: the streamer's handlers are a behaviour of `ExchangeCalls!InOrderSpec` (with "asked" read as
the want list's members), so the assumption of the theorems on callers that add in order is met.
`NoWantIsOvertaken` is the order of service: `AheadOf` a waiting want are the unserved ones older than it;
nothing joins them, and each block received takes one away, because the freed slot goes to the oldest.

**The service** (`ServiceProofs`). `CInv` says where the sender of every call is: in the queue (`Queue`),
parked in the one map its command goes to, under its own key (`Parked`), or used. `NoneLost` is that no
waiting call is without its sender. Each command and event is a `Step`: some calls are answered,
each of them by the sender the handler had in hand. With `Bitswap`'s invariant, since the service owns
the exchange, the type invariant and all four safety properties of the run follow: `ServiceTypeCorrect`,
`RepliesAreSent`, `FirstSubscriberOnly`, `PanicsAreForDroppedStreams`, `GetBlockWaitsForItsBlock`. The
last but one is about steps: in the state before a message that panics the service, the sender it is for is
a subscriber's to that topic (`Held`) which was handed its stream, and the only such stream without
a receiver is one its owner dropped. For the last, a `get_block` that was taken and waits is in
`pending_get_block` under its cid (`GetWaits`), where only a block of that cid finds it. `RepliesAreFinal`: what a handler has in hand was not used before, so a reply does
not change. `NobodyAbandoned` (a service is gone only when nobody waits: it returns after the last client,
and a panic takes the senders along) is inductive on top of `CInv` and gives `WaitingCallsAreOwed`.
A publish or subscribe is owed by the queue alone (`OnlyTheQueueDelays`), where the commands before it
only become fewer (`CommandsMoveUp`). `ServiceImplementsNode`: the service is a step-by-step
implementation of `Bitswap`'s node with `BlockAdd`; `ServiceSendsAreBounded` and
`ServiceResendsNothing` carry the node's properties over.

**The player** (`VideoStreamProofs`). The invariant is the type together with
`Apart` (a segment number is in one place only: unread, gossip, fetch task or buffer), `Increasing`
(the buffer), `FetchingIsRunning` and `Countdown` (`stopped` determines `buffering`: the
countdown goes 2, 1, 0 and starts again while there is nothing to play). `BufferStaysSorted` needs
`Apart`: strict order of the buffer after `add_segment` holds because the new number is not in it, and the
sort theorem gives the rest. `StopsLastThreeTicks` is `Countdown` at the moment of playing.
`SegmentsAreConserved` counts copies: with `Apart` every segment has none or one. `SkipsFollowRule` says
what is skipped at every segment number, where the subtractions wrap too (`MinusCases`): the head is
too far when more than `Tolerated` behind the newest, and playback goes on with the oldest segment within
`Reach` of it. From segment `buffer_size` on these are `buffer_size` and half of it, which is
`SkipsAreToMidBuffer`; before, both are half of `buffer_size`, and before half of it 0: finding 4, exactly.
`GoesBackOnlyForLateOnes` follows from the order of the buffer.

**The network** (`NetworkProofs`). A node goes through thirteen steps (`At`). The invariant of the
rendezvous, `RInv`, is that a signal's counter is the number of nodes past the signal (`Counted`), that a
node past a barrier means that all gave the signal (`Barriers`), who subscribed, and where every
published address is (`Addresses`: in a stream or read, once). Then a barrier tells
everything: `NoAddressIsMissed`, `AllAreDialedBeforeStreaming`, `AllStopTogether`. The streamer's `SInv` has the
count of blocks made and left (`Generating`), and that a block named by a queued message is held or
queued before it (`QueuedInOrder`): `BlocksDoNotUnderflow`, `SegmentsAreWhole`, `AnnouncedBlocksAreHeld`.
The network is a step of one or the other or of neither: `NetworkImplementsRendezvous` and
`NetworkImplementsStreamer` carry both over, and with the viewers' `VInv` they give
`FetchStaysAnswerable` (a viewer that plays is before the stop barrier, so the streamer is too).

`NobodyWaitsForEver` is freedom from deadlock: until all nodes are done the guards of some step are met
(`NetworkCanStep`). Were every node held up (`NotAllHeldUp`), none would be at the first place where nodes
wait, since all have given its signal; so none at the next, and so on to the last. For the place where addresses
are collected that takes `DInv` (`NoAddressIsLost`): all have published, what is published is in the node's
stream or read, and fewer are read than it needs, so its stream is not empty. In the loop, `AwaitsPublish`
(`PublishIsAnswered`) means that the reply the streamer awaits is on its way. `EveryStepIsForward`: no step of the rendezvous moves a node back, and each moves one on.
`MessagesAreSegmentsInOrder` fixes what goes out, over publishes that fail: every message has the blocks of
one segment, all of them in order, and the messages' segment numbers increase. It rests on `AwaitsPublish`,
so that the command the service takes last is of the segment just made, and on a segment having a block.

Liveness is only model-checked, because the prover does not do liveness under fairness, nor ENABLED. What is
proved is the part about the states: for `Terminates`, `LoopsGetShorter`; for `CallReturns`,
`OnlyTheQueueDelays` and `CommandsMoveUp`; for `ServedUnlessSlotsLeak`, `NoWantIsOvertaken`; for `AllStop`,
`NobodyWaitsForEver` and `EveryStepIsForward`. What TLC adds is that the fair steps are enabled as their
guards are read here and so happen, and, in `ServedUnlessSlotsLeak`, the case of peers that leave. That the
properties of the four violation runs are violated is model-checked too. Induction over data and recursive
operators are out of the prover's reach; the models have neither.

## 7. Not modelled

- `data_network_ip`, `custom_instance_params` and parameter parsing: no state.
- Metrics and logging, and the `latency` they record.
- `ComposedBehaviour` and the external libraries: represented by the events and results the code
  handles.
- The simulated network's configuration in the roles (`configure_network`): what it changes is
  delay, and the models already allow any.
- `neutral.rs`: its `mod` line is commented out, so it is not compiled.
- Container, manifest and dashboard files.

## 8. Plan

Done, in this order: the exchange and its abstract ledger; the block server and its abstract
specification; the service and client; the player; the sort loop; the rendezvous; the streamer with
`generate_blocks`; the streaming network; the proofs of section 6, with the refinements; the parts of
the liveness properties that are about states, the exact forms of findings 1, 2 and 4, and the theorems that
join the service to the block server and the block server to the exchange.

What could follow: `Bitswap` at each node of `StreamingNetwork` instead of a fetch that ends or does
not, and `VideoStream` in place of the viewer's loop. Each is checked by itself against the most general
environment, so the composition would show little more at a far larger state space.
