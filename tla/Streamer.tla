------------------------------ MODULE Streamer ------------------------------
(****************************************************************************)
(* The streaming loop of roles/streamer.rs with generate_blocks of utils.rs *)
(* and the streamer's own background service, to which add_block and        *)
(* publish are commands in a queue.                                         *)
(*                                                                          *)
(* A block is its number of bytes; its cid is the pair of the segment's     *)
(* number and the block's place, as random bytes do not repeat.  Time is    *)
(* left out but for the number of ticks that fit before the sleep is over.  *)
(* Module StreamingNetwork adds the viewers.                                *)
(****************************************************************************)
EXTENDS Naturals, Sequences, Functions

CONSTANTS
  SegmentSizes,   \* video_bitrate * segment_length / 8, for the parameters considered
  block_size,     \* MAX_BLOCK_SIZE or STANDARD_BLOCK_SIZE
  MaxTicks,       \* ticks of the interval before sim_time: sim_time / segment_length
  Modulus         \* 2^64, what a usize wraps at in a release build

(* Parameters of less than a byte a segment are excluded: num_blocks would  *)
(* start at 0 and wrap.                                                     *)
ASSUME StreamerAssumption ==
  /\ block_size \in Nat \ {0} /\ MaxTicks \in Nat /\ Modulus \in Nat
  /\ \A bytes \in SegmentSizes : bytes \in Nat \ {0} /\ bytes < Modulus

VARIABLES
  total_bytes,   \* of a segment
  task,          \* what the streamer does next
  counter,       \* the number of the next segment
  num_blocks,    \* generate_blocks: blocks still to make
  blocks,        \* generate_blocks: the sizes of those made
  commands,      \* the queue from the client to the service
  store,         \* the cids of the blocks the service holds
  messages       \* the messages that went out on the topic

streamer_vars ==
  <<total_bytes, task, counter, num_blocks, blocks, commands, store, messages>>

remainder_bytes == total_bytes % block_size

(* The segment being made: generate_video took the number and moved on. *)
count == counter - 1

cids == [i \in DOMAIN blocks |-> <<count, i>>]

StreamerInit ==
  /\ total_bytes \in SegmentSizes
  /\ task = "subscribe"
  /\ counter = 1
  /\ num_blocks = 0
  /\ blocks = <<>>
  /\ commands = <<>> /\ store = {} /\ messages = <<>>

(* The stream that subscribe returns is dropped at once. *)
SubscribeLive ==
  /\ task = "subscribe" /\ task' = "loop"
  /\ UNCHANGED <<total_bytes, counter, num_blocks, blocks, commands, store, messages>>

SleepEnds ==
  /\ task = "loop" /\ task' = "over"
  /\ UNCHANGED <<total_bytes, counter, num_blocks, blocks, commands, store, messages>>

(* Mutant: the last, short block is not counted. *)
WholeBlocksOnly == total_bytes \div block_size

BlockCount ==
  total_bytes \div block_size + (IF remainder_bytes > 0 THEN 1 ELSE 0)

(* interval.tick(), and generate_video up to the loop of generate_blocks. *)
Tick ==
  /\ task = "loop" /\ counter <= MaxTicks
  /\ counter' = counter + 1
  /\ num_blocks' = BlockCount
  /\ blocks' = <<>>
  /\ task' = "generate"
  /\ UNCHANGED <<total_bytes, commands, store, messages>>

(* Mutant: the remainder is not looked at. *)
AlwaysFull(left) == block_size

(* The size of the block after which so many are left to make. *)
BlockBytes(left) ==
  IF left = 0 /\ remainder_bytes > 0 THEN remainder_bytes ELSE block_size

(* One turn of the loop of generate_blocks. *)
GenerateBlock ==
  /\ task = "generate"
  /\ num_blocks' = (num_blocks + Modulus - 1) % Modulus
  /\ blocks' = Append(blocks, BlockBytes(num_blocks'))
  /\ task' = IF num_blocks' = 0 THEN "announce" ELSE "generate"
  /\ UNCHANGED <<total_bytes, counter, commands, store, messages>>

AddCommand(cid) == [op |-> "add_block", cid |-> cid]

PublishCommand(list) == [op |-> "publish", cids |-> list]

(* Mutant: the message goes first. *)
PublishFirst ==
  /\ task = "announce"
  /\ commands' = commands \o <<PublishCommand(cids)>>
                          \o [i \in DOMAIN cids |-> AddCommand(cids[i])]
  /\ task' = "publish"
  /\ UNCHANGED <<total_bytes, counter, num_blocks, blocks, store, messages>>

(* generate_video: all the add_block, then publish, whose reply it awaits. *)
Announce ==
  /\ task = "announce"
  /\ commands' = commands \o [i \in DOMAIN cids |-> AddCommand(cids[i])]
                          \o <<PublishCommand(cids)>>
  /\ task' = "publish"
  /\ UNCHANGED <<total_bytes, counter, num_blocks, blocks, store, messages>>

(* The service takes the commands in order. *)
TakeAddBlock ==
  /\ commands # <<>> /\ Head(commands).op = "add_block"
  /\ store' = store \cup {Head(commands).cid}
  /\ commands' = Tail(commands)
  /\ UNCHANGED <<total_bytes, task, counter, num_blocks, blocks, messages>>

(* The reply is gossipsub's: when publish fails, as when nobody listens, no *)
(* message goes out, and generate_video prints the error and moves on.      *)
TakePublish ==
  /\ commands # <<>> /\ Head(commands).op = "publish"
  /\ messages' = Append(messages, Head(commands).cids) \/ UNCHANGED messages
  /\ commands' = Tail(commands)
  /\ task' = "loop"
  /\ UNCHANGED <<total_bytes, counter, num_blocks, blocks, store>>

StreamerNext ==
  \/ SubscribeLive \/ SleepEnds \/ Tick \/ GenerateBlock \/ Announce
  \/ TakeAddBlock \/ TakePublish

StreamerSpec == StreamerInit /\ [][StreamerNext]_streamer_vars

------------------------------------------------------------------------------
Cids == (1 .. MaxTicks) \X (Nat \ {0})

Commands == [op : {"add_block"}, cid : Cids] \cup [op : {"publish"}, cids : Seq(Cids)]

StreamerTypeOK ==
  /\ total_bytes \in SegmentSizes
  /\ task \in {"subscribe", "loop", "generate", "announce", "publish", "over"}
  /\ counter \in 1 .. MaxTicks + 1
  /\ num_blocks \in 0 .. Modulus - 1
  /\ blocks \in Seq(1 .. block_size)
  /\ commands \in Seq(Commands)
  /\ store \subseteq Cids
  /\ messages \in Seq(Seq(Cids))

(* The loop of generate_blocks never takes a block from none: with at least *)
(* a byte a segment, num_blocks does not wrap (utils.rs, num_blocks -= 1).  *)
NoUnderflow == task = "generate" => num_blocks > 0

(* The blocks of a segment have all its bytes and no more, and none is      *)
(* empty or over block_size: what is short is the last one.                 *)
SegmentIsWhole ==
  task \in {"announce", "publish"} =>
    LET n == Len(blocks)
    IN  /\ n > 0
        /\ \A i \in 1 .. n - 1 : blocks[i] = block_size
        /\ blocks[n] \in 1 .. block_size
        /\ (n - 1) * block_size + blocks[n] = total_bytes

(* What a viewer can ask for is there: a message on the topic names blocks  *)
(* the service already holds, so no want finds the streamer without.        *)
AnnouncedIsHeld == \A k \in DOMAIN messages : Range(messages[k]) \subseteq store
==============================================================================
