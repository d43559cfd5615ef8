----------------------------- MODULE VideoStream -----------------------------
(****************************************************************************)
(* The viewer's player (video_player.rs): gossip messages announce segments,*)
(* play() starts the fetch of one segment per tick and plays one, fetched   *)
(* segments wait in a sorted buffer, and the player skips ahead when the    *)
(* buffer grows too long.                                                   *)
(*                                                                          *)
(* A message is its segment number, which also names the timestamp in it.   *)
(* Subtraction is that of u64 in a release build (Dockerfile): it wraps,    *)
(* here modulo Modulus.  The metrics are left out.                          *)
(*                                                                          *)
(* Gossip may come late, in any order, or never; a message counts as here   *)
(* when the loop reads it.  A fetch task ends in any order, whatever        *)
(* get_block returned (play ignores the results), and counts as ended when  *)
(* the loop reads it from block_receiver.                                   *)
(****************************************************************************)
EXTENDS ParallelSort, Functions

CONSTANTS
  MaxSegments,   \* bound: the segments the streamer publishes, from 1
  BufferSize,    \* buffer_size, 30 in the code
  Modulus,       \* 2^64 in the code
  SimTicks       \* sim_time / segment_length: the ticks before the sleep ends

ASSUME PlayerAssumption ==
  /\ MaxSegments \in Nat /\ SimTicks \in Nat /\ BufferSize \in Nat \ {0}
  /\ Modulus \in Nat /\ MaxSegments < Modulus /\ BufferSize < Modulus

Segments == 1 .. MaxSegments

VARIABLES
  unread,           \* messages published and not yet read from the stream
  gossips,          \* messages read, sequence of segment numbers
  fetch_tasks,      \* segments whose fetch task is running
  fetching,         \* segment indices
  segments,         \* the buffer: segment numbers
  timestamps,       \* the buffer: their timestamps
  current_segment,
  stopped,
  buffering,
  clock,            \* segment lengths elapsed since run() began
  ticks,            \* ticks of the interval handled
  ended             \* run() has returned

vars == <<unread, gossips, fetch_tasks, fetching, segments, timestamps,
          current_segment, stopped, buffering, clock, ticks, ended>>

Minus(a, b) == (a - b + Modulus) % Modulus

------------------------------------------------------------------------------
Init ==
  /\ unread = Segments /\ gossips = <<>>
  /\ fetch_tasks = {} /\ fetching = {}
  /\ segments = <<>> /\ timestamps = <<>>
  /\ current_segment = 0 /\ stopped = 0 /\ buffering = 0
  /\ clock = 0 /\ ticks = 0 /\ ended = FALSE

(* One segment length goes by; the interval fires at 0, 1, 2, ...           *)
Elapse ==
  /\ clock < SimTicks
  /\ clock' = clock + 1
  /\ UNCHANGED <<unread, gossips, fetch_tasks, fetching, segments, timestamps,
                 current_segment, stopped, buffering, ticks, ended>>

SleepOver == clock = SimTicks
TickDue   == ticks <= clock

(* The biased select!: the sleep, then a fetched segment, then a tick (a    *)
(* missed one fires at once), then a message.                               *)
SleepEnds ==
  /\ ~ended /\ SleepOver
  /\ ended' = TRUE
  /\ UNCHANGED <<unread, gossips, fetch_tasks, fetching, segments, timestamps,
                 current_segment, stopped, buffering, clock, ticks>>

(* Mutant: the fetched segment stays in fetching. *)
StillFetching(n) == fetching

(* fetching.remove *)
Fetched(n) == fetching \ {n}

(* Mutant: the sort forgets the timestamps. *)
SortedSegmentsOnly(n) ==
  LET keys == Append(segments, n)
  IN  <<StableSort(keys, keys), Append(timestamps, n)>>

(* push_back to both, then the insertion sort of add_segment. *)
SortedBuffer(n) ==
  LET keys == Append(segments, n)
  IN  <<StableSort(keys, keys), StableSort(keys, Append(timestamps, n))>>

AddSegment(n) ==
  /\ ~ended /\ ~SleepOver
  /\ n \in fetch_tasks
  /\ fetch_tasks' = fetch_tasks \ {n}
  /\ fetching' = Fetched(n)
  /\ segments'   = SortedBuffer(n)[1]
  /\ timestamps' = SortedBuffer(n)[2]
  /\ UNCHANGED <<unread, gossips, current_segment, stopped, buffering, clock, ticks, ended>>

AddGossip(n) ==
  /\ ~ended /\ ~SleepOver /\ ~TickDue
  /\ n \in unread
  /\ unread' = unread \ {n}
  /\ gossips' = Append(gossips, n)
  /\ UNCHANGED <<fetch_tasks, fetching, segments, timestamps, current_segment,
                 stopped, buffering, clock, ticks, ended>>

------------------------------------------------------------------------------
(* play(), first part: the fetch of the oldest message starts.              *)
Announced == {gossips[i] : i \in DOMAIN gossips \cap {1}}

(* Mutant: the message stays at the front of gossips. *)
StartFetchKeepsMessage ==
  /\ gossips' = gossips
  /\ fetch_tasks' = fetch_tasks \cup Announced

StartFetch ==
  /\ gossips' = IF gossips = <<>> THEN gossips ELSE Tail(gossips)
  /\ fetch_tasks' = fetch_tasks \cup Announced

(* play(), second part: advance_stream().  Its loops pop the front of the   *)
(* buffer; the last segment they pop is played, the others are skipped.     *)
Newest(s) == s[Len(s)]

(* Mutant: the distance is measured to half the buffer. *)
TooFarHalf(s) == Len(s) > 1 /\ s[1] < Minus(Newest(s), BufferSize \div 2)

(* "If buffer head is too far" *)
TooFar(s) == Len(s) > 1 /\ s[1] < Minus(Newest(s), BufferSize)

(* "Skip to mid buffer": where the second loop stops popping. *)
MidBuffer(s) ==
  LET stops == {i \in DOMAIN s : i = Len(s) \/ s[i] >= Minus(Newest(s), BufferSize \div 2)}
  IN  CHOOSE i \in stops : \A j \in stops : i <= j

Popped(s) == IF TooFar(s) THEN MidBuffer(s) ELSE 1

StillBuffering ==
  /\ buffering > 0
  /\ buffering' = buffering - 1 /\ stopped' = stopped + 1
  /\ fetching' = fetching \cup Announced
  /\ UNCHANGED <<segments, timestamps, current_segment>>

(* Mutant: the stop is one tick longer. *)
BufferEmptyLong ==
  /\ buffering = 0 /\ segments = <<>>
  /\ buffering' = 3 /\ stopped' = stopped + 1
  /\ fetching' = fetching \cup Announced
  /\ UNCHANGED <<segments, timestamps, current_segment>>

(* Mutant: playback resumes as soon as there is a segment. *)
BufferEmptyNoWait ==
  /\ buffering = 0 /\ segments = <<>>
  /\ stopped' = stopped + 1
  /\ fetching' = fetching \cup Announced
  /\ UNCHANGED <<buffering, segments, timestamps, current_segment>>

BufferEmpty ==
  /\ buffering = 0 /\ segments = <<>>
  /\ buffering' = 2 /\ stopped' = stopped + 1
  /\ fetching' = fetching \cup Announced
  /\ UNCHANGED <<segments, timestamps, current_segment>>

(* "clean up" *)
CleanedUp == {n \in fetching \cup Announced : n >= current_segment'}

(* Mutant: a skip leaves what it passes in the buffer. *)
PlaySegmentKeepsSkipped ==
  /\ buffering = 0 /\ segments # <<>>
  /\ current_segment' = segments[Popped(segments)]
  /\ segments'   = Tail(segments)
  /\ timestamps' = Tail(timestamps)
  /\ stopped' = 0
  /\ fetching' = CleanedUp
  /\ UNCHANGED buffering

PlaySegment ==
  /\ buffering = 0 /\ segments # <<>>
  /\ LET k == Popped(segments)
     IN  /\ current_segment' = segments[k]
         /\ segments'   = SubSeq(segments, k + 1, Len(segments))
         /\ timestamps' = SubSeq(timestamps, k + 1, Len(timestamps))
  /\ stopped' = 0
  /\ fetching' = CleanedUp
  /\ UNCHANGED buffering

Play ==
  /\ ~ended /\ ~SleepOver /\ TickDue
  /\ ticks' = ticks + 1
  /\ StartFetch
  /\ StillBuffering \/ BufferEmpty \/ PlaySegment
  /\ UNCHANGED <<unread, clock, ended>>

Next ==
  \/ Elapse \/ SleepEnds \/ Play
  \/ \E n \in Segments : AddSegment(n) \/ AddGossip(n)

Spec == Init /\ [][Next]_vars

------------------------------------------------------------------------------
PlayerTypeOK ==
  /\ unread \subseteq Segments /\ gossips \in Seq(Segments)
  /\ fetch_tasks \subseteq Segments /\ fetching \subseteq Segments
  /\ segments \in Seq(Segments) /\ timestamps \in Seq(Segments)
  /\ current_segment \in 0 .. MaxSegments
  /\ stopped \in Nat /\ buffering \in 0 .. 2
  /\ clock \in 0 .. SimTicks /\ ticks \in 0 .. SimTicks
  /\ ended \in BOOLEAN

(* The buffer is in segment order without duplicates, and every segment is  *)
(* paired with its own timestamp, in whatever order fetches end             *)
(* (add_segment) and however far playback skips (advance_stream).           *)
BufferSorted ==
  /\ \A i, j \in DOMAIN segments : i < j => segments[i] < segments[j]
  /\ timestamps = segments

(* The places a segment can be in, from published to buffered. *)
Times(s, n) == Cardinality({i \in DOMAIN s : s[i] = n})

Copies(n) ==
  Times(gossips, n) + Times(segments, n)
    + Cardinality({n} \cap unread) + Cardinality({n} \cap fetch_tasks)

(* A segment moves through the player once: it is never lost, fetched twice *)
(* or buffered twice, and leaves it only from the buffer, played or skipped *)
(* because a later one is played.                                           *)
SegmentConserved ==
  [][\A n \in Segments :
       \/ Copies(n)' = Copies(n)
       \/ n \in Range(segments) /\ Copies(n)' = 0 /\ n <= current_segment']_vars

(* The "fetch" metric counts running fetches only, although play() adds to  *)
(* it, add_segment takes off it and the clean-up of advance_stream drops    *)
(* what playback overtook.                                                  *)
FetchingIsRunning == fetching \subseteq fetch_tasks

Plays == segments # <<>> /\ stopped' = 0 /\ ticks' # ticks

(* Once playback stops it stops for three ticks, or six, or nine ...: the   *)
(* buffer is looked at again only when two more ticks have passed           *)
(* (advance_stream, buffering = 2), and stopped counts every one of them.   *)
StopLastsThreeTicks == [][Plays => stopped % 3 = 0]_vars

(* What playback passed, played or skipped, is out of the buffer, and so    *)
(* playback goes back to an earlier segment only when the fetch of that     *)
(* segment ends after the later one was played (advance_stream).            *)
GoesBackOnlyForLate ==
  [][Plays => \A n \in Range(segments') : current_segment' < n]_vars

(* From segment BufferSize on, where no subtraction wraps: playback skips   *)
(* only a buffer head more than buffer_size behind the newest segment, and  *)
(* then to the oldest segment at most half of it behind.                    *)
Within(d) == {n \in Range(segments) : Newest(segments) - n <= d}

SkipsToMidBuffer ==
  [][Plays /\ Newest(segments) >= BufferSize =>
       LET kept == IF segments[1] \in Within(BufferSize) THEN Range(segments)
                   ELSE Within(BufferSize \div 2)
       IN  current_segment' \in kept /\ \A n \in kept : current_segment' <= n]_vars

(* "If buffer head is too far" (advance_stream): segments are skipped only  *)
(* when the head of the buffer is more than buffer_size behind its newest.  *)
SkipsOnlyIfTooFar ==
  [][Plays /\ current_segment' # segments[1]
       => Newest(segments) - segments[1] > BufferSize]_vars
==============================================================================
