--------------------------- MODULE VideoStreamProofs ---------------------------
(****************************************************************************)
(* Theorems about the player of video_player.rs, for any number of          *)
(* segments, any buffer size and any word size.  The inductive invariant    *)
(* has three parts: where a segment can be (it is in one place at a time,   *)
(* and the buffer is in order), the metric of running fetches, and the      *)
(* countdown of a stop.                                                     *)
(****************************************************************************)
EXTENDS VideoStream, ParallelSortProofs

Increasing(s) == \A i, j \in DOMAIN s : i < j => s[i] < s[j]

(* A segment is unread, read, being fetched, buffered or done with. *)
Apart ==
  /\ IsInjective(gossips)
  /\ unread \cap fetch_tasks = {}
  /\ (unread \cup fetch_tasks) \cap Range(gossips) = {}
  /\ (unread \cup fetch_tasks \cup Range(gossips)) \cap Range(segments) = {}

(* The countdown starts at 2 with the first tick without a segment. *)
Countdown ==
  /\ stopped = 0 => buffering = 0
  /\ stopped > 0 => buffering = 2 - ((stopped - 1) % 3)

IInv ==
  /\ PlayerTypeOK
  /\ Apart
  /\ Increasing(segments) /\ timestamps = segments
  /\ FetchingIsRunning
  /\ Countdown

------------------------------------------------------------------------------
(* add_segment sorts a new segment into a buffer that is in order. *)
LEMMA SortedBufferIncreasing ==
  ASSUME NEW s \in Seq(Segments), Increasing(s), NEW n \in Segments, n \notin Range(s)
  PROVE  LET keys == Append(s, n)
         IN  /\ StableSort(keys, keys) \in Seq(Segments)
             /\ Increasing(StableSort(keys, keys))
             /\ Range(StableSort(keys, keys)) = Range(s) \cup {n}
<1> DEFINE keys == Append(s, n)
           out  == StableSort(keys, keys)
<1>1. /\ keys \in Seq(Segments) /\ Len(keys) = Len(s) + 1
      /\ \A i \in 1 .. Len(s) : keys[i] = s[i]
      /\ keys[Len(s) + 1] = n
  BY AppendProperties
<1>2. /\ Len(s) \in Nat /\ DOMAIN s = 1 .. Len(s)
      /\ DOMAIN keys = 1 .. Len(s) + 1
  BY <1>1, LenProperties
<1> HIDE DEF keys
<1>3. keys \in Seq(Int)
  <2>1. Segments \subseteq Int
    BY DEF Segments
  <2> QED  BY <1>1, <2>1, SeqMonotonic
<1>4. \A i \in 1 .. Len(s) + 1 : i \in 1 .. Len(s) \/ i = Len(s) + 1
  BY <1>2
<1>5. Range(keys) = Range(s) \cup {n}
  <2>1. Len(s) + 1 \in DOMAIN keys /\ DOMAIN s \subseteq DOMAIN keys
    BY <1>2
  <2> QED  BY <1>1, <1>2, <1>4, <2>1 DEF Range
<1>6. \A i, j \in DOMAIN keys : keys[i] = keys[j] => i = j
  <2>1. \A i, j \in DOMAIN s : s[i] = s[j] => i = j
    <3>1. \A i \in DOMAIN s : s[i] \in Int
      <4>1. \A i \in DOMAIN s : s[i] \in Segments
        BY <1>2, ElementOfSeq
      <4> QED  BY <4>1 DEF Segments
    <3> QED  BY <1>2, <3>1 DEF Increasing
  <2>2. \A i \in DOMAIN s : s[i] # n
    BY DEF Range
  <2> QED  BY <1>1, <1>2, <1>4, <2>1, <2>2
<1>7. /\ out \in Seq(Segments) /\ DOMAIN out = DOMAIN keys /\ Range(out) = Range(keys)
      /\ \A m \in DOMAIN keys : out[m] = keys[SortedFrom(keys)[m]]
  BY <1>1, <1>3, StableSortPermutes
<1>8. Increasing(out)
  <2> SUFFICES ASSUME NEW i \in DOMAIN keys, NEW j \in DOMAIN keys, i < j
               PROVE  out[i] < out[j]
    BY <1>7 DEF Increasing
  <2>1. /\ out[i] <= out[j]
        /\ keys[SortedFrom(keys)[i]] = keys[SortedFrom(keys)[j]]
             => SortedFrom(keys)[i] < SortedFrom(keys)[j]
    BY <1>3, StableSortSorts
  <2>2. SortedFrom(keys)[i] \in DOMAIN keys /\ SortedFrom(keys)[j] \in DOMAIN keys
    BY <1>3, SortedFromProperties
  <2>3. out[i] # out[j]
    BY <1>2, <1>6, <1>7, <2>1, <2>2
  <2>4. out[i] \in Int /\ out[j] \in Int
    BY <1>3, <1>7, <2>2, LenProperties, ElementOfSeq
  <2> QED  BY <2>1, <2>3, <2>4
<1> QED  BY <1>5, <1>7, <1>8 DEF keys

(* advance_stream pops at least the front of the buffer, and no more than   *)
(* there is.                                                                *)
LEMMA PoppedInBuffer ==
  ASSUME NEW s \in Seq(Segments), s # <<>>
  PROVE  Popped(s) \in 1 .. Len(s)
<1> DEFINE stops == {i \in DOMAIN s :
                       i = Len(s) \/ s[i] >= Minus(Newest(s), BufferSize \div 2)}
<1>1. Len(s) \in Nat /\ Len(s) # 0 /\ DOMAIN s = 1 .. Len(s)
  BY LenProperties, EmptySeq
<1>2. stops \subseteq 1 .. Len(s) /\ Len(s) \in stops
  BY <1>1
<1>3. MidBuffer(s) = CHOOSE i \in stops : \A j \in stops : i <= j
  BY DEF MidBuffer
<1> HIDE DEF stops
<1>4. IsFiniteSet(stops) /\ stops \in SUBSET Nat /\ stops # {}
  <2>1. IsFiniteSet(1 .. Len(s))
    BY <1>1, FS_Interval
  <2>2. IsFiniteSet(stops)
    BY <1>2, <2>1, FS_Subset
  <2> QED  BY <1>1, <1>2, <2>2
<1>5. MidBuffer(s) \in stops
  BY <1>3, <1>4, SmallestExists
<1>6. MidBuffer(s) \in 1 .. Len(s)
  BY <1>2, <1>5
<1>7. 1 \in 1 .. Len(s)
  BY <1>1
<1> QED  BY <1>6, <1>7, Zenon DEF Popped

(* What is left of a buffer in order is in order, behind what was popped.   *)
LEMMA RestIncreasing ==
  ASSUME NEW s \in Seq(Segments), Increasing(s), NEW k \in 1 .. Len(s)
  PROVE  /\ SubSeq(s, k + 1, Len(s)) \in Seq(Segments)
         /\ Increasing(SubSeq(s, k + 1, Len(s)))
         /\ Range(SubSeq(s, k + 1, Len(s))) \subseteq Range(s)
         /\ \A n \in Range(SubSeq(s, k + 1, Len(s))) : s[k] < n
         /\ \A n \in Range(s) \ Range(SubSeq(s, k + 1, Len(s))) : n <= s[k]
<1> DEFINE rest == SubSeq(s, k + 1, Len(s))
<1>1. Len(s) \in Nat /\ DOMAIN s = 1 .. Len(s) /\ \A i \in 1 .. Len(s) : s[i] \in Segments
  BY LenProperties, ElementOfSeq
<1>2. k + 1 \in Int /\ Len(s) \in Int /\ \A i \in k + 1 .. Len(s) : s[i] \in Segments
  BY <1>1
<1>3. /\ rest \in Seq(Segments)
      /\ Len(rest) = Len(s) - k
      /\ \A i \in 1 .. Len(s) - k : k + i \in DOMAIN s /\ rest[i] = s[k + i]
  <2>1. rest \in Seq(Segments)
    BY <1>2, SubSeqProperties
  <2>2. Len(rest) = IF k + 1 <= Len(s) THEN Len(s) - (k + 1) + 1 ELSE 0
    BY <1>2, SubSeqProperties
  <2>3. \A i \in 1 .. Len(s) - (k + 1) + 1 : rest[i] = s[k + 1 + i - 1]
    BY <1>2, SubSeqProperties
  <2> HIDE DEF rest
  <2>4. k \in Int /\ 1 <= k /\ k <= Len(s)
    BY <1>1
  <2>5. Len(rest) = Len(s) - k
    <3>1. CASE k + 1 <= Len(s)
      <4>1. Len(rest) = Len(s) - (k + 1) + 1
        BY <2>2, <3>1
      <4> QED  BY <1>1, <2>4, <4>1
    <3>2. CASE ~(k + 1 <= Len(s))
      <4>1. Len(rest) = 0
        BY <2>2, <3>2
      <4>2. \A m, n \in Int : m <= n /\ ~(m + 1 <= n) => n - m = 0
        OBVIOUS
      <4> QED  BY <1>2, <2>4, <3>2, <4>1, <4>2
    <3> QED  BY <3>1, <3>2
  <2>6. \A i \in 1 .. Len(s) - k : k + i \in DOMAIN s /\ rest[i] = s[k + i]
    BY <1>1, <2>3, <2>4
  <2> QED  BY <2>1, <2>5, <2>6
<1> HIDE DEF rest
<1>4. Increasing(rest)
  <2> SUFFICES ASSUME NEW i \in DOMAIN rest, NEW j \in DOMAIN rest, i < j
               PROVE  rest[i] < rest[j]
    BY DEF Increasing
  <2>1. DOMAIN rest = 1 .. Len(s) - k
    BY <1>3, LenProperties
  <2>2. k + i < k + j
    BY <1>1, <2>1
  <2> QED  BY <1>3, <2>1, <2>2 DEF Increasing
<1>5. Range(rest) \subseteq Range(s)
  <2>1. DOMAIN rest = 1 .. Len(s) - k
    BY <1>3, LenProperties
  <2> QED  BY <1>3, <2>1 DEF Range
<1>6. DOMAIN rest = 1 .. Len(s) - k
  BY <1>3, LenProperties
<1>7. \A n \in Range(rest) : s[k] < n
  <2> SUFFICES ASSUME NEW i \in DOMAIN rest PROVE s[k] < rest[i]
    BY DEF Range
  <2>1. k < k + i /\ k \in DOMAIN s
    BY <1>1, <1>6
  <2> QED  BY <1>3, <1>6, <2>1 DEF Increasing
<1>8. \A n \in Range(s) \ Range(rest) : n <= s[k]
  <2> SUFFICES ASSUME NEW j \in DOMAIN s, s[j] \notin Range(rest) PROVE s[j] <= s[k]
    BY DEF Range
  <2>1. k \in DOMAIN s /\ s[j] \in Int /\ s[k] \in Int /\ j \in Int /\ k \in Int
    BY <1>1 DEF Segments
  <2>2. CASE j > k
    <3>1. j - k \in 1 .. Len(s) - k /\ k + (j - k) = j
      BY <1>1, <2>1, <2>2
    <3>2. rest[j - k] = s[j] /\ j - k \in DOMAIN rest
      BY <1>3, <1>6, <3>1
    <3> QED  BY <3>2 DEF Range
  <2>3. CASE j = k
    BY <2>1, <2>3
  <2>4. CASE j < k
    BY <2>1, <2>4 DEF Increasing
  <2> QED  BY <2>1, <2>2, <2>3, <2>4
<1> QED  BY <1>3, <1>4, <1>5, <1>7, <1>8 DEF rest

------------------------------------------------------------------------------
(* A player that starts has every segment before it. *)
LEMMA InitIInv == Init => IInv
<1> SUFFICES ASSUME Init PROVE IInv
  OBVIOUS
<1>1. PlayerTypeOK
  <2>1. <<>> \in Seq(Segments)
    BY EmptySeq
  <2>2. 0 \in 0 .. MaxSegments /\ 0 \in 0 .. SimTicks /\ 0 \in 0 .. 2
    BY PlayerAssumption
  <2> QED  BY <2>1, <2>2 DEF Init, PlayerTypeOK
<1>2. Apart
  BY DEF Init, Apart, IsInjective, Range
<1>3. Increasing(segments) /\ timestamps = segments /\ FetchingIsRunning /\ Countdown
  BY DEF Init, Increasing, FetchingIsRunning, Countdown
<1> QED  BY <1>1, <1>2, <1>3 DEF IInv

(* play() takes the oldest message off gossips and starts its fetch. *)
LEMMA StartFetchMoves ==
  ASSUME gossips \in Seq(Segments), IsInjective(gossips), StartFetch
  PROVE  /\ gossips' \in Seq(Segments) /\ IsInjective(gossips')
         /\ Announced \subseteq Segments
         /\ fetch_tasks' = fetch_tasks \cup Announced
         /\ Announced \subseteq Range(gossips) /\ Range(gossips') \subseteq Range(gossips)
         /\ Announced \cap Range(gossips') = {}
<1>1. CASE gossips = <<>>
  BY <1>1 DEF StartFetch, Announced, Range
<1>2. CASE gossips # <<>>
  <2>1. /\ Len(gossips) \in Nat /\ Len(gossips) # 0
        /\ DOMAIN gossips = 1 .. Len(gossips)
        /\ \A i \in DOMAIN gossips : gossips[i] \in Segments
    BY <1>2, LenProperties, EmptySeq, ElementOfSeq
  <2>2. /\ gossips' = Tail(gossips) /\ gossips' \in Seq(Segments)
        /\ Len(gossips') = Len(gossips) - 1
        /\ \A i \in 1 .. Len(gossips') : gossips'[i] = gossips[i + 1]
    BY <1>2, HeadTailProperties DEF StartFetch
  <2>3. DOMAIN gossips' = 1 .. Len(gossips) - 1
    BY <2>2, LenProperties
  <2>4. 1 \in DOMAIN gossips /\ Announced = {gossips[1]}
    BY <2>1 DEF Announced
  <2>5. \A i \in DOMAIN gossips' : /\ i + 1 \in DOMAIN gossips /\ i + 1 # 1
                                  /\ gossips'[i] = gossips[i + 1]
    BY <2>1, <2>2, <2>3
  <2>6. IsInjective(gossips')
    <3> SUFFICES ASSUME NEW i \in DOMAIN gossips', NEW j \in DOMAIN gossips',
                        gossips'[i] = gossips'[j]
                 PROVE  i = j
      BY DEF IsInjective
    <3>1. i + 1 = j + 1
      BY <2>5 DEF IsInjective
    <3> QED  BY <2>3, <3>1
  <2>7. Announced \cap Range(gossips') = {}
    BY <2>4, <2>5 DEF IsInjective, Range
  <2>8. Range(gossips') \subseteq Range(gossips) /\ Announced \subseteq Range(gossips)
    BY <2>4, <2>5 DEF Range
  <2> QED  BY <2>1, <2>2, <2>4, <2>6, <2>7, <2>8 DEF StartFetch
<1> QED  BY <1>1, <1>2

(* A fetch ends: the segment goes from fetch_tasks to its place in the      *)
(* buffer, in whatever order the fetches end.                               *)
LEMMA AddSegmentKeeps ==
  ASSUME IInv, NEW n \in Segments, AddSegment(n)
  PROVE  IInv'
<1>1. /\ segments \in Seq(Segments) /\ Increasing(segments) /\ n \notin Range(segments)
  BY DEF IInv, PlayerTypeOK, Apart, AddSegment
<1>2. segments' = StableSort(Append(segments, n), Append(segments, n))
  BY DEF AddSegment, SortedBuffer
<1>3. timestamps' = segments'
  BY DEF IInv, AddSegment, SortedBuffer
<1>4. /\ segments' \in Seq(Segments) /\ Increasing(segments')
      /\ Range(segments') = Range(segments) \cup {n}
  BY <1>1, <1>2, SortedBufferIncreasing
<1>5. PlayerTypeOK'
  BY <1>3, <1>4 DEF IInv, PlayerTypeOK, AddSegment, Fetched
<1>6. Apart'
  BY <1>4 DEF IInv, Apart, AddSegment
<1>7. FetchingIsRunning' /\ Countdown'
  BY DEF IInv, FetchingIsRunning, Countdown, AddSegment, Fetched
<1> QED  BY <1>3, <1>4, <1>5, <1>6, <1>7 DEF IInv

(* A message is read: its segment goes from unread to the end of gossips.   *)
LEMMA AddGossipKeeps ==
  ASSUME IInv, NEW n \in Segments, AddGossip(n)
  PROVE  IInv'
<1>1. /\ gossips \in Seq(Segments) /\ IsInjective(gossips) /\ n \notin Range(gossips)
      /\ gossips' = Append(gossips, n) /\ unread' = unread \ {n} /\ n \in unread
  BY DEF IInv, PlayerTypeOK, Apart, AddGossip
<1>2. /\ Len(gossips) \in Nat /\ DOMAIN gossips = 1 .. Len(gossips)
      /\ gossips' \in Seq(Segments) /\ DOMAIN gossips' = 1 .. Len(gossips) + 1
      /\ \A i \in 1 .. Len(gossips) : gossips'[i] = gossips[i]
      /\ gossips'[Len(gossips) + 1] = n
  BY <1>1, AppendProperties, LenProperties
<1>3. /\ \A i \in DOMAIN gossips' : i \in DOMAIN gossips \/ i = Len(gossips) + 1
      /\ \A i \in DOMAIN gossips : gossips[i] # n
  BY <1>1, <1>2 DEF Range
<1>4. IsInjective(gossips')
  BY <1>1, <1>2, <1>3 DEF IsInjective
<1>5. Range(gossips') \subseteq Range(gossips) \cup {n}
  BY <1>2, <1>3 DEF Range
<1>6. PlayerTypeOK'
  BY <1>2 DEF IInv, PlayerTypeOK, AddGossip
<1>7. Apart'
  BY <1>1, <1>4, <1>5 DEF IInv, Apart, AddGossip
<1>8. /\ (Increasing(segments) /\ timestamps = segments)'
      /\ FetchingIsRunning' /\ Countdown'
  BY DEF IInv, Increasing, FetchingIsRunning, Countdown, AddGossip
<1> QED  BY <1>6, <1>7, <1>8 DEF IInv

(* play() and advance_stream(): what the three ways to advance have in      *)
(* common.                                                                  *)
LEMMA PlayCommon ==
  ASSUME IInv, Play
  PROVE  /\ unread' \subseteq Segments /\ gossips' \in Seq(Segments)
         /\ fetch_tasks' \subseteq Segments /\ Announced \subseteq Segments
         /\ fetching \cup Announced \subseteq fetch_tasks'
         /\ clock' \in 0 .. SimTicks /\ ticks' \in 0 .. SimTicks /\ ended' \in BOOLEAN
         /\ IsInjective(gossips')
         /\ unread' \cap fetch_tasks' = {}
         /\ (unread' \cup fetch_tasks') \cap Range(gossips') = {}
         /\ (unread' \cup fetch_tasks' \cup Range(gossips')) \cap Range(segments) = {}
<1>1. /\ unread' = unread /\ clock' = clock /\ ended' = ended /\ ticks' = ticks + 1
      /\ clock # SimTicks /\ ticks <= clock /\ StartFetch
  BY DEF Play, SleepOver, TickDue
<1>2. /\ gossips' \in Seq(Segments) /\ IsInjective(gossips')
      /\ Announced \subseteq Segments
      /\ fetch_tasks' = fetch_tasks \cup Announced
      /\ Announced \subseteq Range(gossips) /\ Range(gossips') \subseteq Range(gossips)
      /\ Announced \cap Range(gossips') = {}
  BY <1>1, StartFetchMoves DEF IInv, PlayerTypeOK, Apart
<1>3. clock' \in 0 .. SimTicks /\ ticks' \in 0 .. SimTicks
  BY <1>1, PlayerAssumption DEF IInv, PlayerTypeOK
<1>4. /\ unread' \cap fetch_tasks' = {}
      /\ (unread' \cup fetch_tasks') \cap Range(gossips') = {}
      /\ (unread' \cup fetch_tasks' \cup Range(gossips')) \cap Range(segments) = {}
  BY <1>1, <1>2 DEF IInv, Apart
<1>5. fetching \cup Announced \subseteq fetch_tasks'
  BY <1>2 DEF IInv, FetchingIsRunning
<1> QED  BY <1>1, <1>2, <1>3, <1>4, <1>5 DEF IInv, PlayerTypeOK

(* The two ticks that wait for the buffer, and the one that finds it empty. *)
LEMMA WaitKeeps ==
  ASSUME IInv, Play, StillBuffering \/ BufferEmpty
  PROVE  IInv'
<1>1. /\ segments' = segments /\ timestamps' = timestamps
      /\ current_segment' = current_segment /\ fetching' = fetching \cup Announced
  BY DEF StillBuffering, BufferEmpty
<1>2. stopped \in Nat /\ buffering \in 0 .. 2 /\ stopped' = stopped + 1
  BY DEF IInv, PlayerTypeOK, StillBuffering, BufferEmpty
<1>3. buffering' \in 0 .. 2 /\ buffering' = 2 - (stopped % 3)
  <2>1. CASE StillBuffering
    BY <1>2, <2>1 DEF IInv, Countdown, StillBuffering
  <2>2. CASE BufferEmpty
    BY <1>2, <2>2 DEF IInv, Countdown, BufferEmpty
  <2> QED  BY <2>1, <2>2
<1>4. PlayerTypeOK'
  BY <1>1, <1>2, <1>3, PlayCommon DEF IInv, PlayerTypeOK
<1>5. Apart'
  BY <1>1, PlayCommon DEF Apart
<1>6. (Increasing(segments) /\ timestamps = segments)' /\ FetchingIsRunning'
  BY <1>1, PlayCommon DEF IInv, Increasing, FetchingIsRunning
<1>7. Countdown'
  BY <1>2, <1>3 DEF Countdown
<1> QED  BY <1>4, <1>5, <1>6, <1>7 DEF IInv

(* The tick that plays a segment and drops those before it. *)
LEMMA PlaySegmentKeeps ==
  ASSUME IInv, Play, PlaySegment
  PROVE  /\ IInv'
         /\ stopped % 3 = 0
         /\ \A n \in Range(segments') : current_segment' < n
         /\ Range(segments') \subseteq Range(segments)
         /\ \A n \in Range(segments) \ Range(segments') : n <= current_segment'
<1> DEFINE k == Popped(segments)
<1>1. /\ segments \in Seq(Segments) /\ segments # <<>> /\ Increasing(segments)
      /\ timestamps = segments
      /\ stopped' = 0 /\ buffering = 0 /\ buffering' = 0 /\ stopped \in Nat
  BY DEF IInv, PlayerTypeOK, PlaySegment
<1>2. k \in 1 .. Len(segments)
  BY <1>1, PoppedInBuffer
<1>3. /\ current_segment' = segments[k]
      /\ segments' = SubSeq(segments, k + 1, Len(segments))
      /\ timestamps' = SubSeq(timestamps, k + 1, Len(timestamps))
  BY DEF PlaySegment
<1>4. fetching' \subseteq fetching \cup Announced
  BY DEF PlaySegment, CleanedUp
<1> HIDE DEF k
<1>5. /\ segments' \in Seq(Segments) /\ Increasing(segments')
      /\ Range(segments') \subseteq Range(segments)
      /\ timestamps' = segments'
      /\ \A n \in Range(segments') : current_segment' < n
      /\ \A n \in Range(segments) \ Range(segments') : n <= current_segment'
  <2>1. /\ SubSeq(segments, k + 1, Len(segments)) \in Seq(Segments)
        /\ Increasing(SubSeq(segments, k + 1, Len(segments)))
        /\ Range(SubSeq(segments, k + 1, Len(segments))) \subseteq Range(segments)
        /\ \A n \in Range(SubSeq(segments, k + 1, Len(segments))) : segments[k] < n
        /\ \A n \in Range(segments) \ Range(SubSeq(segments, k + 1, Len(segments))) :
             n <= segments[k]
    BY <1>1, <1>2, RestIncreasing
  <2> QED  BY <1>1, <1>3, <2>1
<1>6. current_segment' \in 0 .. MaxSegments
  <2>1. segments[k] \in Segments
    BY <1>1, <1>2, ElementOfSeq
  <2> QED  BY <1>3, <2>1, PlayerAssumption DEF Segments
<1>7. PlayerTypeOK'
  <2>1. fetching' \subseteq Segments
    BY <1>4, PlayCommon DEF IInv, PlayerTypeOK
  <2>2. stopped' \in Nat /\ buffering' \in 0 .. 2
    BY <1>1
  <2> QED  BY <1>5, <1>6, <2>1, <2>2, PlayCommon DEF PlayerTypeOK
<1>8. Apart'
  BY <1>5, PlayCommon DEF Apart
<1>9. FetchingIsRunning' /\ Countdown'
  BY <1>1, <1>4, PlayCommon DEF FetchingIsRunning, Countdown
<1>10. stopped % 3 = 0
  <2>1. CASE stopped = 0
    BY <2>1
  <2>2. CASE stopped # 0
    <3>1. 0 = 2 - ((stopped - 1) % 3)
      BY <1>1, <2>2 DEF IInv, Countdown
    <3> QED  BY <1>1, <2>2, <3>1
  <2> QED  BY <2>1, <2>2
<1> QED  BY <1>5, <1>7, <1>8, <1>9, <1>10 DEF IInv

(* Time and the end of the run touch nothing the invariant is about. *)
LEMMA ClockKeeps ==
  ASSUME IInv, Elapse \/ SleepEnds
  PROVE  IInv'
<1>1. UNCHANGED <<unread, gossips, fetch_tasks, fetching, segments, timestamps,
                  current_segment, stopped, buffering, ticks>>
  BY DEF Elapse, SleepEnds
<1>2. clock' \in 0 .. SimTicks
  BY PlayerAssumption DEF IInv, PlayerTypeOK, Elapse, SleepEnds
<1>3. ended' \in BOOLEAN
  BY Zenon DEF IInv, PlayerTypeOK, Elapse, SleepEnds
<1> QED  BY <1>1, <1>2, <1>3 DEF IInv, PlayerTypeOK, Apart, Increasing, FetchingIsRunning, Countdown

(* Every step of the player keeps the invariant. *)
LEMMA NextIInv == IInv /\ [Next]_vars => IInv'
<1> SUFFICES ASSUME IInv, [Next]_vars PROVE IInv'
  OBVIOUS
<1>1. CASE Elapse \/ SleepEnds
  BY <1>1, ClockKeeps
<1>2. CASE Play
  <2>1. StillBuffering \/ BufferEmpty \/ PlaySegment
    BY <1>2 DEF Play
  <2> QED  BY <1>2, <2>1, WaitKeeps, PlaySegmentKeeps
<1>3. ASSUME NEW n \in Segments, AddSegment(n) PROVE IInv'
  BY <1>3, AddSegmentKeeps
<1>4. ASSUME NEW n \in Segments, AddGossip(n) PROVE IInv'
  BY <1>4, AddGossipKeeps
<1>5. CASE UNCHANGED vars
  BY <1>5 DEF vars, IInv, PlayerTypeOK, Apart, Increasing, FetchingIsRunning, Countdown
<1> QED  BY <1>1, <1>2, <1>3, <1>4, <1>5 DEF Next

------------------------------------------------------------------------------
(* The invariant holds of every run of the player. *)
THEOREM IInvHolds == Spec => []IInv
BY InitIInv, NextIInv, PTL DEF Spec

(* The player's state keeps its type. *)
THEOREM TypeCorrect == Spec => []PlayerTypeOK
<1>1. IInv => PlayerTypeOK
  BY DEF IInv
<1> QED  BY <1>1, IInvHolds, PTL

(* The buffer is in segment order without duplicates and every segment has  *)
(* its own timestamp (add_segment, advance_stream).                         *)
THEOREM BufferStaysSorted == Spec => []BufferSorted
<1>1. IInv => BufferSorted
  BY DEF IInv, BufferSorted, Increasing
<1> QED  BY <1>1, IInvHolds, PTL

(* The "fetch" metric counts running fetches only. *)
THEOREM FetchingStaysRunning == Spec => []FetchingIsRunning
<1>1. IInv => FetchingIsRunning
  BY DEF IInv
<1> QED  BY <1>1, IInvHolds, PTL

(* A step that plays is the tick that plays a segment. *)
LEMMA PlaysByPlaySegment == ASSUME IInv, Next, Plays PROVE Play /\ PlaySegment
<1>1. stopped \in Nat /\ stopped' = 0 /\ ticks' # ticks
  BY DEF IInv, PlayerTypeOK, Plays
<1>2. Play
  BY <1>1 DEF Next, Elapse, SleepEnds, AddSegment, AddGossip
<1>3. PlaySegment
  BY <1>1, <1>2 DEF Play, StillBuffering, BufferEmpty
<1> QED  BY <1>2, <1>3

(* Playback that stopped resumes after a multiple of three ticks. *)
THEOREM StopsLastThreeTicks == Spec => StopLastsThreeTicks
<1>1. IInv /\ [Next]_vars => [Plays => stopped % 3 = 0]_vars
  BY PlaysByPlaySegment, PlaySegmentKeeps
<1> QED  BY <1>1, IInvHolds, PTL DEF Spec, StopLastsThreeTicks

(* Playback goes back only to a segment fetched after a later one played.   *)
THEOREM GoesBackOnlyForLateOnes == Spec => GoesBackOnlyForLate
<1>1. IInv /\ [Next]_vars
        => [Plays => \A n \in Range(segments') : current_segment' < n]_vars
  BY PlaysByPlaySegment, PlaySegmentKeeps
<1> QED  BY <1>1, IInvHolds, PTL DEF Spec, GoesBackOnlyForLate

------------------------------------------------------------------------------
(* The wrapping subtraction, where it does not wrap and where it does. *)
LEMMA MinusCases ==
  ASSUME NEW a \in 0 .. MaxSegments, NEW b \in 0 .. BufferSize
  PROVE  Minus(a, b) = IF b <= a THEN a - b ELSE a - b + Modulus
<1>1. /\ MaxSegments \in Nat /\ Modulus \in Nat /\ MaxSegments < Modulus
      /\ BufferSize \in Nat /\ BufferSize < Modulus
      /\ a \in Int /\ b \in Int /\ a - b < Modulus /\ 0 < a - b + Modulus
  BY PlayerAssumption
<1>2. \A d \in Int, m \in Nat : 0 <= d /\ d < m => (d + m) % m = d /\ d % m = d
  BY SMTT(30)
<1>3. CASE b <= a
  BY <1>1, <1>2, <1>3 DEF Minus
<1>4. CASE ~(b <= a)
  <2>1. a - b + Modulus \in Int /\ a - b + Modulus < Modulus
    BY <1>1, <1>4
  <2> QED  BY <1>1, <1>2, <1>4, <2>1 DEF Minus
<1> QED  BY <1>3, <1>4

(* A buffer in order, with something in it. *)
Filled ==
  segments \in Seq(Segments) /\ segments # <<>> /\ Increasing(segments)

(* Its newest segment is the last, its oldest the first. *)
LEMMA FilledShape ==
  ASSUME Filled
  PROVE  /\ Len(segments) \in Nat /\ Len(segments) >= 1
         /\ DOMAIN segments = 1 .. Len(segments)
         /\ Range(segments) = {segments[i] : i \in 1 .. Len(segments)}
         /\ \A i \in 1 .. Len(segments) : segments[i] \in Segments /\ segments[i] \in Int
         /\ \A i, j \in 1 .. Len(segments) : i <= j => segments[i] <= segments[j]
         /\ Newest(segments) \in 1 .. MaxSegments /\ Newest(segments) \in Int
<1>1. Len(segments) \in Nat /\ Len(segments) # 0 /\ DOMAIN segments = 1 .. Len(segments)
  BY LenProperties, EmptySeq DEF Filled
<1>2. \A i \in 1 .. Len(segments) : segments[i] \in Segments
  BY ElementOfSeq DEF Filled
<1>3. \A i \in 1 .. Len(segments) : segments[i] \in Int
  BY <1>2 DEF Segments
<1>4. ASSUME NEW i \in 1 .. Len(segments), NEW j \in 1 .. Len(segments), i <= j
      PROVE  segments[i] <= segments[j]
  <2>1. i = j \/ i < j
    BY <1>1, <1>4
  <2>2. i < j => segments[i] < segments[j]
    BY <1>1 DEF Filled, Increasing
  <2> QED  BY <1>3, <2>1, <2>2
<1>5. Len(segments) \in 1 .. Len(segments)
  BY <1>1
<1> QED  BY <1>1, <1>2, <1>3, <1>4, <1>5 DEF Range, Newest, Segments

(* Where the oldest segment of a set of them is played. *)
Oldest(n, kept) == n \in kept /\ \A m \in kept : n <= m

(* The test of the second loop amounts to "within reach of the newest".     *)
TestIsReach(reach) ==
  \A i \in 1 .. Len(segments) :
    segments[i] >= Minus(Newest(segments), BufferSize \div 2) \/ i = Len(segments)
      <=> Newest(segments) - segments[i] <= reach

(* The second loop then stops at the oldest segment within reach. *)
LEMMA StopsWithinReach ==
  ASSUME Filled, NEW reach \in Nat, TestIsReach(reach)
  PROVE  Oldest(segments[MidBuffer(segments)], Within(reach))
<1> DEFINE k     == MidBuffer(segments)
           stops == {i \in DOMAIN segments :
                       i = Len(segments) \/ segments[i] >= Minus(Newest(segments), BufferSize \div 2)}
<1>1. /\ Len(segments) \in Nat /\ Len(segments) >= 1
      /\ DOMAIN segments = 1 .. Len(segments)
      /\ Range(segments) = {segments[i] : i \in 1 .. Len(segments)}
      /\ \A i, j \in 1 .. Len(segments) : i <= j => segments[i] <= segments[j]
  BY FilledShape
<1>2. k = CHOOSE i \in stops : \A j \in stops : i <= j
  BY DEF MidBuffer
<1>3. stops \subseteq 1 .. Len(segments) /\ Len(segments) \in stops
  <2>1. Len(segments) \in DOMAIN segments
    BY <1>1
  <2> QED  BY <1>1, <2>1
<1>4. \A i \in 1 .. Len(segments) :
        i \in stops <=> Newest(segments) - segments[i] <= reach
  BY <1>1 DEF TestIsReach
<1> HIDE DEF k, stops
<1>5. k \in stops /\ \A j \in stops : k <= j
  <2>1. Len(segments) \in Int /\ 1 \in Int
    BY <1>1
  <2>2. IsFiniteSet(1 .. Len(segments))
    BY <2>1, FS_Interval
  <2>3. IsFiniteSet(stops)
    BY <1>3, <2>2, FS_Subset
  <2>4. stops \in SUBSET Nat /\ stops # {}
    BY <1>3, <2>1
  <2> QED  BY <1>2, <2>3, <2>4, SmallestExists
<1>6. Within(reach) = {segments[i] : i \in stops}
  BY <1>1, <1>3, <1>4 DEF Within
<1>7. \A j \in stops : segments[k] <= segments[j]
  BY <1>1, <1>3, <1>5
<1> QED  BY <1>5, <1>6, <1>7 DEF Oldest, k

(* What playback skips and to where, at any segment number: "too far" is    *)
(* more than buffer_size behind the newest from segment buffer_size on,     *)
(* more than half of it before, and before half of it anything but the      *)
(* newest segment.                                                          *)
Reach ==
  IF Newest(segments) < BufferSize \div 2 THEN 0 ELSE BufferSize \div 2

Tolerated == IF Newest(segments) < BufferSize THEN Reach ELSE BufferSize

SkipRule ==
  Plays => Oldest(current_segment',
                  IF Newest(segments) - segments[1] <= Tolerated
                  THEN Range(segments) ELSE Within(Reach))

(* The two loops of advance_stream keep to that rule. *)
LEMMA PopsByRule ==
  ASSUME Filled
  PROVE  Oldest(segments[Popped(segments)],
                IF Newest(segments) - segments[1] <= Tolerated
                THEN Range(segments) ELSE Within(Reach))
<1> DEFINE half == BufferSize \div 2
           new  == Newest(segments)
<1>1. /\ Len(segments) \in Nat /\ Len(segments) >= 1
      /\ Range(segments) = {segments[i] : i \in 1 .. Len(segments)}
      /\ \A i \in 1 .. Len(segments) : segments[i] \in Segments /\ segments[i] \in Int
      /\ \A i, j \in 1 .. Len(segments) : i <= j => segments[i] <= segments[j]
      /\ new \in 1 .. MaxSegments /\ new \in Int
  BY FilledShape
<1>2. /\ BufferSize \in Nat /\ half \in Nat /\ half <= BufferSize /\ half < Modulus
      /\ BufferSize < Modulus /\ Modulus \in Nat /\ MaxSegments \in Nat
  BY PlayerAssumption
<1>3. /\ Minus(new, BufferSize) = IF BufferSize <= new THEN new - BufferSize
                                  ELSE new - BufferSize + Modulus
      /\ Minus(new, half) = IF half <= new THEN new - half ELSE new - half + Modulus
  <2>1. BufferSize \in 0 .. BufferSize /\ half \in 0 .. BufferSize /\ new \in 0 .. MaxSegments
    BY <1>1, <1>2
  <2> HIDE DEF half, new
  <2> QED  BY <2>1, MinusCases
<1>4. Reach = (IF new < half THEN 0 ELSE half) /\ Reach \in Nat
  BY <1>2 DEF Reach
<1> HIDE DEF half
<1>5. /\ 1 \in 1 .. Len(segments) /\ Len(segments) \in 1 .. Len(segments)
      /\ \A i \in 1 .. Len(segments) : 1 <= i /\ i <= Len(segments)
      /\ segments[Len(segments)] = new
  BY <1>1 DEF Newest
<1> HIDE DEF new
<1>6. \A i \in 1 .. Len(segments) : segments[1] <= segments[i] /\ segments[i] <= new
  BY <1>1, <1>5
<1>7. TooFar(segments)
        <=> Len(segments) > 1 /\ (new < BufferSize \/ new - segments[1] > BufferSize)
  <2>1. TooFar(segments) <=> Len(segments) > 1 /\ segments[1] < Minus(new, BufferSize)
    BY DEF TooFar, new
  <2>2. segments[1] \in Int /\ segments[1] <= new
    BY <1>1, <1>5, <1>6
  <2>3. segments[1] < Minus(new, BufferSize)
          <=> (new < BufferSize \/ new - segments[1] > BufferSize)
    BY <1>1, <1>2, <1>3, <2>2
  <2> QED  BY <2>1, <2>3
<1>8. TestIsReach(Reach)
  <2> SUFFICES ASSUME NEW i \in 1 .. Len(segments)
               PROVE  segments[i] >= Minus(new, half) \/ i = Len(segments)
                        <=> new - segments[i] <= Reach
    BY DEF TestIsReach, half, new
  <2>1. segments[i] \in Int /\ segments[i] <= new
    BY <1>1, <1>6
  <2>2. i = Len(segments) => segments[i] = new
    BY <1>5
  <2>3. segments[i] = new => i = Len(segments)
    <3>1. i < Len(segments) => segments[i] < segments[Len(segments)]
      BY <1>1, <1>5, FilledShape DEF Filled, Increasing
    <3> QED  BY <1>1, <1>5, <2>1, <3>1
  <2>4. CASE half <= new
    BY <1>1, <1>2, <1>3, <1>4, <2>1, <2>2, <2>4
  <2>5. CASE ~(half <= new)
    BY <1>1, <1>2, <1>3, <1>4, <2>1, <2>2, <2>3, <2>5
  <2> QED  BY <2>4, <2>5
<1>9. CASE ~TooFar(segments)
  <2>1. Popped(segments) = 1
    BY <1>9 DEF Popped
  <2>2. new - segments[1] <= Tolerated
    <3>1. CASE ~(Len(segments) > 1)
      <4>1. segments[1] = new
        BY <1>1, <1>5, <3>1
      <4> QED  BY <1>1, <1>2, <1>4, <4>1 DEF Tolerated
    <3>2. CASE Len(segments) > 1
      BY <1>1, <1>2, <1>5, <1>7, <1>9, <3>2 DEF Tolerated, new
    <3> QED  BY <3>1, <3>2
  <2> QED  BY <1>1, <1>5, <1>6, <2>1, <2>2 DEF Oldest, new
<1>10. CASE TooFar(segments)
  <2>1. Oldest(segments[Popped(segments)], Within(Reach))
    BY <1>4, <1>8, <1>10, StopsWithinReach DEF Popped
  <2>2. ASSUME new - segments[1] <= Tolerated PROVE Within(Reach) = Range(segments)
    <3>1. segments[1] \in Int
      BY <1>1, <1>5
    <3>2. new - segments[1] <= Reach
      BY <1>1, <1>2, <1>7, <1>10, <2>2, <3>1 DEF Tolerated, new
    <3>3. \A i \in 1 .. Len(segments) : new - segments[i] <= Reach
      BY <1>1, <1>4, <1>6, <3>1, <3>2
    <3> QED  BY <1>1, <3>3 DEF Within, new
  <2> QED  BY <2>1, <2>2 DEF new
<1> QED  BY <1>9, <1>10

(* Playback keeps to it at every segment number, also where the             *)
(* subtractions of advance_stream wrap.                                     *)
THEOREM SkipsFollowRule == Spec => [][SkipRule]_vars
<1>1. ASSUME IInv, Next, Plays PROVE Filled /\ current_segment' = segments[Popped(segments)]
  BY <1>1, PlaysByPlaySegment DEF Filled, IInv, PlayerTypeOK, PlaySegment
<1>2. IInv /\ [Next]_vars => [SkipRule]_vars
  BY <1>1, PopsByRule DEF SkipRule
<1> QED  BY <1>2, IInvHolds, PTL DEF Spec

(* What playback skips, and to where, once no subtraction wraps. *)
THEOREM SkipsAreToMidBuffer == Spec => SkipsToMidBuffer
<1> DEFINE kept == IF segments[1] \in Within(BufferSize) THEN Range(segments)
                   ELSE Within(BufferSize \div 2)
<1>1. ASSUME IInv, Next, Plays, Newest(segments) >= BufferSize
      PROVE  current_segment' \in kept /\ \A n \in kept : current_segment' <= n
  <2>1. Filled /\ current_segment' = segments[Popped(segments)]
    BY <1>1, PlaysByPlaySegment DEF Filled, IInv, PlayerTypeOK, PlaySegment
  <2>2. Tolerated = BufferSize /\ Reach = BufferSize \div 2
    BY <1>1, <2>1, FilledShape, PlayerAssumption DEF Tolerated, Reach
  <2>3. segments[1] \in Within(BufferSize) <=> Newest(segments) - segments[1] <= BufferSize
    <3>1. 1 \in 1 .. Len(segments)
      BY <2>1, FilledShape
    <3> QED  BY <2>1, <3>1, FilledShape DEF Within
  <2> QED  BY <2>1, <2>2, <2>3, PopsByRule DEF Oldest
<1>2. IInv /\ [Next]_vars
        => [Plays /\ Newest(segments) >= BufferSize
              => current_segment' \in kept /\ \A n \in kept : current_segment' <= n]_vars
  BY <1>1
<1> QED  BY <1>2, IInvHolds, PTL DEF Spec, SkipsToMidBuffer

------------------------------------------------------------------------------
(* Where a segment is, of what has been published and not been played.      *)
Present(n) == n \in unread \cup fetch_tasks \cup Range(gossips) \cup Range(segments)

(* A queue without duplicates has an entry once or not at all. *)
LEMMA TimesOnce ==
  ASSUME NEW s, IsInjective(s), NEW n
  PROVE  Times(s, n) = IF n \in Range(s) THEN 1 ELSE 0
<1> DEFINE at == {i \in DOMAIN s : s[i] = n}
<1>1. CASE n \in Range(s)
  <2>1. PICK i \in DOMAIN s : s[i] = n
    BY <1>1 DEF Range
  <2>2. at = {i}
    BY <2>1 DEF IsInjective
  <2> QED  BY <1>1, <2>2, FS_Singleton DEF Times
<1>2. CASE n \notin Range(s)
  <2>1. at = {}
    BY <1>2 DEF Range
  <2> QED  BY <1>2, <2>1, FS_EmptySet DEF Times
<1> QED  BY <1>1, <1>2

(* A segment is in one place or in none. *)
LEMMA CopiesIsPresence ==
  IInv => \A n \in Segments : Copies(n) = IF Present(n) THEN 1 ELSE 0
<1> SUFFICES ASSUME IInv, NEW n \in Segments
             PROVE  Copies(n) = IF Present(n) THEN 1 ELSE 0
  OBVIOUS
<1>1. Times(gossips, n) = IF n \in Range(gossips) THEN 1 ELSE 0
  BY TimesOnce DEF IInv, Apart
<1>2. Times(segments, n) = IF n \in Range(segments) THEN 1 ELSE 0
  <2>1. \A i \in DOMAIN segments : segments[i] \in Int /\ i \in Int
    <3>1. segments \in Seq(Segments)
      BY DEF IInv, PlayerTypeOK
    <3>2. DOMAIN segments = 1 .. Len(segments) /\ \A i \in DOMAIN segments : segments[i] \in Segments
      BY <3>1, LenProperties, ElementOfSeq
    <3> QED  BY <3>2 DEF Segments
  <2>2. IsInjective(segments)
    BY <2>1 DEF IInv, Increasing, IsInjective
  <2> QED  BY <2>2, TimesOnce
<1>3. \A S : Cardinality({n} \cap S) = IF n \in S THEN 1 ELSE 0
  <2> SUFFICES ASSUME NEW S PROVE Cardinality({n} \cap S) = IF n \in S THEN 1 ELSE 0
    OBVIOUS
  <2>1. {n} \cap S = IF n \in S THEN {n} ELSE {}
    OBVIOUS
  <2> QED  BY <2>1, FS_Singleton, FS_EmptySet
<1>4. Copies(n) = (IF n \in Range(gossips) THEN 1 ELSE 0)
                    + (IF n \in Range(segments) THEN 1 ELSE 0)
                    + (IF n \in unread THEN 1 ELSE 0) + (IF n \in fetch_tasks THEN 1 ELSE 0)
  BY <1>1, <1>2, <1>3 DEF Copies
<1>5. /\ n \in unread => n \notin fetch_tasks /\ n \notin Range(gossips) /\ n \notin Range(segments)
      /\ n \in fetch_tasks => n \notin Range(gossips) /\ n \notin Range(segments)
      /\ n \in Range(gossips) => n \notin Range(segments)
  BY DEF IInv, Apart
<1> QED  BY <1>4, <1>5 DEF Present

(* What play() takes off gossips is what it starts to fetch. *)
LEMMA StartFetchLosesNone ==
  ASSUME gossips \in Seq(Segments), StartFetch
  PROVE  Range(gossips) \subseteq Range(gossips') \cup fetch_tasks'
<1>1. CASE gossips = <<>>
  BY <1>1 DEF StartFetch, Range
<1>2. CASE gossips # <<>>
  <2>1. /\ Len(gossips) \in Nat \ {0} /\ DOMAIN gossips = 1 .. Len(gossips)
        /\ gossips' = Tail(gossips) /\ DOMAIN gossips' = 1 .. Len(gossips) - 1
        /\ \A i \in DOMAIN gossips' : gossips'[i] = gossips[i + 1]
    BY <1>2 DEF StartFetch
  <2>2. gossips[1] \in fetch_tasks'
    BY <2>1 DEF StartFetch, Announced
  <2>3. \A i \in DOMAIN gossips : \/ i = 1
                                  \/ i - 1 \in DOMAIN gossips' /\ gossips'[i - 1] = gossips[i]
    BY <2>1
  <2> QED  BY <2>2, <2>3 DEF Range
<1> QED  BY <1>1, <1>2

(* Only a tick that plays takes a segment out of the player, from the       *)
(* buffer and up to the one it plays; no step brings one in.                *)
LEMMA StepConserves ==
  ASSUME IInv, Next
  PROVE  \A n \in Segments :
           \/ Present(n)' <=> Present(n)
           \/ n \in Range(segments) /\ ~Present(n)' /\ n <= current_segment'
<1>1. CASE Elapse \/ SleepEnds
  BY <1>1 DEF Elapse, SleepEnds, Present
<1>2. ASSUME NEW n \in Segments, AddSegment(n)
      PROVE  \A m \in Segments : Present(m)' <=> Present(m)
  <2>1. Range(segments') = Range(segments) \cup {n}
    BY <1>2, SortedBufferIncreasing
       DEF IInv, PlayerTypeOK, Apart, AddSegment, SortedBuffer
  <2> QED  BY <1>2, <2>1 DEF AddSegment, Present
<1>3. ASSUME NEW n \in Segments, AddGossip(n)
      PROVE  \A m \in Segments : Present(m)' <=> Present(m)
  <2>1. gossips \in Seq(Segments) /\ gossips' = Append(gossips, n)
    BY <1>3 DEF IInv, PlayerTypeOK, AddGossip
  <2>2. Range(gossips') = Range(gossips) \cup {n}
    <3>1. /\ Len(gossips) \in Nat /\ DOMAIN gossips = 1 .. Len(gossips)
          /\ DOMAIN gossips' = 1 .. Len(gossips) + 1
          /\ \A i \in DOMAIN gossips : gossips'[i] = gossips[i]
          /\ gossips'[Len(gossips) + 1] = n
      BY <2>1
    <3>2. /\ Len(gossips) + 1 \in DOMAIN gossips' /\ DOMAIN gossips \subseteq DOMAIN gossips'
          /\ \A i \in DOMAIN gossips' : i \in DOMAIN gossips \/ i = Len(gossips) + 1
      BY <3>1
    <3> QED  BY <3>1, <3>2 DEF Range
  <2> QED  BY <1>3, <2>2 DEF AddGossip, Present
<1>4. CASE Play
  <2>1. /\ StartFetch /\ unread' = unread /\ gossips \in Seq(Segments) /\ IsInjective(gossips)
    BY <1>4 DEF Play, IInv, PlayerTypeOK, Apart
  <2>2. /\ Range(gossips) \subseteq Range(gossips') \cup fetch_tasks'
        /\ Range(gossips') \subseteq Range(gossips)
        /\ fetch_tasks' = fetch_tasks \cup Announced /\ Announced \subseteq Range(gossips)
    BY <2>1, StartFetchMoves, StartFetchLosesNone
  <2>3. CASE StillBuffering \/ BufferEmpty
    BY <2>1, <2>2, <2>3 DEF StillBuffering, BufferEmpty, Present
  <2>4. CASE PlaySegment
    <3>1. /\ Range(segments') \subseteq Range(segments)
          /\ \A n \in Range(segments) \ Range(segments') : n <= current_segment'
      BY <1>4, <2>4, PlaySegmentKeeps
    <3>2. (unread' \cup fetch_tasks' \cup Range(gossips')) \cap Range(segments) = {}
      BY <1>4, PlayCommon
    <3> QED  BY <2>1, <2>2, <3>1, <3>2 DEF Present
  <2> QED  BY <1>4, <2>3, <2>4 DEF Play
<1> QED  BY <1>1, <1>2, <1>3, <1>4 DEF Next

(* A segment moves through the player once, and leaves it only from the     *)
(* buffer, played or skipped because a later one is played.                 *)
THEOREM SegmentsAreConserved == Spec => SegmentConserved
<1> DEFINE One    == \A n \in Segments : Copies(n) = IF Present(n) THEN 1 ELSE 0
           Leaves == \A n \in Segments :
                       \/ Present(n)' <=> Present(n)
                       \/ n \in Range(segments) /\ ~Present(n)' /\ n <= current_segment'
           Moves  == \A n \in Segments :
                       \/ Copies(n)' = Copies(n)
                       \/ n \in Range(segments) /\ Copies(n)' = 0 /\ n <= current_segment'
<1>1. IInv => One
  BY CopiesIsPresence
<1>2. One /\ One' /\ Leaves => Moves
  OBVIOUS
<1>3. IInv /\ [Next]_vars => [Leaves]_vars
  BY StepConserves
<1>4. [Leaves]_vars /\ One /\ One' => [Moves]_vars
  BY <1>2
<1>5. Spec => [][Moves]_vars
  <2> HIDE DEF One, Leaves, Moves
  <2> QED  BY <1>1, <1>3, <1>4, IInvHolds, PTL DEF Spec
<1> QED  BY <1>5 DEF SegmentConserved
================================================================================
