----------------------------- MODULE ServiceProofs -----------------------------
(****************************************************************************)
(* Theorems about IpfsClient and IpfsBackgroundService, for any peers, cids *)
(* and topics and any number of calls.  The invariant says where the sender *)
(* of every call is: in the queue, in the one map its command goes to, or   *)
(* used.                                                                    *)
(****************************************************************************)
EXTENDS IpfsService, BitswapProofs

CallRecords == [op : Ops, arg : UNION {Arguments(op) : op \in Ops}]

Made ==
  /\ service \in {"running", "panicked", "returned"}
  /\ client \in {"held", "dropped"}
  /\ calls \in Seq(CallRecords) /\ Len(calls) <= MaxCalls
  /\ \A n \in DOMAIN calls : calls[n].arg \in Arguments(calls[n].op)
  /\ reply \in [Calls -> {"none", "ok", "err", "panicked"}]
  /\ \A n \in Calls \ DOMAIN calls : reply[n] = "none"

Maps ==
  /\ pending_subscribe \in MapTo(Topics) /\ routing_updates \in MapTo(Peers)
  /\ pending_get_block \in MapTo(Cids)
  /\ pending_bootstap \subseteq Calls /\ pending_listen \subseteq Calls

(* The queue has calls that nothing answered, in the order they were made.  *)
Queue ==
  /\ cmd_rx \in Seq(Calls)
  /\ \A i, j \in DOMAIN cmd_rx : i < j => cmd_rx[i] < cmd_rx[j]
  /\ \A n \in Range(cmd_rx) : n \in DOMAIN calls /\ reply[n] = "none"

(* A sender that is parked is that of a call for the key it is parked       *)
(* under, not answered and not in the queue any more.                       *)
ParkedFor(n, op) == Called(n, op) /\ reply[n] = "none" /\ n \notin Range(cmd_rx)

Parked ==
  /\ \A p \in DOMAIN routing_updates :
       ParkedFor(routing_updates[p], "dht_add_addr") /\ calls[routing_updates[p]].arg = p
  /\ \A c \in DOMAIN pending_get_block :
       ParkedFor(pending_get_block[c], "get_block") /\ calls[pending_get_block[c]].arg = c
  /\ \A n \in pending_bootstap : ParkedFor(n, "dht_bootstrap")
  /\ \A n \in pending_listen : ParkedFor(n, "listen_on")

(* The calls the service still owes a reply. *)
Owed ==
  Range(cmd_rx) \cup Range(routing_updates) \cup Range(pending_get_block)
    \cup pending_bootstap \cup pending_listen

NoneLost == service = "running" => \A n \in Calls : Waiting(n) => n \in Owed

(* pending_subscribe has, for a topic, the call that joined it. *)
Streams ==
  /\ streams \in [Calls -> {"open", "closed", "dropped"}]
  /\ joined \subseteq Topics /\ yielded \subseteq Calls
  /\ \A n \in Calls : reply[n] = "none" => streams[n] = "open"
  /\ \A t \in DOMAIN pending_subscribe :
       /\ t \in joined
       /\ Called(pending_subscribe[t], "subscribe") /\ calls[pending_subscribe[t]].arg = t
       /\ reply[pending_subscribe[t]] # "none" /\ streams[pending_subscribe[t]] # "closed"
  /\ \A n \in yielded :
       /\ Called(n, "subscribe")
       /\ service = "running" => /\ calls[n].arg \in DOMAIN pending_subscribe
                                 /\ pending_subscribe[calls[n].arg] = n

CInv ==
  /\ Made /\ Maps /\ Queue /\ Parked /\ NoneLost /\ Streams
  /\ OneStreamPerTopic /\ SenderNotDropped

------------------------------------------------------------------------------
(* insert, remove and look-up on the maps. *)
LEMMA MapParts ==
  ASSUME NEW K, NEW map \in MapTo(K)
  PROVE  /\ DOMAIN map \subseteq K
         /\ \A k \in DOMAIN map : map[k] \in Calls
BY DEF MapTo

(* A map from keys to calls is a function on some of the keys, *)
LEMMA MapOf ==
  ASSUME NEW K, NEW S \in SUBSET K, NEW map \in [S -> Calls]
  PROVE  map \in MapTo(K)
BY DEF MapTo

(* stays one when a call is inserted, *)
LEMMA InsertMap ==
  ASSUME NEW K, NEW map \in MapTo(K), NEW k \in K, NEW n \in Calls
  PROVE  Insert(map, k, n) \in MapTo(K)
<1>1. DOMAIN map \cup {k} \in SUBSET K
  BY MapParts
<1>2. Insert(map, k, n) \in [DOMAIN map \cup {k} -> Calls]
  BY MapParts DEF Insert
<1> QED  BY <1>1, <1>2, MapOf

(* or removed, *)
LEMMA RemoveMap ==
  ASSUME NEW K, NEW map \in MapTo(K), NEW k
  PROVE  Remove(map, k) \in MapTo(K)
<1>1. DOMAIN map \ {k} \in SUBSET K
  BY MapParts
<1>2. Remove(map, k) \in [DOMAIN map \ {k} -> Calls]
  BY MapParts DEF Remove, Restrict
<1> QED  BY <1>1, <1>2, MapOf

(* and is one at the start. *)
LEMMA EmptyMap ==
  ASSUME NEW K
  PROVE  Empty \in MapTo(K) /\ DOMAIN Empty = {} /\ Range(Empty) = {}
<1>1. Empty \in [{} -> Calls] /\ DOMAIN Empty = {}
  BY DEF Empty
<1>2. {} \in SUBSET K
  OBVIOUS
<1> HIDE DEF Empty
<1>3. Range(Empty) = {}
  BY <1>1 DEF Range
<1> QED  BY <1>1, <1>2, <1>3, MapOf

------------------------------------------------------------------------------
(* The command that is taken was called, was not answered, and was called   *)
(* before all that stay in the queue.                                       *)
LEMMA TakeHead ==
  ASSUME Made, Queue, NEW op, NEW n, Take(op, n)
  PROVE  /\ n \in Calls /\ Called(n, op) /\ reply[n] = "none"
         /\ n \in Range(cmd_rx)
         /\ Range(cmd_rx') = Range(cmd_rx) \ {n}
         /\ \A m \in Range(cmd_rx') : n < m
         /\ cmd_rx' \in Seq(Calls)
         /\ \A i, j \in DOMAIN cmd_rx' : i < j => cmd_rx'[i] < cmd_rx'[j]
         /\ service = "running" /\ UNCHANGED <<service, client, calls>>
<1> USE DEF Queue, Take
<1>1. /\ cmd_rx \in Seq(Calls) /\ cmd_rx # <<>> /\ n = cmd_rx[1]
      /\ cmd_rx' = Tail(cmd_rx)
      /\ Len(cmd_rx) \in Nat \ {0} /\ DOMAIN cmd_rx = 1 .. Len(cmd_rx)
  OBVIOUS
<1>2. /\ cmd_rx' \in Seq(Calls)
      /\ DOMAIN cmd_rx' = 1 .. Len(cmd_rx) - 1
      /\ \A i \in DOMAIN cmd_rx' : cmd_rx'[i] = cmd_rx[i + 1]
  BY <1>1
<1>3. n \in Range(cmd_rx) /\ n \in Calls /\ n \in DOMAIN calls /\ reply[n] = "none"
  BY <1>1 DEF Range
<1>4. \A i, j \in DOMAIN cmd_rx' : i < j => cmd_rx'[i] < cmd_rx'[j]
  BY <1>1, <1>2
<1>5. \A i \in DOMAIN cmd_rx' : n < cmd_rx'[i] /\ cmd_rx'[i] \in Range(cmd_rx)
  BY <1>1, <1>2 DEF Range
<1>6. \A i \in DOMAIN cmd_rx :
        \/ cmd_rx[i] = n
        \/ (i - 1) \in DOMAIN cmd_rx' /\ cmd_rx'[i - 1] = cmd_rx[i]
  BY <1>1, <1>2
<1>7. \A m \in Range(cmd_rx') : n < m /\ m \in Range(cmd_rx)
  BY <1>5 DEF Range
<1>8. n \notin Range(cmd_rx')
  BY <1>3, <1>7 DEF Calls
<1>9. Range(cmd_rx) \subseteq Range(cmd_rx') \cup {n}
  BY <1>6 DEF Range
<1> QED  BY <1>2, <1>3, <1>4, <1>7, <1>8, <1>9 DEF Called, clientVars

(* What Answer leaves of the replies. *)
LEMMA Answered ==
  ASSUME Made, NEW S, NEW r \in {"ok", "err", "panicked"}, Answer(S, r)
  PROVE  /\ reply' \in [Calls -> {"none", "ok", "err", "panicked"}]
         /\ \A n \in Calls : reply'[n] = IF n \in S THEN r ELSE reply[n]
BY DEF Made, Answer

(* A step of the running service that answers the calls S with r: nothing   *)
(* enters the queue, and no call of S stays in it.                          *)
Step(S, r) ==
  /\ service = "running" /\ UNCHANGED <<service, client, calls>>
  /\ cmd_rx' \in Seq(Calls)
  /\ \A i, j \in DOMAIN cmd_rx' : i < j => cmd_rx'[i] < cmd_rx'[j]
  /\ Range(cmd_rx') \subseteq Range(cmd_rx) \ S
  /\ S \subseteq DOMAIN calls
  /\ r \in {"ok", "err", "panicked"} /\ Answer(S, r)

(* The calls made are numbered from 1. *)
LEMMA CallsAreCalls == Made => DOMAIN calls \subseteq Calls
<1> SUFFICES ASSUME Made PROVE DOMAIN calls \subseteq Calls
  OBVIOUS
<1>1. Len(calls) \in Nat /\ Len(calls) <= MaxCalls /\ DOMAIN calls = 1 .. Len(calls)
  BY DEF Made
<1> QED  BY <1>1, CallAssumption DEF Calls

(* A command leaves the queue and answers callers, as an event does: *)
LEMMA TakeIsStep ==
  ASSUME CInv, NEW op, NEW n, Take(op, n), NEW S \in SUBSET DOMAIN calls,
         NEW r \in {"ok", "err", "panicked"}, Answer(S, r),
         S \cap (Range(cmd_rx) \ {n}) = {}
  PROVE  Step(S, r)
BY TakeHead DEF CInv, Step

(* an event leaves the queue alone. Both are a Step. *)
LEMMA EventIsStep ==
  ASSUME CInv, Event, NEW S \in SUBSET DOMAIN calls,
         NEW r \in {"ok", "err", "panicked"}, Answer(S, r),
         S \cap Range(cmd_rx) = {}
  PROVE  Step(S, r)
BY DEF CInv, Step, Event, Queue, clientVars

(* A reply that does not change answers nobody. *)
LEMMA NoAnswer == ASSUME Made, UNCHANGED reply PROVE Answer({}, "ok")
BY DEF Made, Answer

(* The parts a step keeps, given where the senders are after it. *)
LEMMA StepMadeQueue ==
  ASSUME CInv, NEW S, NEW r, Step(S, r)
  PROVE  /\ Made' /\ Queue'
         /\ \A n \in Calls : reply'[n] = IF n \in S THEN r ELSE reply[n]
<1>1. DOMAIN calls \subseteq Calls
  BY CallsAreCalls DEF CInv
<1>2. /\ reply' \in [Calls -> {"none", "ok", "err", "panicked"}]
      /\ \A n \in Calls : reply'[n] = IF n \in S THEN r ELSE reply[n]
  BY Answered DEF CInv, Step
<1>3. Made'
  BY <1>2 DEF Made, CInv, Step
<1>4. Queue'
  BY <1>1, <1>2 DEF Queue, CInv, Step
<1> QED  BY <1>2, <1>3, <1>4

(* A Step that leaves the streams alone keeps what is said of them. *)
LEMMA StepStreams ==
  ASSUME CInv, NEW S, NEW r, Step(S, r),
         UNCHANGED <<streams, pending_subscribe, joined, yielded>>
  PROVE  Streams' /\ OneStreamPerTopic'
<1>1. \A n \in Calls : reply'[n] = IF n \in S THEN r ELSE reply[n]
  BY StepMadeQueue
<1>2. \A t \in DOMAIN pending_subscribe : pending_subscribe[t] \in Calls
  BY MapParts DEF CInv, Maps
<1>3. Streams'
  BY <1>1, <1>2 DEF CInv, Step, Streams, Called
<1>4. OneStreamPerTopic'
  BY DEF CInv, Step, OneStreamPerTopic
<1> QED  BY <1>3, <1>4

(* A Step that parks well and loses nobody keeps the invariant, *)
LEMMA StepKeepsWith ==
  ASSUME CInv, NEW S, NEW r, Step(S, r), Maps', Parked',
         r = "panicked" => \A n \in S : calls[n].op \in {"dht_add_addr", "dht_bootstrap"},
         \A n \in Owed : n \in Owed' \/ n \in S \/ ~Waiting(n),
         Streams', OneStreamPerTopic'
  PROVE  CInv'
<1>1. /\ Made' /\ Queue'
      /\ \A n \in Calls : reply'[n] = IF n \in S THEN r ELSE reply[n]
  BY StepMadeQueue
<1>2. NoneLost'
  BY <1>1 DEF CInv, Step, NoneLost, Waiting
<1>3. SenderNotDropped'
  BY <1>1, CallsAreCalls DEF CInv, Step, SenderNotDropped
<1> QED  BY <1>1, <1>2, <1>3 DEF CInv

(* and needs nothing said of the streams it leaves alone. *)
LEMMA StepKeeps ==
  ASSUME CInv, NEW S, NEW r, Step(S, r), Maps', Parked',
         r = "panicked" => \A n \in S : calls[n].op \in {"dht_add_addr", "dht_bootstrap"},
         \A n \in Owed : n \in Owed' \/ n \in S \/ ~Waiting(n),
         UNCHANGED <<streams, pending_subscribe, joined, yielded>>
  PROVE  CInv'
BY StepKeepsWith, StepStreams

(* A sender that is parked and not used stays parked. *)
LEMMA StepParkedFor ==
  ASSUME CInv, NEW S, NEW r, Step(S, r)
  PROVE  \A n, op : ParkedFor(n, op) /\ n \notin S => ParkedFor(n, op)'
<1>1. \A n \in Calls : reply'[n] = IF n \in S THEN r ELSE reply[n]
  BY StepMadeQueue
<1> QED  BY <1>1, CallsAreCalls DEF CInv, Step, ParkedFor, Called

(* A Step that changes no map and answers from the queue keeps the parked. *)
LEMMA StepParked ==
  ASSUME CInv, NEW S, NEW r, Step(S, r), S \subseteq Range(cmd_rx),
         UNCHANGED <<routing_updates, pending_bootstap, pending_listen, pending_get_block>>
  PROVE  Parked'
<1>1. \A n, op : ParkedFor(n, op) => ParkedFor(n, op)'
  BY StepParkedFor DEF ParkedFor
<1> QED  BY <1>1 DEF CInv, Step, Parked

------------------------------------------------------------------------------
(* Command::GossipsubPublish. *)
LEMMA PublishKeeps == ASSUME CInv, NEW n, Publish(n) PROVE CInv'
<1>1. PICK r \in {"ok", "err"} : Answer({n}, r)
  BY DEF Publish
<1>2. /\ n \in Calls /\ Called(n, "publish") /\ n \in Range(cmd_rx)
      /\ Range(cmd_rx') = Range(cmd_rx) \ {n}
      /\ \A m \in Range(cmd_rx') : n < m
  BY TakeHead DEF CInv, Publish
<1>3. Step({n}, r)
  BY <1>1, <1>2, TakeIsStep DEF Publish, Called
<1>4. Maps' /\ Parked'
  <2>1. Parked'
    BY <1>2, <1>3, StepParked DEF Publish, serviceVars
  <2> QED  BY <2>1 DEF Publish, serviceVars, CInv, Maps
<1>5. \A m \in Owed : m \in Owed' \/ m \in {n}
  BY <1>2 DEF Owed, Publish, serviceVars
<1>6. UNCHANGED <<streams, pending_subscribe, joined, yielded>>
  BY DEF Publish, serviceVars
<1> QED  BY <1>3, <1>4, <1>5, <1>6, StepKeeps

(* Command::Dial: there is no reply. *)
LEMMA DialKeeps == ASSUME CInv, NEW n, Dial(n) PROVE CInv'
<1>1. /\ n \in Calls /\ Called(n, "dial") /\ n \in Range(cmd_rx)
      /\ Range(cmd_rx') = Range(cmd_rx) \ {n}
  BY TakeHead DEF CInv, Dial
<1>2. Answer({}, "ok")
  BY NoAnswer DEF CInv, Dial
<1>3. Step({}, "ok")
  BY <1>2, TakeIsStep DEF Dial
<1>4. Parked'
  BY <1>3, StepParked DEF Dial, serviceVars
<1>5. Maps'
  BY DEF Dial, serviceVars, CInv, Maps
<1>6. \A m \in Owed : m \in Owed' \/ ~Waiting(m)
  BY <1>1 DEF Owed, Waiting, Called, HasReply, Dial, serviceVars
<1>7. UNCHANGED <<streams, pending_subscribe, joined, yielded>>
  BY DEF Dial, serviceVars
<1> QED  BY <1>3, <1>4, <1>5, <1>6, <1>7, StepKeeps

(* Command::BlockAdd: there is no reply. *)
LEMMA AddBlockCommandKeeps == ASSUME CInv, NEW n, AddBlockCommand(n) PROVE CInv'
<1>1. /\ n \in Calls /\ Called(n, "add_block") /\ n \in Range(cmd_rx)
      /\ Range(cmd_rx') = Range(cmd_rx) \ {n}
  BY TakeHead DEF CInv, AddBlockCommand
<1>2. Answer({}, "ok")
  BY NoAnswer DEF CInv, AddBlockCommand
<1>3. Step({}, "ok")
  BY <1>2, TakeIsStep DEF AddBlockCommand
<1>4. Parked'
  BY <1>3, StepParked DEF AddBlockCommand, serviceVars
<1>5. Maps'
  BY DEF AddBlockCommand, serviceVars, CInv, Maps
<1>6. \A m \in Owed : m \in Owed' \/ ~Waiting(m)
  BY <1>1 DEF Owed, Waiting, Called, HasReply, AddBlockCommand, serviceVars
<1>7. UNCHANGED <<streams, pending_subscribe, joined, yielded>>
  BY DEF AddBlockCommand, serviceVars
<1> QED  BY <1>3, <1>4, <1>5, <1>6, <1>7, StepKeeps

(* Command::DhtAddAddr: the call that waited for the same peer panics. *)
LEMMA DhtAddKeeps == ASSUME CInv, NEW n, DhtAdd(n) PROVE CInv'
<1> DEFINE p == calls[n].arg
           S == Held(routing_updates, p)
<1>1. /\ n \in Calls /\ Called(n, "dht_add_addr") /\ n \in Range(cmd_rx)
      /\ Range(cmd_rx') = Range(cmd_rx) \ {n} /\ reply[n] = "none" /\ calls' = calls
  BY TakeHead DEF CInv, DhtAdd
<1>2. p \in Peers
  BY <1>1 DEF CInv, Made, Called, Arguments
<1>3. \A m \in S : ParkedFor(m, "dht_add_addr") /\ calls[m].arg = p
  BY DEF Held, CInv, Parked
<1>4. Answer(S, "panicked")
  BY DEF DhtAdd
<1>5. Step(S, "panicked")
  BY <1>1, <1>3, <1>4, TakeIsStep DEF DhtAdd, ParkedFor, Called
<1>6. \A m \in Calls : reply'[m] = IF m \in S THEN "panicked" ELSE reply[m]
  BY <1>5, StepMadeQueue
<1> HIDE DEF S, p
<1>7. /\ routing_updates' \in MapTo(Peers)
      /\ DOMAIN routing_updates' = DOMAIN routing_updates \cup {p}
      /\ routing_updates'[p] = n
      /\ \A x \in DOMAIN routing_updates \ {p} : routing_updates'[x] = routing_updates[x]
  <2>1. routing_updates' = Insert(routing_updates, p, n)
    BY DEF DhtAdd, p
  <2>2. routing_updates \in MapTo(Peers)
    BY DEF CInv, Maps
  <2>3. n \in Calls
    BY <1>1
  <2>4. Insert(routing_updates, p, n) \in MapTo(Peers)
    BY <1>2, <2>2, <2>3, InsertMap
  <2>5. /\ DOMAIN Insert(routing_updates, p, n) = DOMAIN routing_updates \cup {p}
        /\ Insert(routing_updates, p, n)[p] = n
        /\ \A x \in DOMAIN routing_updates \ {p} :
             Insert(routing_updates, p, n)[x] = routing_updates[x]
    BY DEF Insert
  <2> QED  BY <2>1, <2>4, <2>5
<1>8. Maps'
  BY <1>7 DEF DhtAdd, CInv, Maps
<1>9. Parked'
  <2>1. \A m, op : ParkedFor(m, op) /\ m \notin S => ParkedFor(m, op)'
    BY <1>5, StepParkedFor
  <2>2. ParkedFor(n, "dht_add_addr")'
    BY <1>1, <1>3, <1>6 DEF ParkedFor, Called
  <2>3. ASSUME NEW x \in DOMAIN routing_updates'
        PROVE  (ParkedFor(routing_updates[x], "dht_add_addr") /\ calls[routing_updates[x]].arg = x)'
    <3>1. CASE x = p
      BY <1>1, <1>7, <2>2, <3>1 DEF p
    <3>2. CASE x # p
      <4>1. x \in DOMAIN routing_updates /\ routing_updates'[x] = routing_updates[x]
        BY <1>7, <2>3, <3>2
      <4>2. ParkedFor(routing_updates[x], "dht_add_addr") /\ calls[routing_updates[x]].arg = x
        BY <4>1 DEF CInv, Parked
      <4>3. routing_updates[x] \notin S
        BY <1>3, <3>2, <4>2
      <4>4. ParkedFor(routing_updates[x], "dht_add_addr")'
        BY <1>5, <2>1, <4>1, <4>2, <4>3 DEF ParkedFor, Called, Step
      <4> QED  BY <1>1, <4>1, <4>2, <4>4
    <3> QED  BY <3>1, <3>2
  <2>4. \A m, op : ParkedFor(m, op) /\ op # "dht_add_addr" => m \notin S
    BY <1>3 DEF ParkedFor, Called
  <2> QED  BY <1>1, <2>1, <2>3, <2>4 DEF CInv, Parked, DhtAdd
<1>10. \A m \in Owed : m \in Owed' \/ m \in S
  <2>1. \A m \in Range(routing_updates) :
          m \in S \/ m \in Range(routing_updates')
    BY <1>7 DEF S, Held, Range
  <2>2. n \in Range(routing_updates')
    BY <1>7 DEF Range
  <2> QED  BY <1>1, <2>1, <2>2 DEF Owed, DhtAdd
<1>11. UNCHANGED <<streams, pending_subscribe, joined, yielded>>
  BY DEF DhtAdd
<1>12. \A m \in S : calls[m].op \in {"dht_add_addr", "dht_bootstrap"}
  BY <1>3 DEF ParkedFor, Called
<1> QED  BY <1>5, <1>8, <1>9, <1>10, <1>11, <1>12, StepKeeps

(* Command::BlockGet: the call that waited for the same cid gets an error. *)
LEMMA BlockGetKeeps == ASSUME CInv, NEW n, BlockGet(n) PROVE CInv'
<1> DEFINE c == calls[n].arg
           S == Held(pending_get_block, c)
<1>1. /\ n \in Calls /\ Called(n, "get_block") /\ n \in Range(cmd_rx)
      /\ Range(cmd_rx') = Range(cmd_rx) \ {n} /\ reply[n] = "none" /\ calls' = calls
  BY TakeHead DEF CInv, BlockGet
<1>2. c \in Cids
  BY <1>1 DEF CInv, Made, Called, Arguments
<1>3. \A m \in S : ParkedFor(m, "get_block") /\ calls[m].arg = c
  BY DEF Held, CInv, Parked
<1>4. Answer(S, "err")
  BY DEF BlockGet
<1>5. Step(S, "err")
  BY <1>1, <1>3, <1>4, TakeIsStep DEF BlockGet, ParkedFor, Called
<1>6. \A m \in Calls : reply'[m] = IF m \in S THEN "err" ELSE reply[m]
  BY <1>5, StepMadeQueue
<1> HIDE DEF S, c
<1>7. /\ pending_get_block' \in MapTo(Cids)
      /\ DOMAIN pending_get_block' = DOMAIN pending_get_block \cup {c}
      /\ pending_get_block'[c] = n
      /\ \A x \in DOMAIN pending_get_block \ {c} : pending_get_block'[x] = pending_get_block[x]
  <2>1. pending_get_block' = Insert(pending_get_block, c, n)
    BY DEF BlockGet, c
  <2>2. pending_get_block \in MapTo(Cids)
    BY DEF CInv, Maps
  <2>3. n \in Calls
    BY <1>1
  <2>4. Insert(pending_get_block, c, n) \in MapTo(Cids)
    BY <1>2, <2>2, <2>3, InsertMap
  <2>5. /\ DOMAIN Insert(pending_get_block, c, n) = DOMAIN pending_get_block \cup {c}
        /\ Insert(pending_get_block, c, n)[c] = n
        /\ \A x \in DOMAIN pending_get_block \ {c} :
             Insert(pending_get_block, c, n)[x] = pending_get_block[x]
    BY DEF Insert
  <2> QED  BY <2>1, <2>4, <2>5
<1>8. Maps'
  BY <1>7 DEF BlockGet, CInv, Maps
<1>9. Parked'
  <2>1. \A m, op : ParkedFor(m, op) /\ m \notin S => ParkedFor(m, op)'
    BY <1>5, StepParkedFor
  <2>2. ParkedFor(n, "get_block")'
    BY <1>1, <1>3, <1>6 DEF ParkedFor, Called
  <2>3. ASSUME NEW x \in DOMAIN pending_get_block'
        PROVE  (ParkedFor(pending_get_block[x], "get_block") /\ calls[pending_get_block[x]].arg = x)'
    <3>1. CASE x = c
      BY <1>1, <1>7, <2>2, <3>1 DEF c
    <3>2. CASE x # c
      <4>1. x \in DOMAIN pending_get_block /\ pending_get_block'[x] = pending_get_block[x]
        BY <1>7, <2>3, <3>2
      <4>2. ParkedFor(pending_get_block[x], "get_block") /\ calls[pending_get_block[x]].arg = x
        BY <4>1 DEF CInv, Parked
      <4>3. pending_get_block[x] \notin S
        BY <1>3, <3>2, <4>2
      <4>4. ParkedFor(pending_get_block[x], "get_block")'
        BY <1>5, <2>1, <4>1, <4>2, <4>3 DEF ParkedFor, Called, Step
      <4> QED  BY <1>1, <4>1, <4>2, <4>4
    <3> QED  BY <3>1, <3>2
  <2>4. \A m, op : ParkedFor(m, op) /\ op # "get_block" => m \notin S
    BY <1>3 DEF ParkedFor, Called
  <2> QED  BY <1>1, <2>1, <2>3, <2>4 DEF CInv, Parked, BlockGet
<1>10. \A m \in Owed : m \in Owed' \/ m \in S
  <2>1. \A m \in Range(pending_get_block) :
          m \in S \/ m \in Range(pending_get_block')
    BY <1>7 DEF S, Held, Range
  <2>2. n \in Range(pending_get_block')
    BY <1>7 DEF Range
  <2> QED  BY <1>1, <2>1, <2>2 DEF Owed, BlockGet
<1>11. UNCHANGED <<streams, pending_subscribe, joined, yielded>>
  BY DEF BlockGet
<1> QED  BY <1>5, <1>8, <1>9, <1>10, <1>11, StepKeeps

(* Command::DhtBootstrap: the query runs, or the sender is dropped. *)
LEMMA BootstrapKeeps == ASSUME CInv, NEW n, Bootstrap(n) PROVE CInv'
<1>1. /\ n \in Calls /\ Called(n, "dht_bootstrap") /\ n \in Range(cmd_rx)
      /\ Range(cmd_rx') = Range(cmd_rx) \ {n} /\ reply[n] = "none" /\ calls' = calls
  BY TakeHead DEF CInv, Bootstrap
<1>2. CASE pending_bootstap' = pending_bootstap \cup {n} /\ UNCHANGED reply
  <2>1. Step({}, "ok")
    BY <1>2, NoAnswer, TakeIsStep DEF Bootstrap, CInv
  <2>2. Maps'
    BY <1>1, <1>2 DEF Bootstrap, CInv, Maps
  <2>3. Parked'
    <3>1. \A m, op : ParkedFor(m, op) => ParkedFor(m, op)'
      BY <2>1, StepParkedFor
    <3>2. ParkedFor(n, "dht_bootstrap")'
      BY <1>1, <1>2 DEF ParkedFor, Called
    <3> QED  BY <1>1, <1>2, <3>1, <3>2 DEF CInv, Parked, Bootstrap
  <2>4. \A m \in Owed : m \in Owed'
    BY <1>1, <1>2 DEF Owed, Bootstrap
  <2> QED  BY <2>1, <2>2, <2>3, <2>4, StepKeeps DEF Bootstrap
<1>3. CASE Answer({n}, "panicked") /\ UNCHANGED pending_bootstap
  <2>1. Step({n}, "panicked")
    BY <1>1, <1>3, TakeIsStep DEF Bootstrap, Called
  <2>2. Maps'
    BY <1>3 DEF Bootstrap, CInv, Maps
  <2>3. Parked'
    BY <1>1, <1>3, <2>1, StepParked DEF Bootstrap
  <2>4. \A m \in Owed : m \in Owed' \/ m \in {n}
    BY <1>1, <1>3 DEF Owed, Bootstrap
  <2>5. calls[n].op \in {"dht_add_addr", "dht_bootstrap"}
    BY <1>1 DEF Called
  <2> QED  BY <2>1, <2>2, <2>3, <2>4, <2>5, StepKeeps DEF Bootstrap
<1> QED  BY <1>2, <1>3 DEF Bootstrap

(* Command::ListenOn: the listener starts, or the caller gets the error. *)
LEMMA ListenOnKeeps == ASSUME CInv, NEW n, ListenOn(n) PROVE CInv'
<1>1. /\ n \in Calls /\ Called(n, "listen_on") /\ n \in Range(cmd_rx)
      /\ Range(cmd_rx') = Range(cmd_rx) \ {n} /\ reply[n] = "none" /\ calls' = calls
  BY TakeHead DEF CInv, ListenOn
<1>2. CASE pending_listen' = pending_listen \cup {n} /\ UNCHANGED reply
  <2>1. Step({}, "ok")
    BY <1>2, NoAnswer, TakeIsStep DEF ListenOn, CInv
  <2>2. Maps'
    BY <1>1, <1>2 DEF ListenOn, CInv, Maps
  <2>3. Parked'
    <3>1. \A m, op : ParkedFor(m, op) => ParkedFor(m, op)'
      BY <2>1, StepParkedFor
    <3>2. ParkedFor(n, "listen_on")'
      BY <1>1, <1>2 DEF ParkedFor, Called
    <3> QED  BY <1>1, <1>2, <3>1, <3>2 DEF CInv, Parked, ListenOn
  <2>4. \A m \in Owed : m \in Owed'
    BY <1>1, <1>2 DEF Owed, ListenOn
  <2> QED  BY <2>1, <2>2, <2>3, <2>4, StepKeeps DEF ListenOn
<1>3. CASE Answer({n}, "err") /\ UNCHANGED pending_listen
  <2>1. Step({n}, "err")
    BY <1>1, <1>3, TakeIsStep DEF ListenOn, Called
  <2>2. Maps'
    BY <1>3 DEF ListenOn, CInv, Maps
  <2>3. Parked'
    BY <1>1, <1>3, <2>1, StepParked DEF ListenOn
  <2>4. \A m \in Owed : m \in Owed' \/ m \in {n}
    BY <1>1, <1>3 DEF Owed, ListenOn
  <2> QED  BY <2>1, <2>2, <2>3, <2>4, StepKeeps DEF ListenOn
<1> QED  BY <1>2, <1>3 DEF ListenOn

(* Command::GossipsubSubscribe: a sender is kept only for a topic that is   *)
(* new to gossipsub, so it replaces none.                                   *)
LEMMA SubscribeKeeps == ASSUME CInv, NEW n, Subscribe(n) PROVE CInv'
<1> DEFINE t == calls[n].arg
<1>1. /\ n \in Calls /\ Called(n, "subscribe") /\ n \in Range(cmd_rx)
      /\ Range(cmd_rx') = Range(cmd_rx) \ {n} /\ reply[n] = "none"
      /\ service = "running" /\ service' = service /\ calls' = calls
  BY TakeHead DEF CInv, Subscribe
<1>2. t \in Topics
  BY <1>1 DEF CInv, Made, Called, Arguments
<1>3. PICK r \in {"ok", "err"} :
        /\ Answer({n}, r)
        /\ \/ /\ t \notin joined /\ r = "ok"
              /\ joined' = joined \cup {t}
              /\ pending_subscribe' = Insert(pending_subscribe, t, n)
              /\ UNCHANGED streams
           \/ /\ streams' = [streams EXCEPT ![n] = "closed"]
              /\ UNCHANGED <<joined, pending_subscribe>>
  BY DEF Subscribe
<1>4. Step({n}, r)
  BY <1>1, <1>3, TakeIsStep DEF Subscribe, Called
<1>5. \A m \in Calls : reply'[m] = IF m \in {n} THEN r ELSE reply[m]
  BY <1>4, StepMadeQueue
<1>6. UNCHANGED <<routing_updates, pending_bootstap, pending_listen, pending_get_block,
                  yielded>>
  BY DEF Subscribe
<1> HIDE DEF t
<1>7. Parked'
  BY <1>1, <1>4, <1>6, StepParked
<1>8. \A m \in Owed : m \in Owed' \/ m \in {n}
  BY <1>1, <1>6 DEF Owed
<1>9. \A x \in DOMAIN pending_subscribe :
        pending_subscribe[x] \in Calls /\ x \in joined /\ pending_subscribe[x] # n
  BY <1>1, MapParts DEF CInv, Maps, Streams
<1>10. OneStreamPerTopic'
  BY <1>1, <1>6 DEF CInv, OneStreamPerTopic
<1>11. Maps' /\ Streams'
  <2>1. CASE /\ t \notin joined /\ r = "ok"
             /\ joined' = joined \cup {t}
             /\ pending_subscribe' = Insert(pending_subscribe, t, n)
             /\ UNCHANGED streams
    <3>1. Insert(pending_subscribe, t, n) \in MapTo(Topics)
      BY <1>1, <1>2, InsertMap DEF CInv, Maps
    <3>2. /\ DOMAIN Insert(pending_subscribe, t, n) = DOMAIN pending_subscribe \cup {t}
          /\ Insert(pending_subscribe, t, n)[t] = n
          /\ \A x \in DOMAIN pending_subscribe \ {t} :
               Insert(pending_subscribe, t, n)[x] = pending_subscribe[x]
      BY DEF Insert
    <3>3. Maps'
      BY <1>6, <2>1, <3>1 DEF CInv, Maps
    <3>4. \A x \in DOMAIN pending_subscribe' :
            /\ x \in joined'
            /\ Called(pending_subscribe'[x], "subscribe") /\ calls[pending_subscribe'[x]].arg = x
            /\ reply'[pending_subscribe'[x]] # "none" /\ streams'[pending_subscribe'[x]] # "closed"
      <4>1. streams[n] # "closed"
        BY <1>1 DEF CInv, Streams
      <4>2. \A x \in DOMAIN pending_subscribe :
              /\ x \in joined
              /\ Called(pending_subscribe[x], "subscribe") /\ calls[pending_subscribe[x]].arg = x
              /\ reply[pending_subscribe[x]] # "none" /\ streams[pending_subscribe[x]] # "closed"
        BY DEF CInv, Streams
      <4> QED  BY <1>1, <1>5, <1>9, <2>1, <3>2, <4>1, <4>2 DEF t
    <3>5. \A m \in yielded :
            /\ Called(m, "subscribe") /\ calls[m].arg \in DOMAIN pending_subscribe'
            /\ pending_subscribe'[calls[m].arg] = m
      BY <1>1, <1>9, <2>1, <3>2 DEF CInv, Streams
    <3>6. /\ streams' \in [Calls -> {"open", "closed", "dropped"}]
          /\ joined' \subseteq Topics /\ yielded' \subseteq Calls
          /\ \A m \in Calls : reply'[m] = "none" => streams'[m] = "open"
      BY <1>2, <1>3, <1>5, <1>6, <2>1 DEF CInv, Streams
    <3> QED  BY <1>1, <1>6, <3>3, <3>4, <3>5, <3>6 DEF Streams, Called
  <2>2. CASE /\ streams' = [streams EXCEPT ![n] = "closed"]
             /\ UNCHANGED <<joined, pending_subscribe>>
    <3>1. Maps'
      BY <1>6, <2>2 DEF CInv, Maps
    <3>2. \A m \in Calls : reply'[m] = "none" => streams'[m] = "open"
      BY <1>3, <1>5, <2>2 DEF CInv, Streams
    <3>3. Streams'
      BY <1>1, <1>3, <1>5, <1>6, <1>9, <2>2, <3>2 DEF CInv, Streams, Called
    <3> QED  BY <3>1, <3>3
  <2> QED  BY <1>3, <2>1, <2>2
<1> QED  BY <1>4, <1>7, <1>8, <1>10, <1>11, StepKeepsWith

------------------------------------------------------------------------------
(* KademliaEvent::RoutingUpdated. *)
LEMMA RoutingUpdateKeeps == ASSUME CInv, NEW p \in Peers, RoutingUpdated(p) PROVE CInv'
<1> DEFINE S == Held(routing_updates, p)
<1>1. \A m \in S : ParkedFor(m, "dht_add_addr") /\ calls[m].arg = p
  BY DEF Held, CInv, Parked
<1>2. Step(S, "ok")
  BY <1>1, EventIsStep DEF RoutingUpdated, ParkedFor, Called
<1>3. /\ routing_updates' \in MapTo(Peers)
      /\ DOMAIN routing_updates' = DOMAIN routing_updates \ {p}
      /\ \A x \in DOMAIN routing_updates \ {p} : routing_updates'[x] = routing_updates[x]
  <2>1. Remove(routing_updates, p) \in MapTo(Peers)
    BY RemoveMap DEF CInv, Maps
  <2>2. /\ DOMAIN Remove(routing_updates, p) = DOMAIN routing_updates \ {p}
        /\ \A x \in DOMAIN routing_updates \ {p} :
             Remove(routing_updates, p)[x] = routing_updates[x]
    BY DEF Remove, Restrict
  <2> QED  BY <2>1, <2>2 DEF RoutingUpdated
<1> HIDE DEF S
<1>4. Maps'
  BY <1>3 DEF RoutingUpdated, CInv, Maps
<1>5. Parked'
  <2>1. \A m, op : ParkedFor(m, op) /\ m \notin S => ParkedFor(m, op)'
    BY <1>2, StepParkedFor
  <2>2. ASSUME NEW x \in DOMAIN routing_updates'
        PROVE  (ParkedFor(routing_updates[x], "dht_add_addr") /\ calls[routing_updates[x]].arg = x)'
    <3>1. x \in DOMAIN routing_updates \ {p} /\ routing_updates'[x] = routing_updates[x]
      BY <1>3, <2>2
    <3>2. ParkedFor(routing_updates[x], "dht_add_addr") /\ calls[routing_updates[x]].arg = x
      BY <3>1 DEF CInv, Parked
    <3>3. routing_updates[x] \notin S
      BY <1>1, <3>1, <3>2
    <3> QED  BY <1>2, <2>1, <3>1, <3>2, <3>3 DEF ParkedFor, Called, Step
  <2>3. \A m, op : ParkedFor(m, op) /\ op # "dht_add_addr" => m \notin S
    BY <1>1 DEF ParkedFor, Called
  <2> QED  BY <1>2, <2>1, <2>2, <2>3 DEF CInv, Parked, RoutingUpdated, Step
<1>6. \A m \in Owed : m \in Owed' \/ m \in S
  <2>1. \A m \in Range(routing_updates) : m \in S \/ m \in Range(routing_updates')
    BY <1>3 DEF S, Held, Range
  <2> QED  BY <2>1 DEF Owed, RoutingUpdated, Event
<1>7. UNCHANGED <<streams, pending_subscribe, joined, yielded>>
  BY DEF RoutingUpdated
<1> QED  BY <1>2, <1>4, <1>5, <1>6, <1>7, StepKeeps

(* BitswapEvent::ReceivedBlock, the half that answers get_block. *)
LEMMA BlockArrivesKeeps == ASSUME CInv, NEW p \in Peers, NEW c \in Cids, BlockArrives(p, c) PROVE CInv'
<1> DEFINE S == Held(pending_get_block, c)
<1>1. \A m \in S : ParkedFor(m, "get_block") /\ calls[m].arg = c
  BY DEF Held, CInv, Parked
<1>2. Step(S, "ok")
  BY <1>1, EventIsStep DEF BlockArrives, ParkedFor, Called
<1>3. /\ pending_get_block' \in MapTo(Cids)
      /\ DOMAIN pending_get_block' = DOMAIN pending_get_block \ {c}
      /\ \A x \in DOMAIN pending_get_block \ {c} : pending_get_block'[x] = pending_get_block[x]
  <2>1. Remove(pending_get_block, c) \in MapTo(Cids)
    BY RemoveMap DEF CInv, Maps
  <2>2. /\ DOMAIN Remove(pending_get_block, c) = DOMAIN pending_get_block \ {c}
        /\ \A x \in DOMAIN pending_get_block \ {c} :
             Remove(pending_get_block, c)[x] = pending_get_block[x]
    BY DEF Remove, Restrict
  <2> QED  BY <2>1, <2>2 DEF BlockArrives
<1> HIDE DEF S
<1>4. Maps'
  BY <1>3 DEF BlockArrives, CInv, Maps
<1>5. Parked'
  <2>1. \A m, op : ParkedFor(m, op) /\ m \notin S => ParkedFor(m, op)'
    BY <1>2, StepParkedFor
  <2>2. ASSUME NEW x \in DOMAIN pending_get_block'
        PROVE  (ParkedFor(pending_get_block[x], "get_block") /\ calls[pending_get_block[x]].arg = x)'
    <3>1. x \in DOMAIN pending_get_block \ {c} /\ pending_get_block'[x] = pending_get_block[x]
      BY <1>3, <2>2
    <3>2. ParkedFor(pending_get_block[x], "get_block") /\ calls[pending_get_block[x]].arg = x
      BY <3>1 DEF CInv, Parked
    <3>3. pending_get_block[x] \notin S
      BY <1>1, <3>1, <3>2
    <3> QED  BY <1>2, <2>1, <3>1, <3>2, <3>3 DEF ParkedFor, Called, Step
  <2>3. \A m, op : ParkedFor(m, op) /\ op # "get_block" => m \notin S
    BY <1>1 DEF ParkedFor, Called
  <2> QED  BY <1>2, <2>1, <2>2, <2>3 DEF CInv, Parked, BlockArrives, Step
<1>6. \A m \in Owed : m \in Owed' \/ m \in S
  <2>1. \A m \in Range(pending_get_block) : m \in S \/ m \in Range(pending_get_block')
    BY <1>3 DEF S, Held, Range
  <2> QED  BY <2>1 DEF Owed, BlockArrives, Event
<1>7. UNCHANGED <<streams, pending_subscribe, joined, yielded>>
  BY DEF BlockArrives
<1> QED  BY <1>2, <1>4, <1>5, <1>6, <1>7, StepKeeps

(* A new listen address, and the end of a bootstrap query. *)
LEMMA NewListenAddrKeeps == ASSUME CInv, NEW n, NewListenAddr(n) PROVE CInv'
<1>1. /\ ParkedFor(n, "listen_on") /\ pending_listen' = pending_listen \ {n}
      /\ Answer({n}, "ok")
  BY DEF NewListenAddr, CInv, Parked
<1>2. Step({n}, "ok")
  BY <1>1, EventIsStep DEF NewListenAddr, ParkedFor, Called
<1>3. Maps'
  BY <1>1 DEF NewListenAddr, CInv, Maps
<1>4. Parked'
  <2>1. \A m, op : ParkedFor(m, op) /\ m # n => ParkedFor(m, op)'
    BY <1>2, StepParkedFor
  <2>2. \A m, op : ParkedFor(m, op) /\ op # "listen_on" => m # n
    BY <1>1 DEF ParkedFor, Called
  <2> QED  BY <1>1, <1>2, <2>1, <2>2 DEF CInv, Parked, NewListenAddr, Step
<1>5. \A m \in Owed : m \in Owed' \/ m \in {n}
  BY <1>1 DEF Owed, NewListenAddr, Event
<1> QED  BY <1>2, <1>3, <1>4, <1>5, StepKeeps DEF NewListenAddr

(* The end of a bootstrap answers the call that asked for it. *)
LEMMA BootstrapCompletedKeeps == ASSUME CInv, NEW n, BootstrapCompleted(n) PROVE CInv'
<1>1. PICK r \in {"ok", "err"} : Answer({n}, r)
  BY DEF BootstrapCompleted
<1>2. ParkedFor(n, "dht_bootstrap") /\ pending_bootstap' = pending_bootstap \ {n}
  BY DEF BootstrapCompleted, CInv, Parked
<1>3. Step({n}, r)
  BY <1>1, <1>2, EventIsStep DEF BootstrapCompleted, ParkedFor, Called
<1>4. Maps'
  BY <1>2 DEF BootstrapCompleted, CInv, Maps
<1>5. Parked'
  <2>1. \A m, op : ParkedFor(m, op) /\ m # n => ParkedFor(m, op)'
    BY <1>3, StepParkedFor
  <2>2. \A m, op : ParkedFor(m, op) /\ op # "dht_bootstrap" => m # n
    BY <1>2 DEF ParkedFor, Called
  <2> QED  BY <1>2, <1>3, <2>1, <2>2 DEF CInv, Parked, BootstrapCompleted, Step
<1>6. \A m \in Owed : m \in Owed' \/ m \in {n}
  BY <1>2 DEF Owed, BootstrapCompleted, Event
<1> QED  BY <1>3, <1>4, <1>5, <1>6, StepKeeps DEF BootstrapCompleted

(* A want or a cancel of a peer is none of the calls' business. *)
LEMMA PeerEventKeeps == ASSUME CInv, NEW p, NEW c, PeerEvent(p, c) PROVE CInv'
<1>1. Step({}, "ok")
  BY NoAnswer, EventIsStep DEF PeerEvent, CInv
<1>2. Maps' /\ Parked'
  BY <1>1, StepParked DEF PeerEvent, serviceVars, CInv, Maps
<1>3. \A m \in Owed : m \in Owed'
  BY DEF Owed, PeerEvent, serviceVars, Event
<1> QED  BY <1>1, <1>2, <1>3, StepKeeps DEF PeerEvent, serviceVars

(* GossipsubEvent::Message: the stream that yields it is the one kept for   *)
(* the topic, whose call joined it.                                         *)
LEMMA MessageKeeps == ASSUME CInv, NEW t \in Topics, Message(t) PROVE CInv'
<1> DEFINE n == pending_subscribe[t]
<1>1. /\ n \in Calls /\ Called(n, "subscribe") /\ calls[n].arg = t
      /\ t \in DOMAIN pending_subscribe
  BY MapParts DEF Message, CInv, Maps, Streams
<1>2. Step({}, "ok")
  BY NoAnswer, EventIsStep DEF Message, CInv
<1>3. yielded' = yielded \cup {n} /\ UNCHANGED <<streams, joined, reply, serviceVars, calls, service>>
  BY DEF Message, Event, clientVars
<1>4. Maps' /\ Parked'
  BY <1>2, <1>3, StepParked DEF serviceVars, CInv, Maps
<1>5. \A m \in Owed : m \in Owed'
  BY DEF Owed, Message, serviceVars, Event
<1>6. Streams'
  BY <1>1, <1>3 DEF CInv, Streams, Called, serviceVars
<1>7. OneStreamPerTopic'
  <2>1. \A m \in yielded : calls[m].arg = t => m = n
    BY DEF CInv, Streams, Message, Event
  <2> QED  BY <1>1, <1>3, <2>1 DEF CInv, OneStreamPerTopic
<1> QED  BY <1>2, <1>4, <1>5, <1>6, <1>7, StepKeepsWith

(* The receiver is gone: subscribe() closes only streams that are not kept, *)
(* so its owner dropped it.                                                 *)
LEMMA MessagePanicsKeeps == ASSUME CInv, NEW t \in Topics, MessagePanics(t) PROVE CInv'
<1>1. /\ service' = "panicked" /\ cmd_rx' = <<>>
      /\ pending_subscribe' = Empty /\ routing_updates' = Empty
      /\ pending_get_block' = Empty /\ pending_bootstap' = {} /\ pending_listen' = {}
      /\ UNCHANGED <<client, calls, streams, joined, yielded>>
  BY DEF MessagePanics, clientVars
<1>2. \E n \in Calls : streams[n] = "dropped"
  BY MapParts DEF MessagePanics, CInv, Maps, Streams
<1>3. /\ reply' \in [Calls -> {"none", "ok", "err", "panicked"}]
      /\ \A n \in Calls : reply'[n] = IF Waiting(n) THEN "panicked" ELSE reply[n]
  BY Answered DEF MessagePanics, CInv
<1>4. \A K : Empty \in MapTo(K) /\ DOMAIN Empty = {} /\ Range(Empty) = {}
  BY EmptyMap
<1>5. Range(cmd_rx') = {}
  BY <1>1 DEF Range
<1>6. Made' /\ Maps'
  BY <1>1, <1>3, <1>4 DEF CInv, Made, Maps, Waiting
<1>7. Queue' /\ Parked'
  BY <1>1, <1>4, <1>5 DEF Queue, Parked
<1>8. NoneLost' /\ SenderNotDropped'
  BY <1>1 DEF NoneLost, SenderNotDropped
<1>9. Streams'
  BY <1>1, <1>3, <1>4 DEF CInv, Streams, Called
<1>10. OneStreamPerTopic'
  BY <1>1, <1>2, <1>5 DEF CInv, OneStreamPerTopic
<1> QED  BY <1>6, <1>7, <1>8, <1>9, <1>10 DEF CInv

------------------------------------------------------------------------------
(* A method sends its command, or panics when the service is gone. *)
LEMMA CallKeeps ==
  ASSUME CInv, NEW op \in Ops, NEW arg \in Arguments(op), Call(op, arg)
  PROVE  CInv'
<1> DEFINE k == Len(calls) + 1
<1>1. /\ Len(calls) \in Nat /\ Len(calls) < MaxCalls /\ DOMAIN calls = 1 .. Len(calls)
      /\ k \in Calls /\ k \notin DOMAIN calls
  BY CallAssumption DEF CInv, Made, Call, Calls
<1>2. [op |-> op, arg |-> arg] \in CallRecords
  BY DEF CallRecords
<1>3. /\ calls' \in Seq(CallRecords) /\ Len(calls') = k
      /\ DOMAIN calls' = DOMAIN calls \cup {k}
      /\ calls'[k] = [op |-> op, arg |-> arg]
      /\ \A n \in DOMAIN calls : calls'[n] = calls[n]
  BY <1>1, <1>2 DEF CInv, Made, Call
<1>4. /\ UNCHANGED <<service, client, streams, joined, yielded>>
      /\ UNCHANGED <<pending_subscribe, routing_updates, pending_bootstap,
                     pending_listen, pending_get_block>>
  BY DEF Call, serviceVars
<1>5. /\ \A n \in DOMAIN calls : n < k /\ n \in Calls
      /\ \A n \in Range(cmd_rx) : n \in DOMAIN calls
  <2>1. \A n \in DOMAIN calls : n < k /\ n \in Calls
    BY <1>1, CallAssumption DEF Calls
  <2> QED  BY <2>1 DEF CInv, Queue
<1>6. \A n, o : Called(n, o) => Called(n, o)' /\ n # k
  BY <1>1, <1>3 DEF Called
<1>7. CASE service = "running" /\ cmd_rx' = Append(cmd_rx, k) /\ UNCHANGED reply
  <2>1. /\ cmd_rx' \in Seq(Calls) /\ Range(cmd_rx') = Range(cmd_rx) \cup {k}
        /\ \A i, j \in DOMAIN cmd_rx' : i < j => cmd_rx'[i] < cmd_rx'[j]
    <3>1. cmd_rx \in Seq(Calls) /\ \A i \in DOMAIN cmd_rx : cmd_rx[i] \in Range(cmd_rx)
      BY DEF CInv, Queue, Range
    <3>2. /\ cmd_rx' \in Seq(Calls) /\ DOMAIN cmd_rx' = 1 .. Len(cmd_rx) + 1
          /\ DOMAIN cmd_rx = 1 .. Len(cmd_rx) /\ Len(cmd_rx) \in Nat
          /\ \A i \in DOMAIN cmd_rx : cmd_rx'[i] = cmd_rx[i]
          /\ cmd_rx'[Len(cmd_rx) + 1] = k
      BY <1>1, <1>7, <3>1
    <3>3. Range(cmd_rx') = Range(cmd_rx) \cup {k}
      BY <3>2 DEF Range
    <3>4. \A i \in DOMAIN cmd_rx : cmd_rx[i] < k
      BY <1>5, <3>1
    <3>5. \A i, j \in DOMAIN cmd_rx : i < j => cmd_rx[i] < cmd_rx[j]
      BY DEF CInv, Queue
    <3>6. ASSUME NEW i \in DOMAIN cmd_rx', NEW j \in DOMAIN cmd_rx', i < j
          PROVE  cmd_rx'[i] < cmd_rx'[j]
      <4>1. i \in DOMAIN cmd_rx /\ (j \in DOMAIN cmd_rx \/ j = Len(cmd_rx) + 1)
        BY <3>2, <3>6
      <4> QED  BY <3>2, <3>4, <3>5, <3>6, <4>1
    <3> QED  BY <3>2, <3>3, <3>6
  <2> HIDE DEF k
  <2>2. Made'
    <3>1. Len(calls') <= MaxCalls
      BY <1>1, <1>3, CallAssumption DEF Calls
    <3>2. \A n \in DOMAIN calls' : calls'[n].arg \in Arguments(calls'[n].op)
      BY <1>3 DEF CInv, Made
    <3> QED  BY <1>3, <1>4, <1>7, <3>1, <3>2 DEF CInv, Made
  <2>3. Maps'
    BY <1>4 DEF CInv, Maps
  <2>4. Queue'
    BY <1>1, <1>3, <1>7, <2>1 DEF CInv, Queue, Made
  <2>5. Parked'
    <3>1. \A n, o : ParkedFor(n, o) => ParkedFor(n, o)'
      BY <1>6, <1>7, <2>1 DEF ParkedFor
    <3> QED  BY <1>3, <1>4, <3>1 DEF CInv, Parked, ParkedFor, Called
  <2>6. NoneLost'
    <3>1. \A n \in Calls : Waiting(n)' => Waiting(n) \/ n = k
      BY <1>3, <1>7 DEF Waiting
    <3>2. Owed' = Owed \cup {k}
      BY <1>4, <2>1 DEF Owed
    <3> QED  BY <1>4, <3>1, <3>2 DEF CInv, NoneLost
  <2>7. Streams'
    BY <1>3, <1>4, <1>6, <1>7 DEF CInv, Streams, Called
  <2>8. OneStreamPerTopic'
    BY <1>3, <1>4 DEF CInv, OneStreamPerTopic, Streams, Called
  <2>9. SenderNotDropped'
    BY <1>1, <1>3, <1>4, <1>7 DEF CInv, SenderNotDropped, Made
  <2> QED  BY <2>2, <2>3, <2>4, <2>5, <2>6, <2>7, <2>8, <2>9 DEF CInv
<1>8. CASE service # "running" /\ Answer({k}, "panicked") /\ UNCHANGED cmd_rx
  <2>1. /\ reply' \in [Calls -> {"none", "ok", "err", "panicked"}]
        /\ \A n \in Calls : reply'[n] = IF n = k THEN "panicked" ELSE reply[n]
    BY <1>8, Answered DEF CInv
  <2> HIDE DEF k
  <2>2. Made'
    <3>1. Len(calls') <= MaxCalls
      BY <1>1, <1>3, CallAssumption DEF Calls
    <3>2. \A n \in DOMAIN calls' : calls'[n].arg \in Arguments(calls'[n].op)
      BY <1>3 DEF CInv, Made
    <3> QED  BY <1>3, <1>4, <2>1, <3>1, <3>2 DEF CInv, Made
  <2>3. Maps'
    BY <1>4 DEF CInv, Maps
  <2>4. Queue'
    BY <1>1, <1>3, <1>5, <1>8, <2>1 DEF CInv, Queue
  <2>5. Parked'
    <3>1. \A n, o : ParkedFor(n, o) => ParkedFor(n, o)'
      BY <1>5, <1>6, <1>8, <2>1 DEF ParkedFor, Called
    <3> QED  BY <1>3, <1>4, <3>1 DEF CInv, Parked, ParkedFor, Called
  <2>6. NoneLost' /\ SenderNotDropped'
    BY <1>4, <1>8 DEF NoneLost, SenderNotDropped
  <2>7. Streams'
    <3>1. \A t \in DOMAIN pending_subscribe :
            pending_subscribe[t] \in DOMAIN calls /\ pending_subscribe[t] # k
      BY <1>1 DEF CInv, Streams, Called
    <3> QED  BY <1>3, <1>4, <1>5, <1>6, <2>1, <3>1 DEF CInv, Streams, Called
  <2>8. OneStreamPerTopic'
    BY <1>3, <1>4 DEF CInv, OneStreamPerTopic, Streams, Called
  <2> QED  BY <2>2, <2>3, <2>4, <2>5, <2>6, <2>7, <2>8 DEF CInv
<1> QED  BY <1>3, <1>7, <1>8 DEF Call

(* The owner of a stream is done with it. *)
LEMMA DropStreamKeeps == ASSUME CInv, NEW n \in Calls, DropStream(n) PROVE CInv'
<1>1. /\ streams' = [streams EXCEPT ![n] = "dropped"] /\ reply[n] = "ok"
      /\ UNCHANGED <<service, client, calls, cmd_rx, reply, joined, yielded>>
      /\ UNCHANGED <<pending_subscribe, routing_updates, pending_bootstap,
                     pending_listen, pending_get_block>>
  BY DEF DropStream, clientVars, serviceVars
<1>2. Made' /\ Maps' /\ Queue' /\ NoneLost' /\ OneStreamPerTopic' /\ SenderNotDropped'
  BY <1>1 DEF CInv, Made, Maps, Queue, NoneLost, Owed, Waiting,
              OneStreamPerTopic, SenderNotDropped
<1>3. Parked'
  BY <1>1 DEF CInv, Parked, ParkedFor, Called
<1>4. streams' \in [Calls -> {"open", "closed", "dropped"}]
  BY <1>1 DEF CInv, Streams
<1>5. \A m \in Calls : streams'[m] = IF m = n THEN "dropped" ELSE streams[m]
  BY <1>1 DEF CInv, Streams
<1>6. Streams'
  <2>1. \A t \in DOMAIN pending_subscribe : pending_subscribe[t] \in Calls
    BY MapParts DEF CInv, Maps
  <2> QED  BY <1>1, <1>4, <1>5, <2>1 DEF CInv, Streams, Called
<1> QED  BY <1>2, <1>3, <1>6 DEF CInv

(* The last clone of the client goes, the service returns. *)
LEMMA EndsKeep == ASSUME CInv, DropClient \/ RunReturns PROVE CInv'
<1>1. /\ UNCHANGED <<calls, cmd_rx, reply, streams, joined, yielded>>
      /\ UNCHANGED <<pending_subscribe, routing_updates, pending_bootstap,
                     pending_listen, pending_get_block>>
      /\ client' \in {"held", "dropped"}
      /\ service' = service \/ (service = "running" /\ service' = "returned")
  BY DEF DropClient, RunReturns, clientVars, serviceVars, CInv, Made
<1>2. Made' /\ Maps' /\ Queue' /\ OneStreamPerTopic'
  BY <1>1 DEF CInv, Made, Maps, Queue, OneStreamPerTopic
<1>3. Parked'
  BY <1>1 DEF CInv, Parked, ParkedFor, Called
<1>4. NoneLost' /\ SenderNotDropped'
  BY <1>1 DEF CInv, NoneLost, Owed, Waiting, SenderNotDropped
<1>5. Streams'
  BY <1>1 DEF CInv, Streams, Called
<1> QED  BY <1>2, <1>3, <1>4, <1>5 DEF CInv

(* What nothing changes is kept. *)
LEMMA StutterKeeps == ASSUME CInv, UNCHANGED allVars PROVE CInv'
<1>1. /\ UNCHANGED <<calls, cmd_rx, reply, streams, joined, yielded, service, client>>
      /\ UNCHANGED <<pending_subscribe, routing_updates, pending_bootstap,
                     pending_listen, pending_get_block>>
  BY DEF allVars, clientVars, serviceVars
<1>2. Made' /\ Maps' /\ Queue' /\ OneStreamPerTopic'
  BY <1>1 DEF CInv, Made, Maps, Queue, OneStreamPerTopic
<1>3. Parked'
  BY <1>1 DEF CInv, Parked, ParkedFor, Called
<1>4. NoneLost' /\ SenderNotDropped'
  BY <1>1 DEF CInv, NoneLost, Owed, Waiting, SenderNotDropped
<1>5. Streams'
  BY <1>1 DEF CInv, Streams, Called
<1> QED  BY <1>2, <1>3, <1>4, <1>5 DEF CInv

------------------------------------------------------------------------------
(* The exchange and its slots are the handlers' of module Bitswap: every    *)
(* step is one of them or leaves the exchange alone.                        *)
LEMMA ServiceNextIInv ==
  ASSUME CInv, IInv, ServiceNext
  PROVE  IInv'
<1>1. CASE UNCHANGED vars
  BY <1>1 DEF vars, IInv, SlotBound
<1>2. ASSUME NEW n, AddBlockCommand(n) PROVE IInv'
  <2>1. Called(n, "add_block")
    BY <1>2, TakeHead DEF AddBlockCommand, CInv
  <2>2. calls[n].arg \in Cids
    BY <2>1 DEF CInv, Made, Called, Arguments
  <2> QED  BY <1>2, <2>2, BlockAddKeeps DEF AddBlockCommand
<1>3. ASSUME NEW p \in Peers, NEW c \in Cids, BlockArrives(p, c) PROVE IInv'
  BY <1>3, ReceivedBlockKeeps DEF BlockArrives
<1>4. ASSUME NEW p \in Peers, NEW c \in Cids, PeerEvent(p, c) PROVE IInv'
  BY <1>4, ReceivedWantKeeps, ReceivedCancelKeeps DEF PeerEvent
<1>5. CASE \E op \in Ops : \E arg \in Arguments(op) : Call(op, arg)
  BY <1>1, <1>5 DEF Call
<1>6. CASE (\E n \in Calls : DropStream(n)) \/ DropClient \/ RunReturns
  BY <1>1, <1>6 DEF DropStream, DropClient, RunReturns
<1>7. CASE TakeCommand
  BY <1>1, <1>2, <1>7
     DEF TakeCommand, Publish, Subscribe, DhtAdd, Bootstrap, ListenOn, BlockGet, Dial
<1>8. CASE SwarmEvent
  BY <1>1, <1>3, <1>4, <1>8
     DEF SwarmEvent, NewListenAddr, BootstrapCompleted, RoutingUpdated, Message, MessagePanics
<1> QED  BY <1>5, <1>6, <1>7, <1>8 DEF ServiceNext

(* Every step keeps the invariant of the calls. *)
LEMMA ServiceNextCInv ==
  ASSUME CInv, ServiceNext
  PROVE  CInv'
<1>1. CASE TakeCommand
  BY <1>1, PublishKeeps, SubscribeKeeps, DhtAddKeeps, BootstrapKeeps, ListenOnKeeps,
     BlockGetKeeps, AddBlockCommandKeeps, DialKeeps DEF TakeCommand
<1>2. CASE SwarmEvent
  BY <1>2, NewListenAddrKeeps, BootstrapCompletedKeeps, RoutingUpdateKeeps, MessageKeeps,
     MessagePanicsKeeps, BlockArrivesKeeps, PeerEventKeeps DEF SwarmEvent
<1> QED  BY <1>1, <1>2, CallKeeps, DropStreamKeeps, EndsKeep DEF ServiceNext

(* The invariant holds at the start. *)
LEMMA InitCInv == ServiceInit => CInv
<1> SUFFICES ASSUME ServiceInit PROVE CInv
  OBVIOUS
<1>1. \A K : Empty \in MapTo(K) /\ DOMAIN Empty = {} /\ Range(Empty) = {}
  BY EmptyMap
<1>2. Range(<<>>) = {} /\ Len(<<>>) = 0
  BY DEF Range
<1>3. calls = <<>> /\ calls \in Seq(CallRecords) /\ DOMAIN calls = {}
  BY DEF ServiceInit
<1>4. Made
  BY <1>2, <1>3, CallAssumption DEF ServiceInit, Made
<1>5. Maps /\ Queue /\ Parked
  BY <1>1, <1>2 DEF ServiceInit, Maps, Queue, Parked
<1>6. NoneLost
  BY <1>3 DEF NoneLost, Waiting
<1>7. Streams
  BY <1>1 DEF ServiceInit, Streams
<1>8. OneStreamPerTopic /\ SenderNotDropped
  BY <1>3 DEF ServiceInit, OneStreamPerTopic, SenderNotDropped
<1> QED  BY <1>4, <1>5, <1>6, <1>7, <1>8 DEF CInv

(* The invariant holds of the service with its callers. *)
THEOREM CInvHolds == ServiceSpec => [](CInv /\ IInv)
<1>1. ServiceInit => CInv /\ IInv
  BY InitCInv, InitIInv DEF ServiceInit
<1>2. CInv /\ IInv /\ [ServiceNext]_allVars => (CInv /\ IInv)'
  <2>1. ASSUME CInv, IInv, UNCHANGED allVars PROVE CInv' /\ IInv'
    <3>1. UNCHANGED vars
      BY <2>1 DEF allVars
    <3> QED  BY <2>1, <3>1, StutterKeeps DEF vars, IInv, SlotBound
  <2> QED  BY <2>1, ServiceNextCInv, ServiceNextIInv
<1> QED  BY <1>1, <1>2, PTL DEF ServiceSpec

------------------------------------------------------------------------------
(* The state of the service and its callers keeps its type. *)
THEOREM ServiceTypeCorrect == ServiceSpec => []ServiceTypeOK
<1>1. CInv /\ IInv => ServiceTypeOK
  <2> SUFFICES ASSUME CInv, IInv PROVE ServiceTypeOK
    OBVIOUS
  <2>1. TypeOK
    BY DEF IInv, TypeOK, WellFormed
  <2>2. DOMAIN calls \subseteq Calls
    BY CallsAreCalls DEF CInv
  <2> QED  BY <2>1, <2>2 DEF CInv, Made, Maps, Queue, Streams, ServiceTypeOK
<1> QED  BY <1>1, CInvHolds, PTL

(* "Only the first subscribe on a topic will yield messages", whatever is   *)
(* dropped and whoever subscribes later: pending_subscribe keeps the call   *)
(* that joined the topic.                                                   *)
THEOREM FirstSubscriberOnly == ServiceSpec => []OneStreamPerTopic
<1>1. CInv => OneStreamPerTopic
  BY DEF CInv
<1> QED  BY <1>1, CInvHolds, PTL

(* `expect("Sender not dropped")`: but for the two DHT methods a caller     *)
(* does not panic on its reply while the service runs.                      *)
THEOREM RepliesAreSent == ServiceSpec => []SenderNotDropped
<1>1. CInv => SenderNotDropped
  BY DEF CInv
<1> QED  BY <1>1, CInvHolds, PTL

(* A message panics the service only on the receiver of a subscribe to its  *)
(* topic that was handed out and dropped by its owner.                      *)
THEOREM PanicsAreForDroppedStreams == ServiceSpec => PanicsOnlyForDroppedStream
<1> DEFINE Panics ==
       \A t \in Topics :
         MessagePanics(t) =>
           LET n == pending_subscribe[t]
           IN  /\ Called(n, "subscribe") /\ calls[n].arg = t
               /\ streams[n] = "dropped"
<1>1. CInv => Panics
  <2> SUFFICES ASSUME CInv, NEW t \in Topics, MessagePanics(t)
               PROVE  /\ Called(pending_subscribe[t], "subscribe")
                      /\ calls[pending_subscribe[t]].arg = t
                      /\ streams[pending_subscribe[t]] = "dropped"
    OBVIOUS
  <2>1. t \in DOMAIN pending_subscribe /\ streams[pending_subscribe[t]] # "open"
    BY DEF MessagePanics
  <2>2. pending_subscribe[t] \in Calls
    BY <2>1, MapParts DEF CInv, Maps
  <2> QED  BY <2>1, <2>2 DEF CInv, Streams
<1>2. CInv => [Panics]_allVars
  BY <1>1
<1> QED  BY <1>2, CInvHolds, PTL DEF PanicsOnlyForDroppedStream

------------------------------------------------------------------------------
(* The steps that answer a caller, and whom: one that waits, or the call    *)
(* that is just being made to a service that is gone.                       *)
OnlyTheWaiting == \A n \in Calls : reply[n] # "none" => reply'[n] = reply[n]

(* The sender a map holds for a key was not used. *)
LEMMA HeldAreUnanswered ==
  ASSUME CInv
  PROVE  /\ \A p : \A n \in Held(routing_updates, p) : reply[n] = "none"
         /\ \A c : \A n \in Held(pending_get_block, c) : reply[n] = "none"
BY DEF CInv, Parked, ParkedFor, Held

(* An answer to calls that have none leaves the others theirs. *)
LEMMA AnswerUnanswered ==
  ASSUME CInv, NEW S, NEW r \in {"ok", "err", "panicked"}, Answer(S, r),
         \A n \in S : reply[n] = "none"
  PROVE  OnlyTheWaiting
BY Answered DEF CInv, OnlyTheWaiting

(* A command answers its own call or those it takes the place of. *)
LEMMA CommandAnswersWaiting == ASSUME CInv, TakeCommand PROVE OnlyTheWaiting
<1>1. PICK n \in Calls :
        \/ Publish(n) \/ Subscribe(n) \/ DhtAdd(n) \/ Bootstrap(n) \/ ListenOn(n)
        \/ BlockGet(n) \/ AddBlockCommand(n) \/ Dial(n)
  BY DEF TakeCommand
<1>2. reply[n] = "none"
  BY <1>1, TakeHead DEF CInv, Publish, Subscribe, DhtAdd, Bootstrap, ListenOn, BlockGet,
                        AddBlockCommand, Dial
<1>3. CASE UNCHANGED reply
  BY <1>3 DEF OnlyTheWaiting
<1>4. ASSUME NEW r \in {"ok", "err", "panicked"}, Answer({n}, r) PROVE OnlyTheWaiting
  BY <1>2, <1>4, AnswerUnanswered
<1>5. CASE DhtAdd(n)
  BY <1>5, HeldAreUnanswered, AnswerUnanswered DEF DhtAdd
<1>6. CASE BlockGet(n)
  BY <1>6, HeldAreUnanswered, AnswerUnanswered DEF BlockGet
<1> QED  BY <1>1, <1>3, <1>4, <1>5, <1>6
         DEF Publish, Subscribe, Bootstrap, ListenOn, AddBlockCommand, Dial

(* An event answers the calls that were parked for it. *)
LEMMA EventAnswersWaiting == ASSUME CInv, SwarmEvent PROVE OnlyTheWaiting
<1>1. CASE UNCHANGED reply
  BY <1>1 DEF OnlyTheWaiting
<1>2. ASSUME NEW n \in Calls, NewListenAddr(n) \/ BootstrapCompleted(n) PROVE OnlyTheWaiting
  <2>1. reply[n] = "none"
    BY <1>2 DEF NewListenAddr, BootstrapCompleted, CInv, Parked, ParkedFor
  <2>2. PICK r \in {"ok", "err", "panicked"} : Answer({n}, r)
    BY <1>2 DEF NewListenAddr, BootstrapCompleted
  <2> QED  BY <2>1, <2>2, AnswerUnanswered
<1>3. ASSUME NEW p \in Peers, RoutingUpdated(p) PROVE OnlyTheWaiting
  BY <1>3, HeldAreUnanswered, AnswerUnanswered DEF RoutingUpdated
<1>4. ASSUME NEW p \in Peers, NEW c \in Cids, BlockArrives(p, c) PROVE OnlyTheWaiting
  BY <1>4, HeldAreUnanswered, AnswerUnanswered DEF BlockArrives
<1>5. ASSUME NEW t \in Topics, MessagePanics(t) PROVE OnlyTheWaiting
  <2>1. \A n \in {m \in Calls : Waiting(m)} : reply[n] = "none"
    BY DEF Waiting
  <2> QED  BY <1>5, <2>1, AnswerUnanswered DEF MessagePanics
<1> QED  BY <1>1, <1>2, <1>3, <1>4, <1>5 DEF SwarmEvent, Message, PeerEvent

(* A call that cannot be sent panics at once. *)
LEMMA CallAnswersWaiting ==
  ASSUME CInv, NEW op \in Ops, NEW arg \in Arguments(op), Call(op, arg)
  PROVE  /\ OnlyTheWaiting
         /\ service # "running" => reply'[Len(calls) + 1] = "panicked"
         /\ DOMAIN calls' = DOMAIN calls \cup {Len(calls) + 1}
         /\ \A n \in DOMAIN calls : calls'[n] = calls[n]
         /\ UNCHANGED <<service, client>> /\ client = "held"
<1> DEFINE k == Len(calls) + 1
           call == [op |-> op, arg |-> arg]
<1>1. /\ Len(calls) \in Nat /\ Len(calls) < MaxCalls /\ DOMAIN calls = 1 .. Len(calls)
      /\ k \in Calls /\ k \notin DOMAIN calls
  BY CallAssumption DEF CInv, Made, Call, Calls
<1>2. call \in CallRecords /\ calls' = Append(calls, call) /\ calls \in Seq(CallRecords)
  BY DEF CallRecords, CInv, Made, Call
<1> HIDE DEF call
<1>3. /\ Len(calls') = k /\ DOMAIN calls' = DOMAIN calls \cup {k}
      /\ \A n \in DOMAIN calls : calls'[n] = calls[n]
  BY <1>1, <1>2
<1>4. reply[k] = "none"
  BY <1>1 DEF CInv, Made
<1>5. CASE service = "running" /\ UNCHANGED reply
  BY <1>3, <1>5 DEF OnlyTheWaiting, Call
<1>6. CASE service # "running" /\ Answer({k}, "panicked")
  <2>1. reply'[k] = "panicked"
    BY <1>1, <1>6, Answered DEF CInv
  <2>2. OnlyTheWaiting
    BY <1>4, <1>6, AnswerUnanswered
  <2> QED  BY <1>3, <1>6, <2>1, <2>2 DEF Call
<1> QED  BY <1>3, <1>5, <1>6 DEF Call

(* Every step of the service with its callers. *)
LEMMA StepAnswersWaiting == ASSUME CInv, ServiceNext PROVE OnlyTheWaiting
<1>1. CASE UNCHANGED reply
  BY <1>1 DEF OnlyTheWaiting
<1> QED  BY <1>1, CallAnswersWaiting, CommandAnswersWaiting, EventAnswersWaiting
         DEF ServiceNext, DropStream, DropClient, RunReturns

(* A oneshot is used once: what a caller was told is never taken back, and  *)
(* no second answer is sent to it (`expect` on a used oneshot panics the    *)
(* service).                                                                *)
THEOREM RepliesAreFinal == ServiceSpec => [][OnlyTheWaiting]_allVars
<1>1. CInv /\ [ServiceNext]_allVars => [OnlyTheWaiting]_allVars
  BY StepAnswersWaiting
<1> QED  BY <1>1, CInvHolds, PTL DEF ServiceSpec

------------------------------------------------------------------------------
(* Nobody waits for a service that is gone: it returns when the last client *)
(* is dropped, for which no call may be in progress, and when it panics the *)
(* senders go with it.                                                      *)
NobodyAbandoned ==
  /\ service = "returned" => client = "dropped"
  /\ client = "dropped" \/ service = "panicked" => \A n \in Calls : ~Waiting(n)

(* No step leaves a caller behind. *)
LEMMA StepAbandonsNobody ==
  ASSUME CInv, NobodyAbandoned, ServiceNext
  PROVE  NobodyAbandoned'
<1>1. OnlyTheWaiting
  BY StepAnswersWaiting
<1>2. UNCHANGED calls => \A n \in Calls : Waiting(n)' => Waiting(n)
  BY <1>1 DEF OnlyTheWaiting, Waiting
<1>3. ASSUME NEW op \in Ops, NEW arg \in Arguments(op), Call(op, arg)
      PROVE  NobodyAbandoned'
  <2>1. service \in {"running", "panicked"} /\ client = "held" /\ UNCHANGED <<service, client>>
    BY <1>3, CallAnswersWaiting DEF NobodyAbandoned, CInv, Made
  <2>2. ASSUME service = "panicked", NEW n \in Calls PROVE ~Waiting(n)'
    BY <1>1, <1>3, <2>2, CallAnswersWaiting DEF NobodyAbandoned, Waiting, OnlyTheWaiting
  <2> QED  BY <2>1, <2>2 DEF NobodyAbandoned
<1>4. CASE UNCHANGED <<calls, service, client>>
  BY <1>2, <1>4 DEF NobodyAbandoned
<1>5. CASE DropClient
  BY <1>2, <1>5 DEF DropClient, NobodyAbandoned
<1>6. CASE RunReturns
  BY <1>2, <1>6 DEF RunReturns, NobodyAbandoned, clientVars
<1>7. ASSUME NEW t \in Topics, MessagePanics(t) PROVE NobodyAbandoned'
  <2>1. \A n \in Calls : reply'[n] = IF Waiting(n) THEN "panicked" ELSE reply[n]
    BY <1>7, Answered DEF MessagePanics, CInv
  <2> QED  BY <1>7, <2>1 DEF MessagePanics, NobodyAbandoned, Waiting, clientVars
<1>8. CASE TakeCommand
  BY <1>4, <1>8 DEF TakeCommand, Publish, Subscribe, DhtAdd, Bootstrap, ListenOn, BlockGet,
                    AddBlockCommand, Dial, Take, clientVars
<1>9. CASE SwarmEvent
  BY <1>4, <1>7, <1>9 DEF SwarmEvent, NewListenAddr, BootstrapCompleted, RoutingUpdated,
                          Message, BlockArrives, PeerEvent, Event, clientVars
<1> QED  BY <1>3, <1>4, <1>5, <1>6, <1>8, <1>9 DEF ServiceNext, DropStream, clientVars

(* A call that waits is owed a reply by a service that runs. *)
NobodyWaitsForNothing == \A n \in Calls : Waiting(n) => service = "running" /\ n \in Owed

(* A caller never awaits a reply that no one can send any more: while it    *)
(* waits the service runs and holds its sender.                             *)
THEOREM WaitingCallsAreOwed == ServiceSpec => []NobodyWaitsForNothing
<1>1. ServiceInit => NobodyAbandoned
  BY DEF ServiceInit, NobodyAbandoned
<1>2. CInv /\ NobodyAbandoned /\ [ServiceNext]_allVars => NobodyAbandoned'
  <2>1. ASSUME NobodyAbandoned, UNCHANGED allVars PROVE NobodyAbandoned'
    BY <2>1 DEF NobodyAbandoned, Waiting, allVars, clientVars
  <2> QED  BY <2>1, StepAbandonsNobody
<1>3. CInv /\ NobodyAbandoned => NobodyWaitsForNothing
  BY DEF CInv, Made, NoneLost, NobodyAbandoned, NobodyWaitsForNothing
<1> QED  BY <1>1, <1>2, <1>3, CInvHolds, PTL DEF ServiceSpec

(* A get_block that was taken and waits: its sender is kept for its cid. *)
GetWaits(n) == Called(n, "get_block") /\ Waiting(n) /\ n \notin Range(cmd_rx)

(* Only the block that comes in answers such a call with Ok. *)
LEMMA OkComesWithBlock ==
  ASSUME CInv, ServiceNext, service = "running",
         NEW n \in Calls, GetWaits(n), reply'[n] = "ok"
  PROVE  \E p \in Peers : BlockArrives(p, calls[n].arg)
<1>1. n \in DOMAIN calls /\ reply[n] = "none" /\ n \notin Range(cmd_rx) /\ Called(n, "get_block")
  BY DEF GetWaits, Waiting
<1>2. reply' # reply
  BY <1>1
<1>3. \A S, r : r \in {"ok", "err", "panicked"} /\ Answer(S, r) => n \in S /\ r = "ok"
  BY <1>1 DEF Answer
<1>4. \A m, op : ParkedFor(m, op) /\ op # "get_block" => m # n
  BY <1>1 DEF ParkedFor, Called
<1>5. ASSUME NEW m, \/ Publish(m) \/ Subscribe(m) \/ DhtAdd(m) \/ Bootstrap(m)
                    \/ ListenOn(m) \/ BlockGet(m) \/ AddBlockCommand(m) \/ Dial(m)
      PROVE  FALSE
  <2>1. m # n
    BY <1>1, <1>5, TakeHead
       DEF CInv, Publish, Subscribe, DhtAdd, Bootstrap, ListenOn, BlockGet, AddBlockCommand, Dial
  <2>2. PICK S \in {{m}, Held(routing_updates, calls[m].arg), Held(pending_get_block, calls[m].arg)},
             r \in {"ok", "err", "panicked"} :
          Answer(S, r) /\ (S = {m} \/ r # "ok")
    BY <1>2, <1>5 DEF Publish, Subscribe, DhtAdd, Bootstrap, ListenOn, BlockGet,
                      AddBlockCommand, Dial
  <2> QED  BY <1>3, <2>1, <2>2
<1>6. ASSUME NEW m, NewListenAddr(m) \/ BootstrapCompleted(m) PROVE FALSE
  <2>1. m # n
    BY <1>4, <1>6 DEF NewListenAddr, BootstrapCompleted, CInv, Parked
  <2>2. PICK r \in {"ok", "err"} : Answer({m}, r)
    BY <1>6 DEF NewListenAddr, BootstrapCompleted
  <2> QED  BY <1>3, <2>1, <2>2
<1>7. ASSUME NEW p \in Peers, RoutingUpdated(p) PROVE FALSE
  <2>1. n \notin Held(routing_updates, p)
    BY <1>4 DEF CInv, Parked, Held
  <2> QED  BY <1>3, <1>7, <2>1 DEF RoutingUpdated
<1>8. ASSUME NEW t \in Topics, MessagePanics(t) PROVE FALSE
  BY <1>3, <1>8 DEF MessagePanics
<1>9. ASSUME NEW p \in Peers, NEW c \in Cids, BlockArrives(p, c)
      PROVE  BlockArrives(p, calls[n].arg)
  <2>1. n \in Held(pending_get_block, c)
    BY <1>3, <1>9 DEF BlockArrives
  <2>2. calls[n].arg = c
    BY <2>1 DEF CInv, Parked, Held
  <2> QED  BY <1>9, <2>2
<1>10. CASE SwarmEvent
  BY <1>2, <1>6, <1>7, <1>8, <1>9, <1>10 DEF SwarmEvent, Message, PeerEvent
<1>11. CASE TakeCommand
  BY <1>5, <1>11 DEF TakeCommand
<1> QED  BY <1>2, <1>10, <1>11 DEF ServiceNext, Call, DropStream, DropClient, RunReturns

(* The block that comes in answers it, whoever asked for the cid before. *)
LEMMA BlockGivesOk ==
  ASSUME CInv, service = "running", NEW n \in Calls, GetWaits(n),
         NEW p \in Peers, BlockArrives(p, calls[n].arg)
  PROVE  reply'[n] = "ok"
<1>1. n \in Owed /\ n \notin Range(cmd_rx) /\ Called(n, "get_block")
  BY DEF CInv, NoneLost, GetWaits
<1>2. \A m, op : ParkedFor(m, op) /\ op # "get_block" => m # n
  BY <1>1 DEF ParkedFor, Called
<1>3. n \in Range(pending_get_block)
  BY <1>1, <1>2 DEF Owed, CInv, Parked, Range
<1>4. n \in Held(pending_get_block, calls[n].arg)
  BY <1>3 DEF CInv, Parked, Held, Range
<1> QED  BY <1>4 DEF BlockArrives, Answer

(* A get_block the service has taken returns Ok exactly in the step that    *)
(* brings the block of its cid, whatever else is asked for in between and   *)
(* however many sends are open.                                             *)
THEOREM GetBlockWaitsForItsBlock == ServiceSpec => BlockAnswersItsGet
<1> DEFINE ByBlock ==
       \A n \in Calls :
         Called(n, "get_block") /\ Waiting(n) /\ n \notin Range(cmd_rx)
           => (reply'[n] = "ok" <=> \E p \in Peers : BlockArrives(p, calls[n].arg))
<1>1. CInv /\ NobodyWaitsForNothing /\ ServiceNext => ByBlock
  <2> SUFFICES ASSUME CInv, NobodyWaitsForNothing, ServiceNext, NEW n \in Calls, GetWaits(n)
               PROVE  reply'[n] = "ok" <=> \E p \in Peers : BlockArrives(p, calls[n].arg)
    BY DEF GetWaits
  <2>1. service = "running"
    BY DEF NobodyWaitsForNothing, GetWaits
  <2> QED  BY <2>1, OkComesWithBlock, BlockGivesOk
<1>2. CInv /\ NobodyWaitsForNothing /\ [ServiceNext]_allVars => [ByBlock]_allVars
  BY <1>1
<1> QED  BY <1>2, CInvHolds, WaitingCallsAreOwed, PTL DEF ServiceSpec, BlockAnswersItsGet

(* A publish or subscribe that waits is in the queue of a running service:  *)
(* no event is needed for its reply, only that the command is taken.        *)
QuickCallsAreQueued ==
  \A n \in Calls :
    Waiting(n) /\ calls[n].op \in {"publish", "subscribe"}
      => service = "running" /\ n \in Range(cmd_rx)

(* The reply of publish and subscribe depends on nothing but the service    *)
(* taking the command.                                                      *)
THEOREM OnlyTheQueueDelays == ServiceSpec => []QuickCallsAreQueued
<1>1. CInv /\ NobodyWaitsForNothing => QuickCallsAreQueued
  BY DEF CInv, Parked, ParkedFor, Called, Owed, Range, NobodyWaitsForNothing,
         QuickCallsAreQueued
<1> QED  BY <1>1, CInvHolds, WaitingCallsAreOwed, PTL

(* The commands that will be taken before that of call n. *)
InFrontOf(n) == {m \in Range(cmd_rx) : m < n}

(* A command in the queue gets no more of them, and fewer with each command *)
(* that is taken.                                                           *)
MovesUp ==
  \A n \in Range(cmd_rx) :
    n \in Range(cmd_rx') =>
      /\ InFrontOf(n)' \subseteq InFrontOf(n)
      /\ TakeCommand => InFrontOf(n)' # InFrontOf(n)

(* A command waits for as many others as were sent before it: none that is  *)
(* sent later is taken first, whatever the events in between.               *)
THEOREM CommandsMoveUp == ServiceSpec => [][MovesUp]_allVars
<1>1. CInv /\ [ServiceNext]_allVars => [MovesUp]_allVars
  <2> SUFFICES ASSUME CInv, ServiceNext, NEW n \in Range(cmd_rx), n \in Range(cmd_rx')
               PROVE  /\ InFrontOf(n)' \subseteq InFrontOf(n)
                      /\ TakeCommand => InFrontOf(n)' # InFrontOf(n)
    BY DEF MovesUp
  <2>1. ASSUME TakeCommand
        PROVE  InFrontOf(n)' \subseteq InFrontOf(n) /\ InFrontOf(n)' # InFrontOf(n)
    <3>1. PICK m \in Calls, op \in Ops : Take(op, m)
      BY <2>1 DEF TakeCommand, Ops, Publish, Subscribe, DhtAdd, Bootstrap, ListenOn, BlockGet,
                  AddBlockCommand, Dial
    <3>2. /\ m \in Range(cmd_rx) /\ Range(cmd_rx') = Range(cmd_rx) \ {m}
          /\ \A i \in Range(cmd_rx') : m < i
      BY <3>1, TakeHead DEF CInv
    <3>3. m \in InFrontOf(n) /\ m \notin InFrontOf(n)'
      BY <3>2 DEF InFrontOf
    <3> QED  BY <3>2, <3>3 DEF InFrontOf
  <2>2. ASSUME UNCHANGED cmd_rx PROVE InFrontOf(n)' \subseteq InFrontOf(n)
    BY <2>2 DEF InFrontOf
  <2>3. ASSUME NEW op \in Ops, NEW arg \in Arguments(op), Call(op, arg)
        PROVE  InFrontOf(n)' \subseteq InFrontOf(n)
    <3>1. CASE cmd_rx' = Append(cmd_rx, Len(calls'))
      <4>1. CInv'
        BY <2>3, CallKeeps
      <4>2. /\ cmd_rx \in Seq(Calls) /\ DOMAIN cmd_rx = 1 .. Len(cmd_rx)
            /\ Len(cmd_rx) \in Nat
            /\ Len(calls') \in Calls
        <5>1. Len(calls') \in Nat /\ Len(calls') <= MaxCalls /\ Len(calls') = Len(calls) + 1
              /\ Len(calls) \in Nat
          BY <2>3, <4>1 DEF CInv, Made, Call
        <5> QED  BY <5>1, CallAssumption DEF CInv, Queue, Calls
      <4>3. /\ DOMAIN cmd_rx' = 1 .. Len(cmd_rx) + 1
            /\ cmd_rx'[Len(cmd_rx) + 1] = Len(calls')
            /\ \A i \in DOMAIN cmd_rx : cmd_rx'[i] = cmd_rx[i]
        BY <3>1, <4>2
      <4>4. PICK i \in DOMAIN cmd_rx : cmd_rx[i] = n
        BY DEF Range
      <4>5. n < Len(calls')
        BY <4>1, <4>2, <4>3, <4>4 DEF CInv, Queue
      <4>6. ~(Len(calls') < n)
        <5>1. n \in Calls /\ \A k \in Calls : k \in Nat
          BY <4>2, <4>4, CallAssumption DEF Calls
        <5> QED  BY <4>2, <4>5, <5>1
      <4>7. Range(cmd_rx') = Range(cmd_rx) \cup {Len(calls')}
        BY <4>2, <4>3 DEF Range
      <4> QED  BY <4>6, <4>7 DEF InFrontOf
    <3> QED  BY <2>2, <2>3, <3>1 DEF Call
  <2>4. ASSUME SwarmEvent PROVE InFrontOf(n)' \subseteq InFrontOf(n)
    <3>1. ASSUME NEW t \in Topics, MessagePanics(t) PROVE FALSE
      <4>1. cmd_rx' = <<>>
        BY <3>1 DEF MessagePanics
      <4> QED  BY <4>1 DEF Range
    <3>2. UNCHANGED cmd_rx
      BY <2>4, <3>1
         DEF SwarmEvent, NewListenAddr, BootstrapCompleted, RoutingUpdated, Message,
             BlockArrives, PeerEvent, Event
    <3> QED  BY <2>2, <3>2
  <2> QED  BY <2>1, <2>2, <2>3, <2>4 DEF ServiceNext, DropStream, DropClient, RunReturns
<1> QED  BY <1>1, CInvHolds, PTL DEF ServiceSpec

------------------------------------------------------------------------------
(* What holds of the block server alone holds of it in the service: the     *)
(* commands and events that are not its own leave it as it is.              *)
THEOREM ServiceSendsAreBounded == ServiceSpec => []SlotBound
<1>1. IInv => SlotBound
  BY DEF IInv
<1> QED  BY <1>1, CInvHolds, PTL

(* No block is sent again while it is being sent, whatever the commands in  *)
(* between.                                                                 *)
THEOREM ServiceResendsNothing == ServiceSpec => NoResend
<1> DEFINE Fresh == \A o \in sent' : Slot(o) \notin pending_send_block
<1>1. CInv /\ IInv /\ [ServiceNext]_allVars => [Fresh]_vars
  <2> SUFFICES ASSUME CInv, IInv, ServiceNext, vars' # vars PROVE Fresh
    BY DEF allVars
  <2>1. CASE UNCHANGED vars
    BY <2>1
  <2>2. ASSUME NEW n, AddBlockCommand(n) PROVE Fresh
    BY <2>2 DEF AddBlockCommand, BlockAdd
  <2>3. ASSUME NEW p \in Peers, NEW c \in Cids, BlockArrives(p, c) PROVE Fresh
    <3>1. Genuine(c) \in Blocks
      BY DEF Genuine, Blocks
    <3> QED  BY <2>3, <3>1, AddBlockWellFormed, DispatchIfFreeResendsNothing
             DEF BlockArrives, ReceivedBlock, IInv
  <2>4. ASSUME NEW p \in Peers, NEW c \in Cids, PeerEvent(p, c) PROVE Fresh
    <3>1. CASE ReceivedWant(p, c)
      BY <3>1, AddWantWellFormed, DispatchIfFreeResendsNothing DEF ReceivedWant, IInv
    <3> QED  BY <2>4, <3>1, ReceivedCancelResendsNothing DEF PeerEvent
  <2>5. CASE TakeCommand
    BY <2>1, <2>2, <2>5
       DEF TakeCommand, Publish, Subscribe, DhtAdd, Bootstrap, ListenOn, BlockGet, Dial
  <2>6. CASE SwarmEvent
    BY <2>1, <2>3, <2>4, <2>6
       DEF SwarmEvent, NewListenAddr, BootstrapCompleted, RoutingUpdated, Message, MessagePanics
  <2> QED  BY <2>1, <2>5, <2>6 DEF ServiceNext, Call, DropStream, DropClient, RunReturns
<1> QED  BY <1>1, CInvHolds, PTL DEF ServiceSpec, NoResend
(* A node as module Bitswap has it, with add_block commands besides. *)
NodeNext == ViewerNext \/ \E c \in Cids : BlockAdd(c)

NodeSpec == Init /\ [][NodeNext]_vars

(* The service with its callers implements that node: the other commands    *)
(* and events, panics and returns of the service included, are stutters of  *)
(* the block server, and an event of its own is one step of it.             *)
THEOREM ServiceImplementsNode == ServiceSpec => NodeSpec
<1>1. ASSUME CInv, ServiceNext PROVE NodeNext \/ UNCHANGED vars
  <2>1. ASSUME TakeCommand PROVE NodeNext \/ UNCHANGED vars
    <3>1. PICK n \in Calls :
            \/ Publish(n) \/ Subscribe(n) \/ DhtAdd(n) \/ Bootstrap(n) \/ ListenOn(n)
            \/ BlockGet(n) \/ AddBlockCommand(n) \/ Dial(n)
      BY <2>1 DEF TakeCommand
    <3>2. CASE AddBlockCommand(n)
      <4>1. Called(n, "add_block")
        BY <1>1, <3>2, TakeHead DEF AddBlockCommand, Take, CInv
      <4>2. calls[n].arg \in Cids
        BY <1>1, <4>1 DEF CInv, Made, Called, Arguments
      <4> QED  BY <3>2, <4>2 DEF AddBlockCommand, NodeNext
    <3> QED  BY <3>1, <3>2
             DEF Publish, Subscribe, DhtAdd, Bootstrap, ListenOn, BlockGet, Dial
  <2>2. ASSUME SwarmEvent PROVE NodeNext \/ UNCHANGED vars
    <3>1. ASSUME NEW p \in Peers, NEW c \in Cids, BlockArrives(p, c) \/ PeerEvent(p, c)
          PROVE  ViewerNext
      BY <3>1 DEF BlockArrives, PeerEvent, ViewerNext
    <3> QED  BY <2>2, <3>1
             DEF SwarmEvent, NodeNext, NewListenAddr, BootstrapCompleted, RoutingUpdated,
                 Message, MessagePanics
  <2> QED  BY <1>1, <2>1, <2>2 DEF ServiceNext, Call, DropStream, DropClient, RunReturns
<1>2. ServiceInit => Init
  BY DEF ServiceInit
<1>3. CInv /\ [ServiceNext]_allVars => [NodeNext]_vars
  BY <1>1 DEF allVars
<1> QED  BY <1>2, <1>3, CInvHolds, PTL DEF ServiceSpec, NodeSpec
=============================================================================
