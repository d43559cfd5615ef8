----------------------------- MODULE Rendezvous -----------------------------
(****************************************************************************)
(* How the streamer and the viewers (roles/streamer.rs, roles/viewer.rs)    *)
(* find each other and stop together.  Both run the same steps around their *)
(* streaming loop: subscribe to the address topic, meet at "init", publish  *)
(* their address, read the others' until they have them all, meet at "net", *)
(* dial everyone, meet at "bootstrapped", stream, meet at "stop".           *)
(*                                                                          *)
(* Testground is external: a state is a counter that signal() increments    *)
(* and barrier() waits on; a subscriber gets what is published after it     *)
(* subscribed, in order (REDIS_TOPIC).  A node and its address are one.     *)
(****************************************************************************)
EXTENDS Naturals, Sequences, FiniteSets, Functions

CONSTANT Nodes   \* runenv.test_instance_count of them; manifest.toml: min = 2

ASSUME NodesAssumption == IsFiniteSet(Nodes) /\ Cardinality(Nodes) >= 2

Count == Cardinality(Nodes)

States == {"init", "net", "bootstrapped", "stop"}

VARIABLES
  pc,          \* per node: what it does next
  signals,     \* per state: how many nodes have signalled it
  subscribed,  \* the nodes subscribed to the address topic
  stream,      \* per node: the messages of its subscription, unread
  peer_ids,    \* per node: the addresses it has read
  dialed       \* per node: the addresses it has dialled

vars == <<pc, signals, subscribed, stream, peer_ids, dialed>>

Steps == <<"subscribe", "signal_init", "init", "publish", "signal_net", "collect",
           "net", "dial", "signal_bootstrapped", "bootstrapped", "streaming",
           "stop", "done">>

Init ==
  /\ pc = [n \in Nodes |-> "subscribe"]
  /\ signals = [s \in States |-> 0]
  /\ subscribed = {}
  /\ stream = [n \in Nodes |-> <<>>]
  /\ peer_ids = [n \in Nodes |-> <<>>]
  /\ dialed = [n \in Nodes |-> {}]

Goto(n, from, to) == pc[n] = from /\ pc' = [pc EXCEPT ![n] = to]

Signal(s) == signals' = [signals EXCEPT ![s] = @ + 1]

(* barrier(): enough nodes have signalled s. *)
Reached(s) == signals[s] >= Count

Subscribe(n) ==
  /\ Goto(n, "subscribe", "signal_init")
  /\ subscribed' = subscribed \cup {n}
  /\ UNCHANGED <<signals, stream, peer_ids, dialed>>

(* Mutant: the state is signalled and not waited for. *)
SignalInitOnly(n) ==
  /\ Goto(n, "signal_init", "publish") /\ Signal("init")
  /\ UNCHANGED <<subscribed, stream, peer_ids, dialed>>

(* signal_and_wait(INIT_STATE), and the waits of the other states. *)
SignalInit(n) ==
  /\ Goto(n, "signal_init", "init") /\ Signal("init")
  /\ UNCHANGED <<subscribed, stream, peer_ids, dialed>>

Pass(n, s, to) ==
  /\ Goto(n, s, to) /\ Reached(s)
  /\ UNCHANGED <<signals, subscribed, stream, peer_ids, dialed>>

PublishAddress(n) ==
  /\ Goto(n, "publish", "signal_net")
  /\ stream' = [m \in Nodes |-> IF m \in subscribed THEN Append(stream[m], n) ELSE stream[m]]
  /\ UNCHANGED <<signals, subscribed, peer_ids, dialed>>

(* Mutant: the other state is signalled. *)
SignalNetAsInit(n) ==
  /\ Goto(n, "signal_net", "collect") /\ Signal("init")
  /\ UNCHANGED <<subscribed, stream, peer_ids, dialed>>

SignalNet(n) ==
  /\ Goto(n, "signal_net", "collect") /\ Signal("net")
  /\ UNCHANGED <<subscribed, stream, peer_ids, dialed>>

(* Mutant: the node's own address counts. *)
ReadOwnCounts(n) ==
  /\ pc[n] = "collect" /\ stream[n] # <<>> /\ Head(stream[n]) = n
  /\ stream' = [stream EXCEPT ![n] = Tail(@)]
  /\ peer_ids' = [peer_ids EXCEPT ![n] = Append(@, n)]
  /\ pc' = [pc EXCEPT ![n] = IF Len(peer_ids'[n]) >= Count - 1 THEN "net" ELSE "collect"]
  /\ UNCHANGED <<signals, subscribed, dialed>>

(* One turn of the loop over the stream: a node skips its own address, and  *)
(* breaks when it has all the others'.                                      *)
ReadOwn(n) ==
  /\ pc[n] = "collect" /\ stream[n] # <<>> /\ Head(stream[n]) = n
  /\ stream' = [stream EXCEPT ![n] = Tail(@)]
  /\ UNCHANGED <<pc, signals, subscribed, peer_ids, dialed>>

(* Mutant: the node waits for one address more than there are. *)
ReadAddressOneMore(n) ==
  /\ pc[n] = "collect" /\ stream[n] # <<>> /\ Head(stream[n]) # n
  /\ stream' = [stream EXCEPT ![n] = Tail(@)]
  /\ peer_ids' = [peer_ids EXCEPT ![n] = Append(@, Head(stream[n]))]
  /\ pc' = [pc EXCEPT ![n] = IF Len(peer_ids'[n]) >= Count THEN "net" ELSE "collect"]
  /\ UNCHANGED <<signals, subscribed, dialed>>

ReadAddress(n) ==
  /\ pc[n] = "collect" /\ stream[n] # <<>> /\ Head(stream[n]) # n
  /\ stream' = [stream EXCEPT ![n] = Tail(@)]
  /\ peer_ids' = [peer_ids EXCEPT ![n] = Append(@, Head(stream[n]))]
  /\ pc' = [pc EXCEPT ![n] = IF Len(peer_ids'[n]) >= Count - 1 THEN "net" ELSE "collect"]
  /\ UNCHANGED <<signals, subscribed, dialed>>

DialAll(n) ==
  /\ Goto(n, "dial", "signal_bootstrapped")
  /\ dialed' = [dialed EXCEPT ![n] = Range(peer_ids[n])]
  /\ UNCHANGED <<signals, subscribed, stream, peer_ids>>

SignalBootstrapped(n) ==
  /\ Goto(n, "signal_bootstrapped", "bootstrapped") /\ Signal("bootstrapped")
  /\ UNCHANGED <<subscribed, stream, peer_ids, dialed>>

(* Mutant: the node leaves with the signal. *)
FinishAndLeave(n) ==
  /\ Goto(n, "streaming", "done") /\ Signal("stop")
  /\ UNCHANGED <<subscribed, stream, peer_ids, dialed>>

(* sim_time is over; record_success, then signal_and_wait(STOP_STATE). *)
FinishStreaming(n) ==
  /\ Goto(n, "streaming", "stop") /\ Signal("stop")
  /\ UNCHANGED <<subscribed, stream, peer_ids, dialed>>

Node(n) ==
  \/ Subscribe(n) \/ SignalInit(n) \/ Pass(n, "init", "publish")
  \/ PublishAddress(n) \/ SignalNet(n) \/ ReadOwn(n) \/ ReadAddress(n)
  \/ Pass(n, "net", "dial") \/ DialAll(n)
  \/ SignalBootstrapped(n) \/ Pass(n, "bootstrapped", "streaming")
  \/ FinishStreaming(n) \/ Pass(n, "stop", "done")

Next == \E n \in Nodes : Node(n)

Spec == Init /\ [][Next]_vars

(* Every node is a process of its own, and its streaming ends by a sleep. *)
FairSpec == Spec /\ \A n \in Nodes : WF_vars(Node(n))

------------------------------------------------------------------------------
(* The place of a node's next step in the order of Steps. *)
At(n) == CHOOSE k \in DOMAIN Steps : Steps[k] = pc[n]

StepNo(step) == CHOOSE k \in DOMAIN Steps : Steps[k] = step

Past(n, step) == At(n) > StepNo(step)

RendezvousTypeOK ==
  /\ pc \in [Nodes -> Range(Steps)]
  /\ signals \in [States -> 0 .. Count]
  /\ subscribed \subseteq Nodes
  /\ stream \in [Nodes -> Seq(Nodes)]
  /\ peer_ids \in [Nodes -> Seq(Nodes)]
  /\ dialed \in [Nodes -> SUBSET Nodes]

(* No address is published before every node listens for it: the "init"     *)
(* barrier comes between subscribe and publish in both roles.               *)
NoAddressMissed == (\E n \in Nodes : Past(n, "publish")) => subscribed = Nodes

(* A node streams only when every node has dialled every other: the "net"   *)
(* and "bootstrapped" barriers.                                             *)
AllDialedBeforeStreaming ==
  (\E n \in Nodes : Past(n, "bootstrapped"))
    => \A m \in Nodes : dialed[m] = Nodes \ {m}

(* No node goes, with its background service and its connections, while     *)
(* another still streams: the "stop" barrier.                               *)
StopTogether ==
  (\E n \in Nodes : pc[n] = "done") => \A m \in Nodes : Past(m, "streaming")

(* Every node gets through every barrier and stops. *)
AllStop == <>(\A n \in Nodes : pc[n] = "done")
==============================================================================
