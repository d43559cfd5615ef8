----------------------------- MODULE IpfsService -----------------------------
(****************************************************************************)
(* IpfsClient (ipfs/client.rs) and the IpfsBackgroundService task it talks  *)
(* to (ipfs/background.rs).  A client method sends a Command on an unbounded*)
(* channel and, for most commands, awaits a oneshot reply.  The service     *)
(* takes commands and swarm events one at a time, in any order between the  *)
(* two (tokio::select!), and keeps the reply senders of the calls that wait *)
(* for an event.                                                            *)
(*                                                                          *)
(* The calls are numbered in the order they are made.  A oneshot or stream  *)
(* is named by its call; a ListenerId or QueryId, fresh in libp2p, by the   *)
(* call it was made for.  reply[n] is what the oneshot receiver of call n   *)
(* will see: nothing yet, Ok, Err, or a dropped sender, at which the caller *)
(* panics ("Sender not dropped").  No caller drops a future it awaits.      *)
(*                                                                          *)
(* libp2p and the peers are external: which events come, what subscribe,    *)
(* publish, bootstrap and listen_on return.  The blocks and wants of the    *)
(* peers are module Bitswap's.                                              *)
(****************************************************************************)
EXTENDS Bitswap

CONSTANTS
  Topics,
  MaxCalls   \* bound: the calls made in one behaviour

ASSUME CallAssumption == MaxCalls \in Nat

Ops == {"dial", "listen_on", "dht_add_addr", "dht_bootstrap",
        "publish", "subscribe", "get_block", "add_block"}

VARIABLES
  service,            \* the task: "running", "panicked" or "returned"
  client,             \* "held", or "dropped" with the last IpfsClient clone
  calls,              \* the calls made so far, sequence of [op, arg]
  cmd_rx,             \* commands not yet taken, sequence of call numbers
  reply,              \* per call: "none", "ok", "err" or "panicked"
  streams,            \* per subscribe call, its receiver: "open", "closed" by
                      \* subscribe(), or "dropped" by its owner
  pending_subscribe,  \* topic -> the call whose stream gets its messages
  routing_updates,    \* peer -> the dht_add_addr call waiting for it
  pending_bootstap,   \* the dht_bootstrap calls with a query running
  pending_listen,     \* the listen_on calls with a listener starting
  pending_get_block,  \* cid -> the get_block call waiting for it
  joined,             \* external: the topics gossipsub is subscribed to
  yielded             \* history: the subscribe calls that got a message

serviceVars == <<pending_subscribe, routing_updates, pending_bootstap,
                 pending_listen, pending_get_block>>
clientVars  == <<client, calls>>
allVars     == <<vars, service, clientVars, cmd_rx, reply, streams,
                 serviceVars, joined, yielded>>

Calls == 1 .. MaxCalls

Arguments(op) ==
  CASE op \in {"publish", "subscribe"}    -> Topics
    [] op \in {"get_block", "add_block"}  -> Cids
    [] op = "dht_add_addr"                -> Peers
    [] OTHER                              -> {op}

HasReply(op) == op \notin {"dial", "add_block"}

Called(n, op) == n \in DOMAIN calls /\ calls[n].op = op

Waiting(n) == n \in DOMAIN calls /\ HasReply(calls[n].op) /\ reply[n] = "none"

(* HashMap::insert, remove and the empty map. *)
Insert(map, k, n) == [x \in DOMAIN map \cup {k} |-> IF x = k THEN n ELSE map[x]]
Remove(map, k)    == Restrict(map, DOMAIN map \ {k})
Empty             == [x \in {} |-> x]

(* The call a map holds for a key, if any. *)
Held(map, k) == {map[x] : x \in DOMAIN map \cap {k}}

(* The senders of the calls S are used, or dropped for r = "panicked". *)
Answer(S, r) == reply' = [n \in Calls |-> IF n \in S THEN r ELSE reply[n]]

ServiceInit ==
  /\ Init
  /\ service = "running" /\ client = "held"
  /\ calls = <<>> /\ cmd_rx = <<>>
  /\ reply = [n \in Calls |-> "none"]
  /\ streams = [n \in Calls |-> "open"]
  /\ pending_subscribe = Empty /\ routing_updates = Empty
  /\ pending_get_block = Empty
  /\ pending_bootstap = {} /\ pending_listen = {}
  /\ joined = {} /\ yielded = {}

------------------------------------------------------------------------------
(* The callers.                                                             *)

(* Every method sends its command first; on a channel whose receiver went   *)
(* with the service the send fails and the caller panics.                   *)
Call(op, arg) ==
  /\ client = "held" /\ Len(calls) < MaxCalls
  /\ calls' = Append(calls, [op |-> op, arg |-> arg])
  /\ IF service = "running"
     THEN cmd_rx' = Append(cmd_rx, Len(calls')) /\ UNCHANGED reply
     ELSE Answer({Len(calls')}, "panicked") /\ UNCHANGED cmd_rx
  /\ UNCHANGED <<vars, service, client, streams, serviceVars, joined, yielded>>

(* The owner of a stream is done with it: the streamer at once, a viewer    *)
(* when its sim_time is over and VideoStream::run returns.                  *)
DropStream(n) ==
  /\ Called(n, "subscribe") /\ reply[n] = "ok" /\ streams[n] = "open"
  /\ streams' = [streams EXCEPT ![n] = "dropped"]
  /\ UNCHANGED <<vars, service, clientVars, cmd_rx, reply, serviceVars, joined, yielded>>

(* The last clone of the client goes; a call in progress borrows one. *)
DropClient ==
  /\ client = "held" /\ \A n \in Calls : ~Waiting(n)
  /\ client' = "dropped"
  /\ UNCHANGED <<vars, service, calls, cmd_rx, reply, streams, serviceVars, joined, yielded>>

------------------------------------------------------------------------------
(* command(): one action per Command variant.                               *)

Take(op, n) ==
  /\ service = "running" /\ cmd_rx # <<>>
  /\ n = Head(cmd_rx) /\ calls[n].op = op
  /\ cmd_rx' = Tail(cmd_rx)
  /\ UNCHANGED <<service, clientVars>>

(* Mutant: a publish that fails is printed and its sender kept unused. *)
PublishSilent(n) ==
  /\ Take("publish", n)
  /\ Answer({n}, "ok") \/ UNCHANGED reply
  /\ UNCHANGED <<vars, streams, serviceVars, joined, yielded>>

Publish(n) ==
  /\ Take("publish", n)
  /\ \E r \in {"ok", "err"} : Answer({n}, r)
  /\ UNCHANGED <<vars, streams, serviceVars, joined, yielded>>

(* Mutants: `if !status { return; }` is dropped; the status is taken to be  *)
(* true.                                                                    *)
SubscribeAlwaysInserts(n) ==
  LET t == calls[n].arg
  IN  /\ Take("subscribe", n)
      /\ joined' = joined \cup {t}
      /\ Answer({n}, "ok")
      /\ pending_subscribe' = Insert(pending_subscribe, t, n)
      /\ streams' = [streams EXCEPT ![n] = IF t \in joined THEN "closed" ELSE @]
      /\ UNCHANGED <<vars, routing_updates, pending_bootstap, pending_listen,
                     pending_get_block, yielded>>

SubscribeIgnoresStatus(n) ==
  LET t == calls[n].arg
  IN  /\ Take("subscribe", n)
      /\ joined' = joined \cup {t}
      /\ Answer({n}, "ok")
      /\ pending_subscribe' = Insert(pending_subscribe, t, n)
      /\ UNCHANGED <<vars, streams, routing_updates, pending_bootstap, pending_listen,
                     pending_get_block, yielded>>

(* gossipsub.subscribe returns Ok(true) for a new topic, Ok(false) for one  *)
(* it is already on; on Ok(false) subscribe() closes its receiver.          *)
Subscribe(n) ==
  LET t == calls[n].arg
  IN  /\ Take("subscribe", n)
      /\ \/ /\ t \notin joined
            /\ joined' = joined \cup {t}
            /\ Answer({n}, "ok")
            /\ pending_subscribe' = Insert(pending_subscribe, t, n)
            /\ UNCHANGED streams
         \/ /\ t \in joined
            /\ Answer({n}, "ok")
            /\ streams' = [streams EXCEPT ![n] = "closed"]
            /\ UNCHANGED <<joined, pending_subscribe>>
         \/ /\ Answer({n}, "err")
            /\ streams' = [streams EXCEPT ![n] = "closed"]
            /\ UNCHANGED <<joined, pending_subscribe>>
      /\ UNCHANGED <<vars, routing_updates, pending_bootstap, pending_listen,
                     pending_get_block, yielded>>

(* insert() drops the sender of an earlier call for the same peer. *)
DhtAdd(n) ==
  LET p == calls[n].arg
  IN  /\ Take("dht_add_addr", n)
      /\ Answer(Held(routing_updates, p), "panicked")
      /\ routing_updates' = Insert(routing_updates, p, n)
      /\ UNCHANGED <<vars, streams, pending_subscribe, pending_bootstap, pending_listen,
                     pending_get_block, joined, yielded>>

(* Without known peers bootstrap() is an error, which is printed; the       *)
(* sender is dropped with the command.                                      *)
Bootstrap(n) ==
  /\ Take("dht_bootstrap", n)
  /\ \/ pending_bootstap' = pending_bootstap \cup {n} /\ UNCHANGED reply
     \/ Answer({n}, "panicked") /\ UNCHANGED pending_bootstap
  /\ UNCHANGED <<vars, streams, pending_subscribe, routing_updates, pending_listen,
                 pending_get_block, joined, yielded>>

ListenOn(n) ==
  /\ Take("listen_on", n)
  /\ \/ pending_listen' = pending_listen \cup {n} /\ UNCHANGED reply
     \/ Answer({n}, "err") /\ UNCHANGED pending_listen
  /\ UNCHANGED <<vars, streams, pending_subscribe, routing_updates, pending_bootstap,
                 pending_get_block, joined, yielded>>

(* Mutant: the sender that insert() returns is dropped. *)
BlockGetDropsSender(n) ==
  LET c == calls[n].arg
  IN  /\ Take("get_block", n)
      /\ Answer(Held(pending_get_block, c), "panicked")
      /\ pending_get_block' = Insert(pending_get_block, c, n)
      /\ UNCHANGED <<vars, streams, pending_subscribe, routing_updates, pending_bootstap,
                     pending_listen, joined, yielded>>

(* A second get_block of a cid takes the place of the first, which gets     *)
(* "Already Getting Block".                                                 *)
BlockGet(n) ==
  LET c == calls[n].arg
  IN  /\ Take("get_block", n)
      /\ Answer(Held(pending_get_block, c), "err")
      /\ pending_get_block' = Insert(pending_get_block, c, n)
      /\ UNCHANGED <<vars, streams, pending_subscribe, routing_updates, pending_bootstap,
                     pending_listen, joined, yielded>>

AddBlockCommand(n) ==
  /\ Take("add_block", n)
  /\ BlockAdd(calls[n].arg)
  /\ UNCHANGED <<reply, streams, serviceVars, joined, yielded>>

Dial(n) ==
  /\ Take("dial", n)
  /\ UNCHANGED <<vars, reply, streams, serviceVars, joined, yielded>>

TakeCommand ==
  \E n \in Calls :
    \/ Publish(n) \/ Subscribe(n) \/ DhtAdd(n) \/ Bootstrap(n) \/ ListenOn(n)
    \/ BlockGet(n) \/ AddBlockCommand(n) \/ Dial(n)

(* "IPFS Client Dropped". *)
RunReturns ==
  /\ service = "running" /\ client = "dropped" /\ cmd_rx = <<>>
  /\ service' = "returned"
  /\ UNCHANGED <<vars, clientVars, cmd_rx, reply, streams, serviceVars, joined, yielded>>

------------------------------------------------------------------------------
(* event(): the swarm events that do something.                             *)

Event == service = "running" /\ UNCHANGED <<service, clientVars, cmd_rx>>

NewListenAddr(n) ==
  /\ Event /\ n \in pending_listen
  /\ Answer({n}, "ok")
  /\ pending_listen' = pending_listen \ {n}
  /\ UNCHANGED <<vars, streams, pending_subscribe, routing_updates, pending_bootstap,
                 pending_get_block, joined, yielded>>

(* OutboundQueryCompleted for a bootstrap with nothing remaining, or Err. *)
BootstrapCompleted(n) ==
  /\ Event /\ n \in pending_bootstap
  /\ \E r \in {"ok", "err"} : Answer({n}, r)
  /\ pending_bootstap' = pending_bootstap \ {n}
  /\ UNCHANGED <<vars, streams, pending_subscribe, routing_updates, pending_listen,
                 pending_get_block, joined, yielded>>

RoutingUpdated(p) ==
  /\ Event /\ p \in DOMAIN routing_updates
  /\ Answer(Held(routing_updates, p), "ok")
  /\ routing_updates' = Remove(routing_updates, p)
  /\ UNCHANGED <<vars, streams, pending_subscribe, pending_bootstap, pending_listen,
                 pending_get_block, joined, yielded>>

(* A message goes to the stream of its topic. *)
Message(t) ==
  /\ Event /\ t \in joined /\ t \in DOMAIN pending_subscribe
  /\ streams[pending_subscribe[t]] = "open"
  /\ yielded' = yielded \cup {pending_subscribe[t]}
  /\ UNCHANGED <<vars, reply, streams, serviceVars, joined>>

(* The receiver was dropped: `sender.send(message).expect(..)` panics and   *)
(* takes the service, its queue and every sender it holds with it.          *)
MessagePanics(t) ==
  /\ service = "running" /\ t \in joined /\ t \in DOMAIN pending_subscribe
  /\ streams[pending_subscribe[t]] # "open"
  /\ service' = "panicked"
  /\ Answer({n \in Calls : Waiting(n)}, "panicked")
  /\ cmd_rx' = <<>>
  /\ pending_subscribe' = Empty /\ routing_updates' = Empty
  /\ pending_get_block' = Empty
  /\ pending_bootstap' = {} /\ pending_listen' = {}
  /\ UNCHANGED <<vars, clientVars, streams, joined, yielded>>

(* Mutant: the caller is answered after the early return at the limit of    *)
(* sends.                                                                   *)
BlockArrivesAfterLimit(p, c) ==
  /\ Event
  /\ ReceivedBlock(p, c)
  /\ IF Cardinality(pending_send_block) >= max_concurrent_send
     THEN UNCHANGED <<reply, pending_get_block>>
     ELSE /\ Answer(Held(pending_get_block, c), "ok")
          /\ pending_get_block' = Remove(pending_get_block, c)
  /\ UNCHANGED <<streams, pending_subscribe, routing_updates, pending_bootstap,
                 pending_listen, joined, yielded>>

(* BitswapEvent::ReceivedBlock: Bitswap's half stores and dispatches, this  *)
(* half answers the get_block that waits for the cid.                       *)
BlockArrives(p, c) ==
  /\ Event
  /\ ReceivedBlock(p, c)
  /\ Answer(Held(pending_get_block, c), "ok")
  /\ pending_get_block' = Remove(pending_get_block, c)
  /\ UNCHANGED <<streams, pending_subscribe, routing_updates, pending_bootstap,
                 pending_listen, joined, yielded>>

PeerEvent(p, c) ==
  /\ Event
  /\ ReceivedWant(p, c) \/ ReceivedCancel(p, c)
  /\ UNCHANGED <<reply, streams, serviceVars, joined, yielded>>

SwarmEvent ==
  \/ \E n \in Calls : NewListenAddr(n) \/ BootstrapCompleted(n)
  \/ \E p \in Peers : RoutingUpdated(p)
  \/ \E t \in Topics : Message(t) \/ MessagePanics(t)
  \/ \E p \in Peers, c \in Cids : BlockArrives(p, c) \/ PeerEvent(p, c)

ServiceNext ==
  \/ \E op \in Ops : \E arg \in Arguments(op) : Call(op, arg)
  \/ \E n \in Calls : DropStream(n)
  \/ DropClient \/ TakeCommand \/ RunReturns \/ SwarmEvent

ServiceSpec == ServiceInit /\ [][ServiceNext]_allVars

(* tokio::select! picks among the ready branches at random, so a command in *)
(* the queue is taken however many events there are.                        *)
FairServiceSpec == ServiceSpec /\ WF_allVars(TakeCommand)

------------------------------------------------------------------------------
MapTo(K) == UNION {[S -> Calls] : S \in SUBSET K}

ServiceTypeOK ==
  /\ TypeOK
  /\ service \in {"running", "panicked", "returned"}
  /\ client \in {"held", "dropped"}
  /\ \A n \in DOMAIN calls : n \in Calls /\ calls[n].arg \in Arguments(calls[n].op)
  /\ cmd_rx \in Seq(Calls)
  /\ reply \in [Calls -> {"none", "ok", "err", "panicked"}]
  /\ streams \in [Calls -> {"open", "closed", "dropped"}]
  /\ pending_subscribe \in MapTo(Topics) /\ routing_updates \in MapTo(Peers)
  /\ pending_get_block \in MapTo(Cids)
  /\ pending_bootstap \subseteq Calls /\ pending_listen \subseteq Calls
  /\ joined \subseteq Topics
  /\ yielded \subseteq Calls

(* "Only the first subscribe on a topic will yield messages." (subscribe),  *)
(* even when that stream is dropped and others subscribe later.             *)
OneStreamPerTopic ==
  \A m, n \in yielded : calls[m].arg = calls[n].arg => m = n

(* `expect("Sender not dropped")` (IpfsClient): while the service runs, a   *)
(* caller never panics on its reply, but for the two DHT methods, whose     *)
(* senders DhtAdd overwrites and Bootstrap drops on an error.               *)
SenderNotDropped ==
  service = "running" =>
    \A n \in DOMAIN calls :
      reply[n] = "panicked" => calls[n].op \in {"dht_add_addr", "dht_bootstrap"}

(* The service panics only on a stream whose owner dropped it: the receiver *)
(* a message is for is that of a subscribe to its topic, handed out and     *)
(* dropped since; one that subscribe() closed itself is never sent to.      *)
PanicsOnlyForDroppedStream ==
  [][\A t \in Topics :
       MessagePanics(t) =>
         LET n == pending_subscribe[t]
         IN  /\ Called(n, "subscribe") /\ calls[n].arg = t
             /\ streams[n] = "dropped"]_allVars

(* A get_block the service has taken returns Ok exactly when the block of   *)
(* its cid comes in: whatever other calls ask for the cid in between, and   *)
(* however many sends are open, no caller is left without the block the     *)
(* node has just got, nor answered for the block of another cid.            *)
BlockAnswersItsGet ==
  [][\A n \in Calls :
       Called(n, "get_block") /\ Waiting(n) /\ n \notin Range(cmd_rx)
         => (reply'[n] = "ok" <=> \E p \in Peers : BlockArrives(p, calls[n].arg))]_allVars

(* `expect("Receiver not dropped")` (gossipsub): the stream a message is    *)
(* for has a receiver, so the service does not panic.                       *)
ReceiverNotDropped == service # "panicked"

(* publish and subscribe always return (or panic with the service): their   *)
(* reply depends on nothing but the service taking the command.             *)
CallReturns ==
  \A n \in Calls :
    Waiting(n) /\ calls[n].op \in {"publish", "subscribe"} ~> ~Waiting(n)
==============================================================================
