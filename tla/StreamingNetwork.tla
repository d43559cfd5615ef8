--------------------------- MODULE StreamingNetwork ---------------------------
(****************************************************************************)
(* One streamer and its viewers, from the rendezvous through the streaming  *)
(* loops to the stop barrier.  Rendezvous has the streaming of a node in    *)
(* one step; here that step waits for the node's loop to end, and the loops *)
(* run: the streamer's is Streamer, a viewer's is VideoStream::run with its *)
(* buffer left out, which VideoStream has.                                  *)
(*                                                                          *)
(* Gossip is external: it brings a message to a node on the topic at most   *)
(* once, in any order, at any time or never.  The stream of a viewer goes   *)
(* with its loop while its background service lives until the node is done, *)
(* so a late message panics that service.                                   *)
(****************************************************************************)
EXTENDS Rendezvous, Streamer

CONSTANT streamer   \* the node whose sim_id is 1

ASSUME RolesAssumption == streamer \in Nodes

Viewers == Nodes \ {streamer}

VARIABLES
  on_topic,    \* viewers whose service subscribed
  receiving,   \* viewers that hold the stream of the topic
  received,    \* per viewer: the messages its service got, each by its place
  gossips,     \* per viewer: the messages of its stream, and of play(), in order
  fetching,    \* per viewer: the messages whose blocks its tasks wait for
  ended,       \* viewers whose loop is over
  panicked     \* viewers whose service is gone

viewer_vars == <<on_topic, receiving, received, gossips, fetching, ended, panicked>>

network_vars == <<vars, streamer_vars, viewer_vars>>

NetworkInit ==
  /\ Init
  /\ StreamerInit
  /\ on_topic = {} /\ receiving = {} /\ ended = {} /\ panicked = {}
  /\ received = [v \in Viewers |-> {}]
  /\ gossips = [v \in Viewers |-> <<>>]
  /\ fetching = [v \in Viewers |-> {}]

------------------------------------------------------------------------------
(* What a node does around its streaming loop. *)
Meet(n) ==
  /\ \/ Subscribe(n) \/ SignalInit(n) \/ Pass(n, "init", "publish")
     \/ PublishAddress(n) \/ SignalNet(n) \/ ReadOwn(n) \/ ReadAddress(n)
     \/ Pass(n, "net", "dial") \/ DialAll(n)
     \/ SignalBootstrapped(n) \/ Pass(n, "bootstrapped", "streaming")
     \/ Pass(n, "stop", "done")
  /\ UNCHANGED <<streamer_vars, viewer_vars>>

LoopOver(n) == IF n = streamer THEN task = "over" ELSE n \in ended

Leave(n) ==
  /\ LoopOver(n) /\ FinishStreaming(n)
  /\ UNCHANGED <<streamer_vars, viewer_vars>>

Stream ==
  /\ pc[streamer] = "streaming" /\ StreamerNext
  /\ UNCHANGED <<vars, viewer_vars>>

Loop(v) ==
  /\ pc[v] = "streaming" /\ v \notin ended
  /\ UNCHANGED <<vars, streamer_vars>>

(* VideoStream::run before its loop. *)
SubscribeTopic(v) ==
  /\ Loop(v) /\ v \notin on_topic
  /\ on_topic' = on_topic \cup {v}
  /\ receiving' = receiving \cup {v}
  /\ UNCHANGED <<received, gossips, fetching, ended, panicked>>

(* GossipsubEvent::Message: the service hands the message to the stream or, *)
(* when that was dropped, panics.                                           *)
Message(v, k) ==
  /\ pc[v] # "done" /\ v \in on_topic \ panicked /\ k \notin received[v]
  /\ received' = [received EXCEPT ![v] = @ \cup {k}]
  /\ IF v \in receiving
     THEN gossips' = [gossips EXCEPT ![v] = Append(@, k)] /\ UNCHANGED panicked
     ELSE panicked' = panicked \cup {v} /\ UNCHANGED gossips
  /\ UNCHANGED <<vars, streamer_vars, on_topic, receiving, fetching, ended>>

(* play(): the fetch task of the oldest message asks for its blocks. *)
StartFetch(v) ==
  /\ Loop(v) /\ gossips[v] # <<>>
  /\ gossips' = [gossips EXCEPT ![v] = Tail(@)]
  /\ fetching' = [fetching EXCEPT ![v] = @ \cup {Head(gossips[v])}]
  /\ UNCHANGED <<on_topic, receiving, received, ended, panicked>>

Held(k) == Range(messages[k]) \subseteq store

(* All the blocks of the message came.  They may also never come. *)
FetchEnds(v, k) ==
  /\ pc[v] # "done" /\ v \notin panicked /\ k \in fetching[v] /\ Held(k)
  /\ fetching' = [fetching EXCEPT ![v] = @ \ {k}]
  /\ UNCHANGED <<vars, streamer_vars, on_topic, receiving, received, gossips,
                 ended, panicked>>

(* The sleep of the player is over: run returns and drops its stream. *)
PlayerEnds(v) ==
  /\ Loop(v) /\ v \in on_topic
  /\ ended' = ended \cup {v}
  /\ receiving' = receiving \ {v}
  /\ UNCHANGED <<on_topic, received, gossips, fetching, panicked>>

ViewerStep(v) ==
  \/ SubscribeTopic(v) \/ StartFetch(v) \/ PlayerEnds(v)
  \/ \E k \in DOMAIN messages : Message(v, k) \/ FetchEnds(v, k)

NetworkNext ==
  \/ \E n \in Nodes : Meet(n) \/ Leave(n)
  \/ Stream
  \/ \E v \in Viewers : ViewerStep(v)

NetworkSpec == NetworkInit /\ [][NetworkNext]_network_vars

(* Every node keeps running, its timers fire and its client gets its reply; *)
(* gossip and fetches owe nothing.                                          *)
FairNetworkSpec ==
  /\ NetworkSpec
  /\ \A n \in Nodes : WF_network_vars(Meet(n) \/ Leave(n))
  /\ WF_network_vars(Stream) /\ WF_network_vars(Stream /\ SleepEnds)
  /\ \A v \in Viewers : WF_network_vars(SubscribeTopic(v)) /\ WF_network_vars(PlayerEnds(v))

------------------------------------------------------------------------------
NetworkTypeOK ==
  /\ RendezvousTypeOK /\ StreamerTypeOK
  /\ on_topic \subseteq Viewers /\ receiving \subseteq on_topic
  /\ ended \subseteq on_topic /\ panicked \subseteq on_topic
  /\ received \in [Viewers -> SUBSET DOMAIN messages]
  /\ gossips \in [Viewers -> Seq(DOMAIN messages)]
  /\ fetching \in [Viewers -> SUBSET DOMAIN messages]

(* As long as a viewer plays, whatever it was told of can be fetched: the   *)
(* blocks of its messages are in the store of a streamer that has not gone, *)
(* and its own service is there to ask.                                     *)
FetchIsAnswerable ==
  \A v \in Viewers :
    pc[v] = "streaming" /\ v \notin ended =>
      /\ pc[streamer] # "done" /\ v \notin panicked
      /\ \A k \in received[v] : Held(k)
==============================================================================
