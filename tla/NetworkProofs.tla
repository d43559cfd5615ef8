----------------------------- MODULE NetworkProofs -----------------------------
(****************************************************************************)
(* Theorems about one streamer and its viewers, for any number of nodes     *)
(* from two, any parameters of the video and any number of ticks.  The      *)
(* rendezvous rests on counting: a state's counter is the number of nodes   *)
(* past its signal, so who passes its barrier finds everyone past the       *)
(* signal.  The network's steps are steps of the rendezvous and of the      *)
(* streamer, whose invariants it has for that reason.                       *)
(****************************************************************************)
EXTENDS StreamingNetwork, FiniteSetTheorems, SequenceTheorems, TLAPS

(* The places, in the order of Steps, of a state's signal and barrier. *)
SignalNo(s) ==
  IF s = "init" THEN 2 ELSE IF s = "net" THEN 5 ELSE IF s = "bootstrapped" THEN 9 ELSE 11

BarrierNo(s) ==
  IF s = "init" THEN 3 ELSE IF s = "net" THEN 7 ELSE IF s = "bootstrapped" THEN 10 ELSE 12

Signallers(s) == {n \in Nodes : At(n) > SignalNo(s)}

TypeInv ==
  /\ pc \in [Nodes -> Range(Steps)]
  /\ signals \in [States -> Nat]
  /\ subscribed \subseteq Nodes
  /\ stream \in [Nodes -> Seq(Nodes)]
  /\ peer_ids \in [Nodes -> Seq(Nodes)]
  /\ dialed \in [Nodes -> SUBSET Nodes]

Counted == \A s \in States : signals[s] = Cardinality(Signallers(s))

Barriers == \A s \in States, n \in Nodes : At(n) > BarrierNo(s) => Signallers(s) = Nodes

Subscribers == subscribed = {n \in Nodes : At(n) > 1}

(* A published address is in a node's stream or among those it read, once.  *)
AddressesOf(m) ==
  /\ IsInjective(stream[m])
  /\ \A x \in Range(stream[m]) : At(x) > 4 /\ x \notin Range(peer_ids[m])
  /\ \A x \in Range(peer_ids[m]) : At(x) > 4 /\ x # m
  /\ Len(peer_ids[m]) = Cardinality(Range(peer_ids[m]))
  /\ At(m) > 6 => Len(peer_ids[m]) >= Count - 1
  /\ At(m) > 8 => dialed[m] = Range(peer_ids[m])

Addresses == \A m \in Nodes : AddressesOf(m)

RInv == TypeInv /\ Counted /\ Barriers /\ Subscribers /\ Addresses

------------------------------------------------------------------------------
(* Sequences that repeat nothing. *)
LEMMA AppendNew ==
  ASSUME NEW S, NEW s \in Seq(S), NEW x \in S
  PROVE  /\ Range(Append(s, x)) = Range(s) \cup {x}
         /\ IsInjective(s) /\ x \notin Range(s) => IsInjective(Append(s, x))
<1> DEFINE t == Append(s, x)
<1>1. /\ t \in Seq(S) /\ Len(t) = Len(s) + 1 /\ t[Len(s) + 1] = x
      /\ \A i \in 1 .. Len(s) : t[i] = s[i]
  BY AppendProperties
<1>2. /\ Len(s) \in Nat /\ DOMAIN s = 1 .. Len(s) /\ DOMAIN t = 1 .. Len(s) + 1
  BY <1>1, LenProperties
<1> HIDE DEF t
<1>3. \A i \in 1 .. Len(s) + 1 : i \in 1 .. Len(s) \/ i = Len(s) + 1
  BY <1>2
<1>4. 1 .. Len(s) \subseteq 1 .. Len(s) + 1 /\ Len(s) + 1 \in 1 .. Len(s) + 1
  BY <1>2
<1>5. Range(t) = Range(s) \cup {x}
  BY <1>1, <1>2, <1>3, <1>4 DEF Range
<1>6. IsInjective(s) /\ x \notin Range(s) => IsInjective(t)
  BY <1>1, <1>2, <1>3 DEF Range, IsInjective
<1> QED  BY <1>5, <1>6 DEF t

(* The tail of a sequence without repetition has all of it but the head. *)
LEMMA TailForgets ==
  ASSUME NEW S, NEW s \in Seq(S), s # <<>>
  PROVE  /\ Head(s) \in Range(s)
         /\ Range(Tail(s)) \subseteq Range(s)
         /\ IsInjective(s) => IsInjective(Tail(s)) /\ Head(s) \notin Range(Tail(s))
<1> DEFINE t == Tail(s)
<1>1. /\ t \in Seq(S) /\ Len(t) = Len(s) - 1 /\ Head(s) = s[1]
      /\ \A i \in 1 .. Len(t) : t[i] = s[i + 1]
  BY HeadTailProperties
<1>2. /\ Len(s) \in Nat \ {0} /\ DOMAIN s = 1 .. Len(s) /\ DOMAIN t = 1 .. Len(t)
      /\ Len(t) \in Nat
  BY <1>1, EmptySeq, LenProperties
<1> HIDE DEF t
<1>3. /\ 1 \in DOMAIN s
      /\ \A i \in DOMAIN t : i \in Int /\ i + 1 \in DOMAIN s /\ i + 1 # 1
  BY <1>1, <1>2
<1>4. \A i \in DOMAIN t : t[i] = s[i + 1]
  BY <1>1, <1>2
<1>5. Head(s) \in Range(s) /\ Range(t) \subseteq Range(s)
  BY <1>1, <1>3, <1>4 DEF Range
<1>6. ASSUME IsInjective(s) PROVE Head(s) \notin Range(t)
  BY <1>1, <1>3, <1>4, <1>6 DEF Range, IsInjective
<1>7. ASSUME IsInjective(s) PROVE IsInjective(t)
  <2> SUFFICES ASSUME NEW i \in DOMAIN t, NEW j \in DOMAIN t, t[i] = t[j] PROVE i = j
    BY DEF IsInjective
  <2>1. i + 1 = j + 1
    BY <1>3, <1>4, <1>7 DEF IsInjective
  <2> QED  BY <1>3, <2>1
<1> QED  BY <1>5, <1>6, <1>7 DEF t

------------------------------------------------------------------------------
(* The steps and their places. *)
LEMMA StepNames ==
  /\ DOMAIN Steps = 1 .. 13
  /\ Steps[1] = "subscribe" /\ Steps[2] = "signal_init" /\ Steps[3] = "init"
  /\ Steps[4] = "publish" /\ Steps[5] = "signal_net" /\ Steps[6] = "collect"
  /\ Steps[7] = "net" /\ Steps[8] = "dial" /\ Steps[9] = "signal_bootstrapped"
  /\ Steps[10] = "bootstrapped" /\ Steps[11] = "streaming"
  /\ Steps[12] = "stop" /\ Steps[13] = "done"
BY DEF Steps

(* The number of a step of a node is its place in Steps, *)
LEMMA StepPlace == \A k \in 1 .. 13 : StepNo(Steps[k]) = k
<1>1. \A k \in 1 .. 13 : \/ k = 1 \/ k = 2 \/ k = 3 \/ k = 4 \/ k = 5 \/ k = 6 \/ k = 7
                         \/ k = 8 \/ k = 9 \/ k = 10 \/ k = 11 \/ k = 12 \/ k = 13
  OBVIOUS
<1>2. \A j \in 1 .. 13 : Steps[j] = Steps[1] => j = 1
  BY <1>1, StepNames
<1>3. \A j \in 1 .. 13 : Steps[j] = Steps[2] => j = 2
  BY <1>1, StepNames
<1>4. \A j \in 1 .. 13 : Steps[j] = Steps[3] => j = 3
  BY <1>1, StepNames
<1>5. \A j \in 1 .. 13 : Steps[j] = Steps[4] => j = 4
  BY <1>1, StepNames
<1>6. \A j \in 1 .. 13 : Steps[j] = Steps[5] => j = 5
  BY <1>1, StepNames
<1>7. \A j \in 1 .. 13 : Steps[j] = Steps[6] => j = 6
  BY <1>1, StepNames
<1>8. \A j \in 1 .. 13 : Steps[j] = Steps[7] => j = 7
  BY <1>1, StepNames
<1>9. \A j \in 1 .. 13 : Steps[j] = Steps[8] => j = 8
  BY <1>1, StepNames
<1>10. \A j \in 1 .. 13 : Steps[j] = Steps[9] => j = 9
  BY <1>1, StepNames
<1>11. \A j \in 1 .. 13 : Steps[j] = Steps[10] => j = 10
  BY <1>1, StepNames
<1>12. \A j \in 1 .. 13 : Steps[j] = Steps[11] => j = 11
  BY <1>1, StepNames
<1>13. \A j \in 1 .. 13 : Steps[j] = Steps[12] => j = 12
  BY <1>1, StepNames
<1>14. \A j \in 1 .. 13 : Steps[j] = Steps[13] => j = 13
  BY <1>1, StepNames
<1>15. \A k, j \in 1 .. 13 : Steps[j] = Steps[k] => j = k
  <2> SUFFICES ASSUME NEW k \in 1 .. 13
               PROVE  \A j \in 1 .. 13 : Steps[j] = Steps[k] => j = k
    OBVIOUS
  <2> QED  BY <1>1, <1>2, <1>3, <1>4, <1>5, <1>6, <1>7, <1>8, <1>9, <1>10, <1>11,
              <1>12, <1>13, <1>14
<1> QED  BY <1>15, StepNames DEF StepNo

(* written out; *)
LEMMA StepNumbers ==
  /\ StepNo("subscribe") = 1 /\ StepNo("signal_init") = 2 /\ StepNo("init") = 3
  /\ StepNo("publish") = 4 /\ StepNo("signal_net") = 5 /\ StepNo("collect") = 6
  /\ StepNo("net") = 7 /\ StepNo("dial") = 8 /\ StepNo("signal_bootstrapped") = 9
  /\ StepNo("bootstrapped") = 10 /\ StepNo("streaming") = 11
  /\ StepNo("stop") = 12 /\ StepNo("done") = 13
<1>1. /\ StepNo(Steps[1]) = 1 /\ StepNo(Steps[2]) = 2 /\ StepNo(Steps[3]) = 3 /\ StepNo(Steps[4]) = 4
      /\ StepNo(Steps[5]) = 5 /\ StepNo(Steps[6]) = 6 /\ StepNo(Steps[7]) = 7 /\ StepNo(Steps[8]) = 8
      /\ StepNo(Steps[9]) = 9 /\ StepNo(Steps[10]) = 10 /\ StepNo(Steps[11]) = 11 /\ StepNo(Steps[12]) = 12
      /\ StepNo(Steps[13]) = 13
  BY StepPlace
<1> QED  BY <1>1, StepNames

(* there are no other steps. *)
LEMMA StepsAre == Range(Steps) = {Steps[k] : k \in 1 .. 13}
BY StepNames DEF Range

(* The number of a node is that of its step, *)
LEMMA AtStep == \A n : At(n) = StepNo(pc[n])
BY DEF At, StepNo

(* so it is from 1 to 13. *)
LEMMA AtPlace == ASSUME TypeInv, NEW n \in Nodes PROVE At(n) \in 1 .. 13
<1>1. pc[n] \in Range(Steps)
  BY DEF TypeInv
<1>2. \A x \in Range(Steps) : StepNo(x) \in 1 .. 13
  BY StepsAre, StepPlace
<1> QED  BY <1>1, <1>2, AtStep

(* A step of one node changes the number of no other. *)
LEMMA GotoMoves ==
  ASSUME TypeInv, NEW n \in Nodes, NEW a, NEW b \in Range(Steps), Goto(n, a, b)
  PROVE  /\ At(n) = StepNo(a) /\ At(n)' = StepNo(b)
         /\ \A m \in Nodes \ {n} : At(m)' = At(m)
         /\ pc' \in [Nodes -> Range(Steps)]
<1>1. /\ pc[n] = a /\ pc'[n] = b /\ \A m \in Nodes \ {n} : pc'[m] = pc[m]
      /\ pc' \in [Nodes -> Range(Steps)]
  BY DEF Goto, TypeInv
<1>2. \A m : At(m)' = StepNo(pc'[m])
  BY DEF At, StepNo
<1> QED  BY <1>1, <1>2, AtStep

(* A node's step signals a state, passes a barrier or does neither. *)
Signals(n, s) ==
  At(n) = SignalNo(s) /\ At(n)' = SignalNo(s) + 1 /\ Signal(s)

Passes(n, s) ==
  At(n) = BarrierNo(s) /\ At(n)' = BarrierNo(s) + 1 /\ Reached(s) /\ signals' = signals

Moves(n) ==
  /\ signals' = signals
  /\ \/ At(n) = 1 /\ At(n)' = 2
     \/ At(n) = 4 /\ At(n)' = 5
     \/ At(n) = 6 /\ At(n)' \in {6, 7}
     \/ At(n) = 8 /\ At(n)' = 9

(* Each action moves its node to the next step. *)
LEMMA NodeSteps ==
  ASSUME TypeInv, NEW n \in Nodes, Node(n)
  PROVE  /\ pc' \in [Nodes -> Range(Steps)]
         /\ \A m \in Nodes \ {n} : At(m)' = At(m)
         /\ Moves(n) \/ \E s \in States : Signals(n, s) \/ Passes(n, s)
<1>1. \A k \in 1 .. 13 : Steps[k] \in Range(Steps)
  BY StepsAre
<1>2. /\ {"signal_init", "init", "publish", "signal_net", "collect", "net", "dial",
          "signal_bootstrapped", "bootstrapped", "streaming", "stop", "done"}
            \subseteq Range(Steps)
  <2>1. /\ Steps[2] \in Range(Steps) /\ Steps[3] \in Range(Steps)
        /\ Steps[4] \in Range(Steps) /\ Steps[5] \in Range(Steps)
        /\ Steps[6] \in Range(Steps) /\ Steps[7] \in Range(Steps)
        /\ Steps[8] \in Range(Steps) /\ Steps[9] \in Range(Steps)
        /\ Steps[10] \in Range(Steps) /\ Steps[11] \in Range(Steps)
        /\ Steps[12] \in Range(Steps) /\ Steps[13] \in Range(Steps)
    BY <1>1
  <2> QED  BY <2>1, StepNames
<1>3. /\ SignalNo("init") = 2 /\ SignalNo("net") = 5
      /\ SignalNo("bootstrapped") = 9 /\ SignalNo("stop") = 11
      /\ BarrierNo("init") = 3 /\ BarrierNo("net") = 7
      /\ BarrierNo("bootstrapped") = 10 /\ BarrierNo("stop") = 12
      /\ States = {"init", "net", "bootstrapped", "stop"}
  BY DEF SignalNo, BarrierNo, States
<1>4. ASSUME pc' = pc, signals' = signals, pc[n] = "collect"
      PROVE  /\ pc' \in [Nodes -> Range(Steps)]
             /\ \A m \in Nodes \ {n} : At(m)' = At(m)
             /\ Moves(n)
  <2>1. \A m : At(m)' = At(m) /\ At(n) = 6
    BY <1>4, StepNumbers, AtStep DEF At
  <2> QED  BY <1>4, <2>1 DEF Moves, TypeInv
<1>5. CASE Subscribe(n)
  BY <1>2, <1>5, GotoMoves, StepNumbers DEF Subscribe, Moves
<1>6. CASE SignalInit(n)
  <2>1. /\ At(n) = 2 /\ At(n)' = 3
        /\ pc' \in [Nodes -> Range(Steps)]
        /\ \A m \in Nodes \ {n} : At(m)' = At(m)
    BY <1>2, <1>6, GotoMoves, StepNumbers DEF SignalInit
  <2>2. "init" \in States /\ Signals(n, "init")
    <3>1. At(n) = SignalNo("init") /\ At(n)' = SignalNo("init") + 1
      BY <1>3, <2>1
    <3>2. Signal("init")
      BY <1>6 DEF SignalInit
    <3> QED  BY <1>3, <3>1, <3>2 DEF Signals
  <2> QED  BY <2>1, <2>2
<1>7. CASE Pass(n, "init", "publish")
  <2>1. /\ At(n) = 3 /\ At(n)' = 4
        /\ pc' \in [Nodes -> Range(Steps)]
        /\ \A m \in Nodes \ {n} : At(m)' = At(m)
    BY <1>2, <1>7, GotoMoves, StepNumbers DEF Pass
  <2>2. "init" \in States /\ Passes(n, "init")
    BY <1>3, <1>7, <2>1 DEF Pass, Passes
  <2> QED  BY <2>1, <2>2
<1>8. CASE PublishAddress(n)
  BY <1>2, <1>8, GotoMoves, StepNumbers DEF PublishAddress, Moves
<1>9. CASE SignalNet(n)
  <2>1. /\ At(n) = 5 /\ At(n)' = 6
        /\ pc' \in [Nodes -> Range(Steps)]
        /\ \A m \in Nodes \ {n} : At(m)' = At(m)
    BY <1>2, <1>9, GotoMoves, StepNumbers DEF SignalNet
  <2>2. "net" \in States /\ Signals(n, "net")
    <3>1. At(n) = SignalNo("net") /\ At(n)' = SignalNo("net") + 1
      BY <1>3, <2>1
    <3>2. Signal("net")
      BY <1>9 DEF SignalNet
    <3> QED  BY <1>3, <3>1, <3>2 DEF Signals
  <2> QED  BY <2>1, <2>2
<1>10. CASE ReadOwn(n)
  BY <1>4, <1>10 DEF ReadOwn
<1>11. CASE ReadAddress(n)
  <2>1. CASE pc' = [pc EXCEPT ![n] = "net"]
    <3>1. Goto(n, "collect", "net")
      BY <1>11, <2>1 DEF ReadAddress, Goto
    <3> QED  BY <1>2, <1>11, <3>1, GotoMoves, StepNumbers DEF ReadAddress, Moves
  <2>2. CASE pc' = [pc EXCEPT ![n] = "collect"]
    <3>1. Goto(n, "collect", "collect")
      BY <1>11, <2>2 DEF ReadAddress, Goto
    <3> QED  BY <1>2, <1>11, <3>1, GotoMoves, StepNumbers DEF ReadAddress, Moves
  <2> QED  BY <1>11, <2>1, <2>2 DEF ReadAddress
<1>12. CASE Pass(n, "net", "dial")
  <2>1. /\ At(n) = 7 /\ At(n)' = 8
        /\ pc' \in [Nodes -> Range(Steps)]
        /\ \A m \in Nodes \ {n} : At(m)' = At(m)
    BY <1>2, <1>12, GotoMoves, StepNumbers DEF Pass
  <2>2. "net" \in States /\ Passes(n, "net")
    BY <1>3, <1>12, <2>1 DEF Pass, Passes
  <2> QED  BY <2>1, <2>2
<1>13. CASE DialAll(n)
  BY <1>2, <1>13, GotoMoves, StepNumbers DEF DialAll, Moves
<1>14. CASE SignalBootstrapped(n)
  <2>1. /\ At(n) = 9 /\ At(n)' = 10
        /\ pc' \in [Nodes -> Range(Steps)]
        /\ \A m \in Nodes \ {n} : At(m)' = At(m)
    BY <1>2, <1>14, GotoMoves, StepNumbers DEF SignalBootstrapped
  <2>2. "bootstrapped" \in States /\ Signals(n, "bootstrapped")
    <3>1. At(n) = SignalNo("bootstrapped") /\ At(n)' = SignalNo("bootstrapped") + 1
      BY <1>3, <2>1
    <3>2. Signal("bootstrapped")
      BY <1>14 DEF SignalBootstrapped
    <3> QED  BY <1>3, <3>1, <3>2 DEF Signals
  <2> QED  BY <2>1, <2>2
<1>15. CASE Pass(n, "bootstrapped", "streaming")
  <2>1. /\ At(n) = 10 /\ At(n)' = 11
        /\ pc' \in [Nodes -> Range(Steps)]
        /\ \A m \in Nodes \ {n} : At(m)' = At(m)
    BY <1>2, <1>15, GotoMoves, StepNumbers DEF Pass
  <2>2. "bootstrapped" \in States /\ Passes(n, "bootstrapped")
    BY <1>3, <1>15, <2>1 DEF Pass, Passes
  <2> QED  BY <2>1, <2>2
<1>16. CASE FinishStreaming(n)
  <2>1. /\ At(n) = 11 /\ At(n)' = 12
        /\ pc' \in [Nodes -> Range(Steps)]
        /\ \A m \in Nodes \ {n} : At(m)' = At(m)
    BY <1>2, <1>16, GotoMoves, StepNumbers DEF FinishStreaming
  <2>2. "stop" \in States /\ Signals(n, "stop")
    <3>1. At(n) = SignalNo("stop") /\ At(n)' = SignalNo("stop") + 1
      BY <1>3, <2>1
    <3>2. Signal("stop")
      BY <1>16 DEF FinishStreaming
    <3> QED  BY <1>3, <3>1, <3>2 DEF Signals
  <2> QED  BY <2>1, <2>2
<1>17. CASE Pass(n, "stop", "done")
  <2>1. /\ At(n) = 12 /\ At(n)' = 13
        /\ pc' \in [Nodes -> Range(Steps)]
        /\ \A m \in Nodes \ {n} : At(m)' = At(m)
    BY <1>2, <1>17, GotoMoves, StepNumbers DEF Pass
  <2>2. "stop" \in States /\ Passes(n, "stop")
    BY <1>3, <1>17, <2>1 DEF Pass, Passes
  <2> QED  BY <2>1, <2>2
<1> QED  BY <1>5, <1>6, <1>7, <1>8, <1>9, <1>10, <1>11, <1>12, <1>13, <1>14, <1>15,
            <1>16, <1>17 DEF Node

(* The numbers of the steps that have a signal or wait for it. *)
LEMMA Numbers ==
  /\ \A s \in States : SignalNo(s) \in {2, 5, 9, 11} /\ BarrierNo(s) \in {3, 7, 10, 12}
  /\ \A s, t \in States : SignalNo(s) = SignalNo(t) => s = t
  /\ \A s, t \in States : BarrierNo(s) = BarrierNo(t) => s = t
  /\ \A s \in States : SignalNo(s) < BarrierNo(s)
BY DEF States, SignalNo, BarrierNo

(* Those past a signal are all the nodes when they are as many. *)
LEMMA SignallersFinite ==
  \A s : /\ Signallers(s) \subseteq Nodes /\ IsFiniteSet(Signallers(s))
         /\ Cardinality(Signallers(s)) \in 0 .. Count
         /\ Cardinality(Signallers(s)) = Count => Signallers(s) = Nodes
<1> SUFFICES ASSUME NEW s
             PROVE  /\ Signallers(s) \subseteq Nodes /\ IsFiniteSet(Signallers(s))
                    /\ Cardinality(Signallers(s)) \in 0 .. Count
                    /\ Cardinality(Signallers(s)) = Count => Signallers(s) = Nodes
  OBVIOUS
<1>1. Signallers(s) \in SUBSET Nodes
  BY DEF Signallers
<1>2. IsFiniteSet(Nodes) /\ Count = Cardinality(Nodes)
  BY NodesAssumption DEF Count
<1>3. /\ IsFiniteSet(Signallers(s)) /\ Cardinality(Signallers(s)) <= Cardinality(Nodes)
      /\ Cardinality(Nodes) = Cardinality(Signallers(s)) => Nodes = Signallers(s)
  BY <1>1, <1>2, FS_Subset
<1>4. Cardinality(Signallers(s)) \in Nat /\ Cardinality(Nodes) \in Nat
  BY <1>2, <1>3, FS_CardinalityType
<1> QED  BY <1>1, <1>2, <1>3, <1>4

(* A counter grows with the nodes past its signal. *)
LEMMA StepCounts ==
  ASSUME TypeInv, NEW n \in Nodes, Node(n), NEW t \in States
  PROVE  \/ signals'[t] = signals[t] /\ Signallers(t)' = Signallers(t)
         \/ /\ signals'[t] = signals[t] + 1
            /\ n \notin Signallers(t) /\ Signallers(t)' = Signallers(t) \cup {n}
<1>1. \A m \in Nodes : At(m) \in 1 .. 13
  BY AtPlace
<1>2. \A m \in Nodes \ {n} : At(m)' = At(m)
  BY NodeSteps
<1>3. Signallers(t) = {m \in Nodes : At(m) > SignalNo(t)}
  BY DEF Signallers
<1>4. Signallers(t)' = {m \in Nodes : At(m)' > SignalNo(t)}
  BY DEF Signallers
<1>5. ASSUME signals'[t] = signals[t], At(n)' > SignalNo(t) <=> At(n) > SignalNo(t)
      PROVE  signals'[t] = signals[t] /\ Signallers(t)' = Signallers(t)
  BY <1>2, <1>3, <1>4, <1>5
<1>6. CASE Moves(n)
  <2>1. At(n)' > SignalNo(t) <=> At(n) > SignalNo(t)
    BY <1>6, Numbers DEF Moves
  <2> QED  BY <1>5, <1>6, <2>1 DEF Moves
<1>7. ASSUME NEW s \in States, Passes(n, s)
      PROVE  signals'[t] = signals[t] /\ Signallers(t)' = Signallers(t)
  <2>1. At(n)' > SignalNo(t) <=> At(n) > SignalNo(t)
    BY <1>7, Numbers DEF Passes
  <2> QED  BY <1>5, <1>7, <2>1 DEF Passes
<1>8. ASSUME NEW s \in States, Signals(n, s), s # t
      PROVE  signals'[t] = signals[t] /\ Signallers(t)' = Signallers(t)
  <2>1. At(n)' > SignalNo(t) <=> At(n) > SignalNo(t)
    <3>1. SignalNo(s) # SignalNo(t) /\ SignalNo(s) \in Int /\ SignalNo(t) \in Int
      BY <1>8, Numbers
    <3> QED  BY <1>8, <3>1 DEF Signals
  <2>2. signals'[t] = signals[t]
    BY <1>8 DEF Signals, Signal, TypeInv
  <2> QED  BY <1>5, <2>1, <2>2
<1>9. ASSUME Signals(n, t)
      PROVE  /\ signals'[t] = signals[t] + 1
             /\ n \notin Signallers(t) /\ Signallers(t)' = Signallers(t) \cup {n}
  <2>1. At(n) = SignalNo(t) /\ At(n)' = SignalNo(t) + 1 /\ SignalNo(t) \in Int
    BY <1>9, Numbers DEF Signals
  <2>2. signals'[t] = signals[t] + 1
    BY <1>9 DEF Signals, Signal, TypeInv
  <2>3. At(n)' > SignalNo(t) /\ ~(At(n) > SignalNo(t))
    BY <2>1
  <2> QED  BY <1>2, <1>3, <1>4, <2>2, <2>3
<1> QED  BY NodeSteps, <1>6, <1>7, <1>8, <1>9

(* A signal counts the node that gives it, and no other step gives one. *)
LEMMA CountedKeeps ==
  ASSUME TypeInv, Counted, Barriers, NEW n \in Nodes, Node(n)
  PROVE  Counted' /\ Barriers'
<1>1. ASSUME NEW t \in States PROVE signals'[t] = Cardinality(Signallers(t)')
  <2>1. IsFiniteSet(Signallers(t)) /\ signals[t] = Cardinality(Signallers(t))
    BY SignallersFinite DEF Counted
  <2>2. n \notin Signallers(t)
          => Cardinality(Signallers(t) \cup {n}) = Cardinality(Signallers(t)) + 1
    BY <2>1, FS_AddElement
  <2> QED  BY <2>1, <2>2, StepCounts
<1>2. ASSUME NEW t \in States, NEW m \in Nodes, At(m)' > BarrierNo(t)
      PROVE  Signallers(t)' = Nodes
  <2>1. Signallers(t) \subseteq Nodes /\ Signallers(t) \subseteq Signallers(t)'
        /\ Signallers(t)' \subseteq Signallers(t) \cup {n}
    BY StepCounts, SignallersFinite
  <2>2. CASE At(m) > BarrierNo(t)
    BY <2>1, <2>2 DEF Barriers
  <2>3. CASE ~(At(m) > BarrierNo(t))
    <3>1. m = n /\ ~(At(n) > BarrierNo(t)) /\ At(n)' > BarrierNo(t)
      BY <1>2, <2>3, NodeSteps
    <3>2. PICK s \in States : Passes(n, s)
      <4>1. ~Moves(n)
        BY <3>1, AtPlace, Numbers DEF Moves
      <4>2. ASSUME NEW s \in States PROVE ~Signals(n, s)
        <5>1. SignalNo(s) \in {2, 5, 9, 11} /\ BarrierNo(t) \in {3, 7, 10, 12}
          BY Numbers
        <5> QED  BY <3>1, <5>1 DEF Signals
      <4> QED  BY <4>1, <4>2, NodeSteps
    <3>3. BarrierNo(s) = BarrierNo(t)
      <4>1. BarrierNo(s) \in {3, 7, 10, 12} /\ BarrierNo(t) \in {3, 7, 10, 12}
        BY Numbers
      <4> QED  BY <3>1, <3>2, <4>1 DEF Passes
    <3>4. signals[t] >= Count
      BY <3>2, <3>3, Numbers DEF Passes, Reached
    <3>5. Cardinality(Signallers(t)) = Count
      <4>1. Cardinality(Signallers(t)) \in 0 .. Count
            /\ signals[t] = Cardinality(Signallers(t))
        BY SignallersFinite DEF Counted
      <4>2. Count \in Nat
        BY NodesAssumption, FS_CardinalityType DEF Count
      <4> QED  BY <3>4, <4>1, <4>2
    <3> QED  BY <2>1, <3>5, SignallersFinite
  <2> QED  BY <2>2, <2>3
<1> QED  BY <1>1, <1>2 DEF Counted, Barriers

(* No node goes back. *)
LEMMA AtGrows ==
  ASSUME TypeInv, NEW n \in Nodes, Node(n)
  PROVE  /\ At(n)' = At(n) \/ At(n)' = At(n) + 1
         /\ \A m \in Nodes : At(m) \in 1 .. 13 /\ At(m)' >= At(m)
         /\ \A m \in Nodes : At(m) > 4 => At(m)' > 4
<1>1. \A m \in Nodes : At(m) \in 1 .. 13
  BY AtPlace
<1>2. \A m \in Nodes \ {n} : At(m)' = At(m)
  BY NodeSteps
<1>3. At(n)' = At(n) \/ At(n)' = At(n) + 1
  <2>1. CASE Moves(n)
    BY <2>1 DEF Moves
  <2>2. ASSUME NEW s \in States, Signals(n, s) \/ Passes(n, s) PROVE At(n)' = At(n) + 1
    BY <2>2 DEF Signals, Passes
  <2> QED  BY <2>1, <2>2, NodeSteps
<1>4. \A m \in Nodes : At(m) \in Int /\ (At(m)' = At(m) \/ At(m)' = At(m) + 1)
  <2>1. \A m \in Nodes : At(m)' = At(m) \/ At(m)' = At(m) + 1
    BY <1>2, <1>3
  <2> QED  BY <1>1, <2>1
<1>5. \A a, b \in Int : b = a \/ b = a + 1 => b >= a /\ (a > 4 => b > 4)
  OBVIOUS
<1>6. ASSUME NEW m \in Nodes PROVE At(m)' >= At(m) /\ (At(m) > 4 => At(m)' > 4)
  BY <1>4, <1>5
<1> QED  BY <1>1, <1>3, <1>6

(* The addresses of a node when a step leaves them alone. *)
LEMMA SameAddresses ==
  ASSUME TypeInv, NEW n \in Nodes, Node(n), NEW m \in Nodes, AddressesOf(m),
         stream'[m] = stream[m], peer_ids'[m] = peer_ids[m], dialed'[m] = dialed[m],
         m = n => At(n) \notin {6, 8}
  PROVE  AddressesOf(m)'
<1>1. /\ Range(stream[m]) \subseteq Nodes /\ Range(peer_ids[m]) \subseteq Nodes
  BY RangeOfSeq DEF TypeInv
<1>2. \A x \in Nodes : At(x) > 4 => At(x)' > 4
  BY AtGrows
<1>3. (At(m)' > 6 => At(m) > 6) /\ (At(m)' > 8 => At(m) > 8)
  <2>1. CASE m = n
    BY <2>1, AtGrows
  <2>2. CASE m # n
    BY <2>2, NodeSteps
  <2> QED  BY <2>1, <2>2
<1> QED  BY <1>1, <1>2, <1>3 DEF AddressesOf

(* A published address reaches every subscriber, and all subscribed before. *)
LEMMA PublishKeepsAddresses ==
  ASSUME TypeInv, NEW n \in Nodes, PublishAddress(n), NEW m \in Nodes, AddressesOf(m)
  PROVE  AddressesOf(m)'
<1>1. Node(n) /\ At(n) = 4 /\ At(n)' = 5
  <2>1. pc[n] = "publish" /\ pc'[n] = "signal_net"
    BY DEF PublishAddress, Goto, TypeInv
  <2> QED  BY <2>1, StepNumbers DEF Node, At, StepNo
<1>2. /\ n \notin Range(stream[m]) /\ n \notin Range(peer_ids[m])
  BY <1>1 DEF AddressesOf
<1>3. CASE m \notin subscribed
  <2>1. stream'[m] = stream[m] /\ peer_ids'[m] = peer_ids[m] /\ dialed'[m] = dialed[m]
    BY <1>3 DEF PublishAddress
  <2> QED  BY <1>1, <2>1, SameAddresses
<1>4. CASE m \in subscribed
  <2>1. /\ stream'[m] = Append(stream[m], n)
        /\ peer_ids'[m] = peer_ids[m] /\ dialed'[m] = dialed[m]
    BY <1>4 DEF PublishAddress
  <2>2. /\ IsInjective(stream'[m]) /\ Range(stream'[m]) = Range(stream[m]) \cup {n}
    BY <1>2, <2>1, AppendNew DEF AddressesOf, TypeInv
  <2>3. /\ Range(stream[m]) \subseteq Nodes /\ Range(peer_ids[m]) \subseteq Nodes
    BY RangeOfSeq DEF TypeInv
  <2>4. /\ \A x \in Nodes : At(x) > 4 => At(x)' > 4
        /\ At(n)' > 4
    BY <1>1, AtGrows
  <2>5. (At(m)' > 6 => At(m) > 6) /\ (At(m)' > 8 => At(m) > 8)
    BY <1>1, NodeSteps
  <2>6. \A x \in Range(stream'[m]) : At(x)' > 4 /\ x \notin Range(peer_ids'[m])
    BY <1>2, <2>1, <2>2, <2>3, <2>4 DEF AddressesOf
  <2>7. \A x \in Range(peer_ids'[m]) : At(x)' > 4 /\ x # m
    BY <2>1, <2>3, <2>4 DEF AddressesOf
  <2> QED  BY <2>1, <2>2, <2>5, <2>6, <2>7 DEF AddressesOf
<1> QED  BY <1>3, <1>4

(* A node's own address is read and not kept. *)
LEMMA ReadOwnKeepsAddresses ==
  ASSUME TypeInv, NEW n \in Nodes, ReadOwn(n), AddressesOf(n)
  PROVE  AddressesOf(n)'
<1>1. /\ pc' = pc /\ peer_ids' = peer_ids /\ dialed' = dialed
      /\ stream[n] # <<>> /\ stream'[n] = Tail(stream[n]) /\ stream[n] \in Seq(Nodes)
  BY DEF ReadOwn, TypeInv
<1>2. \A x : At(x)' = At(x)
  BY <1>1 DEF At
<1>3. /\ IsInjective(stream'[n]) /\ Range(stream'[n]) \subseteq Range(stream[n])
  BY <1>1, TailForgets DEF AddressesOf
<1> QED  BY <1>1, <1>2, <1>3 DEF AddressesOf

(* Reading moves an address from the subscription to those known, and ends  *)
(* when all others are.                                                     *)
LEMMA ReadKeepsAddresses ==
  ASSUME TypeInv, NEW n \in Nodes, ReadAddress(n), AddressesOf(n)
  PROVE  AddressesOf(n)'
<1> DEFINE x == Head(stream[n])
<1>1. /\ pc[n] = "collect" /\ x # n /\ dialed' = dialed
      /\ stream[n] # <<>> /\ stream'[n] = Tail(stream[n]) /\ stream[n] \in Seq(Nodes)
      /\ peer_ids'[n] = Append(peer_ids[n], x) /\ peer_ids[n] \in Seq(Nodes)
      /\ pc'[n] = IF Len(peer_ids'[n]) >= Count - 1 THEN "net" ELSE "collect"
  BY DEF ReadAddress, TypeInv
<1>2. /\ IsInjective(stream'[n]) /\ Range(stream'[n]) \subseteq Range(stream[n])
      /\ x \in Range(stream[n]) /\ x \notin Range(stream'[n])
  BY <1>1, TailForgets DEF AddressesOf
<1>3. x \in Nodes /\ x \notin Range(peer_ids[n]) /\ At(x) > 4
  <2>1. x \in Nodes
    BY <1>1, HeadTailProperties
  <2> QED  BY <1>2, <2>1 DEF AddressesOf
<1> HIDE DEF x
<1>4. Range(peer_ids'[n]) = Range(peer_ids[n]) \cup {x}
  BY <1>1, <1>3, AppendNew
<1>5. Node(n)
  BY DEF Node
<1>6. /\ Range(stream[n]) \subseteq Nodes /\ Range(peer_ids[n]) \subseteq Nodes
  BY <1>1, RangeOfSeq
<1>7. \A y \in Nodes : At(y) > 4 => At(y)' > 4
  BY <1>5, AtGrows
<1>8. Len(peer_ids'[n]) = Cardinality(Range(peer_ids'[n]))
  <2>1. Len(peer_ids'[n]) = Len(peer_ids[n]) + 1
    BY <1>1, <1>3, AppendProperties
  <2>2. IsFiniteSet(Range(peer_ids[n]))
    BY <1>6, NodesAssumption, FS_Subset
  <2>3. Cardinality(Range(peer_ids'[n])) = Cardinality(Range(peer_ids[n])) + 1
    BY <1>3, <1>4, <2>2, FS_AddElement
  <2> QED  BY <2>1, <2>3 DEF AddressesOf
<1>9. /\ At(n)' > 6 => Len(peer_ids'[n]) >= Count - 1
      /\ ~(At(n)' > 8)
  <2>1. CASE Len(peer_ids'[n]) >= Count - 1
    <3>1. At(n)' = 7
      BY <1>1, <2>1, StepNumbers DEF At, StepNo
    <3> QED  BY <2>1, <3>1
  <2>2. CASE ~(Len(peer_ids'[n]) >= Count - 1)
    <3>1. At(n)' = 6
      BY <1>1, <2>2, StepNumbers DEF At, StepNo
    <3> QED  BY <3>1
  <2> QED  BY <2>1, <2>2
<1>10. \A y \in Range(stream'[n]) : At(y)' > 4 /\ y \notin Range(peer_ids'[n])
  BY <1>2, <1>4, <1>6, <1>7 DEF AddressesOf
<1>11. \A y \in Range(peer_ids'[n]) : At(y)' > 4 /\ y # n
  BY <1>1, <1>3, <1>4, <1>6, <1>7 DEF AddressesOf, x
<1> QED  BY <1>2, <1>8, <1>9, <1>10, <1>11 DEF AddressesOf

(* A node that dials knows all the others. *)
LEMMA DialKeepsAddresses ==
  ASSUME TypeInv, NEW n \in Nodes, DialAll(n), AddressesOf(n)
  PROVE  AddressesOf(n)'
<1>1. /\ pc[n] = "dial" /\ pc'[n] = "signal_bootstrapped"
      /\ stream' = stream /\ peer_ids' = peer_ids /\ dialed'[n] = Range(peer_ids[n])
  BY DEF DialAll, Goto, TypeInv
<1>2. At(n) = 8 /\ At(n)' = 9 /\ Node(n)
  BY <1>1, StepNumbers DEF At, StepNo, Node
<1>3. /\ Range(stream[n]) \subseteq Nodes /\ Range(peer_ids[n]) \subseteq Nodes
  BY RangeOfSeq DEF TypeInv
<1>4. \A x \in Nodes : At(x) > 4 => At(x)' > 4
  BY <1>2, AtGrows
<1>5. stream'[n] = stream[n] /\ peer_ids'[n] = peer_ids[n]
  BY <1>1
<1>6. \A x \in Range(stream'[n]) : At(x)' > 4 /\ x \notin Range(peer_ids'[n])
  BY <1>3, <1>4, <1>5 DEF AddressesOf
<1>7. \A x \in Range(peer_ids'[n]) : At(x)' > 4 /\ x # n
  BY <1>3, <1>4, <1>5 DEF AddressesOf
<1>8. Len(peer_ids'[n]) >= Count - 1
  BY <1>2, <1>5 DEF AddressesOf
<1> QED  BY <1>1, <1>5, <1>6, <1>7, <1>8 DEF AddressesOf

(* The other steps leave the addresses as they are. *)
LEMMA NeitherReadsNorDials ==
  \A a \in {"subscribe", "signal_init", "init", "signal_net", "net",
             "signal_bootstrapped", "bootstrapped", "streaming", "stop"} :
    StepNo(a) # 6 /\ StepNo(a) # 8
BY StepNumbers

(* No step loses an address. *)
LEMMA AddressesKept ==
  ASSUME TypeInv, NEW n \in Nodes, Node(n), Addresses
  PROVE  Addresses'
<1> SUFFICES ASSUME NEW m \in Nodes PROVE AddressesOf(m)'
  BY DEF Addresses
<1>1. AddressesOf(m) /\ AddressesOf(n)
  BY DEF Addresses
<1>2. ASSUME NEW a \in {"subscribe", "signal_init", "init", "signal_net", "net",
                        "signal_bootstrapped", "bootstrapped", "streaming", "stop"},
             pc[n] = a, UNCHANGED <<stream, peer_ids, dialed>>
      PROVE  AddressesOf(m)'
  <2>1. At(n) = StepNo(a)
    BY <1>2, AtStep
  <2>2. At(n) # 6 /\ At(n) # 8
    BY <1>2, <2>1, NeitherReadsNorDials
  <2> QED  BY <1>1, <1>2, <2>2, SameAddresses
<1>3. ASSUME m # n, ReadOwn(n) \/ ReadAddress(n) \/ DialAll(n)
      PROVE  AddressesOf(m)'
  <2>1. stream'[m] = stream[m] /\ peer_ids'[m] = peer_ids[m] /\ dialed'[m] = dialed[m]
    BY <1>3 DEF ReadOwn, ReadAddress, DialAll, TypeInv
  <2> QED  BY <1>1, <1>3, <2>1, SameAddresses
<1>4. CASE PublishAddress(n)
  BY <1>1, <1>4, PublishKeepsAddresses
<1>5. CASE ReadOwn(n)
  BY <1>1, <1>3, <1>5, ReadOwnKeepsAddresses
<1>6. CASE ReadAddress(n)
  BY <1>1, <1>3, <1>6, ReadKeepsAddresses
<1>7. CASE DialAll(n)
  BY <1>1, <1>3, <1>7, DialKeepsAddresses
<1>8. CASE Subscribe(n) \/ SignalInit(n) \/ SignalNet(n) \/ SignalBootstrapped(n)
             \/ FinishStreaming(n)
  BY <1>2, <1>8 DEF Subscribe, SignalInit, SignalNet, SignalBootstrapped,
                    FinishStreaming, Goto
<1>9. CASE \/ Pass(n, "init", "publish") \/ Pass(n, "net", "dial")
           \/ Pass(n, "bootstrapped", "streaming") \/ Pass(n, "stop", "done")
  BY <1>2, <1>9 DEF Pass, Goto
<1> QED  BY <1>4, <1>5, <1>6, <1>7, <1>8, <1>9 DEF Node

(* Who subscribed is who went past its first step. *)
LEMMA SubscribersKept ==
  ASSUME TypeInv, NEW n \in Nodes, Node(n), Subscribers
  PROVE  Subscribers'
<1>1. \A m \in Nodes \ {n} : At(m)' = At(m)
  BY NodeSteps
<1>2. CASE Subscribe(n)
  <2>1. pc[n] = "subscribe" /\ pc'[n] = "signal_init" /\ subscribed' = subscribed \cup {n}
    BY <1>2 DEF Subscribe, Goto, TypeInv
  <2>2. At(n)' = 2
    BY <2>1, StepNumbers DEF At, StepNo
  <2>3. \A m \in Nodes : At(m)' > 1 <=> (At(m) > 1 \/ m = n)
    BY <1>1, <2>2
  <2> QED  BY <2>1, <2>3 DEF Subscribers
<1>3. CASE ~Subscribe(n)
  <2>1. subscribed' = subscribed
    BY <1>3 DEF Node, SignalInit, Pass, PublishAddress, SignalNet, ReadOwn, ReadAddress,
                DialAll, SignalBootstrapped, FinishStreaming
  <2>2. /\ pc[n] # "subscribe" /\ pc[n] \in Range(Steps)
    BY <1>3 DEF Node, SignalInit, Pass, PublishAddress, SignalNet, ReadOwn, ReadAddress,
                DialAll, SignalBootstrapped, FinishStreaming, Goto, TypeInv
  <2>3. At(n) # 1
    <3>1. PICK k \in 1 .. 13 : pc[n] = Steps[k]
      BY <2>2, StepsAre
    <3>2. k # 1
      BY <2>2, <3>1, StepNames
    <3> QED  BY <3>1, <3>2, AtStep, StepPlace
  <2>4. At(n) > 1 /\ At(n)' > 1
    <3>1. At(n) \in 1 .. 13 /\ (At(n)' = At(n) \/ At(n)' = At(n) + 1)
      BY AtGrows
    <3> QED  BY <2>3, <3>1
  <2> QED  BY <1>1, <2>1, <2>4 DEF Subscribers
<1> QED  BY <1>2, <1>3

(* Types of the rendezvous are kept. *)
LEMMA TypeKept ==
  ASSUME TypeInv, NEW n \in Nodes, Node(n)
  PROVE  TypeInv'
<1>1. pc' \in [Nodes -> Range(Steps)]
  BY NodeSteps
<1>2. signals' \in [States -> Nat]
  <2>1. CASE \E s \in States : Signals(n, s)
    BY <2>1 DEF Signals, Signal, TypeInv
  <2>2. CASE ~ \E s \in States : Signals(n, s)
    BY <2>2, NodeSteps DEF Moves, Passes, TypeInv
  <2> QED  BY <2>1, <2>2
<1>3. /\ subscribed' \subseteq Nodes /\ stream' \in [Nodes -> Seq(Nodes)]
      /\ peer_ids' \in [Nodes -> Seq(Nodes)] /\ dialed' \in [Nodes -> SUBSET Nodes]
  <2> USE DEF TypeInv
  <2>1. CASE Subscribe(n)
    BY <2>1 DEF Subscribe
  <2>2. CASE PublishAddress(n)
    <3>1. \A m \in Nodes : Append(stream[m], n) \in Seq(Nodes)
      BY AppendProperties
    <3> QED  BY <2>2, <3>1 DEF PublishAddress
  <2>3. CASE ReadOwn(n)
    <3>1. Tail(stream[n]) \in Seq(Nodes)
      BY <2>3, HeadTailProperties DEF ReadOwn
    <3> QED  BY <2>3, <3>1 DEF ReadOwn
  <2>4. CASE ReadAddress(n)
    <3>1. Tail(stream[n]) \in Seq(Nodes) /\ Head(stream[n]) \in Nodes
      BY <2>4, HeadTailProperties DEF ReadAddress
    <3>2. Append(peer_ids[n], Head(stream[n])) \in Seq(Nodes)
      BY <3>1, AppendProperties
    <3> QED  BY <2>4, <3>1, <3>2 DEF ReadAddress
  <2>5. CASE DialAll(n)
    <3>1. Range(peer_ids[n]) \in SUBSET Nodes
      BY RangeOfSeq
    <3> QED  BY <2>5, <3>1 DEF DialAll
  <2>6. CASE UNCHANGED <<subscribed, stream, peer_ids, dialed>>
    BY <2>6
  <2> QED  BY <2>1, <2>2, <2>3, <2>4, <2>5, <2>6
             DEF Node, SignalInit, Pass, SignalNet, SignalBootstrapped, FinishStreaming
<1> QED  BY <1>1, <1>2, <1>3 DEF TypeInv

(* At the start no node went past a step. *)
LEMMA RInvInit == Init => RInv
<1> SUFFICES ASSUME Init PROVE RInv
  OBVIOUS
<1>1. \A n \in Nodes : pc[n] = "subscribe" /\ At(n) = 1
  BY StepNumbers, AtStep DEF Init
<1>2. TypeInv
  <2>1. "subscribe" \in Range(Steps)
    <3>1. Steps[1] \in Range(Steps)
      BY StepsAre
    <3> QED  BY <3>1, StepNames
  <2>2. <<>> \in Seq(Nodes)
    BY EmptySeq
  <2> QED  BY <2>1, <2>2 DEF Init, TypeInv
<1>3. Counted
  <2> SUFFICES ASSUME NEW s \in States PROVE signals[s] = Cardinality(Signallers(s))
    BY DEF Counted
  <2>1. Signallers(s) = {}
    <3>1. SignalNo(s) \in {2, 5, 9, 11}
      BY Numbers
    <3> QED  BY <1>1, <3>1 DEF Signallers
  <2> QED  BY <2>1, FS_EmptySet DEF Init
<1>4. Barriers
  <2>1. \A s \in States : BarrierNo(s) \in {3, 7, 10, 12}
    BY Numbers
  <2> QED  BY <1>1, <2>1 DEF Barriers
<1>5. Subscribers
  BY <1>1 DEF Subscribers, Init
<1>6. Addresses
  <2> SUFFICES ASSUME NEW m \in Nodes PROVE AddressesOf(m)
    BY DEF Addresses
  <2>1. stream[m] = <<>> /\ peer_ids[m] = <<>> /\ At(m) = 1
    BY <1>1 DEF Init
  <2>2. Range(<<>>) = {} /\ IsInjective(<<>>) /\ Len(<<>>) = 0
    BY DEF Range, IsInjective
  <2>3. Range(stream[m]) = {} /\ Range(peer_ids[m]) = {} /\ IsInjective(stream[m])
    BY <2>1, <2>2
  <2>4. Len(peer_ids[m]) = Cardinality(Range(peer_ids[m]))
    BY <2>1, <2>2, <2>3, FS_EmptySet
  <2>5. ~(At(m) > 6) /\ ~(At(m) > 8)
    BY <2>1
  <2> QED  BY <2>3, <2>4, <2>5 DEF AddressesOf
<1> QED  BY <1>2, <1>3, <1>4, <1>5, <1>6 DEF RInv

(* Every step of the rendezvous keeps its invariant. *)
LEMMA RInvNext == RInv /\ [Next]_vars => RInv'
<1> SUFFICES ASSUME RInv, [Next]_vars PROVE RInv'
  OBVIOUS
<1>1. ASSUME NEW n \in Nodes, Node(n) PROVE RInv'
  BY <1>1, TypeKept, CountedKeeps, SubscribersKept, AddressesKept DEF RInv
<1>2. CASE UNCHANGED vars
  <2>1. /\ pc' = pc /\ signals' = signals /\ subscribed' = subscribed
        /\ stream' = stream /\ peer_ids' = peer_ids /\ dialed' = dialed
    BY <1>2 DEF vars
  <2>2. \A m : At(m)' = At(m)
    BY <2>1 DEF At
  <2>3. TypeInv' /\ Subscribers'
    BY <2>1, <2>2 DEF RInv, TypeInv, Subscribers
  <2>4. \A s : Signallers(s)' = Signallers(s)
    BY <2>2 DEF Signallers
  <2>5. Counted' /\ Barriers'
    BY <2>1, <2>2, <2>4 DEF RInv, Counted, Barriers
  <2>6. Addresses'
    BY <2>1, <2>2 DEF RInv, Addresses, AddressesOf
  <2> QED  BY <2>3, <2>5, <2>6 DEF RInv
<1> QED  BY <1>1, <1>2 DEF Next

(* The signals count the nodes past them, no barrier is passed before all   *)
(* gave its signal, and no address is lost (roles/streamer.rs and           *)
(* viewer.rs).                                                              *)
THEOREM RInvHolds == Spec => []RInv
BY RInvInit, RInvNext, PTL DEF Spec

(* The rendezvous invariants, from the counters. *)
LEMMA RInvImplies ==
  RInv => /\ RendezvousTypeOK /\ NoAddressMissed
          /\ AllDialedBeforeStreaming /\ StopTogether
<1> SUFFICES ASSUME RInv
             PROVE  /\ RendezvousTypeOK /\ NoAddressMissed
                    /\ AllDialedBeforeStreaming /\ StopTogether
  OBVIOUS
<1>1. TypeInv /\ Counted /\ Barriers /\ Subscribers /\ Addresses
  BY DEF RInv
<1>2. ASSUME NEW s \in States, NEW n \in Nodes, At(n) > BarrierNo(s)
      PROVE  \A m \in Nodes : At(m) > SignalNo(s)
  BY <1>1, <1>2 DEF Barriers, Signallers
<1>3. /\ SignalNo("init") = 2 /\ SignalNo("bootstrapped") = 9 /\ SignalNo("stop") = 11
      /\ BarrierNo("init") = 3 /\ BarrierNo("bootstrapped") = 10 /\ BarrierNo("stop") = 12
      /\ "init" \in States /\ "bootstrapped" \in States /\ "stop" \in States
  BY DEF SignalNo, BarrierNo, States
<1>4. \A m \in Nodes : At(m) \in 1 .. 13
  BY <1>1, AtPlace
<1>5. RendezvousTypeOK
  <2>1. signals \in [States -> 0 .. Count]
    <3>1. \A s \in States : signals[s] \in 0 .. Count
      BY <1>1, SignallersFinite DEF Counted
    <3> QED  BY <1>1, <3>1 DEF TypeInv
  <2> QED  BY <1>1, <2>1 DEF TypeInv, RendezvousTypeOK
<1>6. NoAddressMissed
  <2> SUFFICES ASSUME NEW n \in Nodes, Past(n, "publish") PROVE subscribed = Nodes
    BY DEF NoAddressMissed
  <2>1. At(n) > 4
    BY StepNumbers DEF Past
  <2>2. \A m \in Nodes : At(m) > 2
    BY <1>2, <1>3, <1>4, <2>1
  <2>3. \A m \in Nodes : At(m) > 1
    BY <1>4, <2>2
  <2> QED  BY <1>1, <2>3 DEF Subscribers
<1>7. AllDialedBeforeStreaming
  <2> SUFFICES ASSUME NEW n \in Nodes, Past(n, "bootstrapped"), NEW m \in Nodes
               PROVE  dialed[m] = Nodes \ {m}
    BY DEF AllDialedBeforeStreaming
  <2>1. At(n) > 10
    BY StepNumbers DEF Past
  <2>2. At(m) > 9
    BY <1>2, <1>3, <2>1
  <2>3. At(m) > 6 /\ At(m) > 8
    BY <1>4, <2>2
  <2>4. AddressesOf(m)
    BY <1>1 DEF Addresses
  <2>5. /\ dialed[m] = Range(peer_ids[m])
        /\ Cardinality(Range(peer_ids[m])) >= Count - 1
    BY <2>3, <2>4 DEF AddressesOf
  <2>6. Range(peer_ids[m]) \in SUBSET (Nodes \ {m})
    <3>1. Range(peer_ids[m]) \in SUBSET Nodes
      BY <1>1, RangeOfSeq DEF TypeInv
    <3>2. m \notin Range(peer_ids[m])
      BY <2>4 DEF AddressesOf
    <3> QED  BY <3>1, <3>2
  <2>7. /\ IsFiniteSet(Nodes \ {m}) /\ Cardinality(Nodes \ {m}) = Count - 1
        /\ Count \in Nat
    BY NodesAssumption, FS_RemoveElement, FS_CardinalityType DEF Count
  <2>8. /\ IsFiniteSet(Range(peer_ids[m]))
        /\ Cardinality(Range(peer_ids[m])) <= Cardinality(Nodes \ {m})
        /\ Cardinality(Nodes \ {m}) = Cardinality(Range(peer_ids[m]))
             => Nodes \ {m} = Range(peer_ids[m])
    BY <2>6, <2>7, FS_Subset
  <2>9. Cardinality(Range(peer_ids[m])) \in Nat
    BY <2>8, FS_CardinalityType
  <2> QED  BY <2>5, <2>7, <2>8, <2>9
<1>8. StopTogether
  <2> SUFFICES ASSUME NEW n \in Nodes, pc[n] = "done", NEW m \in Nodes
               PROVE  Past(m, "streaming")
    BY DEF StopTogether
  <2>1. At(n) = 13
    BY AtStep, StepNumbers
  <2>2. At(m) > 11
    BY <1>2, <1>3, <2>1
  <2> QED  BY <2>2, StepNumbers DEF Past
<1> QED  BY <1>5, <1>6, <1>7, <1>8

------------------------------------------------------------------------------
(* The network implements the rendezvous: its steps are the rendezvous's or *)
(* leave it alone.                                                          *)
THEOREM NetworkImplementsRendezvous == NetworkSpec => Spec
<1>1. NetworkInit => Init
  BY DEF NetworkInit
<1>2. [NetworkNext]_network_vars => [Next]_vars
  <2> SUFFICES ASSUME [NetworkNext]_network_vars PROVE [Next]_vars
    OBVIOUS
  <2>1. ASSUME NEW n \in Nodes, Meet(n) \/ Leave(n) PROVE Next
    BY <2>1 DEF Meet, Leave, Next, Node
  <2>2. CASE Stream
    BY <2>2 DEF Stream
  <2>3. ASSUME NEW v \in Viewers, ViewerStep(v) PROVE UNCHANGED vars
    BY <2>3 DEF ViewerStep, Loop, SubscribeTopic, StartFetch, PlayerEnds, Message, FetchEnds
  <2>4. CASE UNCHANGED network_vars
    BY <2>4 DEF network_vars
  <2> QED  BY <2>1, <2>2, <2>3, <2>4 DEF NetworkNext
<1> QED  BY <1>1, <1>2, PTL DEF NetworkSpec, Spec

(* The streamer's part of the network is the streamer. *)
THEOREM NetworkImplementsStreamer == NetworkSpec => StreamerSpec
<1>1. NetworkInit => StreamerInit
  BY DEF NetworkInit
<1>2. [NetworkNext]_network_vars => [StreamerNext]_streamer_vars
  <2> SUFFICES ASSUME [NetworkNext]_network_vars PROVE [StreamerNext]_streamer_vars
    OBVIOUS
  <2>1. ASSUME NEW n \in Nodes, Meet(n) \/ Leave(n) PROVE UNCHANGED streamer_vars
    BY <2>1 DEF Meet, Leave
  <2>2. CASE Stream
    BY <2>2 DEF Stream
  <2>3. ASSUME NEW v \in Viewers, ViewerStep(v) PROVE UNCHANGED streamer_vars
    BY <2>3 DEF ViewerStep, Loop, SubscribeTopic, StartFetch, PlayerEnds, Message, FetchEnds
  <2>4. CASE UNCHANGED network_vars
    BY <2>4 DEF network_vars
  <2> QED  BY <2>1, <2>2, <2>3, <2>4 DEF NetworkNext
<1> QED  BY <1>1, <1>2, PTL DEF NetworkSpec, StreamerSpec

(* No address is published before every node listens, whatever the number   *)
(* of nodes and the order of their steps.                                   *)
THEOREM NoAddressIsMissed == NetworkSpec => []NoAddressMissed
BY RInvHolds, RInvImplies, NetworkImplementsRendezvous, PTL

(* Every node has dialled every other before one streams. *)
THEOREM AllAreDialedBeforeStreaming == NetworkSpec => []AllDialedBeforeStreaming
BY RInvHolds, RInvImplies, NetworkImplementsRendezvous, PTL

(* No node goes before every other has left its streaming loop. *)
THEOREM AllStopTogether == NetworkSpec => []StopTogether
BY RInvHolds, RInvImplies, NetworkImplementsRendezvous, PTL

------------------------------------------------------------------------------
(* Why the rendezvous ends: what was published is on its way to every node, *)
(* and a node that still collects does not have all the addresses.          *)
Delivered(m) ==
  /\ \A x \in Nodes \ {m} : At(x) > 4 => x \in Range(stream[m]) \cup Range(peer_ids[m])
  /\ At(m) <= 6 => Len(peer_ids[m]) < Count - 1

DInv == \A m \in Nodes : Delivered(m)

(* Node n is not held up: the guards of Node, of which only the barriers    *)
(* and the read of the stream depend on the other nodes.                    *)
CanStep(n) ==
  \/ pc[n] \notin States \cup {"collect", "done"}
  \/ pc[n] \in States /\ Reached(pc[n])
  \/ pc[n] = "collect" /\ stream[n] # <<>>

AllDone == \A n \in Nodes : pc[n] = "done"

(* What a node that collects has before it: the addresses of its stream and *)
(* those of the others that it has not read.                                *)
Unread(n) ==
  {x \in Nodes : x \in Range(stream[n]) \/ (x # n /\ x \notin Range(peer_ids[n]))}

(* A step moves one node to its next place, or on in the addresses it       *)
(* collects, and moves none back.                                           *)
Forward ==
  /\ \A n \in Nodes : At(n)' >= At(n)
  /\ \A n \in Nodes : pc[n] = "collect" => Unread(n)' \subseteq Unread(n)
  /\ \E n \in Nodes : At(n)' > At(n) \/ (pc[n] = "collect" /\ Unread(n)' # Unread(n))

(* A sequence has nothing but its head and its tail. *)
LEMMA HeadOrTail ==
  ASSUME NEW S, NEW s \in Seq(S), s # <<>>
  PROVE  Range(s) = {Head(s)} \cup Range(Tail(s))
<1>1. Head(s) = s[1]
  BY HeadTailProperties
<1>2. \A i \in DOMAIN s : i = 1 \/ (i - 1 \in DOMAIN Tail(s) /\ s[i] = Tail(s)[i - 1])
  <2>1. /\ Tail(s) \in Seq(S) /\ Len(Tail(s)) = Len(s) - 1
        /\ \A i \in 1 .. Len(Tail(s)) : Tail(s)[i] = s[i + 1]
    BY HeadTailProperties
  <2>2. /\ Len(s) \in Nat \ {0} /\ DOMAIN s = 1 .. Len(s)
        /\ DOMAIN Tail(s) = 1 .. Len(s) - 1
    BY <2>1, EmptySeq, LenProperties
  <2> SUFFICES ASSUME NEW i \in DOMAIN s, i # 1
               PROVE  i - 1 \in DOMAIN Tail(s) /\ s[i] = Tail(s)[i - 1]
    OBVIOUS
  <2>3. i - 1 \in 1 .. Len(s) - 1 /\ (i - 1) + 1 = i
    BY <2>2
  <2> QED  BY <2>1, <2>2, <2>3
<1>3. Range(s) \subseteq {Head(s)} \cup Range(Tail(s))
  BY <1>1, <1>2 DEF Range
<1> QED  BY <1>3, TailForgets

(* Before its third step is over no node has published; the barrier comes   *)
(* after the subscription.                                                  *)
LEMMA PublishedToAll ==
  ASSUME RInv, NEW n \in Nodes, PublishAddress(n)
  PROVE  subscribed = Nodes
<1>1. pc[n] = "publish"
  BY DEF PublishAddress, Goto
<1>2. At(n) = 4
  BY <1>1, AtStep, StepNumbers
<1>3. "init" \in States /\ BarrierNo("init") = 3 /\ SignalNo("init") = 2
  BY DEF States, BarrierNo, SignalNo
<1>4. Signallers("init") = Nodes
  BY <1>2, <1>3 DEF RInv, Barriers
<1>5. \A m \in Nodes : At(m) > 1
  <2>1. \A m \in Nodes : At(m) > 2 /\ At(m) \in 1 .. 13
    BY <1>3, <1>4, AtPlace DEF Signallers, RInv
  <2> QED  BY <2>1
<1> QED  BY <1>5 DEF RInv, Subscribers

(* A node that is not the fourth step's leaves what was published as it is. *)
LEMMA SameDelivered ==
  ASSUME RInv, NEW n \in Nodes, Node(n), NEW m \in Nodes, Delivered(m), At(n) # 4,
         stream'[m] = stream[m], peer_ids'[m] = peer_ids[m]
  PROVE  Delivered(m)'
<1>1. /\ \A x \in Nodes : At(x) \in 1 .. 13 /\ At(x)' >= At(x)
      /\ At(n)' = At(n) \/ At(n)' = At(n) + 1
      /\ \A x \in Nodes \ {n} : At(x)' = At(x)
  BY AtGrows, NodeSteps DEF RInv
<1>2. \A x \in Nodes : At(x)' > 4 => At(x) > 4
  BY <1>1
<1>3. At(m)' <= 6 => At(m) <= 6
  <2>1. m = n \/ At(m)' = At(m)
    BY <1>1
  <2> QED  BY <1>1, <2>1
<1> QED  BY <1>2, <1>3 DEF Delivered

(* What is published goes to every stream, *)
LEMMA PublishDelivers ==
  ASSUME RInv, NEW n \in Nodes, PublishAddress(n), NEW m \in Nodes, Delivered(m)
  PROVE  Delivered(m)'
<1>1. Node(n)
  BY DEF Node
<1>2. /\ stream'[m] = Append(stream[m], n) /\ peer_ids'[m] = peer_ids[m]
      /\ stream[m] \in Seq(Nodes)
  BY PublishedToAll DEF PublishAddress, RInv, TypeInv
<1>3. Range(stream'[m]) = Range(stream[m]) \cup {n}
  BY <1>2, AppendNew
<1>4. \A x \in Nodes \ {n} : At(x)' = At(x)
  BY <1>1, NodeSteps DEF RInv
<1>5. At(m)' <= 6 => At(m) <= 6
  <2>1. At(m) \in 1 .. 13 /\ At(m)' >= At(m) /\ (At(n)' = At(n) \/ At(n)' = At(n) + 1)
    BY <1>1, AtGrows DEF RInv
  <2>2. At(m)' = At(m) \/ At(m)' = At(m) + 1
    BY <1>4, <2>1
  <2> QED  BY <2>1, <2>2
<1> QED  BY <1>2, <1>3, <1>4, <1>5 DEF Delivered

(* stays when the node reads its own, *)
LEMMA ReadOwnDelivers ==
  ASSUME RInv, NEW n \in Nodes, ReadOwn(n), Delivered(n)
  PROVE  Delivered(n)'
<1>1. /\ pc' = pc /\ peer_ids' = peer_ids /\ Head(stream[n]) = n
      /\ stream[n] # <<>> /\ stream'[n] = Tail(stream[n]) /\ stream[n] \in Seq(Nodes)
  BY DEF ReadOwn, RInv, TypeInv
<1>2. \A x : At(x)' = At(x)
  BY <1>1 DEF At
<1>3. Range(stream[n]) = {n} \cup Range(stream'[n])
  BY <1>1, HeadOrTail
<1> QED  BY <1>1, <1>2, <1>3 DEF Delivered

(* and is known when it reads another's. *)
LEMMA ReadDelivers ==
  ASSUME RInv, NEW n \in Nodes, ReadAddress(n), Delivered(n)
  PROVE  Delivered(n)'
<1>1. /\ stream[n] # <<>> /\ stream'[n] = Tail(stream[n]) /\ stream[n] \in Seq(Nodes)
      /\ peer_ids'[n] = Append(peer_ids[n], Head(stream[n])) /\ peer_ids[n] \in Seq(Nodes)
      /\ pc'[n] = IF Len(peer_ids'[n]) >= Count - 1 THEN "net" ELSE "collect"
      /\ \A x \in Nodes \ {n} : At(x)' = At(x)
      /\ peer_ids'[n] \in Seq(Nodes)
  <2>1. Node(n)
    BY DEF Node
  <2>2. \A x \in Nodes \ {n} : At(x)' = At(x)
    BY <2>1, NodeSteps DEF RInv
  <2>3. TypeInv'
    BY <2>1, TypeKept DEF RInv
  <2> QED  BY <2>2, <2>3 DEF ReadAddress, RInv, TypeInv
<1>2. Range(stream[n]) = {Head(stream[n])} \cup Range(stream'[n])
  BY <1>1, HeadOrTail
<1>3. Range(peer_ids'[n]) = Range(peer_ids[n]) \cup {Head(stream[n])}
  <2>1. Head(stream[n]) \in Nodes
    BY <1>1, HeadTailProperties
  <2> QED  BY <1>1, <2>1, AppendNew
<1>4. At(n)' <= 6 => Len(peer_ids'[n]) < Count - 1
  <2>1. CASE Len(peer_ids'[n]) >= Count - 1
    <3>1. At(n)' = 7
      BY <1>1, <2>1, StepNumbers DEF At, StepNo
    <3> QED  BY <3>1
  <2>2. CASE ~(Len(peer_ids'[n]) >= Count - 1)
    <3>1. Len(peer_ids'[n]) \in Nat /\ Count \in Nat
      BY <1>1, LenProperties, NodesAssumption, FS_CardinalityType DEF Count
    <3> QED  BY <2>2, <3>1
  <2> QED  BY <2>1, <2>2
<1> QED  BY <1>1, <1>2, <1>3, <1>4 DEF Delivered

(* Every step of a node keeps what is delivered. *)
LEMMA DInvNext == RInv /\ DInv /\ [Next]_vars => DInv'
<1> SUFFICES ASSUME RInv, DInv, [Next]_vars PROVE DInv'
  OBVIOUS
<1>1. CASE UNCHANGED vars
  <2>1. /\ pc' = pc /\ stream' = stream /\ peer_ids' = peer_ids
    BY <1>1 DEF vars
  <2>2. \A m : At(m)' = At(m)
    BY <2>1 DEF At
  <2> QED  BY <2>1, <2>2 DEF DInv, Delivered
<1>2. ASSUME NEW n \in Nodes, Node(n), NEW m \in Nodes PROVE Delivered(m)'
  <2>1. Delivered(m) /\ Delivered(n)
    BY DEF DInv
  <2>2. CASE PublishAddress(n)
    BY <2>1, <2>2, PublishDelivers
  <2>3. CASE ~PublishAddress(n)
    <3>1. At(n) # 4
      <4>1. pc[n] # "publish" /\ pc[n] \in Range(Steps)
        BY <1>2, <2>3 DEF Node, Subscribe, SignalInit, Pass, SignalNet, ReadOwn,
                          ReadAddress, DialAll, SignalBootstrapped, FinishStreaming, Goto,
                          RInv, TypeInv
      <4>2. PICK k \in 1 .. 13 : pc[n] = Steps[k]
        BY <4>1, StepsAre
      <4> QED  BY <4>1, <4>2, StepNames, AtStep, StepPlace
    <3>2. CASE m = n /\ ReadOwn(n)
      BY <2>1, <3>2, ReadOwnDelivers
    <3>3. CASE m = n /\ ReadAddress(n)
      BY <2>1, <3>3, ReadDelivers
    <3>4. CASE ~(m = n /\ (ReadOwn(n) \/ ReadAddress(n)))
      <4>1. stream'[m] = stream[m] /\ peer_ids'[m] = peer_ids[m]
        BY <1>2, <2>3, <3>4 DEF Node, Subscribe, SignalInit, Pass, SignalNet, ReadOwn,
                          ReadAddress, DialAll, SignalBootstrapped, FinishStreaming, Goto,
                          RInv, TypeInv
      <4> QED  BY <1>2, <2>1, <3>1, <4>1, SameDelivered
    <3> QED  BY <3>2, <3>3, <3>4
  <2> QED  BY <2>2, <2>3
<1> QED  BY <1>1, <1>2 DEF Next, DInv

(* At the start nothing is published and no node collects. *)
LEMMA DInvInit == Init => DInv
<1> SUFFICES ASSUME Init, NEW m \in Nodes PROVE Delivered(m)
  BY DEF DInv
<1>1. \A n \in Nodes : pc[n] = "subscribe" /\ At(n) = 1
  BY StepNumbers, AtStep DEF Init
<1>2. Len(peer_ids[m]) < Count - 1 \/ Count = 1
  <2>1. peer_ids[m] = <<>> /\ Len(<<>>) = 0
    BY DEF Init
  <2>2. Count \in Nat /\ Count >= 2
    BY NodesAssumption, FS_CardinalityType DEF Count
  <2> QED  BY <2>1, <2>2
<1>3. Count # 1
  BY NodesAssumption DEF Count
<1> QED  BY <1>1, <1>2, <1>3 DEF Delivered

(* An address published is in the stream of every other node or among those *)
(* it has read (REDIS_TOPIC, in roles/streamer.rs and viewer.rs).           *)
THEOREM NoAddressIsLost == NetworkSpec => []DInv
<1>1. Spec => []DInv
  BY RInvHolds, DInvInit, DInvNext, PTL DEF Spec
<1> QED  BY <1>1, NetworkImplementsRendezvous, PTL

(* A barrier is open when all nodes have given its signal. *)
LEMMA BarrierOpens ==
  ASSUME RInv, NEW s \in States, \A m \in Nodes : At(m) > SignalNo(s)
  PROVE  Reached(s)
<1>1. Signallers(s) = Nodes
  BY DEF Signallers
<1>2. signals[s] = Count /\ Count \in Nat
  BY <1>1, NodesAssumption, FS_CardinalityType DEF RInv, Counted, Count
<1> QED  BY <1>2 DEF Reached

(* The places of the nodes that are held up. *)
LEMMA HeldUp ==
  ASSUME RInv, NEW n \in Nodes, ~CanStep(n)
  PROVE  \/ pc[n] = "init" /\ At(n) = 3 /\ ~Reached("init")
         \/ pc[n] = "collect" /\ At(n) = 6 /\ stream[n] = <<>>
         \/ pc[n] = "net" /\ At(n) = 7 /\ ~Reached("net")
         \/ pc[n] = "bootstrapped" /\ At(n) = 10 /\ ~Reached("bootstrapped")
         \/ pc[n] = "stop" /\ At(n) = 12 /\ ~Reached("stop")
         \/ pc[n] = "done" /\ At(n) = 13
<1>1. pc[n] \in States \cup {"collect", "done"}
  BY DEF CanStep
<1>2. At(n) = StepNo(pc[n])
  BY AtStep
<1> QED  BY <1>1, <1>2, StepNumbers DEF CanStep, States

(* Nobody waits when everybody does: the earliest place is not one that     *)
(* waits.                                                                   *)
LEMMA NotAllHeldUp ==
  ASSUME RInv, DInv PROVE AllDone \/ \E n \in Nodes : CanStep(n)
<1> SUFFICES ASSUME \A n \in Nodes : ~CanStep(n) PROVE AllDone
  OBVIOUS
<1>1. \A n \in Nodes : \/ pc[n] = "init" /\ At(n) = 3 /\ ~Reached("init")
                       \/ pc[n] = "collect" /\ At(n) = 6 /\ stream[n] = <<>>
                       \/ pc[n] = "net" /\ At(n) = 7 /\ ~Reached("net")
                       \/ pc[n] = "bootstrapped" /\ At(n) = 10 /\ ~Reached("bootstrapped")
                       \/ pc[n] = "stop" /\ At(n) = 12 /\ ~Reached("stop")
                       \/ pc[n] = "done" /\ At(n) = 13
  BY HeldUp
<1>2. /\ SignalNo("init") = 2 /\ SignalNo("net") = 5
      /\ SignalNo("bootstrapped") = 9 /\ SignalNo("stop") = 11
      /\ "init" \in States /\ "net" \in States
      /\ "bootstrapped" \in States /\ "stop" \in States
  BY DEF SignalNo, States
<1>3. \A n \in Nodes : pc[n] # "init"
  <2> SUFFICES ASSUME NEW n \in Nodes, pc[n] = "init" PROVE FALSE
    OBVIOUS
  <2>1. \A m \in Nodes : At(m) > 2
    BY <1>1
  <2> QED  BY <1>1, <1>2, <2>1, BarrierOpens
<1>4. \A m \in Nodes : At(m) > 5
  BY <1>1, <1>3
<1>5. \A n \in Nodes : pc[n] # "collect"
  <2> SUFFICES ASSUME NEW n \in Nodes, pc[n] = "collect" PROVE FALSE
    OBVIOUS
  <2>1. At(n) = 6 /\ stream[n] = <<>>
    BY <1>1
  <2>2. Nodes \ {n} \subseteq Range(peer_ids[n])
    <3>1. \A x \in Nodes \ {n} : At(x) > 4
      BY <1>1, <1>3
    <3>2. Range(stream[n]) = {}
      BY <2>1 DEF Range
    <3> QED  BY <3>1, <3>2 DEF DInv, Delivered
  <2>3. /\ Len(peer_ids[n]) = Cardinality(Range(peer_ids[n]))
        /\ IsFiniteSet(Range(peer_ids[n]))
    <3>1. Range(peer_ids[n]) \in SUBSET Nodes
      BY RangeOfSeq DEF RInv, TypeInv
    <3> QED  BY <3>1, NodesAssumption, FS_Subset DEF RInv, Addresses, AddressesOf
  <2>4. Cardinality(Nodes \ {n}) = Count - 1 /\ Count \in Nat
    BY NodesAssumption, FS_RemoveElement, FS_CardinalityType DEF Count
  <2>5. Cardinality(Nodes \ {n}) <= Cardinality(Range(peer_ids[n]))
    BY <2>2, <2>3, FS_Subset
  <2>6. Len(peer_ids[n]) < Count - 1 /\ Len(peer_ids[n]) \in Nat
    <3>1. Len(peer_ids[n]) \in Nat
      BY LenProperties DEF RInv, TypeInv
    <3> QED  BY <2>1, <3>1 DEF DInv, Delivered
  <2> QED  BY <2>3, <2>4, <2>5, <2>6
<1>6. \A n \in Nodes : pc[n] # "net"
  BY <1>1, <1>2, <1>4, BarrierOpens
<1>7. \A n \in Nodes : pc[n] # "bootstrapped"
  <2>1. \A m \in Nodes : At(m) > 9
    BY <1>1, <1>3, <1>5, <1>6
  <2> QED  BY <1>1, <1>2, <2>1, BarrierOpens
<1>8. \A n \in Nodes : pc[n] # "stop"
  <2>1. \A m \in Nodes : At(m) > 11
    BY <1>1, <1>3, <1>5, <1>6, <1>7
  <2> QED  BY <1>1, <1>2, <2>1, BarrierOpens
<1> QED  BY <1>1, <1>3, <1>5, <1>6, <1>7, <1>8 DEF AllDone

(* A collecting node reads one address less. *)
LEMMA ReadingGoesOn ==
  ASSUME RInv, NEW n \in Nodes, ReadOwn(n) \/ ReadAddress(n)
  PROVE  /\ Head(stream[n]) \in Unread(n)
         /\ Unread(n)' \subseteq Unread(n) \ {Head(stream[n])}
<1> DEFINE x == Head(stream[n])
<1>1. /\ stream[n] # <<>> /\ stream'[n] = Tail(stream[n]) /\ stream[n] \in Seq(Nodes)
      /\ peer_ids[n] \in Seq(Nodes)
      /\ IF x = n THEN peer_ids'[n] = peer_ids[n]
                  ELSE peer_ids'[n] = Append(peer_ids[n], x)
  BY DEF ReadOwn, ReadAddress, RInv, TypeInv
<1>2. /\ Range(stream[n]) = {x} \cup Range(stream'[n]) /\ x \notin Range(stream'[n])
      /\ x \in Nodes
  <2>1. IsInjective(stream[n])
    BY DEF RInv, Addresses, AddressesOf
  <2> QED  BY <1>1, <2>1, HeadOrTail, TailForgets, HeadTailProperties
<1> HIDE DEF x
<1>3. Range(peer_ids'[n]) = IF x = n THEN Range(peer_ids[n])
                                     ELSE Range(peer_ids[n]) \cup {x}
  <2>1. Range(Append(peer_ids[n], x)) = Range(peer_ids[n]) \cup {x}
    BY <1>1, <1>2, AppendNew
  <2> QED  BY <1>1, <2>1
<1>4. x \in Unread(n)
  BY <1>2 DEF Unread
<1>5. Unread(n)' \subseteq Unread(n) \ {x}
  BY <1>2, <1>3 DEF Unread
<1> QED  BY <1>4, <1>5 DEF x

(* A published address was to be read by all the others. *)
LEMMA PublishAddsNoReading ==
  ASSUME RInv, NEW n \in Nodes, PublishAddress(n), NEW m \in Nodes, pc[m] = "collect"
  PROVE  Unread(m)' \subseteq Unread(m)
<1>1. pc[n] = "publish" /\ m # n
  BY DEF PublishAddress, Goto
<1>2. At(n) = 4
  BY <1>1, AtStep, StepNumbers
<1>3. n \notin Range(peer_ids[m])
  BY <1>2 DEF RInv, Addresses, AddressesOf
<1>4. n \in Unread(m)
  BY <1>1, <1>3 DEF Unread
<1>5. /\ stream'[m] = Append(stream[m], n) /\ peer_ids'[m] = peer_ids[m]
      /\ stream[m] \in Seq(Nodes)
  BY PublishedToAll DEF PublishAddress, RInv, TypeInv
<1>6. Range(stream'[m]) = Range(stream[m]) \cup {n}
  BY <1>5, AppendNew
<1> QED  BY <1>4, <1>5, <1>6 DEF Unread

(* A step is a step forward. *)
LEMMA NodeForward == ASSUME RInv, NEW n \in Nodes, Node(n) PROVE Forward
<1>1. \A m \in Nodes : At(m) \in 1 .. 13 /\ At(m)' >= At(m)
  BY AtGrows DEF RInv
<1>2. CASE ReadOwn(n) \/ ReadAddress(n)
  <2>1. pc[n] = "collect"
    BY <1>2 DEF ReadOwn, ReadAddress
  <2>2. Unread(n)' \subseteq Unread(n) /\ Unread(n)' # Unread(n)
    BY <1>2, ReadingGoesOn
  <2>3. \A m \in Nodes \ {n} : stream'[m] = stream[m] /\ peer_ids'[m] = peer_ids[m]
    BY <1>2 DEF ReadOwn, ReadAddress, RInv, TypeInv
  <2>4. \A m \in Nodes \ {n} : Unread(m)' = Unread(m)
    BY <2>3 DEF Unread
  <2> QED  BY <1>1, <2>1, <2>2, <2>4 DEF Forward
<1>3. CASE ~(ReadOwn(n) \/ ReadAddress(n))
  <2>1. \A m \in Nodes : pc[m] = "collect" => Unread(m)' \subseteq Unread(m)
    <3>1. CASE PublishAddress(n)
      BY <3>1, PublishAddsNoReading
    <3>2. CASE ~PublishAddress(n)
      <4>1. stream' = stream /\ peer_ids' = peer_ids
        BY <1>3, <3>2 DEF Node, Subscribe, SignalInit, Pass, SignalNet, DialAll,
                          SignalBootstrapped, FinishStreaming
      <4> QED  BY <4>1 DEF Unread
    <3> QED  BY <3>1, <3>2
  <2>2. At(n)' > At(n)
    <3>1. ASSUME NEW a, NEW b \in Range(Steps), Goto(n, a, b), StepNo(b) > StepNo(a)
          PROVE  At(n)' > At(n)
      BY <3>1, GotoMoves DEF RInv
    <3>2. /\ {"signal_init", "init", "publish", "signal_net", "collect", "dial",
              "signal_bootstrapped", "bootstrapped", "streaming", "stop", "done"}
               \subseteq Range(Steps)
      <4>1. \A k \in 1 .. 13 : Steps[k] \in Range(Steps)
        BY StepsAre
      <4>2. /\ Steps[2] \in Range(Steps) /\ Steps[3] \in Range(Steps)
            /\ Steps[4] \in Range(Steps) /\ Steps[5] \in Range(Steps)
            /\ Steps[6] \in Range(Steps) /\ Steps[8] \in Range(Steps)
            /\ Steps[9] \in Range(Steps) /\ Steps[10] \in Range(Steps)
            /\ Steps[11] \in Range(Steps) /\ Steps[12] \in Range(Steps)
            /\ Steps[13] \in Range(Steps)
        BY <4>1
      <4> QED  BY <4>2, StepNames
    <3>3. CASE Subscribe(n) \/ SignalInit(n) \/ Pass(n, "init", "publish")
      BY <3>1, <3>2, <3>3, StepNumbers DEF Subscribe, SignalInit, Pass
    <3>4. CASE PublishAddress(n) \/ SignalNet(n) \/ Pass(n, "net", "dial")
      BY <3>1, <3>2, <3>4, StepNumbers DEF PublishAddress, SignalNet, Pass
    <3>5. CASE DialAll(n) \/ SignalBootstrapped(n) \/ Pass(n, "bootstrapped", "streaming")
      BY <3>1, <3>2, <3>5, StepNumbers DEF DialAll, SignalBootstrapped, Pass
    <3>6. CASE FinishStreaming(n) \/ Pass(n, "stop", "done")
      BY <3>1, <3>2, <3>6, StepNumbers DEF FinishStreaming, Pass
    <3> QED  BY <1>3, <3>3, <3>4, <3>5, <3>6 DEF Node
  <2> QED  BY <1>1, <2>1, <2>2 DEF Forward
<1> QED  BY <1>2, <1>3

(* The rendezvous takes finitely many steps: every one moves a node to one  *)
(* of the places it has before it, of which there are 12, or reads one of   *)
(* the addresses a node has to read, of which there are no more than nodes. *)
THEOREM EveryStepIsForward == NetworkSpec => [][Forward]_vars
<1>1. RInv /\ [Next]_vars => [Forward]_vars
  BY NodeForward DEF Next
<1>2. Spec => [][Forward]_vars
  BY <1>1, RInvHolds, PTL DEF Spec
<1> QED  BY <1>2, NetworkImplementsRendezvous, PTL

------------------------------------------------------------------------------
(* The streamer: how many blocks are made and left, and what is queued.     *)
Generating ==
  task = "generate" =>
    /\ num_blocks > 0
    /\ Len(blocks) + num_blocks = BlockCount
    /\ \A i \in 1 .. Len(blocks) : blocks[i] = block_size

(* A block named by a queued message is held or queued before it. *)
QueuedInOrder ==
  \A i \in DOMAIN commands :
    commands[i].op = "publish" =>
      \A c \in Range(commands[i].cids) :
        c \in store \/ \E j \in DOMAIN commands : j < i /\ commands[j] = AddCommand(c)

SInv ==
  /\ StreamerTypeOK
  /\ task \in {"generate", "announce"} => counter > 1
  /\ Generating
  /\ SegmentIsWhole
  /\ QueuedInOrder
  /\ AnnouncedIsHeld

(* Full blocks and a remainder are the bytes of the segment. *)
LEMMA BlockSums ==
  ASSUME StreamerTypeOK
  PROVE  /\ block_size \in Nat \ {0} /\ total_bytes \in Nat \ {0} /\ total_bytes < Modulus
         /\ remainder_bytes \in 0 .. block_size - 1
         /\ BlockCount \in 1 .. total_bytes
         /\ BlockBytes(0) \in 1 .. block_size
         /\ (BlockCount - 1) * block_size + BlockBytes(0) = total_bytes
<1>1. /\ block_size \in Nat \ {0} /\ total_bytes \in Nat \ {0} /\ total_bytes < Modulus
  BY StreamerAssumption DEF StreamerTypeOK
<1> DEFINE q == total_bytes \div block_size
           r == total_bytes % block_size
<1>2. q \in Nat /\ r \in 0 .. block_size - 1 /\ total_bytes = block_size * q + r
  <2>1. \A a \in Nat, b \in Nat \ {0} :
          /\ a = b * (a \div b) + (a % b) /\ (a % b) \in 0 .. b - 1 /\ (a \div b) \in Nat
    OBVIOUS
  <2> QED  BY <1>1, <2>1
<1>3. remainder_bytes = r
  BY DEF remainder_bytes
<1>4. /\ BlockCount = q + (IF r > 0 THEN 1 ELSE 0)
      /\ BlockBytes(0) = IF r > 0 THEN r ELSE block_size
  BY <1>3 DEF BlockCount, BlockBytes
<1> HIDE DEF q, r
<1>5. q <= block_size * q
  <2>1. \A a \in Nat, b \in Nat \ {0} : a <= b * a
    OBVIOUS
  <2> QED  BY <1>1, <1>2, <2>1
<1>6. \A a \in Int, b \in Int : (a - 1) * b + b = b * a /\ (a + 1 - 1) * b = b * a
  OBVIOUS
<1>7. CASE r > 0
  <2>1. BlockCount = q + 1 /\ BlockBytes(0) = r
    BY <1>4, <1>7
  <2>2. (q + 1 - 1) * block_size = block_size * q
    BY <1>1, <1>2, <1>6
  <2>3. (BlockCount - 1) * block_size + BlockBytes(0) = total_bytes
    BY <1>2, <2>1, <2>2
  <2>4. q + 1 <= total_bytes
    BY <1>1, <1>2, <1>5, <1>7
  <2> QED  BY <1>1, <1>2, <1>3, <1>7, <2>1, <2>3, <2>4
<1>8. CASE r = 0
  <2>1. BlockCount = q /\ BlockBytes(0) = block_size
    BY <1>4, <1>8, <1>2
  <2>2. (q - 1) * block_size + block_size = block_size * q
    BY <1>1, <1>2, <1>6
  <2>3. total_bytes = block_size * q
    BY <1>1, <1>2, <1>8
  <2>4. q # 0
    BY <1>1, <2>3
  <2> QED  BY <1>1, <1>2, <1>3, <1>5, <1>8, <2>1, <2>2, <2>3, <2>4
<1> QED  BY <1>2, <1>7, <1>8

(* The steps of the streaming loop, one by one: a tick, *)
LEMMA TickKeeps == ASSUME SInv, Tick PROVE SInv'
<1>1. /\ task' = "generate" /\ counter' = counter + 1 /\ counter <= MaxTicks
      /\ num_blocks' = BlockCount /\ blocks' = <<>>
      /\ total_bytes' = total_bytes /\ commands' = commands /\ store' = store
      /\ messages' = messages
  BY DEF Tick
<1>2. counter \in 1 .. MaxTicks + 1 /\ counter' \in 1 .. MaxTicks + 1 /\ counter' > 1
  BY <1>1, StreamerAssumption DEF SInv, StreamerTypeOK
<1>3. BlockCount \in 1 .. total_bytes /\ num_blocks' \in 0 .. Modulus - 1
  BY <1>1, BlockSums, StreamerAssumption DEF SInv
<1>4. blocks' \in Seq(1 .. block_size) /\ Len(blocks') = 0
  BY <1>1, EmptySeq
<1>5. StreamerTypeOK'
  BY <1>1, <1>2, <1>3, <1>4 DEF SInv, StreamerTypeOK
<1>6. BlockCount' = BlockCount
  BY <1>1 DEF BlockCount, remainder_bytes
<1>7. Generating'
  BY <1>1, <1>3, <1>4, <1>6 DEF Generating
<1>8. SegmentIsWhole'
  BY <1>1 DEF SegmentIsWhole
<1>9. QueuedInOrder' /\ AnnouncedIsHeld'
  BY <1>1 DEF SInv, QueuedInOrder, AnnouncedIsHeld
<1> QED  BY <1>2, <1>5, <1>7, <1>8, <1>9 DEF SInv

(* a turn of the loop of generate_blocks, *)
LEMMA GenerateBlockKeeps == ASSUME SInv, GenerateBlock PROVE SInv'
<1>1. /\ task = "generate" /\ num_blocks' = (num_blocks + Modulus - 1) % Modulus
      /\ blocks' = Append(blocks, BlockBytes(num_blocks'))
      /\ task' = IF num_blocks' = 0 THEN "announce" ELSE "generate"
      /\ total_bytes' = total_bytes /\ counter' = counter /\ commands' = commands
      /\ store' = store /\ messages' = messages
  BY DEF GenerateBlock
<1>2. /\ num_blocks \in 1 .. Modulus - 1 /\ Modulus \in Nat
      /\ Len(blocks) + num_blocks = BlockCount
      /\ \A i \in 1 .. Len(blocks) : blocks[i] = block_size
      /\ blocks \in Seq(1 .. block_size)
  BY <1>1, StreamerAssumption DEF SInv, StreamerTypeOK, Generating
<1>3. num_blocks' = num_blocks - 1
  <2>1. \A a \in Int, m \in Nat : 0 <= a /\ a < m => (a + m) % m = a
    BY SMTT(30)
  <2>2. num_blocks - 1 \in Int /\ 0 <= num_blocks - 1 /\ num_blocks - 1 < Modulus
        /\ num_blocks + Modulus - 1 = (num_blocks - 1) + Modulus
    BY <1>2
  <2> QED  BY <1>1, <1>2, <2>1, <2>2
<1> DEFINE b == BlockBytes(num_blocks')
<1>4. /\ b \in 1 .. block_size
      /\ num_blocks' # 0 => b = block_size
      /\ num_blocks' = 0 => b = BlockBytes(0)
  BY BlockSums DEF SInv, BlockBytes
<1> HIDE DEF b
<1>5. /\ blocks' \in Seq(1 .. block_size) /\ Len(blocks') = Len(blocks) + 1
      /\ blocks'[Len(blocks) + 1] = b
      /\ \A i \in 1 .. Len(blocks) : blocks'[i] = block_size
      /\ Len(blocks) \in Nat
  BY <1>1, <1>2, <1>4, AppendProperties, LenProperties DEF b
<1>6. StreamerTypeOK'
  <2>1. num_blocks' \in 0 .. Modulus - 1
    BY <1>2, <1>3
  <2> QED  BY <1>1, <1>5, <2>1 DEF SInv, StreamerTypeOK
<1>7. BlockCount' = BlockCount /\ BlockCount \in Int
  BY <1>1, BlockSums DEF BlockCount, remainder_bytes, SInv
<1>8. Len(blocks') + num_blocks' = BlockCount
  BY <1>2, <1>3, <1>5
<1>9. Generating'
  <2> SUFFICES ASSUME num_blocks' # 0 PROVE Generating'
    BY <1>1 DEF Generating
  <2>1. \A i \in 1 .. Len(blocks') : blocks'[i] = block_size
    BY <1>4, <1>5
  <2>2. num_blocks' > 0
    BY <1>2, <1>3
  <2> QED  BY <1>7, <1>8, <2>1, <2>2 DEF Generating
<1>10. SegmentIsWhole'
  <2> SUFFICES ASSUME num_blocks' = 0 PROVE SegmentIsWhole'
    BY <1>1 DEF SegmentIsWhole
  <2>1. Len(blocks') = BlockCount
    BY <1>5, <1>8
  <2>2. \A i \in 1 .. Len(blocks') - 1 : blocks'[i] = block_size
    BY <1>5
  <2>3. blocks'[Len(blocks')] = BlockBytes(0)
    BY <1>4, <1>5
  <2>4. (Len(blocks') - 1) * block_size + blocks'[Len(blocks')] = total_bytes
    BY <2>1, <2>3, BlockSums DEF SInv
  <2>5. blocks'[Len(blocks')] \in 1 .. block_size /\ Len(blocks') > 0
    BY <2>1, <2>3, BlockSums DEF SInv
  <2> QED  BY <1>1, <2>2, <2>4, <2>5 DEF SegmentIsWhole
<1>11. QueuedInOrder' /\ AnnouncedIsHeld'
  BY <1>1 DEF SInv, QueuedInOrder, AnnouncedIsHeld
<1> QED  BY <1>1, <1>6, <1>9, <1>10, <1>11 DEF SInv

(* Sequences built by comprehension. *)
LEMMA IsSequence ==
  ASSUME NEW S, NEW n \in Nat, NEW f \in [1 .. n -> S]
  PROVE  f \in Seq(S) /\ Len(f) = n
BY SeqDef, LenProperties

(* the commands of generate_video, *)
LEMMA AnnounceKeeps == ASSUME SInv, Announce PROVE SInv'
<1> DEFINE adds == [i \in DOMAIN cids |-> AddCommand(cids[i])]
           pub  == PublishCommand(cids)
           mid  == commands \o adds
<1>1. /\ task = "announce" /\ task' = "publish" /\ commands' = mid \o <<pub>>
      /\ total_bytes' = total_bytes /\ counter' = counter /\ num_blocks' = num_blocks
      /\ blocks' = blocks /\ store' = store /\ messages' = messages
  BY DEF Announce
<1>2. /\ commands \in Seq(Commands) /\ blocks \in Seq(1 .. block_size)
      /\ counter \in 1 .. MaxTicks + 1 /\ counter > 1 /\ MaxTicks \in Nat
  BY <1>1, StreamerAssumption DEF SInv, StreamerTypeOK
<1>3. /\ cids \in Seq(Cids) /\ DOMAIN cids = 1 .. Len(blocks) /\ Len(cids) = Len(blocks)
      /\ Len(blocks) \in Nat
  <2>1. DOMAIN blocks = 1 .. Len(blocks) /\ Len(blocks) \in Nat
    BY <1>2, LenProperties
  <2>2. count \in 1 .. MaxTicks
    BY <1>2 DEF count
  <2>3. \A i \in 1 .. Len(blocks) : <<count, i>> \in Cids
    BY <2>1, <2>2 DEF Cids
  <2>4. cids \in [1 .. Len(blocks) -> Cids]
    BY <2>1, <2>3 DEF cids
  <2> QED  BY <2>1, <2>4, IsSequence
<1>4. /\ adds \in Seq(Commands) /\ Len(adds) = Len(blocks)
      /\ \A i \in 1 .. Len(blocks) : adds[i] = AddCommand(cids[i])
  <2>1. \A i \in 1 .. Len(blocks) : AddCommand(cids[i]) \in Commands
    BY <1>3, ElementOfSeq DEF AddCommand, Commands
  <2>2. adds \in [1 .. Len(blocks) -> Commands]
    BY <1>3, <2>1
  <2>3. \A i \in 1 .. Len(blocks) : adds[i] = AddCommand(cids[i])
    BY <1>3
  <2> HIDE DEF adds
  <2> QED  BY <1>3, <2>2, <2>3, IsSequence
<1>5. pub \in Commands /\ pub.cids = cids
  BY <1>3 DEF PublishCommand, Commands
<1> HIDE DEF adds, pub
<1>6. /\ mid \in Seq(Commands) /\ Len(mid) = Len(commands) + Len(blocks)
      /\ \A i \in 1 .. Len(commands) + Len(blocks) :
           mid[i] = IF i <= Len(commands) THEN commands[i] ELSE adds[i - Len(commands)]
      /\ Len(commands) \in Nat /\ DOMAIN commands = 1 .. Len(commands)
  <2>1. /\ mid \in Seq(Commands) /\ Len(mid) = Len(commands) + Len(adds)
        /\ \A i \in 1 .. Len(commands) + Len(adds) :
             mid[i] = IF i <= Len(commands) THEN commands[i] ELSE adds[i - Len(commands)]
    BY <1>2, <1>4, ConcatProperties
  <2>2. Len(commands) \in Nat /\ DOMAIN commands = 1 .. Len(commands)
    BY <1>2, LenProperties
  <2> HIDE DEF mid
  <2> QED  BY <1>4, <2>1, <2>2
<1> HIDE DEF mid
<1> DEFINE last == Len(commands) + Len(blocks) + 1
<1>7. /\ commands' \in Seq(Commands) /\ Len(commands') = last /\ commands'[last] = pub
      /\ \A i \in 1 .. Len(commands) + Len(blocks) : commands'[i] = mid[i]
      /\ DOMAIN commands' = 1 .. last
  <2>1. commands' = Append(mid, pub)
    BY <1>1, <1>5, <1>6, AppendIsConcat
  <2> QED  BY <1>5, <1>6, <2>1, AppendProperties, LenProperties
<1>8. \A i \in 1 .. Len(commands) : i \in DOMAIN commands' /\ commands'[i] = commands[i]
  BY <1>3, <1>6, <1>7
<1>9. \A i \in 1 .. Len(blocks) :
        /\ Len(commands) + i \in DOMAIN commands'
        /\ commands'[Len(commands) + i] = AddCommand(cids[i])
  <2> SUFFICES ASSUME NEW i \in 1 .. Len(blocks)
               PROVE  /\ Len(commands) + i \in DOMAIN commands'
                      /\ commands'[Len(commands) + i] = AddCommand(cids[i])
    OBVIOUS
  <2>1. /\ Len(commands) + i \in 1 .. Len(commands) + Len(blocks)
        /\ ~(Len(commands) + i <= Len(commands)) /\ Len(commands) + i - Len(commands) = i
        /\ Len(commands) + i \in 1 .. last
    BY <1>3, <1>6
  <2> QED  BY <1>4, <1>6, <1>7, <2>1
<1>10. ASSUME NEW i \in DOMAIN commands', commands'[i].op = "publish",
              NEW c \in Range(commands'[i].cids)
       PROVE  c \in store' \/ \E j \in DOMAIN commands' : j < i /\ commands'[j] = AddCommand(c)
  <2>1. CASE i \in 1 .. Len(commands)
    <3>1. commands'[i] = commands[i] /\ i \in DOMAIN commands
      BY <1>6, <1>8, <2>1
    <3>2. c \in store \/ \E j \in DOMAIN commands : j < i /\ commands[j] = AddCommand(c)
      BY <1>10, <3>1 DEF SInv, QueuedInOrder
    <3> QED  BY <1>1, <1>6, <1>8, <3>2
  <2>2. CASE i = last
    <3>1. c \in Range(cids)
      BY <1>5, <1>7, <1>10, <2>2
    <3>2. PICK k \in 1 .. Len(blocks) : c = cids[k]
      BY <1>3, <3>1 DEF Range
    <3>3. Len(commands) + k < i
      BY <1>3, <1>6, <2>2
    <3> QED  BY <1>9, <3>2, <3>3
  <2>3. CASE i \notin 1 .. Len(commands) /\ i # last
    <3>1. i - Len(commands) \in 1 .. Len(blocks) /\ Len(commands) + (i - Len(commands)) = i
      <4>1. \A m, k \in Nat : \A j \in 1 .. m + k + 1 :
              j \notin 1 .. m /\ j # m + k + 1 => j - m \in 1 .. k /\ m + (j - m) = j
        OBVIOUS
      <4>2. i \in 1 .. Len(commands) + Len(blocks) + 1
        BY <1>7
      <4> QED  BY <1>3, <1>6, <2>3, <4>1, <4>2
    <3>2. commands'[i] = AddCommand(cids[i - Len(commands)])
      BY <1>9, <3>1
    <3> QED  BY <1>10, <3>2 DEF AddCommand
  <2> QED  BY <2>1, <2>2, <2>3
<1>11. StreamerTypeOK' /\ Generating'
  BY <1>1, <1>7 DEF SInv, StreamerTypeOK, Generating
<1>12. SegmentIsWhole'
  BY <1>1 DEF SInv, SegmentIsWhole
<1>13. QueuedInOrder' /\ AnnouncedIsHeld'
  BY <1>1, <1>10 DEF SInv, QueuedInOrder, AnnouncedIsHeld
<1> QED  BY <1>1, <1>11, <1>12, <1>13 DEF SInv

(* Taking the first of a sequence moves the others up. *)
LEMMA RestOf ==
  ASSUME NEW S, NEW s \in Seq(S), s # <<>>
  PROVE  /\ Head(s) = s[1] /\ Head(s) \in S /\ Tail(s) \in Seq(S)
         /\ \A i \in DOMAIN Tail(s) : i + 1 \in DOMAIN s /\ i + 1 # 1 /\ Tail(s)[i] = s[i + 1]
         /\ \A i \in DOMAIN s : i = 1 \/ (i - 1 \in DOMAIN Tail(s) /\ s[i] = Tail(s)[i - 1])
<1>1. /\ Head(s) = s[1] /\ Head(s) \in S /\ Tail(s) \in Seq(S) /\ Len(Tail(s)) = Len(s) - 1
      /\ \A i \in 1 .. Len(Tail(s)) : Tail(s)[i] = s[i + 1]
  BY HeadTailProperties
<1> DEFINE t == Tail(s)
<1>2. /\ Len(s) \in Nat \ {0} /\ DOMAIN s = 1 .. Len(s) /\ DOMAIN t = 1 .. Len(s) - 1
  BY <1>1, EmptySeq, LenProperties
<1>3. \A i \in 1 .. Len(s) - 1 : t[i] = s[i + 1]
  BY <1>1
<1> HIDE DEF t
<1>4. \A i \in DOMAIN t : i + 1 \in DOMAIN s /\ i + 1 # 1 /\ t[i] = s[i + 1]
  BY <1>2, <1>3
<1>5. \A i \in DOMAIN s : i = 1 \/ (i - 1 \in DOMAIN t /\ i - 1 + 1 = i)
  BY <1>2
<1> QED  BY <1>1, <1>4, <1>5 DEF t

(* and the service, which takes a block, *)
LEMMA TakeAddBlockKeeps == ASSUME SInv, TakeAddBlock PROVE SInv'
<1>1. /\ commands # <<>> /\ Head(commands).op = "add_block"
      /\ store' = store \cup {Head(commands).cid} /\ commands' = Tail(commands)
      /\ total_bytes' = total_bytes /\ task' = task /\ counter' = counter
      /\ num_blocks' = num_blocks /\ blocks' = blocks /\ messages' = messages
      /\ commands \in Seq(Commands)
  BY DEF TakeAddBlock, SInv, StreamerTypeOK
<1>2. /\ Head(commands) = commands[1] /\ Head(commands) \in Commands
      /\ commands' \in Seq(Commands)
      /\ \A i \in DOMAIN commands' :
           i + 1 \in DOMAIN commands /\ commands'[i] = commands[i + 1]
      /\ \A i \in DOMAIN commands :
           i = 1 \/ (i - 1 \in DOMAIN commands' /\ commands[i] = commands'[i - 1])
  BY <1>1, RestOf
<1>3. Head(commands).cid \in Cids
  BY <1>1, <1>2 DEF Commands
<1>4. StreamerTypeOK'
  BY <1>1, <1>2, <1>3 DEF SInv, StreamerTypeOK
<1>5. Generating' /\ SegmentIsWhole' /\ AnnouncedIsHeld'
  BY <1>1 DEF SInv, Generating, SegmentIsWhole, AnnouncedIsHeld, BlockCount, remainder_bytes
<1>6. ASSUME NEW i \in DOMAIN commands', commands'[i].op = "publish",
             NEW c \in Range(commands'[i].cids)
      PROVE  c \in store' \/ \E j \in DOMAIN commands' : j < i /\ commands'[j] = AddCommand(c)
  <2>1. c \in store \/ \E j \in DOMAIN commands : j < i + 1 /\ commands[j] = AddCommand(c)
    BY <1>2, <1>6 DEF SInv, QueuedInOrder
  <2>2. CASE c \in store
    BY <1>1, <2>2
  <2>3. ASSUME NEW j \in DOMAIN commands, j < i + 1, commands[j] = AddCommand(c)
        PROVE  c \in store' \/ \E k \in DOMAIN commands' : k < i /\ commands'[k] = AddCommand(c)
    <3>1. CASE j = 1
      BY <1>1, <1>2, <2>3, <3>1 DEF AddCommand
    <3>2. CASE j # 1
      <4>1. DOMAIN commands = 1 .. Len(commands) /\ DOMAIN commands' = 1 .. Len(commands')
        BY <1>1, <1>2, LenProperties
      <4>2. j - 1 \in DOMAIN commands' /\ commands'[j - 1] = AddCommand(c)
        BY <1>2, <2>3, <3>2
      <4>3. j - 1 < i
        BY <2>3, <4>1
      <4> QED  BY <4>2, <4>3
    <3> QED  BY <3>1, <3>2
  <2> QED  BY <2>1, <2>2, <2>3
<1> QED  BY <1>1, <1>4, <1>5, <1>6 DEF SInv, QueuedInOrder

(* or a message whose blocks are all held. *)
LEMMA TakePublishKeeps == ASSUME SInv, TakePublish PROVE SInv'
<1>1. /\ commands # <<>> /\ Head(commands).op = "publish"
      /\ messages' = Append(messages, Head(commands).cids) \/ messages' = messages
      /\ commands' = Tail(commands)
      /\ task' = "loop"
      /\ total_bytes' = total_bytes /\ counter' = counter
      /\ num_blocks' = num_blocks /\ blocks' = blocks /\ store' = store
      /\ commands \in Seq(Commands) /\ messages \in Seq(Seq(Cids))
  BY DEF TakePublish, SInv, StreamerTypeOK
<1>2. /\ Head(commands) = commands[1] /\ Head(commands) \in Commands
      /\ commands' \in Seq(Commands)
      /\ \A i \in DOMAIN commands' :
           i + 1 \in DOMAIN commands /\ commands'[i] = commands[i + 1]
      /\ \A i \in DOMAIN commands :
           i = 1 \/ (i - 1 \in DOMAIN commands' /\ commands[i] = commands'[i - 1])
  BY <1>1, RestOf
<1>3. Head(commands).cids \in Seq(Cids)
  BY <1>1, <1>2 DEF Commands
<1>4. /\ messages' \in Seq(Seq(Cids))
      /\ \A k \in DOMAIN messages' : \/ k \in DOMAIN messages /\ messages'[k] = messages[k]
                                     \/ messages'[k] = Head(commands).cids
  <2>1. CASE messages' = messages
    BY <1>1, <2>1
  <2>2. CASE messages' = Append(messages, Head(commands).cids)
    <3>1. /\ messages' \in Seq(Seq(Cids)) /\ Len(messages') = Len(messages) + 1
          /\ messages'[Len(messages) + 1] = Head(commands).cids
          /\ \A k \in 1 .. Len(messages) : messages'[k] = messages[k]
      BY <1>1, <1>3, <2>2, AppendProperties
    <3>2. /\ DOMAIN messages = 1 .. Len(messages) /\ Len(messages) \in Nat
          /\ DOMAIN messages' = 1 .. Len(messages) + 1
      BY <1>1, <3>1, LenProperties
    <3>3. \A k \in 1 .. Len(messages) + 1 : k \in 1 .. Len(messages) \/ k = Len(messages) + 1
      BY <3>2
    <3> QED  BY <3>1, <3>2, <3>3
  <2> QED  BY <1>1, <2>1, <2>2
<1>5. StreamerTypeOK'
  BY <1>1, <1>2, <1>4 DEF SInv, StreamerTypeOK
<1>6. /\ DOMAIN commands = 1 .. Len(commands) /\ DOMAIN commands' = 1 .. Len(commands')
      /\ 1 \in DOMAIN commands
  <2>1. Len(commands) \in Nat \ {0}
    BY <1>1, EmptySeq
  <2> QED  BY <1>1, <1>2, <2>1, LenProperties
<1>7. Range(Head(commands).cids) \subseteq store
  <2> SUFFICES ASSUME NEW c \in Range(commands[1].cids) PROVE c \in store
    BY <1>2
  <2>1. c \in store \/ \E j \in DOMAIN commands : j < 1 /\ commands[j] = AddCommand(c)
    BY <1>1, <1>2, <1>6 DEF SInv, QueuedInOrder
  <2> QED  BY <1>6, <2>1
<1>8. AnnouncedIsHeld'
  <2> SUFFICES ASSUME NEW k \in DOMAIN messages' PROVE Range(messages'[k]) \subseteq store
    BY <1>1 DEF AnnouncedIsHeld
  <2> QED  BY <1>4, <1>7 DEF SInv, AnnouncedIsHeld
<1>9. ASSUME NEW i \in DOMAIN commands', commands'[i].op = "publish",
             NEW c \in Range(commands'[i].cids)
      PROVE  c \in store' \/ \E j \in DOMAIN commands' : j < i /\ commands'[j] = AddCommand(c)
  <2>1. c \in store \/ \E j \in DOMAIN commands : j < i + 1 /\ commands[j] = AddCommand(c)
    BY <1>2, <1>9 DEF SInv, QueuedInOrder
  <2>2. ASSUME NEW j \in DOMAIN commands, j < i + 1, commands[j] = AddCommand(c)
        PROVE  \E k \in DOMAIN commands' : k < i /\ commands'[k] = AddCommand(c)
    <3>1. j # 1
      BY <1>1, <1>2, <2>2 DEF AddCommand
    <3>2. j - 1 \in DOMAIN commands' /\ commands'[j - 1] = AddCommand(c)
      BY <1>2, <2>2, <3>1
    <3>3. j - 1 < i
      BY <1>6, <2>2
    <3> QED  BY <3>2, <3>3
  <2> QED  BY <1>1, <2>1, <2>2
<1>10. Generating' /\ SegmentIsWhole'
  BY <1>1 DEF Generating, SegmentIsWhole
<1> QED  BY <1>1, <1>5, <1>8, <1>9, <1>10 DEF SInv, QueuedInOrder

(* At the start nothing is made, queued or published. *)
LEMMA SInvInit == StreamerInit => SInv
<1> SUFFICES ASSUME StreamerInit PROVE SInv
  OBVIOUS
<1>1. /\ total_bytes \in SegmentSizes /\ task = "subscribe" /\ counter = 1
      /\ num_blocks = 0 /\ blocks = <<>> /\ commands = <<>> /\ store = {}
      /\ messages = <<>>
  BY DEF StreamerInit
<1>2. DOMAIN commands = {} /\ DOMAIN messages = {}
  BY <1>1
<1>3. StreamerTypeOK
  <2>1. total_bytes \in Nat \ {0} /\ total_bytes < Modulus /\ Modulus \in Nat /\ MaxTicks \in Nat
    BY <1>1, StreamerAssumption
  <2>2. num_blocks \in 0 .. Modulus - 1 /\ counter \in 1 .. MaxTicks + 1
    BY <1>1, <2>1
  <2>3. /\ blocks \in Seq(1 .. block_size) /\ commands \in Seq(Commands)
        /\ messages \in Seq(Seq(Cids))
    BY <1>1, EmptySeq
  <2> QED  BY <1>1, <2>2, <2>3 DEF StreamerTypeOK
<1> QED  BY <1>1, <1>2, <1>3 DEF SInv, Generating, SegmentIsWhole, QueuedInOrder,
                                 AnnouncedIsHeld

(* Every step of the streamer keeps its invariant. *)
LEMMA SInvNext == SInv /\ [StreamerNext]_streamer_vars => SInv'
<1> SUFFICES ASSUME SInv, [StreamerNext]_streamer_vars PROVE SInv'
  OBVIOUS
<1>1. ASSUME task' \in {"loop", "over", task},
             UNCHANGED <<total_bytes, counter, num_blocks, blocks, commands, store, messages>>
      PROVE  SInv'
  <2>1. StreamerTypeOK' /\ (task' \in {"generate", "announce"} => counter' > 1)
    BY <1>1 DEF SInv, StreamerTypeOK
  <2>2. Generating' /\ SegmentIsWhole'
    BY <1>1 DEF SInv, Generating, SegmentIsWhole, BlockCount, remainder_bytes
  <2>3. QueuedInOrder' /\ AnnouncedIsHeld'
    BY <1>1 DEF SInv, QueuedInOrder, AnnouncedIsHeld
  <2> QED  BY <2>1, <2>2, <2>3 DEF SInv
<1>2. CASE SubscribeLive
  BY <1>1, <1>2 DEF SubscribeLive
<1>3. CASE SleepEnds
  BY <1>1, <1>3 DEF SleepEnds
<1>4. CASE UNCHANGED streamer_vars
  BY <1>1, <1>4 DEF streamer_vars
<1> QED  BY <1>2, <1>3, <1>4, TickKeeps, GenerateBlockKeeps, AnnounceKeeps,
            TakeAddBlockKeeps, TakePublishKeeps DEF StreamerNext

(* The blocks made and left are those of a segment, and what is queued to   *)
(* be published is held or queued before (generate_video, generate_blocks). *)
THEOREM SInvHolds == StreamerSpec => []SInv
BY SInvInit, SInvNext, PTL DEF StreamerSpec

(* The loop of generate_blocks never takes a block from none. *)
THEOREM BlocksDoNotUnderflow == NetworkSpec => []NoUnderflow
<1>1. SInv => NoUnderflow
  BY DEF SInv, Generating, NoUnderflow
<1> QED  BY <1>1, SInvHolds, NetworkImplementsStreamer, PTL

(* The blocks of a segment are the segment, whatever the block size. *)
THEOREM SegmentsAreWhole == NetworkSpec => []SegmentIsWhole
<1>1. SInv => SegmentIsWhole
  BY DEF SInv
<1> QED  BY <1>1, SInvHolds, NetworkImplementsStreamer, PTL

(* What a message names is in the streamer's store. *)
THEOREM AnnouncedBlocksAreHeld == NetworkSpec => []AnnouncedIsHeld
<1>1. SInv => AnnouncedIsHeld
  BY DEF SInv
<1> QED  BY <1>1, SInvHolds, NetworkImplementsStreamer, PTL

------------------------------------------------------------------------------
(* The viewers: a stream is held from the subscription to the end of the    *)
(* loop, and only a service whose stream is gone panics.                    *)
VInv ==
  /\ on_topic \subseteq Viewers /\ ended \subseteq on_topic
  /\ receiving = on_topic \ ended /\ panicked \subseteq ended
  /\ received \in [Viewers -> SUBSET DOMAIN messages]
  /\ gossips \in [Viewers -> Seq(DOMAIN messages)]
  /\ fetching \in [Viewers -> SUBSET DOMAIN messages]

(* No message is unpublished. *)
LEMMA MessagesGrow ==
  ASSUME SInv, StreamerNext PROVE DOMAIN messages \subseteq DOMAIN messages'
<1>1. CASE messages' = messages
  BY <1>1
<1>2. CASE messages' # messages
  <2>1. /\ commands # <<>> /\ Head(commands).op = "publish"
        /\ messages' = Append(messages, Head(commands).cids)
        /\ commands \in Seq(Commands) /\ messages \in Seq(Seq(Cids))
    BY <1>2 DEF StreamerNext, SubscribeLive, SleepEnds, Tick, GenerateBlock, Announce,
                TakeAddBlock, TakePublish, SInv, StreamerTypeOK
  <2>2. Head(commands) \in Commands
    BY <2>1, RestOf
  <2>3. Head(commands).cids \in Seq(Cids)
    BY <2>1, <2>2 DEF Commands
  <2>4. /\ messages' \in Seq(Seq(Cids)) /\ Len(messages') = Len(messages) + 1
    BY <2>1, <2>3, AppendProperties
  <2>5. /\ DOMAIN messages = 1 .. Len(messages) /\ Len(messages) \in Nat
        /\ DOMAIN messages' = 1 .. Len(messages) + 1
    BY <2>1, <2>4, LenProperties
  <2> QED  BY <2>5
<1> QED  BY <1>1, <1>2

(* A message goes to a stream that is held or panics a service whose loop   *)
(* is over.                                                                 *)
LEMMA MessageKeeps ==
  ASSUME VInv, NEW v \in Viewers, NEW k \in DOMAIN messages, Message(v, k)
  PROVE  VInv'
<1>1. /\ v \in on_topic /\ received' = [received EXCEPT ![v] = @ \cup {k}]
      /\ messages' = messages /\ on_topic' = on_topic /\ receiving' = receiving
      /\ fetching' = fetching /\ ended' = ended
      /\ IF v \in receiving
         THEN gossips' = [gossips EXCEPT ![v] = Append(@, k)] /\ panicked' = panicked
         ELSE panicked' = panicked \cup {v} /\ gossips' = gossips
  BY DEF Message, streamer_vars
<1>2. received' \in [Viewers -> SUBSET DOMAIN messages']
  BY <1>1 DEF VInv
<1>3. gossips' \in [Viewers -> Seq(DOMAIN messages')]
  <2>1. Append(gossips[v], k) \in Seq(DOMAIN messages)
    BY AppendProperties DEF VInv
  <2> QED  BY <1>1, <2>1 DEF VInv
<1>4. panicked' \subseteq ended'
  BY <1>1 DEF VInv
<1> QED  BY <1>1, <1>2, <1>3, <1>4 DEF VInv

(* A fetch is started for a message of the stream. *)
LEMMA StartFetchKeeps ==
  ASSUME VInv, NEW v \in Viewers, StartFetch(v)
  PROVE  VInv'
<1>1. /\ gossips[v] # <<>> /\ gossips[v] \in Seq(DOMAIN messages)
      /\ gossips' = [gossips EXCEPT ![v] = Tail(@)]
      /\ fetching' = [fetching EXCEPT ![v] = @ \cup {Head(gossips[v])}]
      /\ messages' = messages /\ on_topic' = on_topic /\ receiving' = receiving
      /\ received' = received /\ ended' = ended /\ panicked' = panicked
  BY DEF StartFetch, Loop, streamer_vars, VInv
<1>2. Tail(gossips[v]) \in Seq(DOMAIN messages) /\ Head(gossips[v]) \in DOMAIN messages
  BY <1>1, RestOf
<1>3. /\ gossips' \in [Viewers -> Seq(DOMAIN messages')]
      /\ fetching' \in [Viewers -> SUBSET DOMAIN messages']
  BY <1>1, <1>2 DEF VInv
<1> QED  BY <1>1, <1>3 DEF VInv

(* At the start no viewer subscribed. *)
LEMMA VInvInit == NetworkInit => VInv
<1> SUFFICES ASSUME NetworkInit PROVE VInv
  OBVIOUS
<1>1. <<>> \in Seq(DOMAIN messages)
  BY EmptySeq
<1> QED  BY <1>1 DEF NetworkInit, VInv

(* Every step of the network keeps the invariant of the viewers. *)
LEMMA VInvNext == VInv /\ SInv /\ [NetworkNext]_network_vars => VInv'
<1> SUFFICES ASSUME VInv, SInv, [NetworkNext]_network_vars PROVE VInv'
  OBVIOUS
<1>1. ASSUME UNCHANGED viewer_vars, DOMAIN messages \subseteq DOMAIN messages'
      PROVE  VInv'
  <2>1. /\ on_topic' = on_topic /\ receiving' = receiving /\ received' = received
        /\ gossips' = gossips /\ fetching' = fetching /\ ended' = ended
        /\ panicked' = panicked
    BY <1>1 DEF viewer_vars
  <2>2. \A v \in Viewers : gossips[v] \in Seq(DOMAIN messages')
    BY <1>1, SeqMonotonic DEF VInv
  <2>3. gossips' \in [Viewers -> Seq(DOMAIN messages')]
    BY <2>1, <2>2 DEF VInv
  <2>4. /\ received' \in [Viewers -> SUBSET DOMAIN messages']
        /\ fetching' \in [Viewers -> SUBSET DOMAIN messages']
    BY <1>1, <2>1 DEF VInv
  <2> QED  BY <2>1, <2>3, <2>4 DEF VInv
<1>2. ASSUME NEW n \in Nodes, Meet(n) \/ Leave(n) PROVE VInv'
  BY <1>1, <1>2 DEF Meet, Leave, streamer_vars
<1>3. CASE Stream
  BY <1>1, <1>3, MessagesGrow DEF Stream
<1>4. CASE UNCHANGED network_vars
  BY <1>1, <1>4 DEF network_vars, streamer_vars
<1>5. ASSUME NEW v \in Viewers, ViewerStep(v) PROVE VInv'
  <2>1. CASE SubscribeTopic(v)
    BY <2>1 DEF SubscribeTopic, Loop, streamer_vars, VInv
  <2>2. CASE PlayerEnds(v)
    BY <2>2 DEF PlayerEnds, Loop, streamer_vars, VInv
  <2>3. ASSUME NEW k \in DOMAIN messages, FetchEnds(v, k) PROVE VInv'
    BY <2>3 DEF FetchEnds, streamer_vars, VInv
  <2> QED  BY <1>5, <2>1, <2>2, <2>3, StartFetchKeeps, MessageKeeps DEF ViewerStep
<1> QED  BY <1>2, <1>3, <1>4, <1>5 DEF NetworkNext

(* A viewer holds its stream as long as its loop runs, and a service panics *)
(* only later (VideoStream::run, GossipsubEvent::Message).                  *)
THEOREM VInvHolds == NetworkSpec => []VInv
<1>1. NetworkSpec => []SInv
  BY SInvHolds, NetworkImplementsStreamer, PTL
<1> QED  BY <1>1, VInvInit, VInvNext, PTL DEF NetworkSpec

(* The state of the network keeps its type. *)
THEOREM NetworkTypeCorrect == NetworkSpec => []NetworkTypeOK
<1>1. RInv /\ SInv /\ VInv => NetworkTypeOK
  <2>1. RInv => RendezvousTypeOK
    BY RInvImplies
  <2>2. VInv => receiving \subseteq on_topic /\ panicked \subseteq on_topic
    BY DEF VInv
  <2> QED  BY <2>1, <2>2 DEF SInv, VInv, NetworkTypeOK
<1> QED  BY <1>1, RInvHolds, NetworkImplementsRendezvous, SInvHolds,
            NetworkImplementsStreamer, VInvHolds, PTL

(* As long as a viewer plays, what it was told of can be fetched: the stop  *)
(* barrier keeps the streamer, the order of its queue keeps its promise.    *)
THEOREM FetchStaysAnswerable == NetworkSpec => []FetchIsAnswerable
<1>1. RInv /\ SInv /\ VInv => FetchIsAnswerable
  <2> SUFFICES ASSUME RInv, SInv, VInv, NEW v \in Viewers,
                      pc[v] = "streaming", v \notin ended
               PROVE  /\ pc[streamer] # "done" /\ v \notin panicked
                      /\ \A k \in received[v] : Held(k)
    BY DEF FetchIsAnswerable
  <2>1. v \in Nodes /\ streamer \in Nodes
    BY RolesAssumption DEF Viewers
  <2>2. pc[streamer] # "done"
    <3>1. ASSUME pc[streamer] = "done" PROVE FALSE
      <4>1. At(v) > 11
        BY <2>1, <3>1, RInvImplies, StepNumbers DEF StopTogether, Past
      <4>2. At(v) = 11
        BY AtStep, StepNumbers
      <4> QED  BY <4>1, <4>2
    <3> QED  BY <3>1
  <2>3. v \notin panicked
    BY DEF VInv
  <2>4. ASSUME NEW k \in received[v] PROVE Held(k)
    <3>1. k \in DOMAIN messages
      BY DEF VInv
    <3> QED  BY <3>1 DEF Held, SInv, AnnouncedIsHeld
  <2> QED  BY <2>2, <2>3, <2>4
<1> QED  BY <1>1, RInvHolds, NetworkImplementsRendezvous, SInvHolds,
            NetworkImplementsStreamer, VInvHolds, PTL

------------------------------------------------------------------------------
(* Why the network ends. *)
(* A streamer that waits for the reply of its publish has it in its queue,  *)
(* behind the blocks of that message and nothing else, and no command is    *)
(* queued at another time: with one publish and one reply a turn, the       *)
(* client of the streamer never waits for what will not come.               *)
AwaitsPublish ==
  IF task = "publish"
  THEN /\ commands # <<>>
       /\ \A i \in DOMAIN commands : commands[i].op = "publish" <=> i = Len(commands)
  ELSE commands = <<>>

(* Something is to be done: a node's step around its loop, which waits for  *)
(* the loop to be over, or a loop's. *)
StreamerCanStep ==
  pc[streamer] = "streaming" /\ (task \notin {"publish", "over"} \/ commands # <<>>)

ViewerCanStep(v) == pc[v] = "streaming" /\ v \notin ended

NetworkCanStep ==
  \/ \E n \in Nodes : CanStep(n) /\ (pc[n] = "streaming" => LoopOver(n))
  \/ StreamerCanStep
  \/ \E v \in Viewers : ViewerCanStep(v)

(* The queue at the end of generate_video: the blocks, then the message. *)
LEMMA AnnounceQueue ==
  ASSUME SInv, AwaitsPublish, Announce
  PROVE  /\ commands' \in Seq(Commands) /\ commands' # <<>>
         /\ DOMAIN commands' = 1 .. Len(commands')
         /\ Len(commands') = Len(blocks) + 1 /\ Len(blocks) \in Nat
         /\ commands'[Len(commands')] = PublishCommand(cids)
         /\ \A i \in DOMAIN commands' : commands'[i].op = "publish" <=> i = Len(commands')
<1> DEFINE adds == [i \in DOMAIN cids |-> AddCommand(cids[i])]
           pub  == PublishCommand(cids)
<1>1. /\ task = "announce" /\ task' = "publish" /\ commands = <<>>
      /\ commands' = (commands \o adds) \o <<pub>>
      /\ blocks \in Seq(1 .. block_size)
      /\ counter \in 1 .. MaxTicks + 1 /\ counter > 1 /\ MaxTicks \in Nat
  BY StreamerAssumption DEF Announce, AwaitsPublish, SInv, StreamerTypeOK
<1>2. DOMAIN cids = 1 .. Len(blocks) /\ Len(blocks) \in Nat
  BY <1>1, LenProperties DEF cids
<1>3. \A i \in 1 .. Len(blocks) : cids[i] \in Cids
  <2>1. count \in 1 .. MaxTicks
    BY <1>1 DEF count
  <2> QED  BY <1>1, <1>2, <2>1 DEF Cids, cids
<1>4. cids \in Seq(Cids)
  <2>1. cids \in [1 .. Len(blocks) -> Cids]
    BY <1>2, <1>3 DEF cids
  <2> QED  BY <1>2, <2>1, IsSequence
<1>5. /\ adds \in Seq(Commands) /\ Len(adds) = Len(blocks)
      /\ \A i \in 1 .. Len(blocks) : adds[i].op = "add_block"
  <2>1. \A i \in 1 .. Len(blocks) : AddCommand(cids[i]) \in Commands
    BY <1>3 DEF AddCommand, Commands
  <2>2. adds \in [1 .. Len(blocks) -> Commands]
    BY <1>2, <2>1
  <2>3. \A i \in 1 .. Len(blocks) : adds[i].op = "add_block"
    BY <1>2 DEF AddCommand
  <2> HIDE DEF adds
  <2> QED  BY <1>2, <2>2, <2>3, IsSequence
<1>6. pub \in Commands /\ pub.op = "publish"
  BY <1>4 DEF PublishCommand, Commands
<1> HIDE DEF adds, pub
<1>7. commands \o adds = adds
  BY <1>1, <1>5, ConcatEmptySeq
<1>8. commands' = Append(adds, pub)
  BY <1>1, <1>5, <1>6, <1>7, AppendIsConcat
<1>9. /\ commands' \in Seq(Commands) /\ Len(commands') = Len(blocks) + 1
      /\ commands'[Len(blocks) + 1] = pub
      /\ \A i \in 1 .. Len(blocks) : commands'[i] = adds[i]
      /\ DOMAIN commands' = 1 .. Len(blocks) + 1
  BY <1>5, <1>6, <1>8, AppendProperties, LenProperties
<1>10. \A i \in DOMAIN commands' : commands'[i].op = "publish" <=> i = Len(commands')
  <2> SUFFICES ASSUME NEW i \in 1 .. Len(blocks) + 1
               PROVE  commands'[i].op = "publish" <=> i = Len(blocks) + 1
    BY <1>9
  <2>1. i \in 1 .. Len(blocks) \/ i = Len(blocks) + 1
    BY <1>2
  <2>2. i \in 1 .. Len(blocks) => i # Len(blocks) + 1
    BY <1>2
  <2> QED  BY <1>5, <1>6, <1>9, <2>1, <2>2
<1>11. commands' # <<>>
  BY <1>2, <1>9, EmptySeq
<1> QED  BY <1>2, <1>9, <1>10, <1>11 DEF pub

(* It is what generate_video waits for. *)
LEMMA AnnounceAwaits == ASSUME SInv, AwaitsPublish, Announce PROVE AwaitsPublish'
<1>1. task' = "publish"
  BY DEF Announce
<1> QED  BY <1>1, AnnounceQueue DEF AwaitsPublish

(* The service takes the blocks first, *)
LEMMA TakeAddBlockAwaits == ASSUME SInv, AwaitsPublish, TakeAddBlock PROVE AwaitsPublish'
<1>1. /\ commands # <<>> /\ Head(commands).op = "add_block"
      /\ commands' = Tail(commands) /\ task' = task /\ commands \in Seq(Commands)
  BY DEF TakeAddBlock, SInv, StreamerTypeOK
<1>2. task = "publish"
  BY <1>1 DEF AwaitsPublish
<1>3. /\ Head(commands) = commands[1] /\ commands' \in Seq(Commands)
      /\ Len(commands') = Len(commands) - 1
      /\ Len(commands) \in Nat \ {0} /\ DOMAIN commands = 1 .. Len(commands)
      /\ DOMAIN commands' = 1 .. Len(commands')
      /\ \A i \in DOMAIN commands' :
           i + 1 \in DOMAIN commands /\ commands'[i] = commands[i + 1]
  BY <1>1, RestOf, HeadTailProperties, EmptySeq, LenProperties
<1>4. Len(commands) # 1
  BY <1>1, <1>2, <1>3 DEF AwaitsPublish
<1>5. commands' # <<>>
  BY <1>3, <1>4, EmptySeq
<1>6. \A i \in DOMAIN commands' : commands'[i].op = "publish" <=> i = Len(commands')
  BY <1>2, <1>3 DEF AwaitsPublish
<1> QED  BY <1>1, <1>2, <1>5, <1>6 DEF AwaitsPublish

(* and the message last. *)
LEMMA TakePublishAwaits == ASSUME SInv, AwaitsPublish, TakePublish PROVE AwaitsPublish'
<1>1. /\ commands # <<>> /\ Head(commands).op = "publish"
      /\ commands' = Tail(commands) /\ task' = "loop" /\ commands \in Seq(Commands)
  BY DEF TakePublish, SInv, StreamerTypeOK
<1>2. /\ Head(commands) = commands[1] /\ Tail(commands) \in Seq(Commands)
      /\ Len(Tail(commands)) = Len(commands) - 1
      /\ Len(commands) \in Nat \ {0} /\ DOMAIN commands = 1 .. Len(commands)
  BY <1>1, HeadTailProperties, EmptySeq, LenProperties
<1>3. Len(commands) = 1
  BY <1>1, <1>2 DEF AwaitsPublish
<1>4. Tail(commands) = <<>>
  <2>1. Len(Tail(commands)) = 0 /\ Tail(commands) \in Seq(Commands)
    BY <1>2, <1>3
  <2> QED  BY <2>1, EmptySeq
<1> QED  BY <1>1, <1>4 DEF AwaitsPublish

(* Every step of the streamer keeps that. *)
LEMMA AwaitsNext == SInv /\ AwaitsPublish /\ [StreamerNext]_streamer_vars => AwaitsPublish'
<1> SUFFICES ASSUME SInv, AwaitsPublish, [StreamerNext]_streamer_vars PROVE AwaitsPublish'
  OBVIOUS
<1>1. ASSUME commands' = commands, task \notin {"publish"}, task' \notin {"publish"}
      PROVE  AwaitsPublish'
  BY <1>1 DEF AwaitsPublish
<1>2. CASE SubscribeLive \/ SleepEnds \/ Tick \/ GenerateBlock
  BY <1>1, <1>2 DEF SubscribeLive, SleepEnds, Tick, GenerateBlock
<1>3. CASE UNCHANGED streamer_vars
  BY <1>3 DEF streamer_vars, AwaitsPublish
<1> QED  BY <1>2, <1>3, AnnounceAwaits, TakeAddBlockAwaits, TakePublishAwaits DEF StreamerNext

(* The publish that generate_video awaits is in the queue until its reply,  *)
(* and nothing is left behind it (utils.rs and background.rs).              *)
THEOREM PublishIsAnswered == NetworkSpec => []AwaitsPublish
<1>1. StreamerInit => AwaitsPublish
  BY DEF StreamerInit, AwaitsPublish
<1>2. StreamerSpec => []AwaitsPublish
  BY <1>1, AwaitsNext, SInvHolds, PTL DEF StreamerSpec
<1> QED  BY <1>2, NetworkImplementsStreamer, PTL

(* Whatever the number of nodes and the order of their steps, as long as    *)
(* one is not done one of them, its loop or its service has a step to take: *)
(* no barrier and no address is waited for by everybody.                    *)
THEOREM NobodyWaitsForEver == NetworkSpec => [](AllDone \/ NetworkCanStep)
<1>1. RInv /\ DInv /\ AwaitsPublish => AllDone \/ NetworkCanStep
  <2> SUFFICES ASSUME RInv, DInv, AwaitsPublish, NEW n \in Nodes, CanStep(n),
                      ~NetworkCanStep
               PROVE  FALSE
    BY NotAllHeldUp
  <2>1. pc[n] = "streaming" /\ ~LoopOver(n)
    BY DEF NetworkCanStep
  <2>2. CASE n = streamer
    <3>1. task # "over"
      BY <2>1, <2>2 DEF LoopOver
    <3>2. task = "publish" /\ commands = <<>>
      BY <2>1, <2>2, <3>1 DEF NetworkCanStep, StreamerCanStep
    <3> QED  BY <3>2 DEF AwaitsPublish
  <2>3. CASE n # streamer
    <3>1. n \in Viewers /\ n \notin ended
      BY <2>1, <2>3 DEF LoopOver, Viewers
    <3> QED  BY <2>1, <3>1 DEF NetworkCanStep, ViewerCanStep
  <2> QED  BY <2>2, <2>3
<1> QED  BY <1>1, RInvHolds, NetworkImplementsRendezvous, NoAddressIsLost,
            PublishIsAnswered, PTL

(* The blocks of the segment of that number, in the order they were made. *)
SegmentCids(k) == [i \in 1 .. BlockCount |-> <<k, i>>]

(* The number of the segment that a message tells of. *)
SegmentOf(list) == list[1][1]

(* The segments whose publish was answered. *)
answered == IF task \in {"generate", "announce", "publish"} THEN count - 1 ELSE count

(* The messages that went out are of segments whose publish was answered,   *)
(* each with all its blocks in order, no segment twice and in the order the *)
(* segments were made; a publish that failed leaves a gap.                  *)
MessagesAreSegments ==
  /\ \A k \in DOMAIN messages :
       /\ SegmentOf(messages[k]) \in 1 .. answered
       /\ messages[k] = SegmentCids(SegmentOf(messages[k]))
  /\ \A j, k \in DOMAIN messages :
       j < k => SegmentOf(messages[j]) < SegmentOf(messages[k])
  /\ task \in {"announce", "publish"} => cids = SegmentCids(count)
  /\ task = "publish" => commands[Len(commands)].cids = cids

(* The steps that publish nothing, *)
LEMMA QuietSteps ==
  ASSUME SInv, MessagesAreSegments, UNCHANGED <<total_bytes, messages>>,
         \/ UNCHANGED <<task, counter, blocks, commands>>
         \/ SubscribeLive \/ SleepEnds \/ Tick
  PROVE  MessagesAreSegments'
<1>1. \A k : SegmentCids(k)' = SegmentCids(k)
  BY DEF SegmentCids, BlockCount, remainder_bytes
<1>2. CASE UNCHANGED <<task, counter, blocks, commands>>
  <2>1. cids' = cids /\ count' = count /\ answered' = answered
    BY <1>2 DEF cids, count, answered
  <2> QED  BY <1>1, <1>2, <2>1 DEF MessagesAreSegments
<1>3. CASE SubscribeLive \/ SleepEnds
  <2>1. count' = count /\ task \notin {"generate", "announce", "publish"}
        /\ task' \notin {"generate", "announce", "publish"} /\ answered' = answered
    BY <1>3 DEF SubscribeLive, SleepEnds, count, answered
  <2> QED  BY <1>1, <2>1 DEF MessagesAreSegments
<1>4. CASE Tick
  <2>1. task = "loop" /\ task' = "generate" /\ counter' = counter + 1 /\ counter \in Nat
    BY <1>4 DEF Tick, SInv, StreamerTypeOK
  <2>2. answered' = answered
    BY <2>1 DEF count, answered
  <2> QED  BY <1>1, <2>1, <2>2 DEF MessagesAreSegments
<1> QED  BY <1>2, <1>3, <1>4

(* the last turn of generate_blocks, whose blocks are the segment's, *)
LEMMA LastBlock ==
  ASSUME SInv, MessagesAreSegments, GenerateBlock PROVE MessagesAreSegments'
<1>1. /\ task = "generate" /\ counter' = counter /\ total_bytes' = total_bytes
      /\ messages' = messages /\ task' \in {"announce", "generate"}
      /\ task' = "announce" <=> num_blocks' = 0
  BY DEF GenerateBlock
<1>2. \A k : SegmentCids(k)' = SegmentCids(k)
  BY <1>1 DEF SegmentCids, BlockCount, remainder_bytes
<1>3. count' = count /\ answered' = answered
  BY <1>1 DEF count, answered
<1>4. ASSUME task' = "announce" PROVE cids' = SegmentCids(count)
  <2>1. num_blocks \in 1 .. Modulus - 1 /\ Modulus \in Nat
        /\ Len(blocks) + num_blocks = BlockCount /\ blocks \in Seq(1 .. block_size)
        /\ num_blocks' = (num_blocks + Modulus - 1) % Modulus
        /\ blocks' = Append(blocks, BlockBytes(num_blocks')) /\ num_blocks' = 0
    BY <1>1, <1>4, StreamerAssumption DEF GenerateBlock, SInv, StreamerTypeOK, Generating
  <2>2. num_blocks = 1
    <3>1. \A a \in Int, m \in Nat : 0 <= a /\ a < m => (a + m) % m = a
      BY SMTT(30)
    <3>2. num_blocks - 1 \in Int /\ 0 <= num_blocks - 1 /\ num_blocks - 1 < Modulus
          /\ num_blocks + Modulus - 1 = (num_blocks - 1) + Modulus
      BY <2>1
    <3> QED  BY <2>1, <3>1, <3>2
  <2>3. SInv'
    BY GenerateBlockKeeps
  <2>4. /\ DOMAIN blocks' = 1 .. Len(blocks') /\ Len(blocks') = Len(blocks) + 1
    <3>1. blocks' \in Seq(1 .. block_size)
      BY <2>3 DEF SInv, StreamerTypeOK
    <3>2. BlockBytes(0) \in 1 .. block_size
      BY BlockSums DEF SInv
    <3>3. Len(blocks') = Len(blocks) + 1
      BY <2>1, <3>2, AppendProperties
    <3> QED  BY <3>1, <3>3, LenProperties
  <2>5. DOMAIN blocks' = 1 .. BlockCount
    BY <2>1, <2>2, <2>4
  <2> QED  BY <1>3, <2>5 DEF cids, SegmentCids
<1> QED  BY <1>1, <1>2, <1>3, <1>4 DEF MessagesAreSegments

(* the commands of generate_video *)
LEMMA AnnounceSegment ==
  ASSUME SInv, AwaitsPublish, MessagesAreSegments, Announce PROVE MessagesAreSegments'
<1>1. /\ task = "announce" /\ task' = "publish" /\ counter' = counter
      /\ total_bytes' = total_bytes /\ messages' = messages /\ blocks' = blocks
  BY DEF Announce
<1>2. /\ \A k : SegmentCids(k)' = SegmentCids(k)
      /\ count' = count /\ cids' = cids /\ answered' = answered
  BY <1>1 DEF SegmentCids, BlockCount, remainder_bytes, cids, count, answered
<1>3. commands'[Len(commands')].cids = cids
  BY AnnounceQueue DEF PublishCommand
<1> QED  BY <1>1, <1>2, <1>3 DEF MessagesAreSegments

(* and what the service does with them. *)
LEMMA TakeSegment ==
  ASSUME SInv, AwaitsPublish, MessagesAreSegments, TakeAddBlock \/ TakePublish
  PROVE  MessagesAreSegments'
<1>1. /\ commands # <<>> /\ commands' = Tail(commands) /\ commands \in Seq(Commands)
      /\ counter' = counter /\ total_bytes' = total_bytes /\ blocks' = blocks
      /\ task = "publish" /\ messages \in Seq(Seq(Cids)) /\ counter \in Nat
  BY DEF TakeAddBlock, TakePublish, SInv, StreamerTypeOK, AwaitsPublish
<1>2. /\ \A k : SegmentCids(k)' = SegmentCids(k)
      /\ count' = count /\ cids' = cids /\ count \in Int
  BY <1>1 DEF SegmentCids, BlockCount, remainder_bytes, cids, count
<1>3. /\ Head(commands) = commands[1]
      /\ Len(Tail(commands)) = Len(commands) - 1
      /\ Len(commands) \in Nat \ {0} /\ DOMAIN commands = 1 .. Len(commands)
      /\ \A i \in 1 .. Len(Tail(commands)) : Tail(commands)[i] = commands[i + 1]
      /\ commands[1] \in Commands
  BY <1>1, HeadTailProperties, EmptySeq, LenProperties
<1>4. CASE TakeAddBlock
  <2>1. messages' = messages /\ task' = task /\ Head(commands).op = "add_block"
    BY <1>4 DEF TakeAddBlock
  <2>2. Len(commands) # 1
    BY <1>1, <1>3, <2>1 DEF AwaitsPublish
  <2>3. commands'[Len(commands')] = commands[Len(commands)]
    BY <1>1, <1>3, <2>2
  <2>4. answered' = answered
    BY <1>2, <2>1 DEF answered
  <2> QED  BY <1>1, <1>2, <2>1, <2>3, <2>4 DEF MessagesAreSegments
<1>5. CASE TakePublish
  <2>1. /\ messages' = Append(messages, Head(commands).cids) \/ messages' = messages
        /\ task' = "loop" /\ Head(commands).op = "publish"
    BY <1>5 DEF TakePublish
  <2>2. Len(commands) = 1
    <3>1. 1 \in DOMAIN commands /\ commands[1].op = "publish"
      BY <1>3, <2>1
    <3> QED  BY <1>1, <3>1 DEF AwaitsPublish
  <2>3. Head(commands).cids = SegmentCids(count) /\ Head(commands).cids \in Seq(Cids)
    <3>1. Head(commands).cids \in Seq(Cids)
      BY <1>3, <2>1 DEF Commands
    <3> QED  BY <1>1, <1>3, <2>2, <3>1 DEF MessagesAreSegments
  <2>4. answered = count - 1 /\ answered' = count
    BY <1>1, <1>2, <2>1 DEF answered
  <2>5. CASE messages' = messages
    <3>1. \A k \in DOMAIN messages :
            /\ SegmentOf(messages[k]) \in 1 .. count
            /\ messages[k] = SegmentCids(SegmentOf(messages[k]))
      BY <1>2, <2>4 DEF MessagesAreSegments
    <3> QED  BY <1>2, <2>1, <2>4, <2>5, <3>1 DEF MessagesAreSegments, SegmentOf
  <2>6. CASE messages' = Append(messages, Head(commands).cids)
    <3>1. SegmentOf(SegmentCids(count)) = count /\ count \in 1 .. count
      <4>1. 1 \in 1 .. BlockCount
        BY BlockSums DEF SInv
      <4>2. DOMAIN SegmentCids(count) = 1 .. BlockCount /\ SegmentCids(count)[1] = <<count, 1>>
        BY <4>1 DEF SegmentCids
      <4>3. SegmentCids(count)[1] \in Cids
        BY <2>3, <4>1, <4>2, ElementOfSeq, LenProperties
      <4>4. count \in 1 .. MaxTicks
        BY <4>2, <4>3 DEF Cids
      <4> QED  BY <1>2, <4>2, <4>4 DEF SegmentOf
    <3>2. /\ messages' \in Seq(Seq(Cids)) /\ Len(messages') = Len(messages) + 1
          /\ messages'[Len(messages) + 1] = SegmentCids(count)
          /\ \A k \in 1 .. Len(messages) : messages'[k] = messages[k]
      BY <1>1, <2>3, <2>6, AppendProperties
    <3>3. /\ DOMAIN messages = 1 .. Len(messages) /\ Len(messages) \in Nat
          /\ DOMAIN messages' = 1 .. Len(messages) + 1
      BY <1>1, <3>2, LenProperties
    <3>4. \A k \in DOMAIN messages' : k \in DOMAIN messages \/ k = Len(messages) + 1
      BY <3>3
    <3>5. \A k \in DOMAIN messages' :
            /\ SegmentOf(messages'[k]) \in 1 .. count
            /\ messages'[k] = SegmentCids(SegmentOf(messages'[k]))
      <4> SUFFICES ASSUME NEW k \in DOMAIN messages'
                   PROVE  /\ SegmentOf(messages'[k]) \in 1 .. count
                          /\ messages'[k] = SegmentCids(SegmentOf(messages'[k]))
        OBVIOUS
      <4>1. CASE k = Len(messages) + 1
        BY <3>1, <3>2, <4>1
      <4>2. CASE k \in DOMAIN messages
        <5>1. messages'[k] = messages[k]
          BY <3>2, <3>3, <4>2
        <5> QED  BY <1>2, <2>4, <4>2, <5>1 DEF MessagesAreSegments
      <4> QED  BY <3>4, <4>1, <4>2
    <3>6. ASSUME NEW j \in DOMAIN messages', NEW k \in DOMAIN messages', j < k
          PROVE  SegmentOf(messages'[j]) < SegmentOf(messages'[k])
      <4>1. j \in DOMAIN messages /\ messages'[j] = messages[j]
        BY <3>2, <3>3, <3>4, <3>6
      <4>2. SegmentOf(messages[j]) \in 1 .. count - 1
        BY <2>4, <4>1 DEF MessagesAreSegments
      <4>3. CASE k = Len(messages) + 1
        BY <1>2, <3>1, <3>2, <4>1, <4>2, <4>3
      <4>4. CASE k \in DOMAIN messages
        <5>1. messages'[k] = messages[k]
          BY <3>2, <3>3, <4>4
        <5> QED  BY <3>6, <4>1, <4>4, <5>1 DEF MessagesAreSegments
      <4> QED  BY <3>4, <4>3, <4>4
    <3> QED  BY <1>2, <2>1, <2>4, <3>5, <3>6 DEF MessagesAreSegments
  <2> QED  BY <2>1, <2>5, <2>6
<1> QED  BY <1>4, <1>5

(* What goes out on the topic is whole segments, none twice and in the      *)
(* order they were made, over publishes that fail and are not repeated: a   *)
(* viewer is never told of a segment twice, of half of one, or of the       *)
(* blocks of another (generate_video, in streamer.rs).                      *)
THEOREM MessagesAreSegmentsInOrder == NetworkSpec => []MessagesAreSegments
<1>1. StreamerInit => MessagesAreSegments
  <2> SUFFICES ASSUME StreamerInit PROVE MessagesAreSegments
    OBVIOUS
  <2>1. messages = <<>> /\ task = "subscribe" /\ counter = 1
    BY DEF StreamerInit
  <2>2. DOMAIN messages = {}
    BY <2>1
  <2> QED  BY <2>1, <2>2 DEF MessagesAreSegments
<1>2. SInv /\ AwaitsPublish /\ MessagesAreSegments /\ [StreamerNext]_streamer_vars
        => MessagesAreSegments'
  <2> SUFFICES ASSUME SInv, AwaitsPublish, MessagesAreSegments,
                      [StreamerNext]_streamer_vars
               PROVE  MessagesAreSegments'
    OBVIOUS
  <2>1. CASE UNCHANGED streamer_vars
    BY <2>1, QuietSteps DEF streamer_vars
  <2>2. CASE SubscribeLive \/ SleepEnds \/ Tick
    BY <2>2, QuietSteps DEF SubscribeLive, SleepEnds, Tick
  <2> QED  BY <2>1, <2>2, LastBlock, AnnounceSegment, TakeSegment DEF StreamerNext
<1>3. StreamerInit => AwaitsPublish
  BY DEF StreamerInit, AwaitsPublish
<1>4. StreamerSpec => []MessagesAreSegments
  BY <1>1, <1>2, <1>3, AwaitsNext, SInvHolds, PTL DEF StreamerSpec
<1> QED  BY <1>4, NetworkImplementsStreamer, PTL
================================================================================
