------------------------- MODULE PipewireAudio_proofs -------------------------
(***************************************************************************)
(* What is proved of PipeWire audio routing for every finite set of nodes  *)
(* and ports, every sequence of tracks and any limits: the arrays follow   *)
(* the server, and exactly the links that are requested get made.          *)
(***************************************************************************)
EXTENDS PipewireAudio, SequenceTheorems, FiniteSetTheorems, TLAPS

-----------------------------------------------------------------------------
(* The types of what is on its way between us and the server.              *)

Objects == Nodes \cup Sinks \cup Ports

Call ==
    [type : {"sync"}, seq : Nat]
      \cup [type : {"sink"}, sink : Sinks]
      \cup [type : {"link"}, links : (SUBSET (Ports \X Ports)) \ {{}}]

Event ==
    [type : {"added", "removed"}, object : Objects]
      \cup [type : {"done"}, seq : Nat]
      \cup [type : {"error"}]

Typed ==
    /\ TypeOK
    /\ calls \in Seq(Call)
    /\ events \in Seq(Event)
    /\ main \in {"wait", "made", "request"} => track # 0

-----------------------------------------------------------------------------
(* Lemmas about the operators.                                             *)

(* seq lists the elements of S, each of them once.                         *)
Lists(seq, S) ==
    /\ seq \in Seq(S)
    /\ \A x \in S : \E i \in DOMAIN seq : seq[i] = x
    /\ \A i, j \in DOMAIN seq : seq[i] = seq[j] => i = j

(* SetToSeq lists a finite set.                                            *)
LEMMA SetToSeqLists ==
    ASSUME NEW S, IsFiniteSet(S)
    PROVE  Lists(SetToSeq(S), S)
<1>. DEFINE n == Cardinality(S)
<1>1. n \in Nat /\ ExistsBijection(1 .. n, S)
  BY FS_CardinalityType
<1>2. \E f \in [1 .. n -> S] : IsInjective(f)
  BY <1>1 DEF ExistsBijection, Bijection, Injection
<1>3. SetToSeq(S) \in [1 .. n -> S] /\ IsInjective(SetToSeq(S))
  BY <1>2 DEF SetToSeq
<1>4. IsFiniteSet(1 .. n) /\ Cardinality(1 .. n) = n
  BY <1>1, FS_Interval
<1>5. SetToSeq(S) \in Surjection(1 .. n, S)
  BY <1>3, <1>4, FS_Injection DEF Injection
<1>6. SetToSeq(S) \in Seq(S)
  BY <1>1, <1>3, SeqDef
<1>. QED
  BY <1>3, <1>5, <1>6 DEF Surjection, IsInjective, Lists

(* One list after the other.                                               *)
LEMMA ListsConcat ==
    ASSUME NEW S, NEW T, S \cap T = {}, NEW s, NEW t,
           Lists(s, S), Lists(t, T)
    PROVE  Lists(s \o t, S \cup T)
<1>. DEFINE w == s \o t
<1>1. s \in Seq(S \cup T) /\ t \in Seq(S \cup T)
  BY DEF Lists
<1>2. /\ DOMAIN w = 1 .. (Len(s) + Len(t)) /\ Len(s) \in Nat /\ Len(t) \in Nat
      /\ DOMAIN s = 1 .. Len(s) /\ DOMAIN t = 1 .. Len(t)
      /\ \A i \in DOMAIN s : w[i] = s[i] /\ s[i] \in S
      /\ \A i \in DOMAIN t : w[Len(s) + i] = t[i] /\ t[i] \in T
  BY DEF Lists
<1>3. ASSUME NEW x \in S \cup T
      PROVE  \E i \in DOMAIN w : w[i] = x
  <2>1. CASE x \in S
    BY <1>2, <2>1 DEF Lists
  <2>2. CASE x \in T
    <3>1. PICK i \in DOMAIN t : t[i] = x
      BY <2>2 DEF Lists
    <3>2. Len(s) + i \in DOMAIN w
      BY <1>2
    <3>. QED
      BY <1>2, <3>1, <3>2
  <2>. QED
    BY <2>1, <2>2
<1>4. ASSUME NEW i \in DOMAIN w, NEW j \in DOMAIN w, w[i] = w[j]
      PROVE  i = j
  <2>1. \A k \in DOMAIN w : k > Len(s) =>
           k - Len(s) \in DOMAIN t /\ w[k] = t[k - Len(s)]
    BY <1>2
  <2>2. \A k \in DOMAIN w : k <= Len(s) => k \in DOMAIN s /\ w[k] = s[k]
    BY <1>2
  <2>3. CASE i <= Len(s) /\ j <= Len(s)
    BY <1>2, <1>4, <2>2, <2>3 DEF Lists
  <2>4. CASE i > Len(s) /\ j > Len(s)
    <3>1. i - Len(s) = j - Len(s)
      BY <1>2, <1>4, <2>1, <2>4 DEF Lists
    <3>. QED
      BY <1>2, <3>1
  <2>5. ~(i <= Len(s) /\ j > Len(s)) /\ ~(i > Len(s) /\ j <= Len(s))
    BY <1>2, <1>4, <2>1, <2>2
  <2>. QED
    BY <1>2, <2>3, <2>4, <2>5
<1>5. w \in Seq(S \cup T)
  BY <1>1
<1>. HIDE DEF w
<1>6. Lists(w, S \cup T)
  BY <1>3, <1>4, <1>5 DEF Lists
<1>. QED
  BY <1>6 DEF w

LEMMA ListsOne ==
    ASSUME NEW x
    PROVE  Lists(<<x>>, {x})
  BY DEF Lists

(* What a node or a port is announced or withdrawn with is an event.       *)
LEMMA BurstsAreEvents ==
    ASSUME NEW seq \in Seq(Objects)
    PROVE  Announce(seq) \in Seq(Event) /\ Withdraw(seq) \in Seq(Event)
  BY DEF Announce, Withdraw, Added, Removed, Event

(* CreateLinks queues well-formed calls only.                              *)
LEMMA CreateLinksTyped ==
    ASSUME NEW R, NEW N, NEW P \in SUBSET Ports,
           calls \in Seq(Call), CreateLinks(R, N, P)
    PROVE  calls' \in Seq(Call)
<1>. DEFINE L == UNION {LinksOf(r, N, P) : r \in R}
<1>1. L \subseteq Ports \X Ports
  BY DEF LinksOf
<1>2. CASE L = {}
  BY <1>2 DEF CreateLinks
<1>3. CASE L # {}
  <2>1. MakeLinks(L) \in Call
    BY <1>1, <1>3 DEF MakeLinks, Call
  <2>. QED
    BY <1>3, <2>1 DEF CreateLinks
<1>. QED
  BY <1>2, <1>3

(* So are the calls that are queued, as TypeOK puts it.                    *)
LEMMA CallsTyped ==
    ASSUME NEW c \in Seq(Call)
    PROVE  \A i \in DOMAIN c :
              c[i].type = "link" =>
                  c[i].links # {} /\ c[i].links \subseteq Ports \X Ports
<1> SUFFICES ASSUME NEW i \in DOMAIN c, c[i].type = "link"
             PROVE  c[i].links # {} /\ c[i].links \subseteq Ports \X Ports
  OBVIOUS
<1>1. c[i] \in Call
  OBVIOUS
<1>. QED
  BY <1>1 DEF Call

(* What the assumption says of the constants, in the form that is used.    *)
LEMMA ConstantsTyped ==
    /\ MaxNodes \in Nat /\ MaxPorts \in Nat /\ MaxChanges \in Nat
    /\ Len(Tracks) \in Nat
    /\ \A i \in 1 .. Len(Tracks) :
          Tracks[i].sink \in Sinks /\ Tracks[i].requests \in Seq(Request)
    /\ IsFiniteSet(Nodes) /\ IsFiniteSet(Sinks) /\ IsFiniteSet(Ports)
<1>1. IsFiniteSet(Nodes) /\ IsFiniteSet(Sinks)
  BY PipewireAssumption, FS_Subset
<1>2. MaxNodes \in Nat /\ MaxPorts \in Nat /\ MaxChanges \in Nat
  BY PipewireAssumption
<1>3. Tracks \in Seq([sink : Sinks, requests : Seq(Request)])
      /\ IsFiniteSet(Ports)
  BY PipewireAssumption
<1>4. \A i \in 1 .. Len(Tracks) :
          Tracks[i].sink \in Sinks /\ Tracks[i].requests \in Seq(Request)
  <2>1. TAKE i \in 1 .. Len(Tracks)
  <2>2. Tracks[i] \in [sink : Sinks, requests : Seq(Request)]
    BY <1>3, <2>1, ElementOfSeq
  <2>. QED
    BY <2>2
<1>. QED
  BY <1>1, <1>2, <1>3, <1>4

-----------------------------------------------------------------------------
(* The arrays' limits.                                                     *)

LEMMA ArraySizes ==
    ASSUME NEW S, IsFiniteSet(S), NEW A \in SUBSET S, NEW x \in S,
           NEW m \in Nat, Cardinality(A) <= m
    PROVE  /\ Cardinality(A \ {x}) <= m
           /\ Cardinality(A) < m => Cardinality(A \cup {x}) <= m
<1>1. IsFiniteSet(A)
  BY FS_Subset
<1>2. Cardinality(A) \in Nat
  BY <1>1, FS_CardinalityType
<1>3. /\ Cardinality(A \cup {x}) \in {Cardinality(A), Cardinality(A) + 1}
      /\ Cardinality(A \ {x}) \in {Cardinality(A), Cardinality(A) - 1}
  BY <1>1, FS_AddElement, FS_RemoveElement
<1>. QED
  BY <1>2, <1>3

-----------------------------------------------------------------------------
(* Every step keeps to the types.                                          *)
LEMMA TypeInit == Init => Typed
<1> SUFFICES ASSUME Init PROVE Typed
  OBVIOUS
<1>. USE ConstantsTyped
<1>1. alive \subseteq Objects
  BY DEF Init, Objects
<1>2. IsFiniteSet(NodesOf(alive)) /\ IsFiniteSet(PortsOf(alive))
  BY PipewireAssumption, FS_Subset DEF NodesOf, PortsOf
<1>3. SetToSeq(NodesOf(alive)) \in Seq(Objects)
      /\ SetToSeq(PortsOf(alive)) \in Seq(Objects)
  <2>1. SetToSeq(NodesOf(alive)) \in Seq(NodesOf(alive))
        /\ SetToSeq(PortsOf(alive)) \in Seq(PortsOf(alive))
    BY <1>2, SetToSeqLists DEF Lists
  <2>. QED
    BY <2>1 DEF NodesOf, PortsOf, Objects
<1>4. events \in Seq(Event)
  <2>1. SetToSeq(NodesOf(alive)) \o SetToSeq(PortsOf(alive)) \in Seq(Objects)
    BY <1>3
  <2>. QED
    BY <2>1, BurstsAreEvents DEF Init
<1>5. Sync(0) \in Call
  BY DEF Sync, Call
<1>6. calls \in Seq(Call)
  BY <1>5 DEF Init
<1>7. Cardinality(stream_nodes) = 0 /\ Cardinality(ports) = 0
  BY FS_EmptySet DEF Init
<1>8. TypeOK
  <2>. USE DEF Init
  <2>1. \A i \in DOMAIN calls :
           calls[i].type = "link" =>
               calls[i].links # {} /\ calls[i].links \subseteq Ports \X Ports
    BY <1>6, CallsTyped
  <2>2. old \subseteq Nodes \cup Sinks
    BY DEF NodesOf
  <2>3. changes \in 0 .. MaxChanges /\ track \in 0 .. Len(Tracks)
    OBVIOUS
  <2>4. Cardinality(stream_nodes) <= MaxNodes /\ Cardinality(ports) <= MaxPorts
    BY <1>7
  <2>. QED
    BY <1>1, <2>1, <2>2, <2>3, <2>4 DEF TypeOK, Objects
<1>. QED
  BY <1>4, <1>6, <1>8 DEF Typed, Init

LEMMA ServerLeavesClient == Server => UNCHANGED client /\ UNCHANGED mainVars
  BY DEF Server, NodeAppears, NodeGoes, PortAppears, Serve

(* What the server does.                                                   *)
LEMMA TypeServer == Typed /\ main # "closed" /\ Server => Typed'
<1> SUFFICES ASSUME Typed, main # "closed", Server PROVE Typed'
  OBVIOUS
<1>. USE ConstantsTyped
<1>0. UNCHANGED client /\ UNCHANGED mainVars
  BY ServerLeavesClient
<1>1. /\ alive' \subseteq Objects
      /\ changes' \in 0 .. MaxChanges
      /\ old' \subseteq Nodes \cup Sinks
      /\ links' \subseteq Ports \X Ports
      /\ calls' \in Seq(Call)
      /\ events' \in Seq(Event)
  <2>. USE DEF Typed, TypeOK, Objects
  <2>1. CASE \E n \in Nodes : NodeAppears(n)
    <3>1. PICK n \in Nodes : NodeAppears(n)
      BY <2>1
    <3>2. Added(n) \in Event
      BY DEF Added, Event
    <3>. QED
      BY <3>1, <3>2 DEF NodeAppears, CountChange
  <2>2. CASE \E p \in Ports : PortAppears(p)
    <3>1. PICK p \in Ports : PortAppears(p)
      BY <2>2
    <3>2. Added(p) \in Event
      BY DEF Added, Event
    <3>. QED
      BY <3>1, <3>2 DEF PortAppears
  <2>3. CASE \E n \in Nodes : NodeGoes(n)
    <3>1. PICK n \in Nodes : NodeGoes(n)
      BY <2>3
    <3>. DEFINE gone == {p \in PortsOf(alive) : p[1] = n}
                burst == Append(SetToSeq(gone), n)
    <3>2. IsFiniteSet(gone) /\ gone \subseteq Ports
      BY FS_Subset DEF PortsOf
    <3>3. burst \in Seq(Objects)
      BY <3>2, SetToSeqLists DEF Lists
    <3>4. Withdraw(burst) \in Seq(Event)
      BY <3>3, BurstsAreEvents
    <3>5. events' = events \o Withdraw(burst)
      BY <3>1 DEF NodeGoes
    <3>6. events' \in Seq(Event)
      BY <3>4, <3>5
    <3>. QED
      BY <3>1, <3>6 DEF NodeGoes, CountChange
  <2>4. CASE Serve
    <3>. DEFINE call == Head(calls)
    <3>1. call \in Call /\ Tail(calls) \in Seq(Call)
      BY <2>4 DEF Serve
    <3>2. CASE call.type = "sync"
      <4>1. Done(call.seq) \in Event
        BY <3>1, <3>2 DEF Done, Call, Event
      <4>2. events' = Append(events, Done(call.seq)) /\ calls' = Tail(calls)
            /\ UNCHANGED <<alive, links, changes, old>>
        BY <2>4, <3>2 DEF Serve
      <4>. QED
        BY <3>1, <4>1, <4>2
    <3>3. CASE call.type = "sink"
      <4>1. call.sink \in Sinks
        BY <3>1, <3>3 DEF Call
      <4>2. Added(call.sink) \in Event
        BY <4>1 DEF Added, Event
      <4>3. alive' = alive \cup {call.sink}
            /\ events' = Append(events, Added(call.sink))
            /\ calls' = Tail(calls) /\ UNCHANGED <<links, changes, old>>
        BY <2>4, <3>3 DEF Serve
      <4>. QED
        BY <3>1, <4>1, <4>2, <4>3
    <3>4. CASE call.type = "link"
      <4>1. call.links \subseteq Ports \X Ports
        BY <3>1, <3>4 DEF Call
      <4>2. Error \in Event
        BY DEF Error, Event
      <4>3. ServeLinks(call.links) /\ calls' = Tail(calls)
            /\ UNCHANGED <<alive, changes, old>>
        BY <2>4, <3>4 DEF Serve
      <4>4. links' \subseteq Ports \X Ports
        BY <4>1, <4>3 DEF ServeLinks
      <4>5. events' \in Seq(Event)
        BY <4>2, <4>3 DEF ServeLinks
      <4>. QED
        BY <3>1, <4>3, <4>4, <4>5
    <3>. QED
      BY <2>4, <3>2, <3>3, <3>4 DEF Serve
  <2>. QED
    BY <2>1, <2>2, <2>3, <2>4 DEF Server
<1>2. TypeOK'
  BY <1>0, <1>1, CallsTyped DEF Typed, TypeOK, client, mainVars, Objects
<1>. QED
  BY <1>0, <1>1, <1>2 DEF Typed, mainVars

(* What the PipeWire thread does.                                          *)
LEMMA TypeDispatch == Typed /\ Dispatch => Typed'
<1> SUFFICES ASSUME Typed, Dispatch PROVE Typed'
  OBVIOUS
<1>. USE ConstantsTyped
<1>. DEFINE event == Head(events)
<1>0. UNCHANGED <<server, requested_links, virtual_sinks, track, request,
                  apps, old>>
  BY DEF Dispatch
<1>1. event \in Event /\ Tail(events) \in Seq(Event)
  BY DEF Dispatch, Typed
<1>2. events' \in Seq(Event)
  BY <1>1 DEF Dispatch
<1>3. main' \in {main, "list", "made"}
      /\ (main' = "made" => main \in {"wait", "made"})
  BY DEF Dispatch, Signal
<1>4. CASE event.type = "added"
  <2>1. CASE event.object \in Ports
    <3>1. AddPort(event.object)
      BY <1>4, <2>1 DEF Dispatch
    <3>2. calls' \in Seq(Call)
      <4>1. CASE Cardinality(ports) < MaxPorts
        <5>1. CreateLinks(requested_links, stream_nodes, ports')
          BY <3>1, <4>1 DEF AddPort
        <5>2. ports' \in SUBSET Ports
          BY <2>1, <3>1, <4>1 DEF AddPort, Typed, TypeOK
        <5>. QED
          BY <5>1, <5>2, CreateLinksTyped DEF Typed
      <4>. QED
        BY <3>1, <4>1 DEF AddPort, Typed
    <3>3. ports' \subseteq Ports /\ Cardinality(ports') <= MaxPorts
      <4>1. ports \subseteq Ports /\ Cardinality(ports) <= MaxPorts
        BY DEF Typed, TypeOK
      <4>. QED
        BY <2>1, <3>1, <4>1, ArraySizes DEF AddPort
    <3>4. UNCHANGED stream_nodes /\ (overflow' = TRUE \/ UNCHANGED overflow)
      BY <3>1 DEF AddPort
    <3>5. overflow' \in BOOLEAN
      BY <3>4 DEF Typed, TypeOK
    <3>. QED
      BY <1>0, <1>2, <1>3, <3>2, <3>3, <3>4, <3>5, CallsTyped
      DEF Typed, TypeOK, server
  <2>2. CASE event.object \notin Ports
    <3>0. event.object \in Nodes \cup Sinks
      BY <1>1, <1>4, <2>2 DEF Event, Objects
    <3>1. AddNode(event.object)
      BY <1>4, <2>2 DEF Dispatch
    <3>2. calls' \in Seq(Call)
      <4>1. CASE Cardinality(stream_nodes) < MaxNodes
        <5>1. CreateLinks(requested_links, stream_nodes', ports)
          BY <3>1, <4>1 DEF AddNode
        <5>2. ports \in SUBSET Ports
          BY DEF Typed, TypeOK
        <5>. QED
          BY <5>1, <5>2, CreateLinksTyped DEF Typed
      <4>. QED
        BY <3>1, <4>1 DEF AddNode, Typed
    <3>3. stream_nodes' \subseteq Nodes \cup Sinks
          /\ Cardinality(stream_nodes') <= MaxNodes
      <4>1. stream_nodes \subseteq Nodes \cup Sinks
            /\ Cardinality(stream_nodes) <= MaxNodes
        BY DEF Typed, TypeOK
      <4>. QED
        BY <3>0, <3>1, <4>1, PipewireAssumption, ArraySizes DEF AddNode
    <3>4. UNCHANGED ports /\ (overflow' = TRUE \/ UNCHANGED overflow)
      BY <3>1 DEF AddNode
    <3>5. overflow' \in BOOLEAN
      BY <3>4 DEF Typed, TypeOK
    <3>. QED
      BY <1>0, <1>2, <1>3, <3>2, <3>3, <3>4, <3>5, CallsTyped
      DEF Typed, TypeOK, server
  <2>. QED
    BY <2>1, <2>2
<1>5. CASE event.type = "removed"
  <2>1. Forget(event.object) /\ UNCHANGED main
    BY <1>5 DEF Dispatch
  <2>2. event.object \in Objects
    BY <1>1, <1>5 DEF Event
  <2>3. Cardinality(stream_nodes') <= MaxNodes
    <3>1. stream_nodes \subseteq Objects
          /\ Cardinality(stream_nodes) <= MaxNodes
      BY DEF Typed, TypeOK, Objects
    <3>2. IsFiniteSet(Objects)
      BY PipewireAssumption, FS_Union DEF Objects
    <3>. QED
      BY <2>1, <2>2, <3>1, <3>2, ArraySizes DEF Forget
  <2>4. Cardinality(ports') <= MaxPorts
    <3>1. ports \subseteq Objects /\ Cardinality(ports) <= MaxPorts
      BY DEF Typed, TypeOK, Objects
    <3>2. IsFiniteSet(Objects)
      BY PipewireAssumption, FS_Union DEF Objects
    <3>. QED
      BY <2>1, <2>2, <3>1, <3>2, ArraySizes DEF Forget
  <2>5. stream_nodes' \subseteq Nodes \cup Sinks /\ ports' \subseteq Ports
        /\ UNCHANGED <<overflow, calls>>
    BY <2>1 DEF Forget, Typed, TypeOK
  <2>. QED
    BY <1>0, <1>2, <2>1, <2>3, <2>4, <2>5 DEF Typed, TypeOK, server
<1>6. CASE event.type \in {"done", "error"}
  <2>1. UNCHANGED <<stream_nodes, ports, overflow, calls>>
    BY <1>6 DEF Dispatch
  <2>. QED
    BY <1>0, <1>2, <1>3, <2>1 DEF Typed, TypeOK, server
<1>. QED
  BY <1>4, <1>5, <1>6 DEF Dispatch

(* What the main thread does.                                              *)
LEMMA TypeMain ==
    ASSUME Typed, ListApps \/ CreateSink \/ SinkMade \/ AddRequest \/ Close
    PROVE  Typed'
<1>. USE ConstantsTyped
<1>1. CASE ListApps
  BY <1>1 DEF ListApps, Typed, TypeOK, server, client
<1>2. CASE CreateSink
  <2>1. track' \in 1 .. Len(Tracks)
    BY <1>2 DEF CreateSink, Typed, TypeOK
  <2>2. MakeSink(Tracks[track'].sink) \in Call /\ Sync(track') \in Call
    BY <2>1 DEF MakeSink, Sync, Call
  <2>3. calls' \in Seq(Call)
    BY <1>2, <2>2 DEF CreateSink, Typed
  <2>4. TypeOK'
    <3>1. request' = 0 /\ main' = "wait"
          /\ UNCHANGED <<server, events, client, virtual_sinks, apps, old>>
      BY <1>2 DEF CreateSink
    <3>2. track' \in 0 .. Len(Tracks)
      BY <2>1
    <3>. QED
      BY <2>3, <3>1, <3>2, CallsTyped DEF Typed, TypeOK, server, client
  <2>. QED
    BY <1>2, <2>1, <2>3, <2>4 DEF CreateSink, Typed
<1>3. CASE SinkMade
  <2>1. track \in 1 .. Len(Tracks)
    BY <1>3 DEF SinkMade, Typed, TypeOK
  <2>2. virtual_sinks' \subseteq Sinks
    BY <1>3, <2>1 DEF SinkMade, Typed, TypeOK
  <2>. QED
    BY <1>3, <2>1, <2>2 DEF SinkMade, Typed, TypeOK, server, client
<1>4. CASE AddRequest
  <2>1. track \in 1 .. Len(Tracks)
    BY <1>4 DEF AddRequest, Typed, TypeOK
  <2>2. CASE request < Len(Tracks[track].requests)
    <3>. DEFINE r == Tracks[track].requests[request + 1]
    <3>1. Tracks[track].requests \in Seq(Request) /\ request \in Nat
      BY <2>1 DEF Typed, TypeOK
    <3>2. r \in Request
      BY <2>2, <3>1
    <3>3. request' = request + 1 /\ requested_links' = requested_links \cup {r}
          /\ CreateLinks({r}, stream_nodes, ports) /\ UNCHANGED main
      BY <1>4, <2>2 DEF AddRequest
    <3>4. ports \in SUBSET Ports /\ calls \in Seq(Call)
      BY DEF Typed, TypeOK
    <3>5. calls' \in Seq(Call)
      BY <3>3, <3>4, CreateLinksTyped
    <3>6. UNCHANGED <<server, events, stream_nodes, ports, overflow,
                      virtual_sinks, track, apps, old>>
      BY <1>4 DEF AddRequest
    <3>7. TypeOK'
      BY <3>1, <3>2, <3>3, <3>5, <3>6, CallsTyped DEF Typed, TypeOK, server
    <3>. QED
      BY <3>3, <3>5, <3>6, <3>7 DEF Typed
  <2>3. CASE ~(request < Len(Tracks[track].requests))
    BY <1>4, <2>3 DEF AddRequest, Typed, TypeOK, server
  <2>. QED
    BY <2>2, <2>3
<1>5. CASE Close
  <2>1. Cardinality({}) <= MaxNodes /\ Cardinality({}) <= MaxPorts
    BY FS_EmptySet
  <2>2. calls' = <<>> /\ events' = <<>> /\ links' = {} /\ stream_nodes' = {}
        /\ ports' = {} /\ requested_links' = {} /\ virtual_sinks' = {}
        /\ main' = "closed" /\ alive' \subseteq alive
        /\ UNCHANGED <<changes, overflow, track, request, apps, old>>
    BY <1>5 DEF Close
  <2>3. TypeOK'
    BY <2>1, <2>2 DEF Typed, TypeOK
  <2>. QED
    BY <2>2, <2>3 DEF Typed
<1>. QED
  BY <1>1, <1>2, <1>3, <1>4, <1>5

LEMMA TypeStep == Typed /\ [Next]_vars => Typed'
<1> SUFFICES ASSUME Typed, [Next]_vars PROVE Typed'
  OBVIOUS
<1>1. CASE UNCHANGED vars
  BY <1>1 DEF vars, server, client, mainVars, Typed, TypeOK
<1>. QED
  BY <1>1, TypeServer, TypeDispatch, TypeMain DEF Next, Closed

(* Type correctness, for all constants: the arrays' limits in particular   *)
(* are kept, whatever the server announces.                                *)
THEOREM PipewireTypeCorrect == Spec => []TypeOK
<1>1. Typed => TypeOK
  BY DEF Typed
<1>. QED
  BY <1>1, TypeInit, TypeStep, PTL DEF Spec

-----------------------------------------------------------------------------
(* Only what is requested gets linked.                                     *)

IsRequested(l) ==
    /\ l[1][3] = l[2][3]
    /\ \E r \in requested_links :
          /\ r.input = Name[l[2][1]]
          /\ r.output_type = Type[l[1][1]]
          /\ IF r.inverted THEN Name[l[1][1]] \notin r.names
             ELSE Name[l[1][1]] \in r.names

(* The links there are and the links asked for are requested ones.         *)
CalledFor ==
    /\ \A l \in links : IsRequested(l)
    /\ \A i \in DOMAIN calls :
          calls[i].type = "link" => \A l \in calls[i].links : IsRequested(l)

(* As requests are only ever added, what is requested stays so.            *)
LEMMA StaysRequested ==
    ASSUME requested_links \subseteq requested_links', NEW l, IsRequested(l)
    PROVE  IsRequested(l)'
  BY DEF IsRequested

(* CreateLinks asks for links that are requested.                          *)
LEMMA CreateLinksCalledFor ==
    ASSUME CalledFor, calls \in Seq(Call), NEW R, NEW N, NEW P,
           requested_links \subseteq requested_links',
           R \subseteq requested_links', requested_links' \subseteq Request,
           CreateLinks(R, N, P), UNCHANGED links
    PROVE  CalledFor'
<1>. DEFINE L == UNION {LinksOf(r, N, P) : r \in R}
<1>1. \A l \in L : IsRequested(l)'
  <2>1. SUFFICES ASSUME NEW r \in R, NEW l \in LinksOf(r, N, P)
                 PROVE  IsRequested(l)'
    OBVIOUS
  <2>2. r.inverted \in BOOLEAN
    BY DEF Request
  <2>3. l[1][3] = l[2][3] /\ Name[l[2][1]] = r.input
        /\ Type[l[1][1]] = r.output_type
        /\ (Name[l[1][1]] \in r.names) # r.inverted
    BY DEF LinksOf, Matches, IsInput
  <2>4. IF r.inverted THEN Name[l[1][1]] \notin r.names
        ELSE Name[l[1][1]] \in r.names
    BY <2>2, <2>3
  <2>. QED
    BY <2>3, <2>4 DEF IsRequested
<1>2. \A l \in links' : IsRequested(l)'
  BY StaysRequested DEF CalledFor
<1>3. \A i \in DOMAIN calls :
         calls[i].type = "link" => \A l \in calls[i].links : IsRequested(l)'
  BY StaysRequested DEF CalledFor
<1>4. CASE L = {}
  BY <1>2, <1>3, <1>4 DEF CreateLinks, CalledFor
<1>5. CASE L # {}
  <2>1. calls' = Append(calls, MakeLinks(L)) /\ MakeLinks(L).links = L
    BY <1>5 DEF CreateLinks, MakeLinks
  <2>2. ASSUME NEW i \in DOMAIN calls', calls'[i].type = "link",
               NEW l \in calls'[i].links
        PROVE  IsRequested(l)'
    <3>1. CASE i = Len(calls) + 1
      BY <1>1, <2>1, <2>2, <3>1
    <3>2. CASE i \in DOMAIN calls
      BY <1>3, <2>1, <2>2, <3>2
    <3>. QED
      BY <2>1, <3>1, <3>2
  <2>. QED
    BY <1>2, <2>2 DEF CalledFor
<1>. QED
  BY <1>4, <1>5

(* The calls that are left, or calls of another kind added to them.        *)
LEMMA OtherCallsCalledFor ==
    ASSUME CalledFor, UNCHANGED requested_links, links' \subseteq links,
           \A i \in DOMAIN calls' :
              calls'[i].type = "link" =>
                 \E j \in DOMAIN calls : calls'[i] = calls[j]
    PROVE  CalledFor'
  BY DEF CalledFor, IsRequested

LEMMA CalledForStep ==
    Typed /\ CalledFor /\ [Next]_vars => CalledFor'
<1> SUFFICES ASSUME Typed, CalledFor, [Next]_vars PROVE CalledFor'
  OBVIOUS
<1>0. calls \in Seq(Call) /\ requested_links \subseteq Request
  BY DEF Typed, TypeOK
<1>1. CASE UNCHANGED <<calls, requested_links>> /\ links' \subseteq links
  BY <1>1, OtherCallsCalledFor
<1>2. CASE UNCHANGED vars
  BY <1>1, <1>2 DEF vars, server, client
<1>3. CASE Server
  <2>1. UNCHANGED requested_links
    BY <1>3 DEF Server, NodeAppears, NodeGoes, PortAppears, Serve, client
  <2>2. CASE Serve
    <3>. DEFINE call == Head(calls)
    <3>1. calls # <<>> /\ calls' = Tail(calls)
      BY <2>2 DEF Serve
    <3>2. \A i \in DOMAIN calls' : \E j \in DOMAIN calls : calls'[i] = calls[j]
      BY <1>0, <3>1
    <3>3. CASE UNCHANGED links
      BY <2>1, <3>2, <3>3, OtherCallsCalledFor
    <3>4. CASE call.type = "link" /\ ServeLinks(call.links)
      <4>1. \A l \in call.links : IsRequested(l)
        BY <1>0, <3>1, <3>4 DEF CalledFor
      <4>2. links' \subseteq links \cup call.links
        BY <3>4 DEF ServeLinks
      <4>3. \A l \in links' : IsRequested(l)'
        BY <2>1, <4>1, <4>2, StaysRequested DEF CalledFor
      <4>. QED
        BY <2>1, <3>2, <4>3, StaysRequested DEF CalledFor
    <3>. QED
      BY <2>2, <3>3, <3>4 DEF Serve
  <2>3. CASE (\E n \in Nodes : NodeAppears(n) \/ NodeGoes(n))
               \/ \E p \in Ports : PortAppears(p)
    <3>1. UNCHANGED calls /\ links' \subseteq links
      BY <2>3 DEF NodeAppears, NodeGoes, PortAppears
    <3>. QED
      BY <1>1, <2>1, <3>1
  <2>. QED
    BY <1>3, <2>2, <2>3 DEF Server
<1>4. CASE Dispatch
  <2>. DEFINE event == Head(events)
  <2>1. UNCHANGED <<requested_links, links>>
    BY <1>4 DEF Dispatch, server
  <2>2. CASE UNCHANGED calls
    BY <1>1, <2>1, <2>2
  <2>3. CASE AddPort(event.object) /\ ~UNCHANGED calls
    <3>1. CreateLinks(requested_links, stream_nodes, ports')
      BY <2>3 DEF AddPort
    <3>. QED
      BY <1>0, <2>1, <3>1, CreateLinksCalledFor
  <2>4. CASE AddNode(event.object) /\ ~UNCHANGED calls
    <3>1. CreateLinks(requested_links, stream_nodes', ports)
      BY <2>4 DEF AddNode
    <3>. QED
      BY <1>0, <2>1, <3>1, CreateLinksCalledFor
  <2>. QED
    BY <1>4, <2>2, <2>3, <2>4 DEF Dispatch, Forget
<1>5. CASE CreateSink
  <2>1. UNCHANGED <<requested_links, links>>
        /\ calls' = calls \o <<MakeSink(Tracks[track'].sink), Sync(track')>>
    BY <1>5 DEF CreateSink, client, server
  <2>2. \A i \in DOMAIN calls' :
           calls'[i].type = "link" =>
              \E j \in DOMAIN calls : calls'[i] = calls[j]
    BY <1>0, <2>1 DEF MakeSink, Sync
  <2>. QED
    BY <2>1, <2>2, OtherCallsCalledFor
<1>6. CASE AddRequest
  <2>. DEFINE r == Tracks[track].requests[request + 1]
  <2>1. UNCHANGED links
    BY <1>6 DEF AddRequest, server
  <2>2. CASE request < Len(Tracks[track].requests)
    <3>1. requested_links' = requested_links \cup {r}
          /\ CreateLinks({r}, stream_nodes, ports)
      BY <1>6, <2>2 DEF AddRequest
    <3>2. requested_links' \subseteq Request
      BY TypeStep DEF Typed, TypeOK
    <3>. QED
      BY <1>0, <2>1, <3>1, <3>2, CreateLinksCalledFor
  <2>3. CASE ~(request < Len(Tracks[track].requests))
    BY <1>1, <1>6, <2>1, <2>3 DEF AddRequest
  <2>. QED
    BY <2>2, <2>3
<1>7. CASE ListApps \/ SinkMade
  BY <1>1, <1>7 DEF ListApps, SinkMade, client, server
<1>8. CASE Close
  BY <1>8 DEF Close, CalledFor
<1>. QED
  BY <1>2, <1>3, <1>4, <1>5, <1>6, <1>7, <1>8 DEF Next, Closed

(* Whatever comes and goes, and however requests, applications and         *)
(* refusals interleave, nothing is recorded that no request asks for.      *)
THEOREM PipewireOnlyRequestedLinks == Spec => []OnlyRequestedLinks
<1>1. Init => CalledFor
  BY DEF Init, CalledFor, Sync
<1>2. CalledFor => OnlyRequestedLinks
  BY DEF CalledFor, IsRequested, OnlyRequestedLinks
<1>. QED
  BY <1>1, <1>2, TypeInit, TypeStep, CalledForStep, PTL DEF Spec

-----------------------------------------------------------------------------
(* The arrays follow the server.                                           *)

(* Event i of ev adds or removes x.                                        *)
Mentions(ev, i, x) == ev[i].type \in {"added", "removed"} /\ ev[i].object = x

LastMention(ev, i, x) ==
    /\ i \in DOMAIN ev /\ Mentions(ev, i, x)
    /\ \A j \in DOMAIN ev : Mentions(ev, j, x) => j <= i

(* What we know of x when the server has A, told us ev, we know K, and     *)
(* maybe ignored something (o): it is as we know it, or we are being told. *)
Follows(x, ev, A, K, o) ==
    \/ /\ \A i \in DOMAIN ev : ~Mentions(ev, i, x)
       /\ x \in K => x \in A
       /\ x \in A => x \in K \/ o
    \/ \E i \in DOMAIN ev :
          LastMention(ev, i, x) /\ (ev[i].type = "added" <=> x \in A)

(* More events, that are not about x.                                      *)
LEMMA FollowsQuiet ==
    ASSUME NEW ev \in Seq(Event), NEW u \in Seq(Event), NEW x, NEW A, NEW B,
           NEW K, NEW o, Follows(x, ev, A, K, o),
           \A i \in DOMAIN u : ~Mentions(u, i, x), x \in A <=> x \in B
    PROVE  Follows(x, ev \o u, B, K, o)
<1>. DEFINE w == ev \o u
<1>1. \A i \in DOMAIN ev : w[i] = ev[i]
  OBVIOUS
<1>2. \A i \in DOMAIN w : i \notin DOMAIN ev => ~Mentions(w, i, x)
  <2>1. TAKE i \in DOMAIN w
  <2>2. HAVE i \notin DOMAIN ev
  <2>3. i - Len(ev) \in DOMAIN u /\ w[i] = u[i - Len(ev)]
    BY <2>2
  <2>. QED
    BY <2>3 DEF Mentions
<1>3. DOMAIN ev \subseteq DOMAIN w /\ DOMAIN ev = 1 .. Len(ev)
      /\ DOMAIN w \subseteq Nat
  OBVIOUS
<1>4. CASE \A i \in DOMAIN ev : ~Mentions(ev, i, x)
  <2>1. \A i \in DOMAIN w : ~Mentions(w, i, x)
    BY <1>1, <1>2, <1>4 DEF Mentions
  <2>. QED
    BY <1>4, <2>1 DEF Follows, LastMention
<1>5. ASSUME NEW i \in DOMAIN ev, LastMention(ev, i, x),
             ev[i].type = "added" <=> x \in A
      PROVE  Follows(x, w, B, K, o)
  <2>1. LastMention(w, i, x)
    BY <1>1, <1>2, <1>3, <1>5 DEF LastMention, Mentions
  <2>. QED
    BY <1>1, <1>3, <1>5, <2>1 DEF Follows
<1>. QED
  BY <1>4, <1>5 DEF Follows

(* More events, the last of those about x saying what is now the case.     *)
LEMMA FollowsTold ==
    ASSUME NEW ev \in Seq(Event), NEW u \in Seq(Event), NEW x, NEW B, NEW K,
           NEW o, NEW k \in DOMAIN u, LastMention(u, k, x),
           u[k].type = "added" <=> x \in B
    PROVE  Follows(x, ev \o u, B, K, o)
<1>. DEFINE w == ev \o u
            i == Len(ev) + k
<1>1. i \in DOMAIN w /\ w[i] = u[k]
  OBVIOUS
<1>2. \A j \in DOMAIN w : Mentions(w, j, x) => j <= i
  <2>1. TAKE j \in DOMAIN w
  <2>2. HAVE Mentions(w, j, x)
  <2>3. CASE j \in DOMAIN ev
    BY <2>3
  <2>4. CASE j \notin DOMAIN ev
    <3>1. j - Len(ev) \in DOMAIN u /\ w[j] = u[j - Len(ev)]
      BY <2>4
    <3>2. j - Len(ev) <= k
      BY <2>2, <3>1 DEF LastMention, Mentions
    <3>. QED
      BY <3>1, <3>2
  <2>. QED
    BY <2>3, <2>4
<1>3. LastMention(w, i, x)
  BY <1>1, <1>2 DEF LastMention, Mentions
<1>. QED
  BY <1>1, <1>3 DEF Follows

(* The first event has been handled.                                       *)
LEMMA FollowsTail ==
    ASSUME NEW ev \in Seq(Event), ev # <<>>, NEW x, NEW A, NEW K, NEW o,
           NEW L, NEW q, Follows(x, ev, A, K, o), o => q,
           Mentions(ev, 1, x) =>
              IF Head(ev).type = "added" THEN x \in L \/ q ELSE x \notin L,
           ~Mentions(ev, 1, x) => (x \in L <=> x \in K)
    PROVE  Follows(x, Tail(ev), A, L, q)
<1>. DEFINE t == Tail(ev)
<1>1. /\ DOMAIN ev = 1 .. Len(ev) /\ DOMAIN t = 1 .. (Len(ev) - 1)
      /\ Len(ev) \in Nat /\ Len(ev) > 0
      /\ \A i \in DOMAIN t : t[i] = ev[i + 1]
      /\ Head(ev) = ev[1]
  OBVIOUS
<1>2. CASE \A i \in DOMAIN ev : ~Mentions(ev, i, x)
  BY <1>1, <1>2 DEF Follows, LastMention, Mentions
<1>3. ASSUME NEW i \in DOMAIN ev, LastMention(ev, i, x),
             ev[i].type = "added" <=> x \in A
      PROVE  Follows(x, t, A, L, q)
  <2>1. CASE i = 1
    <3>1. \A j \in DOMAIN t : ~Mentions(t, j, x)
      BY <1>1, <1>3, <2>1 DEF LastMention, Mentions
    <3>2. Mentions(ev, 1, x) /\ Head(ev).type = ev[1].type
      BY <1>1, <1>3, <2>1 DEF LastMention
    <3>3. (x \in L => x \in A) /\ (x \in A => x \in L \/ q)
      BY <1>3, <2>1, <3>2
    <3>. QED
      BY <3>1, <3>3 DEF Follows
  <2>2. CASE i # 1
    <3>1. i - 1 \in DOMAIN t /\ t[i - 1] = ev[i]
      BY <1>1, <2>2
    <3>2. LastMention(t, i - 1, x)
      BY <1>1, <1>3, <3>1 DEF LastMention, Mentions
    <3>. QED
      BY <1>3, <3>1, <3>2 DEF Follows
  <2>. QED
    BY <2>1, <2>2
<1>. QED
  BY <1>2, <1>3 DEF Follows

(* A burst of announcements or withdrawals mentions what it lists.         *)
LEMMA BurstMentions ==
    ASSUME NEW S \in SUBSET Objects, NEW seq, Lists(seq, S), NEW x \in S
    PROVE  \E k \in DOMAIN seq :
              /\ LastMention(Announce(seq), k, x)
              /\ Announce(seq)[k].type = "added"
              /\ LastMention(Withdraw(seq), k, x)
              /\ Withdraw(seq)[k].type = "removed"
<1>1. PICK k \in DOMAIN seq : seq[k] = x
  BY DEF Lists
<1>2. \A j \in DOMAIN seq : seq[j] = x => j <= k
  BY <1>1 DEF Lists
<1>. QED
  BY <1>1, <1>2
  DEF LastMention, Mentions, Announce, Withdraw, Added, Removed

LEMMA BurstQuiet ==
    ASSUME NEW S \in SUBSET Objects, NEW seq, Lists(seq, S), NEW x, x \notin S
    PROVE  /\ \A i \in DOMAIN Announce(seq) : ~Mentions(Announce(seq), i, x)
           /\ \A i \in DOMAIN Withdraw(seq) : ~Mentions(Withdraw(seq), i, x)
  BY DEF Lists, Mentions, Announce, Withdraw, Added, Removed

LEMMA BurstsOfListsAreEvents ==
    ASSUME NEW S \in SUBSET Objects, NEW seq, Lists(seq, S)
    PROVE  Announce(seq) \in Seq(Event) /\ Withdraw(seq) \in Seq(Event)
<1>1. seq \in Seq(Objects)
  BY DEF Lists
<1>. QED
  BY <1>1, BurstsAreEvents

(* One event more.                                                         *)
LEMMA FollowsAppend ==
    ASSUME NEW ev \in Seq(Event), NEW e \in Event, NEW x, NEW A, NEW B,
           NEW K, NEW o, Follows(x, ev, A, K, o),
           \/ e.type \notin {"added", "removed"} /\ (x \in A <=> x \in B)
           \/ e.type = "added" /\ B = A \cup {e.object}
    PROVE  Follows(x, Append(ev, e), B, K, o)
<1>. DEFINE u == <<e>>
<1>1. Append(ev, e) = ev \o u /\ u \in Seq(Event) /\ DOMAIN u = {1}
      /\ u[1] = e
  OBVIOUS
<1>2. CASE Mentions(u, 1, x)
  <2>1. LastMention(u, 1, x)
    BY <1>1, <1>2 DEF LastMention
  <2>2. u[1].type = "added" <=> x \in B
    BY <1>1, <1>2 DEF Mentions
  <2>3. Follows(x, ev \o u, B, K, o)
    BY <1>1, <2>1, <2>2, FollowsTold
  <2>. QED
    BY <1>1, <2>3
<1>3. CASE ~Mentions(u, 1, x)
  <2>1. x \in A <=> x \in B
    BY <1>1, <1>3 DEF Mentions
  <2>2. \A i \in DOMAIN u : ~Mentions(u, i, x)
    BY <1>1, <1>3
  <2>3. Follows(x, ev \o u, B, K, o)
    BY <1>1, <2>1, <2>2, FollowsQuiet
  <2>. QED
    BY <1>1, <2>3
<1>. QED
  BY <1>2, <1>3

-----------------------------------------------------------------------------
(* The invariant that all of them are followed.                            *)

AllFollowed ==
    main # "closed" =>
        \A x \in Objects :
            Follows(x, events, alive, stream_nodes \cup ports, overflow)

LEMMA FollowedInit == Init => AllFollowed
<1> SUFFICES ASSUME Init, NEW x \in Objects
             PROVE  Follows(x, events, alive, {}, FALSE)
  BY DEF Init, AllFollowed
<1>. DEFINE seq == SetToSeq(NodesOf(alive)) \o SetToSeq(PortsOf(alive))
<1>1. IsFiniteSet(NodesOf(alive)) /\ IsFiniteSet(PortsOf(alive))
      /\ NodesOf(alive) \cap PortsOf(alive) = {}
  BY PipewireAssumption, FS_Subset DEF NodesOf, PortsOf
<1>2. NodesOf(alive) \cup PortsOf(alive) = alive /\ alive \subseteq Objects
  BY DEF Init, NodesOf, PortsOf, Objects
<1>3. Lists(seq, alive)
  BY <1>1, <1>2, SetToSeqLists, ListsConcat
<1>4. <<>> \in Seq(Event) /\ Announce(seq) \in Seq(Event)
      /\ events = <<>> \o Announce(seq)
  <2>1. Announce(seq) \in Seq(Event) /\ events = Announce(seq)
    BY <1>2, <1>3, BurstsOfListsAreEvents DEF Init
  <2>. QED
    BY <2>1
<1>. HIDE DEF seq
<1>5. CASE x \in alive
  <2>1. PICK k \in DOMAIN seq : LastMention(Announce(seq), k, x)
                                /\ Announce(seq)[k].type = "added"
    BY <1>2, <1>3, <1>5, BurstMentions
  <2>2. k \in DOMAIN Announce(seq)
    BY DEF Announce
  <2>. QED
    BY <1>4, <1>5, <2>1, <2>2, FollowsTold
<1>6. CASE x \notin alive
  <2>1. \A i \in DOMAIN Announce(seq) : ~Mentions(Announce(seq), i, x)
    BY <1>2, <1>3, <1>6, BurstQuiet
  <2>2. Follows(x, <<>>, alive, {}, FALSE)
    BY <1>6 DEF Follows
  <2>. QED
    BY <1>4, <2>1, <2>2, FollowsQuiet
<1>. QED
  BY <1>5, <1>6

LEMMA FollowedServer ==
    ASSUME Typed, AllFollowed, main # "closed", Server
    PROVE  AllFollowed'
<1>0. UNCHANGED <<stream_nodes, ports, overflow, main>>
  BY ServerLeavesClient DEF client, mainVars
<1> SUFFICES ASSUME NEW x \in Objects
             PROVE  Follows(x, events', alive', stream_nodes \cup ports,
                            overflow)
  BY <1>0 DEF AllFollowed
<1>. DEFINE K == stream_nodes \cup ports
<1>1. events \in Seq(Event) /\ calls \in Seq(Call) /\ alive \subseteq Objects
  BY DEF Typed, TypeOK, Objects
<1>2. Follows(x, events, alive, K, overflow)
  BY DEF AllFollowed
<1>. HIDE DEF K
<1>3. ASSUME NEW y \in Objects, events' = Append(events, Added(y)),
             alive' = alive \cup {y}
      PROVE  Follows(x, events', alive', K, overflow)
  <2>1. Added(y) \in Event /\ Added(y).type = "added" /\ Added(y).object = y
    BY DEF Added, Event
  <2>. QED
    BY <1>1, <1>2, <1>3, <2>1, FollowsAppend
<1>4. ASSUME NEW e \in Event, e.type \notin {"added", "removed"},
             events' = Append(events, e), alive' = alive
      PROVE  Follows(x, events', alive', K, overflow)
  BY <1>1, <1>2, <1>4, FollowsAppend
<1>5. CASE \E n \in Nodes : NodeAppears(n)
  <2>1. PICK n \in Nodes : NodeAppears(n)
    BY <1>5
  <2>2. n \in Objects /\ events' = Append(events, Added(n))
        /\ alive' = alive \cup {n}
    BY <2>1 DEF NodeAppears, Objects
  <2>. QED
    BY <1>3, <2>2 DEF K
<1>6. CASE \E p \in Ports : PortAppears(p)
  <2>1. PICK p \in Ports : PortAppears(p)
    BY <1>6
  <2>2. p \in Objects /\ events' = Append(events, Added(p))
        /\ alive' = alive \cup {p}
    BY <2>1 DEF PortAppears, Objects
  <2>. QED
    BY <1>3, <2>2 DEF K
<1>7. CASE \E n \in Nodes : NodeGoes(n)
  <2>1. PICK n \in Nodes : NodeGoes(n)
    BY <1>7
  <2>. DEFINE gone == {p \in PortsOf(alive) : p[1] = n}
              S == gone \cup {n}
              burst == Append(SetToSeq(gone), n)
  <2>2. IsFiniteSet(gone) /\ gone \cap {n} = {} /\ S \in SUBSET Objects
    BY PipewireAssumption, FS_Subset DEF PortsOf, Objects
  <2>3. Lists(burst, S)
    <3>1. Lists(SetToSeq(gone) \o <<n>>, S)
      BY <2>2, SetToSeqLists, ListsOne, ListsConcat
    <3>2. SetToSeq(gone) \in Seq(gone)
      BY <2>2, SetToSeqLists DEF Lists
    <3>3. burst = SetToSeq(gone) \o <<n>>
      BY <3>2
    <3>. QED
      BY <3>1, <3>3
  <2>4. alive' = alive \ S /\ events' = events \o Withdraw(burst)
    BY <2>1 DEF NodeGoes
  <2>. HIDE DEF burst, S
  <2>5. Withdraw(burst) \in Seq(Event)
    BY <2>2, <2>3, BurstsOfListsAreEvents
  <2>6. CASE x \in S
    <3>1. PICK k \in DOMAIN burst : LastMention(Withdraw(burst), k, x)
                                    /\ Withdraw(burst)[k].type = "removed"
      BY <2>2, <2>3, <2>6, BurstMentions
    <3>2. k \in DOMAIN Withdraw(burst) /\ x \notin alive'
      BY <2>4, <2>6 DEF Withdraw
    <3>. QED
      BY <1>1, <2>4, <2>5, <3>1, <3>2, FollowsTold DEF K
  <2>7. CASE x \notin S
    <3>1. \A i \in DOMAIN Withdraw(burst) : ~Mentions(Withdraw(burst), i, x)
      BY <2>2, <2>3, <2>7, BurstQuiet
    <3>2. x \in alive <=> x \in alive'
      BY <2>4, <2>7
    <3>. QED
      BY <1>1, <1>2, <2>4, <2>5, <3>1, <3>2, FollowsQuiet DEF K
  <2>. QED
    BY <2>6, <2>7
<1>8. CASE Serve
  <2>. DEFINE call == Head(calls)
  <2>1. call \in Call
    BY <1>1, <1>8 DEF Serve
  <2>2. CASE call.type = "sync"
    <3>1. Done(call.seq) \in Event /\ Done(call.seq).type = "done"
      BY <2>1, <2>2 DEF Done, Call, Event
    <3>2. events' = Append(events, Done(call.seq)) /\ alive' = alive
      BY <1>8, <2>2 DEF Serve
    <3>. QED
      BY <1>4, <3>1, <3>2 DEF K
  <2>3. CASE call.type = "sink"
    <3>1. call.sink \in Objects
      BY <2>1, <2>3 DEF Call, Objects
    <3>2. events' = Append(events, Added(call.sink))
          /\ alive' = alive \cup {call.sink}
      BY <1>8, <2>3 DEF Serve
    <3>. QED
      BY <1>3, <3>1, <3>2 DEF K
  <2>4. CASE call.type = "link"
    <3>1. ServeLinks(call.links) /\ alive' = alive
      BY <1>8, <2>4 DEF Serve
    <3>2. events' = events \/ events' = Append(events, Error)
      BY <3>1 DEF ServeLinks
    <3>3. Error \in Event /\ Error.type = "error"
      BY DEF Error, Event
    <3>. QED
      BY <1>2, <1>4, <3>1, <3>2, <3>3 DEF K
  <2>. QED
    BY <1>8, <2>2, <2>3, <2>4 DEF Serve
<1>. QED
  BY <1>5, <1>6, <1>7, <1>8 DEF Server

LEMMA FollowedDispatch == Typed /\ AllFollowed /\ Dispatch => AllFollowed'
<1> SUFFICES ASSUME Typed, AllFollowed, Dispatch, NEW x \in Objects
             PROVE  Follows(x, events', alive', stream_nodes' \cup ports',
                            overflow')
  BY DEF AllFollowed
<1>. DEFINE event == Head(events)
            K == stream_nodes \cup ports
            L == stream_nodes' \cup ports'
<1>1. events \in Seq(Event) /\ events # <<>> /\ events' = Tail(events)
      /\ alive' = alive
  BY DEF Typed, Dispatch, server
<1>2. Follows(x, events, alive, K, overflow)
  BY DEF AllFollowed, Dispatch
<1>3. events[1] = event /\ event \in Event
  BY <1>1
<1>4. CASE event.type = "added"
  <2>1. AddPort(event.object) \/ AddNode(event.object)
    BY <1>4 DEF Dispatch
  <2>2. overflow => overflow'
    BY <2>1 DEF AddPort, AddNode
  <2>3. x = event.object => x \in L \/ overflow'
    BY <2>1 DEF AddPort, AddNode
  <2>4. x # event.object => (x \in L <=> x \in K)
    BY <2>1 DEF AddPort, AddNode
  <2>. HIDE DEF K, L
  <2>5. Mentions(events, 1, x) <=> x = event.object
    BY <1>3, <1>4 DEF Mentions
  <2>6. Follows(x, Tail(events), alive, L, overflow')
    BY <1>1, <1>2, <1>4, <2>2, <2>3, <2>4, <2>5, FollowsTail
  <2>. QED
    BY <1>1, <2>6 DEF L
<1>5. CASE event.type = "removed"
  <2>1. Forget(event.object)
    BY <1>5 DEF Dispatch
  <2>2. L = K \ {event.object} /\ overflow' = overflow
    BY <2>1 DEF Forget
  <2>. HIDE DEF K, L
  <2>3. Mentions(events, 1, x) <=> x = event.object
    BY <1>3, <1>5 DEF Mentions
  <2>4. Follows(x, Tail(events), alive, L, overflow')
    BY <1>1, <1>2, <1>5, <2>2, <2>3, FollowsTail
  <2>. QED
    BY <1>1, <2>4 DEF L
<1>6. CASE event.type \in {"done", "error"}
  <2>1. L = K /\ overflow' = overflow
    BY <1>6 DEF Dispatch
  <2>. HIDE DEF K, L
  <2>2. ~Mentions(events, 1, x)
    BY <1>3, <1>6 DEF Mentions
  <2>3. Follows(x, Tail(events), alive, L, overflow')
    BY <1>1, <1>2, <2>1, <2>2, FollowsTail
  <2>. QED
    BY <1>1, <2>3 DEF L
<1>. QED
  BY <1>4, <1>5, <1>6 DEF Dispatch

LEMMA FollowedStep == Typed /\ AllFollowed /\ [Next]_vars => AllFollowed'
<1> SUFFICES ASSUME Typed, AllFollowed, [Next]_vars PROVE AllFollowed'
  OBVIOUS
<1>1. CASE UNCHANGED vars
  BY <1>1 DEF vars, server, client, mainVars, AllFollowed
<1>2. CASE ListApps \/ CreateSink \/ SinkMade \/ AddRequest
  <2>1. UNCHANGED <<events, alive, stream_nodes, ports, overflow>>
        /\ main # "closed"
    BY <1>2 DEF ListApps, CreateSink, SinkMade, AddRequest, server, client
  <2>. QED
    BY <2>1 DEF AllFollowed
<1>3. CASE Close
  BY <1>3 DEF Close, AllFollowed
<1>. QED
  BY <1>1, <1>2, <1>3, FollowedServer, FollowedDispatch DEF Next, Closed

(* However nodes and ports come and go, the arrays agree with the server   *)
(* once all its events are handled, but for what did not fit.              *)
THEOREM PipewireArraysFollowServer == Spec => []ArraysFollowServer
<1>1. Typed /\ AllFollowed => ArraysFollowServer
  <2>1. SUFFICES ASSUME Typed, AllFollowed, events = <<>>, main # "closed"
                 PROVE  /\ stream_nodes \cup ports \subseteq alive
                        /\ alive \subseteq stream_nodes \cup ports \/ overflow
    BY DEF ArraysFollowServer
  <2>2. alive \subseteq Objects /\ stream_nodes \cup ports \subseteq Objects
    <3>1. alive \subseteq Nodes \cup Sinks \cup Ports
          /\ stream_nodes \subseteq Nodes \cup Sinks /\ ports \subseteq Ports
      BY <2>1 DEF Typed, TypeOK
    <3>. QED
      BY <3>1 DEF Objects
  <2>3. \A x \in Objects :
           /\ x \in stream_nodes \cup ports => x \in alive
           /\ x \in alive => x \in stream_nodes \cup ports \/ overflow
    BY <2>1 DEF AllFollowed, Follows
  <2>. QED
    BY <2>2, <2>3
<1>. QED
  BY <1>1, TypeInit, TypeStep, FollowedInit, FollowedStep, PTL DEF Spec

-----------------------------------------------------------------------------
(* What is requested gets linked.                                          *)

(* A port only ever goes with its node, which goes last.                   *)
PortsGoWithNode ==
    \A i \in DOMAIN events :
        events[i].type = "removed" /\ events[i].object \in Ports =>
            \E j \in DOMAIN events :
                j > i /\ events[j] = Removed(events[i].object[1])

Asked(l) ==
    \E i \in DOMAIN calls : calls[i].type = "link" /\ l \in calls[i].links

Ends(l) == {l[1], l[2], l[1][1], l[2][1]}

Going(l) ==
    \E i \in DOMAIN events :
        events[i].type = "removed" /\ events[i].object \in Ends(l)

(* A link that is called for is there, has been asked for, or we are being *)
(* told that one of its ends has gone.                                     *)
LinksUnderWay ==
    \A r \in requested_links : \A l \in LinksOf(r, stream_nodes, ports) :
        l \in links \/ Asked(l) \/ Going(l)

(* Events that are not withdrawals change nothing about those that are.    *)
LEMMA GoesAppend ==
    ASSUME NEW e \in Event, events \in Seq(Event), PortsGoWithNode,
           e.type # "removed", events' = Append(events, e)
    PROVE  PortsGoWithNode' /\ \A l : Going(l) => Going(l)'
<1>1. /\ DOMAIN events = 1 .. Len(events) /\ Len(events) \in Nat
      /\ DOMAIN events' = 1 .. (Len(events) + 1)
      /\ \A i \in DOMAIN events : events'[i] = events[i]
      /\ events'[Len(events) + 1] = e
  OBVIOUS
<1>2. \A i \in DOMAIN events' : events'[i].type = "removed" =>
                                   i \in DOMAIN events
  BY <1>1
<1>3. DOMAIN events \subseteq DOMAIN events'
  BY <1>1
<1>4. PortsGoWithNode'
  BY <1>1, <1>2, <1>3 DEF PortsGoWithNode
<1>. QED
  BY <1>1, <1>3, <1>4 DEF Going

(* A withdrawal that is handled takes its object out of the arrays.        *)
LEMMA GoesTail ==
    ASSUME events \in Seq(Event), events # <<>>, PortsGoWithNode,
           events' = Tail(events)
    PROVE  /\ PortsGoWithNode'
           /\ \A l : Going(l) =>
                 \/ Going(l)'
                 \/ Head(events).type = "removed"
                      /\ Head(events).object \in Ends(l)
           /\ \A x \in Ports : Head(events) = Removed(x) =>
                 \E j \in DOMAIN events' : events'[j] = Removed(x[1])
<1>1. /\ DOMAIN events = 1 .. Len(events) /\ Len(events) \in Nat
      /\ Len(events) > 0
      /\ DOMAIN events' = 1 .. (Len(events) - 1)
      /\ \A i \in DOMAIN events' : events'[i] = events[i + 1]
      /\ Head(events) = events[1]
  OBVIOUS
<1>2. \A i \in DOMAIN events : i # 1 =>
         i - 1 \in DOMAIN events' /\ events'[i - 1] = events[i]
  BY <1>1
<1>3. PortsGoWithNode'
  <2>1. SUFFICES ASSUME NEW i \in DOMAIN events',
                        events'[i].type = "removed",
                        events'[i].object \in Ports
                 PROVE  \E j \in DOMAIN events' :
                           /\ j > i
                           /\ events'[j] = Removed(events'[i].object[1])
    BY DEF PortsGoWithNode
  <2>2. i + 1 \in DOMAIN events /\ events'[i] = events[i + 1]
    BY <1>1
  <2>3. PICK j \in DOMAIN events :
           j > i + 1 /\ events[j] = Removed(events[i + 1].object[1])
    BY <2>1, <2>2 DEF PortsGoWithNode
  <2>4. j - 1 \in DOMAIN events' /\ events'[j - 1] = events[j] /\ j - 1 > i
    BY <1>1, <2>3
  <2>. QED
    BY <2>2, <2>3, <2>4
<1>4. ASSUME NEW l, Going(l)
      PROVE  \/ Going(l)'
             \/ Head(events).type = "removed"
                  /\ Head(events).object \in Ends(l)
  BY <1>1, <1>2, <1>4 DEF Going
<1>5. ASSUME NEW x \in Ports, Head(events) = Removed(x)
      PROVE  \E j \in DOMAIN events' : events'[j] = Removed(x[1])
  <2>1. 1 \in DOMAIN events /\ events[1].type = "removed"
        /\ events[1].object = x
    BY <1>1, <1>5 DEF Removed
  <2>2. PICK j \in DOMAIN events : j > 1 /\ events[j] = Removed(x[1])
    BY <2>1 DEF PortsGoWithNode
  <2>3. j # 1
    BY <1>1, <2>2
  <2>4. j - 1 \in DOMAIN events' /\ events'[j - 1] = Removed(x[1])
    BY <1>2, <2>2, <2>3
  <2>. QED
    BY <2>4
<1>. QED
  BY <1>3, <1>4, <1>5

(* A burst of withdrawals: those that were under way still are, and so are *)
(* now those it lists; a node's ports come before it.                      *)
LEMMA GoesBurst ==
    ASSUME events \in Seq(Event), PortsGoWithNode, NEW n \in Nodes,
           NEW gone \in SUBSET {p \in Ports : p[1] = n},
           events' = events \o Withdraw(Append(SetToSeq(gone), n))
    PROVE  /\ PortsGoWithNode'
           /\ \A l : Going(l) => Going(l)'
           /\ \A l : l[1] \in gone \/ l[2] \in gone => Going(l)'
<1>. DEFINE s == SetToSeq(gone)
            b == Append(s, n)
            w == Withdraw(b)
<1>1. IsFiniteSet(gone)
  BY PipewireAssumption, FS_Subset
<1>2. s \in Seq(gone) /\ \A x \in gone : \E i \in DOMAIN s : s[i] = x
  BY <1>1, SetToSeqLists DEF Lists
<1>. HIDE DEF s
<1>3. /\ Len(s) \in Nat /\ Len(events) \in Nat
      /\ DOMAIN b = 1 .. (Len(s) + 1) /\ DOMAIN s = 1 .. Len(s)
      /\ \A i \in DOMAIN s : b[i] = s[i] /\ s[i] \in gone
      /\ b[Len(s) + 1] = n
  BY <1>2
<1>4. w \in Seq(Event)
  <2>1. b \in Seq(Objects)
    BY <1>2 DEF Objects
  <2>. QED
    BY <2>1, BurstsAreEvents
<1>5. DOMAIN w = DOMAIN b /\ Len(w) = Len(s) + 1
      /\ \A i \in DOMAIN b : w[i] = Removed(b[i])
  BY <1>3, <1>4 DEF Withdraw
<1>6. events' = events \o w
  BY DEF s
<1>. HIDE DEF b, w
<1>7. /\ DOMAIN events = 1 .. Len(events)
      /\ DOMAIN events' = 1 .. (Len(events) + Len(s) + 1)
      /\ \A i \in DOMAIN events : events'[i] = events[i]
      /\ \A i \in DOMAIN b : events'[Len(events) + i] = Removed(b[i])
  <2>1. DOMAIN w = 1 .. (Len(s) + 1) /\ Len(w) = Len(s) + 1
    BY <1>3, <1>5
  <2>2. /\ DOMAIN events' = 1 .. (Len(events) + Len(w))
        /\ \A i \in 1 .. Len(events) : events'[i] = events[i]
        /\ \A i \in DOMAIN w : events'[Len(events) + i] = w[i]
    BY <1>4, <1>6
  <2>. QED
    BY <1>3, <1>5, <2>1, <2>2
<1>8. DOMAIN events \subseteq DOMAIN events'
  BY <1>3, <1>7
<1>9. ASSUME NEW l, Going(l) PROVE Going(l)'
  BY <1>7, <1>8, <1>9 DEF Going
<1>10. ASSUME NEW l, NEW x \in gone, x \in Ends(l) PROVE Going(l)'
  <2>1. PICK i \in DOMAIN s : s[i] = x
    BY <1>2
  <2>2. Len(events) + i \in DOMAIN events' /\ i \in DOMAIN b
    BY <1>3, <1>7
  <2>3. events'[Len(events) + i] = Removed(x)
    BY <1>3, <1>7, <2>1, <2>2
  <2>. QED
    BY <1>10, <2>2, <2>3 DEF Going, Removed
<1>11. PortsGoWithNode'
  <2>1. SUFFICES ASSUME NEW i \in DOMAIN events',
                        events'[i].type = "removed",
                        events'[i].object \in Ports
                 PROVE  \E j \in DOMAIN events' :
                           /\ j > i
                           /\ events'[j] = Removed(events'[i].object[1])
    BY DEF PortsGoWithNode
  <2>2. CASE i \in DOMAIN events
    <3>1. PICK j \in DOMAIN events :
             j > i /\ events[j] = Removed(events[i].object[1])
      BY <1>7, <2>1, <2>2 DEF PortsGoWithNode
    <3>. QED
      BY <1>7, <1>8, <2>2, <3>1
  <2>3. CASE i \notin DOMAIN events
    <3>. DEFINE k == i - Len(events)
                last == Len(events) + Len(s) + 1
    <3>1. k \in DOMAIN b /\ events'[i] = Removed(b[k])
      BY <1>3, <1>7, <2>3
    <3>2. last \in DOMAIN events' /\ events'[last] = Removed(n)
      <4>1. last = Len(events) + (Len(s) + 1) /\ Len(s) + 1 \in DOMAIN b
        BY <1>3
      <4>2. last \in DOMAIN events'
        BY <1>3, <1>7
      <4>. QED
        BY <1>3, <1>7, <4>1, <4>2
    <3>3. b[k] \in Ports
      BY <2>1, <3>1 DEF Removed
    <3>4. k \in DOMAIN s
      BY <1>3, <3>1, <3>3, PipewireAssumption
    <3>5. b[k][1] = n /\ last > i
      BY <1>3, <3>4
    <3>6. events'[i].object = b[k]
      BY <3>1 DEF Removed
    <3>. QED
      BY <3>2, <3>5, <3>6
  <2>. QED
    BY <2>2, <2>3
<1>. QED
  BY <1>9, <1>10, <1>11 DEF Ends

(* Forgetting x calls for no link with an end at x, and calls for others   *)
(* only when a device has lost a monitor port.                             *)
LEMMA ForgottenLinks ==
    ASSUME NEW r, NEW N, NEW P, NEW x, NEW l \in LinksOf(r, N \ {x}, P \ {x})
    PROVE  /\ x \notin Ends(l)
           /\ \/ l \in LinksOf(r, N, P)
              \/ \E side \in Sides :
                    x = <<l[1][1], "monitor", side>> /\ x \in P
<1>. DEFINE n == l[1][1]
            m == l[2][1]
            Q == P \ {x}
<1>1. /\ l \in Q \X Q
      /\ n \in N \ {x} /\ Matches(r, n) /\ m \in N \ {x} /\ IsInput(r, m)
      /\ l[1][2] \in OutputKinds(Q, n) /\ Has(Q, n, l[1][2])
      /\ l[2][2] = InputKind(r) /\ Has(Q, m, l[2][2])
      /\ l[1][3] = l[2][3]
  BY DEF LinksOf
<1>2. x \notin Ends(l)
  BY <1>1 DEF Ends
<1>3. Has(P, n, l[1][2]) /\ Has(P, m, l[2][2]) /\ l \in P \X P
  BY <1>1 DEF Has
<1>4. CASE OutputKinds(P, n) = OutputKinds(Q, n)
  BY <1>1, <1>2, <1>3, <1>4 DEF LinksOf
<1>5. CASE OutputKinds(P, n) # OutputKinds(Q, n)
  <2>1. Has(P, n, "monitor") # Has(Q, n, "monitor")
    BY <1>5 DEF OutputKinds
  <2>2. \E side \in Sides : <<n, "monitor", side>> \in P \ Q
    BY <2>1 DEF Has
  <2>. QED
    BY <1>2, <2>2
<1>. QED
  BY <1>4, <1>5

(* CreateLinks asks for all that its requests call for, and calls that     *)
(* were made stay made.                                                    *)
LEMMA CreateLinksAsks ==
    ASSUME calls \in Seq(Call), NEW R, NEW N, NEW P, CreateLinks(R, N, P)
    PROVE  /\ \A r \in R : \A l \in LinksOf(r, N, P) : Asked(l)'
           /\ \A l : Asked(l) => Asked(l)'
<1>. DEFINE L == UNION {LinksOf(r, N, P) : r \in R}
<1>1. CASE L = {}
  BY <1>1 DEF CreateLinks, Asked
<1>2. CASE L # {}
  <2>1. calls' = Append(calls, MakeLinks(L))
    BY <1>2 DEF CreateLinks
  <2>2. MakeLinks(L).type = "link" /\ MakeLinks(L).links = L
    BY DEF MakeLinks
  <2>3. Len(calls) + 1 \in DOMAIN calls'
        /\ calls'[Len(calls) + 1] = MakeLinks(L)
    BY <2>1
  <2>4. \A l \in L : Asked(l)'
    BY <2>2, <2>3 DEF Asked
  <2>5. \A i \in DOMAIN calls : i \in DOMAIN calls' /\ calls'[i] = calls[i]
    BY <2>1
  <2>6. \A l : Asked(l) => Asked(l)'
    BY <2>5 DEF Asked
  <2>7. \A r \in R : \A l \in LinksOf(r, N, P) : l \in L
    OBVIOUS
  <2>. QED
    BY <2>4, <2>6, <2>7
<1>. QED
  BY <1>1, <1>2

LEMMA UnderWayServer ==
    ASSUME Typed, AllFollowed, PortsGoWithNode, LinksUnderWay,
           main # "closed", Server
    PROVE  PortsGoWithNode' /\ LinksUnderWay'
<1>0. UNCHANGED <<stream_nodes, ports, requested_links>>
  BY ServerLeavesClient DEF client
<1>1. events \in Seq(Event) /\ calls \in Seq(Call)
  BY DEF Typed
<1>2. ASSUME \A l : Going(l) => Going(l)',
             \A l : Asked(l) => Asked(l)' \/ l \in links' \/ Going(l)',
             \A l \in links : l \in links' \/ Going(l)'
      PROVE  LinksUnderWay'
  BY <1>0, <1>2 DEF LinksUnderWay
<1>3. ASSUME UNCHANGED calls
      PROVE  \A l : Asked(l) => Asked(l)'
  BY <1>3 DEF Asked
<1>4. CASE \/ \E n \in Nodes : NodeAppears(n)
           \/ \E p \in Ports : PortAppears(p)
  <2>1. PICK x \in Objects : events' = Append(events, Added(x))
    BY <1>4 DEF NodeAppears, PortAppears, Objects
  <2>2. UNCHANGED <<calls, links>>
    BY <1>4 DEF NodeAppears, PortAppears
  <2>3. Added(x) \in Event /\ Added(x).type # "removed"
    BY DEF Added, Event
  <2>4. PortsGoWithNode' /\ \A l : Going(l) => Going(l)'
    BY <1>1, <2>1, <2>3, GoesAppend
  <2>. QED
    BY <1>2, <1>3, <2>2, <2>4
<1>5. CASE \E n \in Nodes : NodeGoes(n)
  <2>1. PICK n \in Nodes : NodeGoes(n)
    BY <1>5
  <2>. DEFINE gone == {p \in PortsOf(alive) : p[1] = n}
  <2>2. /\ events' = events \o Withdraw(Append(SetToSeq(gone), n))
        /\ links' = {l \in links : l[1] \notin gone /\ l[2] \notin gone}
        /\ UNCHANGED calls
    BY <2>1 DEF NodeGoes
  <2>3. gone \in SUBSET {p \in Ports : p[1] = n}
    BY DEF PortsOf
  <2>. HIDE DEF gone
  <2>4. PortsGoWithNode' /\ (\A l : Going(l) => Going(l)')
        /\ \A l : l[1] \in gone \/ l[2] \in gone => Going(l)'
    BY <1>1, <2>2, <2>3, GoesBurst
  <2>5. \A l \in links : l \in links' \/ Going(l)'
    BY <2>2, <2>4
  <2>. QED
    BY <1>2, <1>3, <2>2, <2>4, <2>5
<1>6. CASE Serve
  <2>. DEFINE call == Head(calls)
  <2>1. /\ calls # <<>> /\ calls' = Tail(calls)
        /\ links \subseteq links'
    BY <1>6 DEF Serve, ServeLinks
  <2>2. call \in Call
    BY <1>1, <2>1
  <2>3. PortsGoWithNode' /\ \A l : Going(l) => Going(l)'
    <3>1. Error \in Event /\ Error.type # "removed"
      BY DEF Error, Event
    <3>2. CASE \E e \in Event : e.type # "removed"
                                /\ events' = Append(events, e)
      BY <1>1, <3>2, GoesAppend
    <3>3. CASE events' = events
      BY <3>3 DEF PortsGoWithNode, Going
    <3>4. CASE call.type = "sync"
      <4>1. Done(call.seq) \in Event /\ Done(call.seq).type # "removed"
        BY <2>2, <3>4 DEF Done, Call, Event
      <4>2. events' = Append(events, Done(call.seq))
        BY <1>6, <3>4 DEF Serve
      <4>. QED
        BY <3>2, <4>1, <4>2
    <3>5. CASE call.type = "sink"
      <4>1. Added(call.sink) \in Event /\ Added(call.sink).type # "removed"
        BY <2>2, <3>5 DEF Added, Call, Event, Objects
      <4>2. events' = Append(events, Added(call.sink))
        BY <1>6, <3>5 DEF Serve
      <4>. QED
        BY <3>2, <4>1, <4>2
    <3>6. CASE call.type = "link"
      <4>1. events' = events \/ events' = Append(events, Error)
        BY <1>6, <3>6 DEF Serve, ServeLinks
      <4>. QED
        BY <3>1, <3>2, <3>3, <4>1
    <3>. QED
      BY <1>6, <3>4, <3>5, <3>6 DEF Serve
  <2>4. ASSUME NEW l, Asked(l)
        PROVE  Asked(l)' \/ (call.type = "link" /\ l \in call.links)
    <3>1. PICK i \in DOMAIN calls : calls[i].type = "link"
                                    /\ l \in calls[i].links
      BY <2>4 DEF Asked
    <3>2. CASE i = 1
      BY <1>1, <2>1, <3>1, <3>2
    <3>3. CASE i # 1
      <4>1. i - 1 \in DOMAIN calls' /\ calls'[i - 1] = calls[i]
        BY <1>1, <2>1, <3>3
      <4>. QED
        BY <3>1, <4>1 DEF Asked
    <3>. QED
      BY <3>2, <3>3
  <2>5. ASSUME call.type = "link", NEW r \in requested_links,
               NEW l \in LinksOf(r, stream_nodes, ports), l \in call.links
        PROVE  l \in links' \/ Going(l)'
    <3>1. ServeLinks(call.links)
      BY <1>6, <2>5 DEF Serve
    <3>2. CASE l[1] \in alive /\ l[2] \in alive
      BY <2>5, <3>1, <3>2 DEF ServeLinks
    <3>3. ASSUME NEW p \in {l[1], l[2]}, p \notin alive
          PROVE  Going(l)
      <4>1. p \in ports /\ ports \subseteq Ports
        BY <2>5 DEF LinksOf, Typed, TypeOK
      <4>2. Follows(p, events, alive, stream_nodes \cup ports, overflow)
        BY <4>1 DEF AllFollowed, Objects
      <4>3. PICK i \in DOMAIN events :
               Mentions(events, i, p) /\ events[i].type # "added"
        BY <3>3, <4>1, <4>2 DEF Follows, LastMention
      <4>. QED
        BY <3>3, <4>3 DEF Mentions, Going, Ends
    <3>. QED
      BY <2>3, <3>2, <3>3
  <2>. QED
    BY <1>0, <2>1, <2>3, <2>4, <2>5 DEF LinksUnderWay
<1>. QED
  BY <1>4, <1>5, <1>6 DEF Server

LEMMA UnderWayDispatch ==
    ASSUME Typed, PortsGoWithNode, LinksUnderWay, Dispatch
    PROVE  PortsGoWithNode' /\ LinksUnderWay'
<1>. DEFINE event == Head(events)
            x == event.object
<1>0. UNCHANGED <<links, requested_links>>
  BY DEF Dispatch, server
<1>1. events \in Seq(Event) /\ events # <<>> /\ events' = Tail(events)
      /\ calls \in Seq(Call) /\ event \in Event
  BY DEF Typed, Dispatch
<1>2. PortsGoWithNode' /\ \A l : Going(l) =>
          Going(l)' \/ (event.type = "removed" /\ x \in Ends(l))
  BY <1>1, GoesTail
<1>3. CASE event.type # "removed" /\ UNCHANGED <<stream_nodes, ports, calls>>
  BY <1>0, <1>2, <1>3 DEF LinksUnderWay, Asked
<1>4. CASE event.type = "added" /\ ~UNCHANGED <<stream_nodes, ports, calls>>
  <2>1. AddPort(x) \/ AddNode(x)
    BY <1>4 DEF Dispatch
  <2>2. CreateLinks(requested_links, stream_nodes', ports')
    BY <1>4, <2>1 DEF AddPort, AddNode
  <2>3. \A r \in requested_links :
           \A l \in LinksOf(r, stream_nodes', ports') : Asked(l)'
    BY <1>1, <2>2, CreateLinksAsks
  <2>. QED
    BY <1>0, <1>2, <2>3 DEF LinksUnderWay
<1>5. CASE event.type = "removed"
  <2>1. stream_nodes' = stream_nodes \ {x} /\ ports' = ports \ {x}
        /\ UNCHANGED calls
    BY <1>5 DEF Dispatch, Forget
  <2>2. ASSUME NEW r \in requested_links,
               NEW l \in LinksOf(r, stream_nodes', ports')
        PROVE  l \in links' \/ Asked(l)' \/ Going(l)'
    <3>1. x \notin Ends(l)
      BY <2>1, <2>2, ForgottenLinks
    <3>2. CASE l \in LinksOf(r, stream_nodes, ports)
      <4>1. l \in links \/ Asked(l) \/ Going(l)
        BY <2>2, <3>2 DEF LinksUnderWay
      <4>2. Asked(l) => Asked(l)'
        BY <2>1 DEF Asked
      <4>. QED
        BY <1>0, <1>2, <3>1, <4>1, <4>2
    <3>3. CASE \E side \in Sides :
                  x = <<l[1][1], "monitor", side>> /\ x \in ports
      <4>1. x \in Ports /\ x[1] = l[1][1]
        BY <3>3 DEF Typed, TypeOK
      <4>2. event = Removed(x)
        BY <1>1, <1>5 DEF Event, Removed
      <4>3. \E j \in DOMAIN events' : events'[j] = Removed(x[1])
        BY <1>1, <4>1, <4>2, GoesTail
      <4>4. Going(l)'
        BY <4>1, <4>3 DEF Going, Ends, Removed
      <4>. QED
        BY <4>4
    <3>. QED
      BY <2>1, <2>2, <3>2, <3>3, ForgottenLinks
  <2>. QED
    BY <1>0, <1>2, <2>2 DEF LinksUnderWay
<1>. QED
  BY <1>3, <1>4, <1>5 DEF Dispatch

LEMMA UnderWayMain ==
    ASSUME Typed, PortsGoWithNode, LinksUnderWay,
           ListApps \/ CreateSink \/ SinkMade \/ AddRequest
    PROVE  PortsGoWithNode' /\ LinksUnderWay'
<1>1. UNCHANGED <<events, links, stream_nodes, ports>> /\ calls \in Seq(Call)
  BY DEF Typed, ListApps, CreateSink, SinkMade, AddRequest, server, client
<1>2. PortsGoWithNode' /\ \A l : Going(l) <=> Going(l)'
  BY <1>1 DEF PortsGoWithNode, Going
<1>3. ASSUME UNCHANGED requested_links, \A l : Asked(l) => Asked(l)'
      PROVE  LinksUnderWay'
  BY <1>1, <1>2, <1>3 DEF LinksUnderWay
<1>4. CASE UNCHANGED <<calls, requested_links>>
  <2>1. \A l : Asked(l) => Asked(l)'
    BY <1>4 DEF Asked
  <2>. QED
    BY <1>2, <1>3, <1>4, <2>1
<1>5. CASE CreateSink
  <2>. DEFINE u == <<MakeSink(Tracks[track'].sink), Sync(track')>>
  <2>1. calls' = calls \o u /\ UNCHANGED requested_links
    BY <1>5 DEF CreateSink, client
  <2>2. \A i \in DOMAIN calls : i \in DOMAIN calls' /\ calls'[i] = calls[i]
    BY <1>1, <2>1
  <2>3. \A l : Asked(l) => Asked(l)'
    BY <2>2 DEF Asked
  <2>. QED
    BY <1>2, <1>3, <2>1, <2>3
<1>6. CASE AddRequest /\ request < Len(Tracks[track].requests)
  <2>. DEFINE r == Tracks[track].requests[request + 1]
  <2>1. requested_links' = requested_links \cup {r}
        /\ CreateLinks({r}, stream_nodes, ports)
    BY <1>6 DEF AddRequest
  <2>2. (\A l \in LinksOf(r, stream_nodes, ports) : Asked(l)')
        /\ \A l : Asked(l) => Asked(l)'
    BY <1>1, <2>1, CreateLinksAsks
  <2>. QED
    BY <1>1, <1>2, <2>1, <2>2 DEF LinksUnderWay
<1>. QED
  BY <1>4, <1>5, <1>6 DEF ListApps, SinkMade, AddRequest, client

LEMMA UnderWayStep ==
    Typed /\ AllFollowed /\ PortsGoWithNode /\ LinksUnderWay /\ [Next]_vars
        => PortsGoWithNode' /\ LinksUnderWay'
<1> SUFFICES ASSUME Typed, AllFollowed, PortsGoWithNode, LinksUnderWay,
                    [Next]_vars
             PROVE  PortsGoWithNode' /\ LinksUnderWay'
  OBVIOUS
<1>1. CASE UNCHANGED vars
  <2>1. UNCHANGED <<events, calls, links, requested_links, stream_nodes,
                    ports>>
    BY <1>1 DEF vars, server, client
  <2>2. PortsGoWithNode'
    BY <2>1 DEF PortsGoWithNode
  <2>3. LinksUnderWay'
    BY <2>1 DEF LinksUnderWay, Asked, Going
  <2>. QED
    BY <2>2, <2>3
<1>2. CASE Close
  BY <1>2 DEF Close, PortsGoWithNode, LinksUnderWay
<1>. QED
  BY <1>1, <1>2, UnderWayServer, UnderWayDispatch, UnderWayMain
  DEF Next, Closed

(* Nothing that is requested is missed, in whatever order nodes, ports and *)
(* requests come and go: once all calls and events are handled, it is      *)
(* linked.                                                                 *)
THEOREM PipewireRequestsAreLinked == Spec => []RequestsAreLinked
<1>1. Init => PortsGoWithNode /\ LinksUnderWay
  BY DEF Init, PortsGoWithNode, LinksUnderWay, Announce, Added
<1>2. LinksUnderWay => RequestsAreLinked
  BY DEF LinksUnderWay, RequestsAreLinked, Asked, Going
<1>. QED
  BY <1>1, <1>2, TypeInit, TypeStep, FollowedInit, FollowedStep,
     UnderWayStep, PTL DEF Spec

(* What is recorded is what was asked for, no more and, once everything    *)
(* has been handled, no less.                                              *)
THEOREM PipewireRequestedLinks == Spec => []RequestedLinks
<1>1. RequestsAreLinked /\ OnlyRequestedLinks => RequestedLinks
  BY DEF RequestedLinks
<1>. QED
  BY <1>1, PipewireRequestsAreLinked, PipewireOnlyRequestedLinks, PTL

-----------------------------------------------------------------------------
(* What the main thread waits for is there when it goes on.                *)

FirstSink == Tracks[1].sink
SinkIsThere == Tracks # <<>> => FirstSink \in alive

(* Main has not gone on with the first track's sink yet.                   *)
BeforeFirstSink == track = 0 \/ (track = 1 /\ main = "wait")

(* Until then no link is asked for, so that none is refused.               *)
NothingRefused ==
    /\ main \in {"init", "list"} => track = 0
    /\ BeforeFirstSink =>
        /\ requested_links = {} /\ virtual_sinks = {}
        /\ \A i \in DOMAIN calls : calls[i].type # "link"
        /\ \A i \in DOMAIN events : events[i].type # "error"

(* The sink is asked for before the answer main waits for.                 *)
SinkBeforeAnswer ==
    /\ ~BeforeFirstSink /\ main # "closed" => SinkIsThere
    /\ \A i \in DOMAIN calls : calls[i].type = "sync" /\ calls[i].seq = 1 =>
          \/ SinkIsThere
          \/ \E j \in DOMAIN calls :
                j < i /\ calls[j].type = "sink" /\ calls[j].sink = FirstSink
    /\ \A i \in DOMAIN events :
          events[i].type = "done" /\ events[i].seq = 1 => SinkIsThere

(* A node that was there from the start is announced before the first      *)
(* answer, and is not withdrawn.                                           *)
KnownOrTold(n) ==
    \/ n \in stream_nodes \/ overflow
    \/ \E i \in DOMAIN events :
          /\ events[i].type = "added" /\ events[i].object = n
          /\ \A j \in DOMAIN events : events[j].type = "done" => i < j

OldAreListed ==
    /\ \A n \in old : \A i \in DOMAIN events :
          events[i].type = "removed" => events[i].object # n
    /\ main = "init" => \A n \in old : KnownOrTold(n)
    /\ main = "list" => \A n \in old : n \in stream_nodes \/ overflow
    /\ AppsAreListed

WaitedFor == NothingRefused /\ SinkBeforeAnswer /\ OldAreListed

LEMMA WaitedForInit == Init => WaitedFor
<1> SUFFICES ASSUME Init PROVE WaitedFor
  OBVIOUS
<1>. DEFINE seq == SetToSeq(NodesOf(alive)) \o SetToSeq(PortsOf(alive))
<1>1. IsFiniteSet(NodesOf(alive)) /\ IsFiniteSet(PortsOf(alive))
      /\ NodesOf(alive) \cap PortsOf(alive) = {}
  BY PipewireAssumption, FS_Subset DEF NodesOf, PortsOf
<1>2. NodesOf(alive) \cup PortsOf(alive) = alive /\ alive \in SUBSET Objects
  BY DEF Init, NodesOf, PortsOf, Objects
<1>3. Lists(seq, alive)
  BY <1>1, <1>2, SetToSeqLists, ListsConcat
<1>4. events = Announce(seq)
  BY DEF Init
<1>. HIDE DEF seq
<1>5. \A i \in DOMAIN events : events[i].type = "added"
  BY <1>4 DEF Announce, Added
<1>6. ASSUME NEW n \in old PROVE KnownOrTold(n)
  <2>1. n \in alive
    BY DEF Init, NodesOf
  <2>2. PICK k \in DOMAIN seq : seq[k] = n
    BY <1>3, <2>1 DEF Lists
  <2>3. k \in DOMAIN events /\ events[k].type = "added" /\ events[k].object = n
    BY <1>4, <2>2 DEF Announce, Added
  <2>. QED
    BY <1>5, <2>3 DEF KnownOrTold
<1>7. NothingRefused /\ SinkBeforeAnswer
  <2>1. \A i \in DOMAIN calls : calls[i].type = "sync" /\ calls[i].seq = 0
    BY DEF Init, Sync
  <2>2. track = 0 /\ requested_links = {} /\ virtual_sinks = {}
    BY DEF Init
  <2>3. BeforeFirstSink
    BY <2>2 DEF BeforeFirstSink
  <2>4. \A i \in DOMAIN calls : calls[i].type # "link" /\ calls[i].seq # 1
    BY <2>1
  <2>5. \A i \in DOMAIN events : events[i].type \notin {"error", "done"}
    BY <1>5
  <2>. QED
    BY <2>2, <2>3, <2>4, <2>5, Zenon DEF NothingRefused, SinkBeforeAnswer
<1>8. OldAreListed
  BY <1>5, <1>6 DEF Init, OldAreListed, AppsAreListed
<1>. QED
  BY <1>7, <1>8 DEF WaitedFor

(* Events that are appended neither refuse, nor answer before the sink is  *)
(* there, nor withdraw what was there from the start.                      *)
LEMMA MoreEvents ==
    ASSUME Typed, WaitedFor, NEW u \in Seq(Event), events' = events \o u,
           old' \subseteq old, SinkIsThere => SinkIsThere',
           UNCHANGED <<client, mainVars>>,
           BeforeFirstSink => \A k \in DOMAIN u : u[k].type # "error",
           \A k \in DOMAIN u : u[k].type = "done" /\ u[k].seq = 1 =>
              SinkIsThere',
           \A n \in old' : \A k \in DOMAIN u :
              u[k].type = "removed" => u[k].object # n
    PROVE  /\ BeforeFirstSink =>
                 \A i \in DOMAIN events' : events'[i].type # "error"
           /\ \A i \in DOMAIN events' :
                 events'[i].type = "done" /\ events'[i].seq = 1 =>
                    SinkIsThere'
           /\ OldAreListed'
<1>1. /\ DOMAIN events \subseteq DOMAIN events' /\ DOMAIN events \subseteq Nat
      /\ \A i \in DOMAIN events : events'[i] = events[i]
      /\ \A i \in DOMAIN events' : i \notin DOMAIN events =>
            /\ i - Len(events) \in DOMAIN u /\ events'[i] = u[i - Len(events)]
            /\ \A j \in DOMAIN events : j < i
  BY DEF Typed
<1>2. UNCHANGED <<stream_nodes, overflow, main, apps, track, requested_links>>
  BY DEF client, mainVars
<1>3. ASSUME NEW n \in old', KnownOrTold(n) PROVE KnownOrTold(n)'
  <2>1. CASE n \in stream_nodes \/ overflow
    BY <1>2, <2>1 DEF KnownOrTold
  <2>2. CASE \E i \in DOMAIN events :
                /\ events[i].type = "added" /\ events[i].object = n
                /\ \A j \in DOMAIN events : events[j].type = "done" => i < j
    BY <1>1, <2>2 DEF KnownOrTold
  <2>. QED
    BY <1>3, <2>1, <2>2 DEF KnownOrTold
<1>4. OldAreListed'
  <2>1. \A n \in old' : \A i \in DOMAIN events' :
           events'[i].type = "removed" => events'[i].object # n
    BY <1>1 DEF WaitedFor, OldAreListed
  <2>2. main' = "init" => \A n \in old' : KnownOrTold(n)'
    BY <1>2, <1>3 DEF WaitedFor, OldAreListed
  <2>3. main' = "list" => \A n \in old' : n \in stream_nodes' \/ overflow'
    BY <1>2 DEF WaitedFor, OldAreListed
  <2>4. AppsAreListed'
    BY <1>2 DEF WaitedFor, OldAreListed, AppsAreListed
  <2>. QED
    BY <2>1, <2>2, <2>3, <2>4 DEF OldAreListed
<1>5. BeforeFirstSink => \A i \in DOMAIN events' : events'[i].type # "error"
  BY <1>1 DEF WaitedFor, NothingRefused
<1>6. \A i \in DOMAIN events' :
         events'[i].type = "done" /\ events'[i].seq = 1 => SinkIsThere'
  BY <1>1 DEF WaitedFor, SinkBeforeAnswer
<1>. QED
  BY <1>4, <1>5, <1>6

(* What follows for WaitedFor when no call is added.                       *)
LEMMA WaitedForServer ==
    ASSUME Typed, WaitedFor, main # "closed", Server
    PROVE  WaitedFor'
<1>0. UNCHANGED <<client, mainVars>> /\ BeforeFirstSink' = BeforeFirstSink
  BY ServerLeavesClient DEF client, mainVars, BeforeFirstSink
<1>1. /\ events \in Seq(Event) /\ calls \in Seq(Call)
      /\ old \subseteq Nodes \cup Sinks
  BY DEF Typed, TypeOK
<1>2. ~BeforeFirstSink => SinkIsThere
  BY DEF WaitedFor, SinkBeforeAnswer
<1>3. ASSUME NEW u \in Seq(Event), events' = events \o u,
             old' \subseteq old, SinkIsThere => SinkIsThere',
             BeforeFirstSink => \A k \in DOMAIN u : u[k].type # "error",
             \A k \in DOMAIN u : u[k].type = "done" /\ u[k].seq = 1 =>
                SinkIsThere',
             \A n \in old' : \A k \in DOMAIN u :
                u[k].type = "removed" => u[k].object # n,
             BeforeFirstSink =>
                \A i \in DOMAIN calls' : calls'[i].type # "link",
             \A i \in DOMAIN calls' :
                calls'[i].type = "sync" /\ calls'[i].seq = 1 =>
                   \/ SinkIsThere'
                   \/ \E j \in DOMAIN calls' :
                         /\ j < i /\ calls'[j].type = "sink"
                         /\ calls'[j].sink = FirstSink
      PROVE  WaitedFor'
  <2>1. /\ BeforeFirstSink =>
              \A i \in DOMAIN events' : events'[i].type # "error"
        /\ \A i \in DOMAIN events' :
              events'[i].type = "done" /\ events'[i].seq = 1 =>
                 SinkIsThere'
        /\ OldAreListed'
    BY <1>0, <1>3, MoreEvents
  <2>2. NothingRefused'
    BY <1>0, <1>3, <2>1
       DEF WaitedFor, NothingRefused, client, mainVars
  <2>3. SinkBeforeAnswer'
    BY <1>0, <1>2, <1>3, <2>1 DEF SinkBeforeAnswer, mainVars
  <2>. QED
    BY <2>1, <2>2, <2>3 DEF WaitedFor
<1>4. /\ BeforeFirstSink => \A i \in DOMAIN calls : calls[i].type # "link"
      /\ \A i \in DOMAIN calls : calls[i].type = "sync" /\ calls[i].seq = 1 =>
            \/ SinkIsThere
            \/ \E j \in DOMAIN calls :
                  j < i /\ calls[j].type = "sink" /\ calls[j].sink = FirstSink
  BY DEF WaitedFor, NothingRefused, SinkBeforeAnswer
<1>5. CASE \/ \E n \in Nodes : NodeAppears(n)
           \/ \E p \in Ports : PortAppears(p)
  <2>1. PICK x \in Objects : /\ events' = Append(events, Added(x))
                             /\ alive' = alive \cup {x}
                             /\ UNCHANGED <<calls, old>>
    BY <1>5 DEF NodeAppears, PortAppears, Objects
  <2>2. <<Added(x)>> \in Seq(Event) /\ events' = events \o <<Added(x)>>
    BY <1>1, <2>1 DEF Added, Event
  <2>3. \A k \in DOMAIN <<Added(x)>> : <<Added(x)>>[k].type = "added"
    BY DEF Added
  <2>4. SinkIsThere => SinkIsThere'
    BY <2>1 DEF SinkIsThere
  <2>. QED
    BY <1>3, <1>4, <2>1, <2>2, <2>3, <2>4
<1>6. CASE \E n \in Nodes : NodeGoes(n)
  <2>1. PICK n \in Nodes : NodeGoes(n)
    BY <1>6
  <2>. DEFINE gone == {p \in PortsOf(alive) : p[1] = n}
              burst == Append(SetToSeq(gone), n)
  <2>2. IsFiniteSet(gone) /\ gone \subseteq Ports
    BY ConstantsTyped, FS_Subset DEF PortsOf
  <2>3. burst \in Seq(gone \cup {n})
    BY <2>2, SetToSeqLists DEF Lists
  <2>4. burst \in Seq(Objects)
    BY <2>2, <2>3 DEF Objects
  <2>5. /\ events' = events \o Withdraw(burst) /\ UNCHANGED calls
        /\ alive' = alive \ (gone \cup {n}) /\ old' = old \ {n}
    BY <2>1 DEF NodeGoes
  <2>. HIDE DEF burst, gone
  <2>6. Withdraw(burst) \in Seq(Event)
    BY <2>4, BurstsAreEvents
  <2>7. \A k \in DOMAIN Withdraw(burst) :
           /\ Withdraw(burst)[k].type = "removed"
           /\ Withdraw(burst)[k].object \in gone \cup {n}
    BY <2>3 DEF Withdraw, Removed
  <2>8. \A m \in old' : m \notin gone \cup {n}
    BY <1>1, <2>2, <2>5, PipewireAssumption
  <2>9. SinkIsThere => SinkIsThere'
    <3>1. Tracks # <<>> => FirstSink \in Sinks
      BY ConstantsTyped DEF FirstSink
    <3>. QED
      BY <2>2, <2>5, <3>1, PipewireAssumption DEF SinkIsThere
  <2>. QED
    BY <1>3, <1>4, <2>5, <2>6, <2>7, <2>8, <2>9
<1>7. CASE Serve
  <2>. DEFINE call == Head(calls)
  <2>1. /\ calls # <<>> /\ calls' = Tail(calls) /\ UNCHANGED old
        /\ call \in Call /\ calls[1] = call
        /\ alive \subseteq alive'
    BY <1>1, <1>7 DEF Serve
  <2>2. /\ DOMAIN calls' \subseteq Nat /\ DOMAIN calls \subseteq Nat
        /\ 1 \in DOMAIN calls
        /\ \A i \in DOMAIN calls' :
              i + 1 \in DOMAIN calls /\ calls'[i] = calls[i + 1]
        /\ \A i \in DOMAIN calls : i # 1 =>
              i - 1 \in DOMAIN calls' /\ calls'[i - 1] = calls[i]
    BY <1>1, <2>1
  <2>3. call.type = "sink" /\ call.sink = FirstSink => SinkIsThere'
    BY <1>7 DEF Serve, SinkIsThere
  <2>4. SinkIsThere => SinkIsThere'
    BY <2>1 DEF SinkIsThere
  <2>5. BeforeFirstSink => \A i \in DOMAIN calls' : calls'[i].type # "link"
    BY <1>4, <2>2
  <2>6. ASSUME NEW i \in DOMAIN calls',
               calls'[i].type = "sync", calls'[i].seq = 1
        PROVE  \/ SinkIsThere'
               \/ \E j \in DOMAIN calls' : /\ j < i /\ calls'[j].type = "sink"
                                           /\ calls'[j].sink = FirstSink
    <3>1. CASE SinkIsThere
      BY <2>4, <3>1
    <3>2. CASE ~SinkIsThere
      <4>1. PICK j \in DOMAIN calls :
               /\ j < i + 1 /\ calls[j].type = "sink"
               /\ calls[j].sink = FirstSink
        BY <1>4, <2>2, <2>6, <3>2
      <4>2. CASE j = 1
        BY <2>1, <2>3, <4>1, <4>2
      <4>3. CASE j # 1
        <5>1. j - 1 \in DOMAIN calls' /\ calls'[j - 1] = calls[j] /\ j - 1 < i
          BY <2>2, <4>1, <4>3
        <5>. QED
          BY <4>1, <5>1
      <4>. QED
        BY <4>2, <4>3
    <3>. QED
      BY <3>1, <3>2
  <2>7. ASSUME NEW e \in Event, events' = Append(events, e),
               e.type # "removed", e.type = "error" => ~BeforeFirstSink,
               e.type = "done" /\ e.seq = 1 => SinkIsThere'
        PROVE  WaitedFor'
    <3>1. <<e>> \in Seq(Event) /\ events' = events \o <<e>>
            /\ \A k \in DOMAIN <<e>> : <<e>>[k] = e
      BY <1>1, <2>7
    <3>. QED
      BY <1>3, <2>1, <2>4, <2>5, <2>6, <2>7, <3>1
  <2>8. CASE call.type = "sync"
    <3>1. events' = Append(events, Done(call.seq))
      BY <1>7, <2>8 DEF Serve
    <3>2. call.seq = 1 => SinkIsThere
      BY <1>4, <2>1, <2>2, <2>8
    <3>3. Done(call.seq) \in Event /\ Done(call.seq).type = "done"
            /\ Done(call.seq).seq = call.seq
      BY <2>1, <2>8 DEF Call, Event, Done
    <3>. QED
      BY <2>4, <2>7, <3>1, <3>2, <3>3
  <2>9. CASE call.type = "sink"
    <3>1. events' = Append(events, Added(call.sink))
      BY <1>7, <2>9 DEF Serve
    <3>2. Added(call.sink) \in Event /\ Added(call.sink).type = "added"
      BY <2>1, <2>9 DEF Call, Event, Added, Objects
    <3>. QED
      BY <2>7, <3>1, <3>2
  <2>10. CASE call.type = "link"
    <3>1. ~BeforeFirstSink
      BY <1>4, <2>1, <2>2, <2>10
    <3>2. Error \in Event /\ Error.type = "error"
      BY DEF Error, Event
    <3>3. CASE events' = Append(events, Error)
      BY <2>7, <3>1, <3>2, <3>3
    <3>4. CASE events' = events
      <4>. DEFINE u == <<>>
      <4>1. u \in Seq(Event) /\ events' = events \o u /\ DOMAIN u = {}
        BY <1>1, <3>4
      <4>. HIDE DEF u
      <4>. QED
        BY <1>3, <2>1, <2>4, <2>5, <2>6, <4>1
    <3>. QED
      BY <1>7, <2>10, <3>3, <3>4 DEF Serve, ServeLinks
  <2>. QED
    BY <1>7, <2>8, <2>9, <2>10 DEF Serve
<1>. QED
  BY <1>5, <1>6, <1>7 DEF Server

(* The calls there are stay, and what is added asks for requested links.   *)
LEMMA MoreCalls ==
    ASSUME Typed, NEW R, NEW N, NEW P, CreateLinks(R, N, P)
    PROVE  /\ R = {} => calls' = calls
           /\ \A i \in DOMAIN calls :
                 i \in DOMAIN calls' /\ calls'[i] = calls[i]
           /\ \A i \in DOMAIN calls' : i \notin DOMAIN calls =>
                 calls'[i].type = "link"
<1>. DEFINE L == UNION {LinksOf(r, N, P) : r \in R}
<1>1. R = {} => L = {}
  OBVIOUS
<1>2. calls \in Seq(Call)
  BY DEF Typed
<1>3. calls' = IF L = {} THEN calls ELSE Append(calls, MakeLinks(L))
  BY DEF CreateLinks
<1>. HIDE DEF L
<1>4. MakeLinks(L).type = "link"
  BY DEF MakeLinks
<1>. QED
  BY <1>1, <1>2, <1>3, <1>4

(* The calls in WaitedFor, after a step that only asks for links.          *)
LEMMA CallsWaitedFor ==
    ASSUME Typed, WaitedFor, NEW N, NEW P, NEW R, UNCHANGED alive,
           calls' = calls \/ CreateLinks(R, N, P), BeforeFirstSink => R = {}
    PROVE  /\ BeforeFirstSink =>
                 \A i \in DOMAIN calls' : calls'[i].type # "link"
           /\ \A i \in DOMAIN calls' :
                 calls'[i].type = "sync" /\ calls'[i].seq = 1 =>
                    \/ SinkIsThere'
                    \/ \E j \in DOMAIN calls' :
                          /\ j < i /\ calls'[j].type = "sink"
                          /\ calls'[j].sink = FirstSink
<1>1. /\ BeforeFirstSink => calls' = calls
      /\ \A i \in DOMAIN calls : i \in DOMAIN calls' /\ calls'[i] = calls[i]
      /\ \A i \in DOMAIN calls' : calls'[i].type # "link" => i \in DOMAIN calls
  BY MoreCalls
<1>2. SinkIsThere' <=> SinkIsThere
  BY DEF SinkIsThere
<1>. QED
  BY <1>1, <1>2 DEF WaitedFor, NothingRefused, SinkBeforeAnswer

(* The PipeWire thread takes an event; links are asked for only when they  *)
(* are requested.                                                          *)
LEMMA WaitedForDispatch ==
    ASSUME Typed, WaitedFor, Dispatch
    PROVE  WaitedFor'
<1>. DEFINE event == Head(events)
<1>0. UNCHANGED <<alive, requested_links, virtual_sinks, track, request, apps,
                  old>>
  BY DEF Dispatch, server
<1>1. /\ events \in Seq(Event) /\ calls \in Seq(Call) /\ events # <<>>
      /\ event \in Event /\ events' = Tail(events)
      /\ old \subseteq Nodes \cup Sinks
      /\ 1 \in DOMAIN events /\ events[1] = event
  BY DEF Typed, TypeOK, Dispatch
<1>2. /\ DOMAIN events \subseteq Nat /\ DOMAIN events' \subseteq Nat
      /\ \A i \in DOMAIN events' :
            i + 1 \in DOMAIN events /\ events'[i] = events[i + 1]
      /\ \A i \in DOMAIN events : i # 1 =>
            i - 1 \in DOMAIN events' /\ events'[i - 1] = events[i]
      /\ \A i \in DOMAIN events : i >= 1
  BY <1>1
<1>3. /\ main \in {"init", "list"} => track = 0
      /\ BeforeFirstSink =>
            /\ requested_links = {} /\ virtual_sinks = {}
            /\ event.type # "error"
            /\ \A i \in DOMAIN events : events[i].type # "error"
      /\ ~BeforeFirstSink /\ main # "closed" => SinkIsThere
      /\ event.type = "done" /\ event.seq = 1 => SinkIsThere
  BY <1>1 DEF WaitedFor, NothingRefused, SinkBeforeAnswer
<1>4. SinkIsThere' <=> SinkIsThere
  BY <1>0 DEF SinkIsThere
<1>5. calls' = calls \/ CreateLinks(requested_links, stream_nodes', ports')
  BY DEF Dispatch, AddPort, AddNode, Forget
<1>6. /\ BeforeFirstSink =>
            \A i \in DOMAIN calls' : calls'[i].type # "link"
      /\ \A i \in DOMAIN calls' :
            calls'[i].type = "sync" /\ calls'[i].seq = 1 =>
               \/ SinkIsThere'
               \/ \E j \in DOMAIN calls' :
                     /\ j < i /\ calls'[j].type = "sink"
                     /\ calls'[j].sink = FirstSink
  BY <1>0, <1>3, <1>5, CallsWaitedFor
<1>7. /\ main # "closed" /\ main' \in {main, "list", "made"}
      /\ main' = "list" => main \in {"list", "init"}
      /\ main = "init" => main' \in {"init", "list"}
      /\ main = "list" => main' = "list"
      /\ main' # main =>
            \/ event.type = "error"
            \/ event.type = "done" /\ event.seq = track
      /\ main' = "made" => main \in {"made", "wait"}
  <2>1. main # "closed"
    BY DEF Dispatch
  <2>2. \/ main' = main
        \/ /\ Signal
           /\ \/ event.type = "error"
              \/ event.type = "done" /\ event.seq = track
    BY DEF Dispatch
  <2>3. Signal => \/ main = "init" /\ main' = "list"
                  \/ main = "wait" /\ main' = "made"
                  \/ main \notin {"init", "wait"} /\ main' = main
    BY DEF Signal
  <2>. QED
    BY <2>1, <2>2, <2>3
<1>8. /\ BeforeFirstSink' => BeforeFirstSink
      /\ ~BeforeFirstSink' => SinkIsThere
  BY <1>0, <1>3, <1>7 DEF BeforeFirstSink
<1>9. NothingRefused'
  BY <1>0, <1>2, <1>3, <1>6, <1>7, <1>8 DEF NothingRefused
<1>10. SinkBeforeAnswer'
  <2>1. \A i \in DOMAIN events' :
           events'[i].type = "done" /\ events'[i].seq = 1 => SinkIsThere'
    BY <1>2, <1>4 DEF WaitedFor, SinkBeforeAnswer
  <2>. QED
    BY <1>4, <1>6, <1>8, <2>1 DEF SinkBeforeAnswer
<1>11. \A n \in old : n \in stream_nodes \/ overflow =>
          n \in stream_nodes' \/ overflow'
  <2>1. \A n \in old : event.type = "removed" => event.object # n
    BY <1>1 DEF WaitedFor, OldAreListed
  <2>. QED
    BY <2>1 DEF Dispatch, AddPort, AddNode, Forget
<1>12. \A n \in old : event.type = "added" /\ event.object = n =>
          n \in stream_nodes' \/ overflow'
  BY <1>1, PipewireAssumption DEF Dispatch, AddNode
<1>13. ASSUME NEW n \in old, KnownOrTold(n) PROVE KnownOrTold(n)'
  <2>1. CASE n \in stream_nodes \/ overflow
    BY <1>11, <2>1 DEF KnownOrTold
  <2>2. CASE \E i \in DOMAIN events :
                /\ events[i].type = "added" /\ events[i].object = n
                /\ \A j \in DOMAIN events : events[j].type = "done" => i < j
    <3>1. PICK i \in DOMAIN events :
                /\ events[i].type = "added" /\ events[i].object = n
                /\ \A j \in DOMAIN events : events[j].type = "done" => i < j
      BY <2>2
    <3>2. CASE i = 1
      BY <1>1, <1>12, <3>1, <3>2 DEF KnownOrTold
    <3>3. CASE i # 1
      <4>1. i - 1 \in DOMAIN events' /\ events'[i - 1] = events[i]
        BY <1>2, <3>3
      <4>2. \A j \in DOMAIN events' : events'[j].type = "done" => i - 1 < j
        BY <1>2, <3>1
      <4>. QED
        BY <3>1, <4>1, <4>2 DEF KnownOrTold
    <3>. QED
      BY <3>2, <3>3
  <2>. QED
    BY <1>13, <2>1, <2>2 DEF KnownOrTold
<1>14. OldAreListed'
  <2>1. \A n \in old' : \A i \in DOMAIN events' :
           events'[i].type = "removed" => events'[i].object # n
    BY <1>0, <1>2 DEF WaitedFor, OldAreListed
  <2>2. main' = "init" => \A n \in old' : KnownOrTold(n)'
    BY <1>0, <1>7, <1>13 DEF WaitedFor, OldAreListed
  <2>3. main' = "list" => \A n \in old' : n \in stream_nodes' \/ overflow'
    <3>1. CASE main = "list"
      BY <1>0, <1>11, <3>1 DEF WaitedFor, OldAreListed
    <3>2. CASE main = "init" /\ main' = "list"
      <4>1. event.type = "done"
        BY <1>3, <1>7, <3>2 DEF BeforeFirstSink
      <4>2. \A n \in old : n \in stream_nodes \/ overflow
        BY <1>1, <1>2, <3>2, <4>1 DEF WaitedFor, OldAreListed, KnownOrTold
      <4>. QED
        BY <1>0, <1>11, <4>2
    <3>. QED
      BY <1>7, <3>1, <3>2
  <2>4. AppsAreListed'
    <3>1. overflow => overflow'
      BY DEF Dispatch, AddPort, AddNode, Forget, Typed, TypeOK
    <3>. QED
      BY <1>0, <1>7, <3>1 DEF WaitedFor, OldAreListed, AppsAreListed
  <2>. QED
    BY <2>1, <2>2, <2>3, <2>4 DEF OldAreListed
<1>. QED
  BY <1>9, <1>10, <1>14 DEF WaitedFor

(* The main thread asks for a sink, for links, and closes.                 *)
LEMMA WaitedForMain ==
    ASSUME Typed, WaitedFor,
           ListApps \/ CreateSink \/ SinkMade \/ AddRequest \/ Close
    PROVE  WaitedFor'
<1>1. CASE Close
  <2>1. /\ events' = <<>> /\ calls' = <<>> /\ main' = "closed"
        /\ requested_links' = {} /\ virtual_sinks' = {}
        /\ UNCHANGED <<overflow, apps, old>> /\ main \notin {"init", "list"}
    BY <1>1 DEF Close
  <2>2. NothingRefused' /\ SinkBeforeAnswer'
    BY <2>1 DEF NothingRefused, SinkBeforeAnswer
  <2>3. OldAreListed'
    BY <2>1 DEF OldAreListed, AppsAreListed, WaitedFor
  <2>. QED
    BY <2>2, <2>3 DEF WaitedFor
<1>2. ASSUME ~Close
      PROVE  /\ UNCHANGED <<alive, events, stream_nodes, overflow, old>>
             /\ (SinkIsThere' <=> SinkIsThere)
             /\ \A n \in old : KnownOrTold(n) <=> KnownOrTold(n)'
  <2>1. UNCHANGED <<alive, events, stream_nodes, overflow, old>>
    BY <1>2 DEF ListApps, CreateSink, SinkMade, AddRequest, server, client
  <2>. QED
    BY <2>1 DEF SinkIsThere, KnownOrTold
<1>3. ASSUME ~Close, AppsAreListed', main' \notin {"init", "list"}
      PROVE  OldAreListed'
  BY <1>2, <1>3 DEF OldAreListed, WaitedFor
<1>4. ASSUME ~Close, UNCHANGED apps,
             main \notin {"init", "list"}, main' \notin {"init", "list"}
      PROVE  OldAreListed'
  BY <1>2, <1>3, <1>4 DEF OldAreListed, WaitedFor, AppsAreListed
<1>5. CASE ListApps
  <2>1. /\ main = "list" /\ main' = "next" /\ track = 0 /\ track' = 0
        /\ apps' = {n \in stream_nodes : Type[n] = "output"}
        /\ UNCHANGED <<calls, requested_links, virtual_sinks>> /\ ~Close
    BY <1>5 DEF ListApps, Close, client, WaitedFor, NothingRefused
  <2>2. AppsAreListed'
    BY <1>2, <2>1 DEF AppsAreListed, OldAreListed, WaitedFor
  <2>3. NothingRefused' /\ SinkBeforeAnswer'
    BY <1>2, <2>1
       DEF NothingRefused, SinkBeforeAnswer, BeforeFirstSink, WaitedFor
  <2>. QED
    BY <1>3, <2>1, <2>2, <2>3 DEF WaitedFor
<1>6. CASE CreateSink
  <2>. DEFINE u == <<MakeSink(Tracks[track'].sink), Sync(track')>>
  <2>1. /\ main = "next" /\ main' = "wait" /\ track' = track + 1
        /\ calls' = calls \o u /\ track \in Nat /\ ~Close
        /\ UNCHANGED <<requested_links, virtual_sinks, apps>>
    BY <1>6 DEF CreateSink, Close, client, Typed, TypeOK
  <2>2. BeforeFirstSink' <=> BeforeFirstSink
    BY <2>1 DEF BeforeFirstSink
  <2>3. calls \in Seq(Call) /\ DOMAIN u = {1, 2}
        /\ u[1] = MakeSink(Tracks[track'].sink) /\ u[2] = Sync(track')
    BY DEF Typed
  <2>. HIDE DEF u
  <2>4. /\ u[1].type = "sink" /\ u[1].sink = Tracks[track'].sink
        /\ u[2].type = "sync" /\ u[2].seq = track'
    BY <2>3 DEF MakeSink, Sync
  <2>5. /\ DOMAIN calls' \subseteq Nat
        /\ Len(calls) + 1 \in DOMAIN calls'
        /\ calls'[Len(calls) + 1] = u[1]
        /\ \A i \in DOMAIN calls : i \in DOMAIN calls' /\ calls'[i] = calls[i]
        /\ \A i \in DOMAIN calls' : i \notin DOMAIN calls =>
              \/ i = Len(calls) + 1
              \/ i = Len(calls) + 2 /\ calls'[i] = u[2]
    <3>1. u \in Seq({u[1], u[2]}) /\ Len(u) = 2
      BY <2>3 DEF u
    <3>2. calls \in Seq(Call \cup {u[1], u[2]})
            /\ u \in Seq(Call \cup {u[1], u[2]})
      BY <2>3, <3>1
    <3>. DEFINE S == Call \cup {u[1], u[2]}
    <3>. HIDE DEF S
    <3>3. calls \in Seq(S) /\ u \in Seq(S)
      BY <3>2 DEF S
    <3>4. \A s \in Seq(S), t \in Seq(S) :
             /\ s \o t \in Seq(S) /\ Len(s \o t) = Len(s) + Len(t)
             /\ \A k \in 1 .. Len(s) + Len(t) :
                   (s \o t)[k] = IF k <= Len(s) THEN s[k] ELSE t[k - Len(s)]
      OBVIOUS
    <3>5. /\ calls' \in Seq(S) /\ Len(calls') = Len(calls) + 2
          /\ \A k \in 1 .. Len(calls) + 2 :
                calls'[k] = IF k <= Len(calls) THEN calls[k]
                            ELSE u[k - Len(calls)]
      <4>. DEFINE both == calls \o u
      <4>1. /\ both \in Seq(S) /\ Len(both) = Len(calls) + Len(u)
            /\ \A k \in 1 .. Len(calls) + Len(u) :
                  both[k] = IF k <= Len(calls) THEN calls[k]
                            ELSE u[k - Len(calls)]
        BY <3>3, <3>4, Zenon
      <4>2. calls' = both
        BY <2>1
      <4>. HIDE DEF both
      <4>. QED
        BY <3>1, <4>1, <4>2
    <3>6. /\ DOMAIN calls' = 1 .. Len(calls) + 2
          /\ DOMAIN calls = 1 .. Len(calls) /\ Len(calls) \in Nat
      BY <3>3, <3>5
    <3>. QED
      BY <3>5, <3>6
  <2>6. NothingRefused'
    BY <1>2, <2>1, <2>2, <2>4, <2>5 DEF NothingRefused, WaitedFor
  <2>7. ASSUME NEW i \in DOMAIN calls',
               calls'[i].type = "sync", calls'[i].seq = 1
        PROVE  \/ SinkIsThere'
               \/ \E j \in DOMAIN calls' : /\ j < i /\ calls'[j].type = "sink"
                                           /\ calls'[j].sink = FirstSink
    <3>1. CASE i \in DOMAIN calls
      BY <1>2, <2>1, <2>5, <2>7, <3>1 DEF SinkBeforeAnswer, WaitedFor
    <3>2. CASE i \notin DOMAIN calls
      <4>1. i = Len(calls) + 2 /\ track' = 1
        BY <2>4, <2>5, <2>7, <3>2
      <4>2. Len(calls) \in Nat
        BY <2>3
      <4>. QED
        BY <2>4, <2>5, <4>1, <4>2 DEF FirstSink
    <3>. QED
      BY <3>1, <3>2
  <2>8. SinkBeforeAnswer'
    BY <1>2, <2>1, <2>2, <2>7 DEF SinkBeforeAnswer, WaitedFor
  <2>. QED
    BY <1>4, <2>1, <2>6, <2>8 DEF WaitedFor
<1>7. CASE SinkMade
  <2>1. /\ main = "made" /\ main' = "request" /\ track' = track
        /\ track # 0
        /\ UNCHANGED <<calls, requested_links, apps>> /\ ~Close
    BY <1>7 DEF SinkMade, client, Close, Typed
  <2>2. ~BeforeFirstSink /\ ~BeforeFirstSink'
    BY <2>1 DEF BeforeFirstSink
  <2>3. NothingRefused'
    BY <2>1, <2>2 DEF NothingRefused
  <2>4. SinkBeforeAnswer'
    BY <1>2, <2>1, <2>2 DEF SinkBeforeAnswer, WaitedFor
  <2>. QED
    BY <1>4, <2>1, <2>3, <2>4 DEF WaitedFor
<1>8. CASE AddRequest
  <2>1. /\ main = "request" /\ main' \in {"request", "next"}
        /\ track' = track /\ track # 0
        /\ UNCHANGED apps /\ ~Close
    BY <1>8 DEF AddRequest, Close, Typed
  <2>2. ~BeforeFirstSink /\ ~BeforeFirstSink'
    BY <2>1 DEF BeforeFirstSink
  <2>3. NothingRefused'
    BY <2>1, <2>2 DEF NothingRefused
  <2>4. UNCHANGED <<alive, events>>
    BY <1>2, <2>1
  <2>5. calls' = calls
          \/ \E r \in Request : CreateLinks({r}, stream_nodes, ports)
    <3>1. CASE request < Len(Tracks[track].requests)
      <4>. DEFINE R == Tracks[track].requests
      <4>1. R \in Seq(Request)
        <5>1. track \in 1 .. Len(Tracks)
          BY <2>1, ConstantsTyped DEF Typed, TypeOK
        <5>. QED
          BY <5>1, ConstantsTyped
      <4>2. request \in Nat /\ request < Len(R)
        BY <3>1 DEF Typed, TypeOK
      <4>3. R[request + 1] \in Request
        BY <4>1, <4>2
      <4>4. CreateLinks({R[request + 1]}, stream_nodes, ports)
        BY <1>8, <3>1 DEF AddRequest
      <4>. HIDE DEF R
      <4>. QED
        BY <4>3, <4>4
    <3>2. CASE ~(request < Len(Tracks[track].requests))
      BY <1>8, <3>2 DEF AddRequest
    <3>. QED
      BY <3>1, <3>2
  <2>6. \A i \in DOMAIN calls' :
           calls'[i].type = "sync" /\ calls'[i].seq = 1 =>
              \/ SinkIsThere'
              \/ \E j \in DOMAIN calls' : /\ j < i /\ calls'[j].type = "sink"
                                          /\ calls'[j].sink = FirstSink
    BY <2>2, <2>4, <2>5, CallsWaitedFor
  <2>7. SinkBeforeAnswer'
    BY <1>2, <2>1, <2>2, <2>6 DEF SinkBeforeAnswer, WaitedFor
  <2>. QED
    BY <1>4, <2>1, <2>3, <2>7 DEF WaitedFor
<1>. QED
  BY <1>1, <1>5, <1>6, <1>7, <1>8

LEMMA WaitedForStep == Typed /\ WaitedFor /\ [Next]_vars => WaitedFor'
<1> SUFFICES ASSUME Typed, WaitedFor, [Next]_vars PROVE WaitedFor'
  OBVIOUS
<1>1. CASE UNCHANGED vars
  BY <1>1 DEF vars, server, client, mainVars, WaitedFor, NothingRefused,
              BeforeFirstSink, SinkBeforeAnswer, SinkIsThere, OldAreListed,
              KnownOrTold, AppsAreListed
<1>2. CASE Closed
  BY <1>1, <1>2 DEF Closed
<1>. QED
  BY <1>1, <1>2, WaitedForServer, WaitedForDispatch, WaitedForMain DEF Next

(* No sink is left once the connection has been closed.                    *)
SinksWhileOpen == main = "closed" => virtual_sinks = {}

LEMMA SinksWhileOpenStep ==
    SinksWhileOpen /\ [Next]_vars => SinksWhileOpen'
<1> SUFFICES ASSUME SinksWhileOpen, [Next]_vars PROVE SinksWhileOpen'
  OBVIOUS
<1>1. CASE UNCHANGED <<main, virtual_sinks>>
  BY <1>1 DEF SinksWhileOpen
<1>2. CASE Server
  BY <1>1, <1>2, ServerLeavesClient DEF mainVars
<1>3. CASE Dispatch
  <2>1. main # "closed" /\ main' # "closed"
    BY <1>3 DEF Dispatch, Signal
  <2>. QED
    BY <2>1 DEF SinksWhileOpen
<1>4. CASE ListApps \/ CreateSink \/ SinkMade \/ AddRequest \/ Close
  BY <1>4 DEF ListApps, CreateSink, SinkMade, AddRequest, Close,
              SinksWhileOpen
<1>. QED
  BY <1>1, <1>2, <1>3, <1>4 DEF Next, Closed, vars, mainVars

(* MainWaitsForServer, about gsr_pipewire_audio_init, _for_each_app and    *)
(* _create_virtual_sink: the names the user gave are checked against every *)
(* application that was there from the start, unless an array was full,    *)
(* and the sink of the first track exists when it has been returned.       *)
THEOREM PipewireMainWaits == Spec => []MainWaitsForServer
<1>1. Init => SinksWhileOpen
  BY DEF Init, SinksWhileOpen
<1>2. Typed /\ WaitedFor /\ SinksWhileOpen => MainWaitsForServer
  <2> SUFFICES ASSUME Typed, WaitedFor, SinksWhileOpen
               PROVE  MainWaitsForServer
    OBVIOUS
  <2>1. AppsAreListed
    BY DEF WaitedFor, OldAreListed
  <2>2. ASSUME NEW s \in virtual_sinks, s = Tracks[1].sink
        PROVE  s \in alive
    <3>1. main # "closed" /\ ~BeforeFirstSink
      BY <2>2 DEF SinksWhileOpen, WaitedFor, NothingRefused
    <3>2. track # 0 /\ track \in 0 .. Len(Tracks)
      BY <3>1 DEF BeforeFirstSink, Typed, TypeOK
    <3>3. Tracks # <<>>
      BY <3>2
    <3>. QED
      BY <2>2, <3>1, <3>3
         DEF WaitedFor, SinkBeforeAnswer, SinkIsThere, FirstSink
  <2>. QED
    BY <2>1, <2>2 DEF MainWaitsForServer, FirstSinkIsReady
<1>. QED
  BY <1>1, <1>2, TypeInit, TypeStep, WaitedForInit, WaitedForStep,
     SinksWhileOpenStep, PTL DEF Spec
=============================================================================
