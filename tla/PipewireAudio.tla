---------------------------- MODULE PipewireAudio ----------------------------
(***************************************************************************)
(* Recording the audio of applications (pipewire_audio.c).  The PipeWire   *)
(* thread follows the server's registry: it keeps the nodes and ports it   *)
(* is told of and, whenever one is added, asks for every link that some    *)
(* requested link calls for.  The main thread makes, per track, a combined *)
(* (virtual) sink to record from and then the track's requested links.     *)
(*                                                                         *)
(* The server is at the far end of a connection that keeps the order in    *)
(* both directions.  It announces what is added and removed, and answers   *)
(* link requests it cannot or need not fulfil with an error.  Both threads *)
(* hold the thread loop's lock for a whole callback or request, and the    *)
(* main thread gives it up only in pw_thread_loop_wait.                    *)
(*                                                                         *)
(* The arrays are sets here: their order decides only which of two nodes   *)
(* of one name is linked to, and the combined sinks have random names.     *)
(***************************************************************************)
EXTENDS Integers, Sequences, FiniteSets, SequencesExt

CONSTANTS
    Nodes,        \* the nodes of others: applications and devices
    Sinks,        \* the combined sinks, as the nodes they become
    Name,         \* of each of them
    Type,         \* "output" (an application), "input" or "device"
    Ports,        \* their ports: <<node, kind, side>>
    Tracks,       \* sequence of [sink, requests]: what main records
    MaxNodes,     \* GSR_PIPEWIRE_AUDIO_MAX_STREAM_NODES
    MaxPorts,     \* GSR_PIPEWIRE_AUDIO_MAX_PORTS
    MaxChanges    \* bound: how often nodes of others come or go

Sides == {"FL", "FR"}
Kinds == {"output", "input", "playback", "monitor", "capture"}

(* A requested link: the outputs that match it are linked to its input.    *)
Request ==
    [names : SUBSET STRING, inverted : BOOLEAN,
     output_type : {"output", "device"}, input : {Name[s] : s \in Sinks},
     input_type : {"stream", "sink"}]

ASSUME PipewireAssumption ==
    /\ Nodes \cap Sinks = {}
    /\ IsFiniteSet(Nodes \cup Sinks) /\ IsFiniteSet(Ports)
    /\ DOMAIN Name = Nodes \cup Sinks
    /\ Type \in [Nodes \cup Sinks -> {"output", "input", "device"}]
    /\ Ports \subseteq (Nodes \cup Sinks) \X Kinds \X Sides
    /\ Ports \cap (Nodes \cup Sinks) = {}
    /\ Tracks \in Seq([sink : Sinks, requests : Seq(Request)])
    /\ {MaxNodes, MaxPorts, MaxChanges} \subseteq Nat

VARIABLES
    alive,             \* server: the nodes and ports there are
    links,             \* server: pairs of ports that are linked
    changes,           \* server: nodes that came or went so far
    calls,             \* from us to the server
    events,            \* from the server to us
    stream_nodes, ports, requested_links,
    virtual_sinks,     \* the sinks gsr_pipewire_audio_create_virtual_sink
                       \* has returned
    main,              \* where the main thread is
    track, request,    \* the track, and its request, main is at
    apps,              \* what gsr_pipewire_audio_for_each_app listed
    old,               \* history: nodes that have been there from the start
    overflow           \* history: an array was full and something ignored

server == <<alive, links, changes>>
client == <<stream_nodes, ports, requested_links, overflow>>
mainVars == <<virtual_sinks, main, track, request, apps>>

vars == <<server, calls, events, client, mainVars, old>>

NodesOf(S) == S \cap (Nodes \cup Sinks)
PortsOf(S) == S \cap Ports

Added(x) == [type |-> "added", object |-> x]
Removed(x) == [type |-> "removed", object |-> x]
Done(seq) == [type |-> "done", seq |-> seq]
Error == [type |-> "error"]

Announce(seq) == [i \in DOMAIN seq |-> Added(seq[i])]
Withdraw(seq) == [i \in DOMAIN seq |-> Removed(seq[i])]

MakeSink(s) == [type |-> "sink", sink |-> s]
MakeLinks(L) == [type |-> "link", links |-> L]
Sync(seq) == [type |-> "sync", seq |-> seq]

(* gsr_pipewire_audio_init has connected and asked for the registry, which *)
(* announces what is there, and waits for a round trip.                    *)
Init ==
    /\ alive \in {N \cup {p \in Ports : p[1] \in N} : N \in SUBSET Nodes}
    /\ links = {}
    /\ changes = 0
    /\ calls = <<Sync(0)>>
    /\ events = Announce(SetToSeq(NodesOf(alive))
                           \o SetToSeq(PortsOf(alive)))
    /\ stream_nodes = {} /\ ports = {} /\ requested_links = {}
    /\ overflow = FALSE
    /\ virtual_sinks = {}
    /\ main = "init"
    /\ track = 0 /\ request = 0
    /\ apps = {}
    /\ old = NodesOf(alive)

-----------------------------------------------------------------------------
(* The PipeWire server.                                                    *)

CountChange == changes < MaxChanges /\ changes' = changes + 1

NodeAppears(n) ==
    /\ n \in Nodes \ alive
    /\ CountChange
    /\ alive' = alive \cup {n}
    /\ events' = Append(events, Added(n))
    /\ UNCHANGED <<links, calls, client, mainVars, old>>

(* The ports of a node appear after it, one by one, left before right.     *)
PortAppears(p) ==
    /\ p \in Ports \ alive
    /\ p[1] \in alive
    /\ p[3] = "FR" => <<p[1], p[2], "FL">> \in alive
    /\ alive' = alive \cup {p}
    /\ events' = Append(events, Added(p))
    /\ UNCHANGED <<links, changes, calls, client, mainVars, old>>

(* A node goes, its ports first and their links with them.                 *)
NodeGoes(n) ==
    LET gone == {p \in PortsOf(alive) : p[1] = n}
        burst == Append(SetToSeq(gone), n)
    IN  /\ n \in alive \cap Nodes
        /\ CountChange
        /\ alive' = alive \ (gone \cup {n})
        /\ links' = {l \in links : l[1] \notin gone /\ l[2] \notin gone}
        /\ events' = events \o Withdraw(burst)
        /\ old' = old \ {n}
        /\ UNCHANGED <<calls, client, mainVars>>

(* Links are made unless a port is gone or the link is there already.  The *)
(* refusals among the links that are requested together count as one.      *)
ServeLinks(L) ==
    LET new == {l \in L \ links : l[1] \in alive /\ l[2] \in alive}
    IN  /\ links' = links \cup new
        /\ events' = IF new = L THEN events ELSE Append(events, Error)

Serve ==
    /\ calls # <<>>
    /\ LET call == Head(calls)
       IN  \/ /\ call.type = "sync"
              /\ events' = Append(events, Done(call.seq))
              /\ calls' = Tail(calls)
              /\ UNCHANGED <<alive, links>>
           \/ /\ call.type = "sink"
              /\ alive' = alive \cup {call.sink}
              /\ events' = Append(events, Added(call.sink))
              /\ calls' = Tail(calls)
              /\ UNCHANGED links
           \/ /\ call.type = "link"
              /\ ServeLinks(call.links)
              /\ calls' = Tail(calls)
              /\ UNCHANGED alive
    /\ UNCHANGED <<changes, client, mainVars, old>>

-----------------------------------------------------------------------------
(* gsr_pipewire_audio_create_link.                                         *)

(* Both ports of a kind that a node has, or none.                          *)
Has(P, n, kind) == \A side \in Sides : <<n, kind, side>> \in P

(* The port kinds of an output: a device's monitor, else its capture.      *)
OutputKinds(P, n) ==
    CASE Type[n] = "output" -> {"output"}
      [] Type[n] = "input"  -> {"monitor"}
      [] OTHER -> IF Has(P, n, "monitor") THEN {"monitor"} ELSE {"capture"}

InputKind(r) == IF r.input_type = "stream" THEN "input" ELSE "playback"

IsInput(r, n) ==
    /\ Name[n] = r.input
    /\ Type[n] = IF r.input_type = "stream" THEN "input" ELSE "device"

Matches(r, n) ==
    /\ Type[n] = r.output_type
    /\ (Name[n] \in r.names) # r.inverted

(* The links request r calls for among nodes N with ports P.               *)
LinksOf(r, N, P) ==
    {l \in P \X P :
       LET n == l[1][1]  m == l[2][1]
       IN  /\ n \in N /\ Matches(r, n)
           /\ m \in N /\ IsInput(r, m)
           /\ l[1][2] \in OutputKinds(P, n) /\ Has(P, n, l[1][2])
           /\ l[2][2] = InputKind(r) /\ Has(P, m, l[2][2])
           /\ l[1][3] = l[2][3]}

(* They are requested whether or not they exist already.                   *)
CreateLinks(R, N, P) ==
    LET L == UNION {LinksOf(r, N, P) : r \in R}
    IN  calls' = IF L = {} THEN calls ELSE Append(calls, MakeLinks(L))

-----------------------------------------------------------------------------
(* The PipeWire thread handles one event.                                  *)

AddNode(n) ==
    IF Cardinality(stream_nodes) < MaxNodes
    THEN /\ stream_nodes' = stream_nodes \cup {n}
         /\ CreateLinks(requested_links, stream_nodes', ports)
         /\ UNCHANGED <<ports, overflow>>
    ELSE /\ overflow' = TRUE
         /\ UNCHANGED <<stream_nodes, ports, calls>>

(* Mutant: links are only looked for when a node is added.                 *)
AddPortQuietly(p) ==
    IF Cardinality(ports) < MaxPorts
    THEN /\ ports' = ports \cup {p}
         /\ UNCHANGED <<stream_nodes, overflow, calls>>
    ELSE /\ overflow' = TRUE
         /\ UNCHANGED <<stream_nodes, ports, calls>>

(* Mutant: the array's size is not checked.                                *)
AddPortUnchecked(p) ==
    /\ ports' = ports \cup {p}
    /\ CreateLinks(requested_links, stream_nodes, ports')
    /\ UNCHANGED <<stream_nodes, overflow>>

AddPort(p) ==
    IF Cardinality(ports) < MaxPorts
    THEN /\ ports' = ports \cup {p}
         /\ CreateLinks(requested_links, stream_nodes, ports')
         /\ UNCHANGED <<stream_nodes, overflow>>
    ELSE /\ overflow' = TRUE
         /\ UNCHANGED <<stream_nodes, ports, calls>>

(* Mutant: only nodes are looked for.                                      *)
ForgetNode(x) ==
    /\ stream_nodes' = stream_nodes \ {x}
    /\ UNCHANGED <<ports, overflow, calls>>

Forget(x) ==
    /\ stream_nodes' = stream_nodes \ {x}
    /\ ports' = ports \ {x}
    /\ UNCHANGED <<overflow, calls>>

Waiting == main \in {"init", "wait"}

(* pw_thread_loop_signal: the waiting main thread goes on.                 *)
Signal ==
    /\ main' = CASE main = "init" -> "list"
                 [] main = "wait" -> "made"
                 [] OTHER -> main

(* on_core_done_cb looks at the sequence number; on_core_error_cb does not.*)
Dispatch ==
    /\ events # <<>>
    /\ main # "closed"
    /\ events' = Tail(events)
    /\ LET event == Head(events)
       IN  \/ /\ event.type = "added"
              /\ IF event.object \in Ports
                 THEN AddPort(event.object)
                 ELSE AddNode(event.object)
              /\ UNCHANGED main
           \/ /\ event.type = "removed"
              /\ Forget(event.object)
              /\ UNCHANGED main
           \/ /\ event.type = "done"
              /\ IF event.seq = track THEN Signal ELSE UNCHANGED main
              /\ UNCHANGED <<stream_nodes, ports, overflow, calls>>
           \/ /\ event.type = "error"
              /\ Signal
              /\ UNCHANGED <<stream_nodes, ports, overflow, calls>>
    /\ UNCHANGED <<server, requested_links, virtual_sinks, track, request,
                   apps, old>>

-----------------------------------------------------------------------------
(* The main thread.                                                        *)

(* gsr_pipewire_audio_for_each_app: the names are checked against these.   *)
ListApps ==
    /\ main = "list"
    /\ apps' = {n \in stream_nodes : Type[n] = "output"}
    /\ main' = "next"
    /\ UNCHANGED <<server, calls, events, client, virtual_sinks, track,
                   request, old>>

(* Mutant: the round trip is not waited for.                               *)
CreateSinkNoWait ==
    /\ main = "next"
    /\ track < Len(Tracks)
    /\ track' = track + 1
    /\ request' = 0
    /\ calls' = calls \o <<MakeSink(Tracks[track'].sink), Sync(track')>>
    /\ main' = "made"
    /\ UNCHANGED <<server, events, client, virtual_sinks, apps, old>>

(* gsr_pipewire_audio_create_virtual_sink, up to the wait...               *)
CreateSink ==
    /\ main = "next"
    /\ track < Len(Tracks)
    /\ track' = track + 1
    /\ request' = 0
    /\ calls' = calls \o <<MakeSink(Tracks[track'].sink), Sync(track')>>
    /\ main' = "wait"
    /\ UNCHANGED <<server, events, client, virtual_sinks, apps, old>>

(* ...and after it.                                                        *)
SinkMade ==
    /\ main = "made"
    /\ virtual_sinks' = virtual_sinks \cup {Tracks[track].sink}
    /\ main' = "request"
    /\ UNCHANGED <<server, calls, events, client, track, request, apps, old>>

(* gsr_pipewire_audio_add_link_from_apps_to_output: the request is kept    *)
(* and what it calls for at this moment requested.                         *)
AddRequest ==
    /\ main = "request"
    /\ IF request < Len(Tracks[track].requests)
       THEN LET r == Tracks[track].requests[request + 1]
            IN  /\ request' = request + 1
                /\ requested_links' = requested_links \cup {r}
                /\ CreateLinks({r}, stream_nodes, ports)
                /\ UNCHANGED main
       ELSE /\ main' = "next"
            /\ UNCHANGED <<request, requested_links, calls>>
    /\ UNCHANGED <<server, events, stream_nodes, ports, overflow,
                   virtual_sinks, track, apps, old>>

(* gsr_pipewire_audio_deinit when recording has ended, or _exit when a     *)
(* request failed or hit a limit: the connection is closed and the server  *)
(* removes what was made through it.                                       *)
Close ==
    /\ main \in {"next", "made", "request"}
    /\ main' = "closed"
    /\ alive' = alive \ (Sinks \cup {p \in Ports : p[1] \in Sinks})
    /\ links' = {}
    /\ calls' = <<>> /\ events' = <<>>
    /\ stream_nodes' = {} /\ ports' = {} /\ requested_links' = {}
    /\ virtual_sinks' = {}
    /\ UNCHANGED <<changes, overflow, track, request, apps, old>>

Closed == main = "closed" /\ UNCHANGED vars

Server ==
    \/ \E n \in Nodes : NodeAppears(n) \/ NodeGoes(n)
    \/ \E p \in Ports : PortAppears(p)
    \/ Serve

Next ==
    \/ main # "closed" /\ Server
    \/ Dispatch
    \/ ListApps
    \/ CreateSink
    \/ SinkMade
    \/ AddRequest
    \/ Close
    \/ Closed

Spec == Init /\ [][Next]_vars

-----------------------------------------------------------------------------
(* Properties.                                                             *)

TypeOK ==
    /\ alive \subseteq Nodes \cup Sinks \cup Ports
    /\ links \subseteq Ports \X Ports
    /\ changes \in 0 .. MaxChanges
    /\ \A i \in DOMAIN calls :
          calls[i].type = "link" =>
              calls[i].links # {} /\ calls[i].links \subseteq Ports \X Ports
    /\ stream_nodes \subseteq Nodes \cup Sinks
    /\ Cardinality(stream_nodes) <= MaxNodes
    /\ ports \subseteq Ports
    /\ Cardinality(ports) <= MaxPorts
    /\ requested_links \subseteq Request
    /\ virtual_sinks \subseteq Sinks
    /\ main \in {"init", "list", "next", "wait", "made", "request", "closed"}
    /\ track \in 0 .. Len(Tracks)
    /\ request \in Nat
    /\ apps \cup old \subseteq Nodes \cup Sinks
    /\ overflow \in BOOLEAN

(* Once every event has been handled the arrays hold nothing that is gone  *)
(* and, unless one was full, all that is there.                            *)
ArraysFollowServer ==
    events = <<>> /\ main # "closed" =>
        /\ stream_nodes \cup ports \subseteq alive
        /\ alive \subseteq stream_nodes \cup ports \/ overflow

(* In whatever order nodes, ports and requests came, and whatever went     *)
(* away in between, when everything has been handled the links that the    *)
(* requests call for exist.                                                *)
RequestsAreLinked ==
    events = <<>> /\ calls = <<>> =>
        \A r \in requested_links :
            LinksOf(r, stream_nodes, ports) \subseteq links

(* Nothing else is recorded: every link leads to a combined sink from an   *)
(* output that one of its requests matches, left to left and right to      *)
(* right; "app-inverse:" never records the applications it names.          *)
OnlyRequestedLinks ==
    \A l \in links :
        /\ l[1][3] = l[2][3]
        /\ \E r \in requested_links :
              /\ r.input = Name[l[2][1]]
              /\ r.output_type = Type[l[1][1]]
              /\ IF r.inverted THEN Name[l[1][1]] \notin r.names
                 ELSE Name[l[1][1]] \in r.names

(* Both: what is recorded is what was asked for, neither less nor more.    *)
RequestedLinks == RequestsAreLinked /\ OnlyRequestedLinks

(* gsr_pipewire_audio_create_virtual_sink returns when the sink is there,  *)
(* so that it can be recorded from.  That is so for the first one; later   *)
(* ones may be waiting when an earlier request's link is refused because   *)
(* it exists, and on_core_error_cb ends their wait.                        *)
FirstSinkIsReady ==
    \A s \in virtual_sinks : s = Tracks[1].sink => s \in alive

(* Every application that was there all along has been listed when the     *)
(* names the user gave are checked.                                        *)
AppsAreListed ==
    main \notin {"init", "list"} /\ ~overflow =>
        {n \in old : Type[n] = "output"} \subseteq apps

(* Both: what the main thread waited for on the PipeWire thread is there   *)
(* when it goes on, the list at init and the sink of the first track.      *)
MainWaitsForServer == AppsAreListed /\ FirstSinkIsReady
=============================================================================
