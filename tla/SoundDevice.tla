----------------------------- MODULE SoundDevice -----------------------------
(***************************************************************************)
(* The PulseAudio client (sound.cpp): the queries for the devices and the  *)
(* kind of server, the connection of a recording device, and the reads     *)
(* with a timeout that the device's audio thread makes.                    *)
(*                                                                         *)
(* Every call runs the library's main loop itself, and all callbacks run   *)
(* inside it.  The server is external: it answers what is asked, or the    *)
(* connection fails.  A device hands out fragments of any size while the   *)
(* recording takes chunks of one size, so a fragment may be left over for  *)
(* the next read, and a chunk begun for the next call when time is up.     *)
(***************************************************************************)
EXTENDS Naturals, Sequences

CONSTANTS
    ChunkLength,  \* attr->fragsize: bytes of a chunk
    MaxFragment,  \* bound: bytes of a fragment
    MaxSources    \* bound: sources of the server

ASSUME SoundAssumption ==
    {ChunkLength, MaxFragment, MaxSources} \subseteq Nat \ {0}

VARIABLES
    task,         \* the call, or "between" two reads
    at_loop,      \* where it is
    context,      \* state of the pa_context
    stream,       \* state of the pa_stream
    pa_ready,
    pa_op,        \* the operation of a query: "none", "running", "done"
    listed,       \* sources listed by pa_sourcelist_cb
    read_data,    \* the fragment last peeked, <<>> is NULL
    read_index, read_length,
    output_data, output_index,
    late,         \* the time of the call is up
    received,     \* history: the byte received last
    chunk         \* history: the chunk returned last

connection == <<context, stream>>
query == <<pa_ready, pa_op, listed>>
fragment == <<read_data, read_index, read_length, received>>
output == <<output_data, output_index, chunk>>

soundVars == <<task, at_loop, connection, query, fragment, output, late>>

Queries == {"default_inputs", "inputs", "is_pipewire"}
Finished == {"closed", "exited"}

(* Bytes are numbered round a circle that no two chunks go round.          *)
Circle == 2 * (ChunkLength + MaxFragment)
Bytes == 0 .. Circle - 1
Byte(n) == n % Circle
From(byte, n) == [i \in 1 .. n |-> Byte(byte + i)]

SoundInit ==
    /\ task \in {"default_inputs", "is_pipewire", "device"}
    /\ at_loop = "connect"
    /\ context = "none" /\ stream = "none"
    /\ pa_ready = 0 /\ pa_op = "none" /\ listed = 0
    /\ read_data = <<>> /\ read_index = 0 /\ read_length = 0
    /\ output_data = From(0, ChunkLength) /\ output_index = 0
    /\ late = FALSE
    /\ received = 0
    /\ chunk = <<>>

-----------------------------------------------------------------------------
(* The server, seen by the main loop.  A context that fails fails its      *)
(* stream and cancels its operation.                                       *)

Fails ==
    /\ context' = "failed"
    /\ stream' = IF stream = "none" THEN "none" ELSE "failed"
    /\ pa_ready' = IF task \in Queries THEN 2 ELSE pa_ready
    /\ pa_op' = IF pa_op = "done" THEN "done" ELSE "none"
    /\ UNCHANGED listed

(* What one event does: pa_state_cb, pa_sourcelist_cb, pa_server_info_cb.  *)
PulseEvent ==
    \/ /\ context = "connecting"
       /\ context' = "ready"
       /\ pa_ready' = IF task \in Queries THEN 1 ELSE pa_ready
       /\ UNCHANGED <<stream, pa_op, listed>>
    \/ /\ stream = "creating"
       /\ stream' = "ready"
       /\ UNCHANGED <<context, query>>
    \/ /\ pa_op = "running"
       /\ \/ task = "inputs" /\ listed < MaxSources /\ listed' = listed + 1
             /\ pa_op' = pa_op
          \/ pa_op' = "done" /\ listed' = listed
       /\ UNCHANGED <<connection, pa_ready>>
    \/ context # "failed" /\ Fails

(* pa_mainloop_iterate, which blocks until something happens.              *)
Iterate ==
    /\ at_loop = "iterate"
    /\ PulseEvent
    /\ at_loop' = "turn"
    /\ UNCHANGED <<task, fragment, output, late>>

-----------------------------------------------------------------------------
(* get_pulseaudio_inputs, after get_pulseaudio_default_inputs, and         *)
(* pulseaudio_server_is_pipewire.                                          *)

ConnectQuery ==
    /\ task \in Queries
    /\ at_loop = "connect"
    /\ \/ context' = "connecting" /\ at_loop' = "turn"
       \/ context' = "failed" /\ at_loop' = "done"
    /\ UNCHANGED <<task, stream, query, fragment, output, late>>

(* Mutant: a connection that fails after it was made is not noticed.       *)
QueryAnswered(op) == op = "done"

(* Couldn't get connection to the server, or it has answered.              *)
QueryOver(op) == pa_ready = 2 \/ op = "done"

QueryTurn ==
    /\ task \in Queries
    /\ at_loop = "turn"
    /\ IF pa_ready = 0
       THEN at_loop' = "iterate" /\ pa_op' = pa_op
       ELSE /\ pa_op' = IF pa_op = "none" /\ context = "ready"
                        THEN "running" ELSE pa_op
            /\ at_loop' = IF QueryOver(pa_op') THEN "done" ELSE "iterate"
    /\ UNCHANGED <<task, connection, pa_ready, listed, fragment, output, late>>

(* The default inputs are asked for first; the program then goes on.       *)
QueryDone ==
    /\ task \in Queries
    /\ at_loop = "done"
    /\ task' \in IF task = "default_inputs" THEN {"inputs"}
                 ELSE {"is_pipewire", "device"} \ {task}
    /\ at_loop' = "connect"
    /\ context' = "none"
    /\ pa_ready' = 0 /\ pa_op' = "none"
    /\ UNCHANGED <<stream, listed, fragment, output, late>>

-----------------------------------------------------------------------------
(* sound_device_get_by_name, pa_sound_device_new.                          *)

(* pa_sound_device_free.                                                   *)
DeviceFreed(next) ==
    /\ task' = next
    /\ context' = "none" /\ stream' = "none"
    /\ at_loop' = "done"

ConnectDevice ==
    /\ task = "device"
    /\ at_loop = "connect"
    /\ \/ context' = "connecting" /\ at_loop' = "turn"
          /\ UNCHANGED <<task, stream>>
       \/ DeviceFreed("exited")
    /\ UNCHANGED <<query, fragment, output, late>>

(* The two loops that wait for the context, then for the stream.           *)
DeviceTurn ==
    /\ task = "device"
    /\ at_loop = "turn"
    /\ \/ /\ stream = "none" /\ context = "connecting"
          /\ at_loop' = "iterate"
          /\ UNCHANGED <<task, connection>>
       \/ /\ stream = "none" /\ context = "ready"
          /\ \/ stream' = "creating" /\ at_loop' = "turn"
                /\ UNCHANGED <<task, context>>
             \/ DeviceFreed("exited")
       \/ /\ stream = "creating"
          /\ at_loop' = "iterate"
          /\ UNCHANGED <<task, connection>>
       \/ /\ stream = "ready"
          /\ task' = "between"
          /\ UNCHANGED <<at_loop, connection>>
       \/ /\ "failed" \in {stream, context}
          /\ DeviceFreed("exited")
    /\ UNCHANGED <<query, fragment, output, late>>

-----------------------------------------------------------------------------
(* pa_sound_device_read.                                                   *)

(* A call; a dead device (CHECK_DEAD_GOTO) gives it no turn.               *)
ReadChunk ==
    /\ task = "between"
    /\ \/ /\ stream = "ready"
          /\ task' = "read" /\ at_loop' = "turn"
          /\ late' = FALSE
       \/ /\ stream # "ready"
          /\ UNCHANGED <<task, at_loop, late>>
    /\ UNCHANGED <<connection, query, fragment, output>>

Returns == task' = "between" /\ UNCHANGED at_loop

ReadTimesOut ==
    /\ task = "read" /\ at_loop = "turn"
    /\ late
    /\ Returns
    /\ UNCHANGED <<connection, query, fragment, output, late>>

(* A turn without a fragment at hand: a millisecond of the main loop, then *)
(* pa_stream_peek.  Holes and empty fragments are dropped.                 *)
Peek ==
    /\ task = "read" /\ at_loop = "turn"
    /\ ~late
    /\ IF read_data # <<>>
       THEN /\ at_loop' = "copy"
            /\ UNCHANGED <<task, connection, query, fragment>>
       ELSE \/ Fails /\ Returns /\ UNCHANGED fragment
            \/ UNCHANGED <<task, at_loop, connection, query, fragment>>
            \/ \E n \in 1 .. MaxFragment :
                 /\ read_data' = From(received, n)
                 /\ read_length' = n
                 /\ received' = Byte(received + n)
                 /\ at_loop' = "copy"
                 /\ UNCHANGED <<task, connection, query, read_index>>
    /\ UNCHANGED <<output, late>>

(* Mutant: a fragment is read from its start.                              *)
CopiedFromStart(n) ==
    [i \in 1 .. ChunkLength |->
        IF i \in output_index + 1 .. output_index + n
        THEN read_data[i - output_index] ELSE output_data[i]]

(* memcpy to output_data + output_index, from read_data + read_index.      *)
Copied(n) ==
    [i \in 1 .. ChunkLength |->
        IF i \in output_index + 1 .. output_index + n
        THEN read_data[read_index + i - output_index] ELSE output_data[i]]

(* The chunk is full and the fragment is not used up.                      *)
CopyPart ==
    /\ task = "read" /\ at_loop = "copy"
    /\ LET space == ChunkLength - output_index
       IN /\ space < read_length
          /\ output_data' = Copied(space)
          /\ read_index' = read_index + space
          /\ read_length' = read_length - space
    /\ output_index' = 0
    /\ chunk' = output_data'
    /\ Returns
    /\ UNCHANGED <<connection, query, read_data, received, late>>

(* The fragment is used up and dropped; the chunk may be full as well.     *)
CopyAll ==
    /\ task = "read" /\ at_loop = "copy"
    /\ read_length <= ChunkLength - output_index
    /\ output_data' = Copied(read_length)
    /\ read_data' = <<>> /\ read_length' = 0 /\ read_index' = 0
    /\ LET index == output_index + read_length
       IN IF index = ChunkLength
          THEN /\ output_index' = 0
               /\ chunk' = output_data'
               /\ Returns
          ELSE /\ output_index' = index
               /\ chunk' = chunk
               /\ task' = task /\ at_loop' = "turn"
    /\ UNCHANGED <<connection, query, received, late>>

Elapsed ==
    /\ task = "read"
    /\ ~late
    /\ late' = TRUE
    /\ UNCHANGED <<task, at_loop, connection, query, fragment, output>>

(* sound_device_close, when the recording has ended.                       *)
CloseDevice ==
    /\ task = "between"
    /\ DeviceFreed("closed")
    /\ UNCHANGED <<query, fragment, output, late>>

SoundStep ==
    \/ ConnectQuery \/ QueryTurn \/ QueryDone
    \/ ConnectDevice \/ DeviceTurn
    \/ ReadChunk \/ ReadTimesOut \/ Peek \/ CopyPart \/ CopyAll

SoundNext == SoundStep \/ Iterate \/ Elapsed \/ CloseDevice

SoundFairness ==
    /\ WF_soundVars(SoundStep)
    /\ WF_soundVars(Iterate)
    /\ WF_soundVars(Elapsed)
SoundSpec == SoundInit /\ [][SoundNext]_soundVars /\ SoundFairness

-----------------------------------------------------------------------------
(* Properties.                                                             *)

SoundTypeOK ==
    /\ task \in Queries \cup {"device", "between", "read"} \cup Finished
    /\ at_loop \in {"connect", "turn", "iterate", "copy", "done"}
    /\ context \in {"none", "connecting", "ready", "failed"}
    /\ stream \in {"none", "creating", "ready", "failed"}
    /\ pa_ready \in 0 .. 2 /\ pa_op \in {"none", "running", "done"}
    /\ listed \in 0 .. MaxSources /\ late \in BOOLEAN
    /\ read_index + read_length = Len(read_data)
    /\ output_data \in [1 .. ChunkLength -> Bytes]
    /\ output_index \in 0 .. ChunkLength - 1 /\ received \in Bytes
    /\ task \in Finished => context = "none" /\ stream = "none"

(* pa_sound_device_read: the chunks are the bytes of the stream, each      *)
(* once and in order, however fragments and chunks overlap and whenever a  *)
(* read times out with a chunk begun or a fragment left over.              *)
ChunksAreTheStream ==
    [][chunk' # chunk =>
        /\ chunk' = From(chunk'[1] - 1 + Circle, ChunkLength)
        /\ chunk # <<>> => chunk'[1] = Byte(chunk[ChunkLength] + 1)]_chunk

(* sound.cpp: every query, the connection of a device and every read comes *)
(* to an end, whenever the connection fails.                               *)
SoundCallsReturn == []<>(task \in Finished \cup {"between"})
=============================================================================
