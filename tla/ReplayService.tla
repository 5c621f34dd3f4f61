---------------------------- MODULE ReplayService ----------------------------
(***************************************************************************)
(* What the instant replay promises its user, without the deque, the       *)
(* mutex, the future or the file.  Encoded packets are appended to a log;  *)
(* the oldest are forgotten one at a time; a save picks an unbroken run of *)
(* the packets still remembered, up to the newest one, and writes exactly  *)
(* that run to a file in order, whatever is received or forgotten while    *)
(* the file is being written.                                              *)
(***************************************************************************)
EXTENDS Naturals, Sequences

CONSTANT Packets      \* every encoded packet there could be

VARIABLES
    log,    \* all packets ever received, oldest first
    kept,   \* index in log of the oldest packet still remembered
    job,    \* the save under way: its state and the run from..to of the log
    file    \* the packets in the file being written, in file order

vars == <<log, kept, job, file>>

Idle == [state |-> "idle", from |-> 0, to |-> 0]

Init ==
    /\ log = <<>>
    /\ kept = 1
    /\ job = Idle
    /\ file = <<>>

(* Receive a packet and forget at most the oldest one.                     *)
Receive(p) ==
    /\ log' = Append(log, p)
    /\ kept' \in {kept, kept + 1}
    /\ UNCHANGED <<job, file>>

(* Promise the run of remembered packets from..newest.                     *)
Promise(from) ==
    /\ job.state = "idle"
    /\ from \in kept .. Len(log)
    /\ job' = [state |-> "promised", from |-> from, to |-> Len(log)]
    /\ UNCHANGED <<log, kept, file>>

(* The file of a promised run could not be created.                        *)
Abandon ==
    /\ job.state = "promised"
    /\ job' = Idle
    /\ UNCHANGED <<log, kept, file>>

Start ==
    /\ job.state = "promised"
    /\ job' = [job EXCEPT !.state = "writing"]
    /\ UNCHANGED <<log, kept, file>>

(* Write the next packet of the promised run.                              *)
Deliver ==
    /\ job.state = "writing"
    /\ job.from + Len(file) <= job.to
    /\ file' = Append(file, log[job.from + Len(file)])
    /\ UNCHANGED <<log, kept, job>>

(* The file is closed only with the whole run in it.                       *)
Complete ==
    /\ job.state = "writing"
    /\ job.from + Len(file) = job.to + 1
    /\ job' = Idle
    /\ file' = <<>>
    /\ UNCHANGED <<log, kept>>

Next ==
    \/ \E p \in Packets : Receive(p)
    \/ \E from \in kept .. Len(log) : Promise(from)
    \/ Abandon
    \/ Start
    \/ Deliver
    \/ Complete

Spec == Init /\ [][Next]_vars
=============================================================================
