---------------------------- MODULE NvencOverclock ----------------------------
(***************************************************************************)
(* The overclocking of -oc yes (overclock.c, xnvctrl.c), which lives and   *)
(* dies with the CUDA context of the nvenc encoder (cuda.c, nvenc.c).      *)
(*                                                                         *)
(* While a process uses CUDA the driver keeps the GPU below its best       *)
(* performance level, so the memory transfer rate of the level it runs at  *)
(* is raised by what is missing.  The raise is an attribute of the X       *)
(* server: it outlives the process, and would lift the best level too.     *)
(* Setting it takes a request for all levels, which older GPUs refuse, and *)
(* one for each level, which need the X server to run as root.             *)
(***************************************************************************)
EXTENDS Naturals, FiniteSetsExt

CONSTANTS
    MaxLevels,    \* bound: performance levels of the GPU
    MaxRate       \* bound: their mem_transfer_rate_max

ASSUME OverclockAssumption == {MaxLevels, MaxRate} \subseteq Nat

VARIABLES
    rates,        \* mem_transfer_rate_max of the driver's levels
    settable,     \* requests it grants: 0 for all levels, or a level
    limit,        \* the largest offset it allows
    own,          \* the offset the user had set
    asked,        \* -oc yes, on X11
    offset,       \* the offset of each level
    at,           \* what the encoder is doing
    cu_ctx,
    xnvctrl,      \* xnvctrl.library
    num_performance_levels,
    request       \* the request being sent, and its offset

gpu == <<rates, settable, limit, own, asked>>
overclockVars == <<gpu, offset, at, cu_ctx, xnvctrl, num_performance_levels,
                   request>>

Levels == DOMAIN rates
AllLevels == 0
Best == Max({0} \cup {rates[l] : l \in Levels})

OverclockInit ==
    /\ \E n \in 0 .. MaxLevels :
        /\ rates \in [1 .. n -> 0 .. MaxRate]
        /\ settable \in {{}, {AllLevels}, 1 .. n, 0 .. n}
    /\ limit \in 0 .. MaxRate
    /\ own \in 0 .. 1
    /\ asked \in BOOLEAN
    /\ offset = [l \in Levels |-> own]
    /\ at = "cuda"
    /\ cu_ctx = FALSE /\ xnvctrl = FALSE
    /\ num_performance_levels = 0
    /\ request = [to |-> AllLevels, offset |-> 0]

(* xnvctrl_set_attribute_offset: for all levels, then for one by one.      *)
Requests(value) == request' = [to |-> AllLevels, offset |-> value]

SendRequest ==
    /\ at \in {"raise", "restore"}
    /\ offset' = [l \in Levels |->
                    IF request.to \in settable \cap {AllLevels, l}
                    THEN request.offset ELSE offset[l]]
    /\ IF request.to < num_performance_levels
       THEN request' = [request EXCEPT !.to = @ + 1] /\ at' = at
       ELSE /\ at' = IF at = "raise" THEN "context" ELSE "unload"
            /\ request' = request
    /\ UNCHANGED <<gpu, cu_ctx, xnvctrl, num_performance_levels>>

-----------------------------------------------------------------------------
(* gsr_video_encoder_nvenc_start.                                          *)

(* gsr_cuda_load up to the context; its failures leave nothing behind.     *)
LoadCuda ==
    /\ at = "cuda"
    /\ cu_ctx' \in BOOLEAN
    /\ at' = IF ~cu_ctx' THEN "stop"
             ELSE IF asked THEN "xnvctrl" ELSE "context"
    /\ UNCHANGED <<gpu, offset, xnvctrl, num_performance_levels, request>>

(* gsr_overclock_load.                                                     *)
LoadXnvctrl ==
    /\ at = "xnvctrl"
    /\ xnvctrl' \in BOOLEAN
    /\ at' = IF xnvctrl' THEN "levels" ELSE "context"
    /\ UNCHANGED <<gpu, offset, cu_ctx, num_performance_levels, request>>

(* Mutant: the levels are not sorted.                                      *)
UnsortedDiff ==
    LET n == Max(Levels)
    IN IF rates[n] > rates[n - 1] THEN rates[n] - rates[n - 1]
                                  ELSE rates[n - 1] - rates[n]

(* The levels sorted by rate: what the best has over the next.             *)
TransferRateMaxDiff ==
    LET best == CHOOSE l \in Levels : rates[l] = Best
    IN Best - Max({rates[l] : l \in Levels \ {best}})

(* gsr_overclock_start.                                                    *)
OverclockStart ==
    /\ at = "levels"
    /\ \/ /\ at' = "context"         \* no extension or no levels to be had
          /\ UNCHANGED <<num_performance_levels, request>>
       \/ /\ Levels # {}
          /\ num_performance_levels' = Max(Levels)
          /\ IF num_performance_levels' > 1
             THEN /\ Requests(Min({limit, TransferRateMaxDiff}))
                  /\ at' = "raise"
             ELSE at' = "context" /\ UNCHANGED request
    /\ UNCHANGED <<gpu, offset, cu_ctx, xnvctrl>>

(* gsr_video_encoder_nvenc_setup_context, then _setup_textures.            *)
SetUpEncoder ==
    \/ /\ at = "context"
       /\ at' \in {"textures", "stop"}
       /\ UNCHANGED <<gpu, offset, cu_ctx, xnvctrl, num_performance_levels,
                      request>>
    \/ /\ at = "textures"
       /\ at' \in {"running", "stop"}
       /\ UNCHANGED <<gpu, offset, cu_ctx, xnvctrl, num_performance_levels,
                      request>>

(* The encoder is destroyed at the end of the recording.                   *)
DestroyEncoder ==
    /\ at = "running"
    /\ at' = "stop"
    /\ UNCHANGED <<gpu, offset, cu_ctx, xnvctrl, num_performance_levels,
                   request>>

(* gsr_video_encoder_nvenc_stop and gsr_cuda_unload.                       *)
StopEncoder ==
    /\ at = "stop"
    /\ IF xnvctrl THEN at' = "restore" /\ Requests(0)
                  ELSE at' = "unload" /\ UNCHANGED request
    /\ UNCHANGED <<gpu, offset, cu_ctx, xnvctrl, num_performance_levels>>

UnloadCuda ==
    /\ at = "unload"
    /\ at' = "done"
    /\ cu_ctx' = FALSE /\ xnvctrl' = FALSE
    /\ UNCHANGED <<gpu, offset, num_performance_levels, request>>

(* main's _exit(1) when the color conversion, a codec or the output file   *)
(* cannot be opened, or a signal it does not handle: the driver ends the   *)
(* context.                                                                *)
ExitProcess ==
    /\ at \notin {"done", "exited"}
    /\ at' = "exited"
    /\ cu_ctx' = FALSE
    /\ UNCHANGED <<gpu, offset, xnvctrl, num_performance_levels, request>>

OverclockNext ==
    \/ LoadCuda \/ LoadXnvctrl \/ OverclockStart \/ SendRequest
    \/ SetUpEncoder \/ DestroyEncoder \/ StopEncoder \/ UnloadCuda
    \/ ExitProcess

OverclockSpec == OverclockInit /\ [][OverclockNext]_overclockVars

-----------------------------------------------------------------------------
(* Properties.                                                             *)

OverclockTypeOK ==
    /\ offset \in [Levels -> 0 .. MaxRate + 1]
    /\ at \in {"cuda", "xnvctrl", "levels", "raise", "context", "textures",
               "running", "stop", "restore", "unload", "done", "exited"}
    /\ {cu_ctx, xnvctrl} \subseteq BOOLEAN
    /\ num_performance_levels \in {0, Max({0} \cup Levels)}
    /\ request \in [to : 0 .. MaxLevels, offset : 0 .. MaxRate]

(* The level the GPU runs at: the best, the next one under CUDA.           *)
RunsAt(l) ==
    IF cu_ctx /\ Levels # {l}
    THEN \E best \in Levels \ {l} :
           /\ rates[best] = Best
           /\ \A k \in Levels \ {best} : rates[k] <= rates[l]
    ELSE rates[l] = Best

(* overclock.c, "to the best performance level while GPU Screen Recorder   *)
(* is running": the memory never runs above the GPU's best level (and what *)
(* the user had added to it) on the way up, on the way down, or after a    *)
(* start that failed; and once the encoder has stopped no level is left    *)
(* raised.  A process that exits without stopping its encoder is excepted. *)
NotOverclockedBeyondBest ==
    at # "exited" =>
        /\ \A l \in Levels : RunsAt(l) => rates[l] + offset[l] <= Best + own
        /\ at = "done" => \A l \in Levels : offset[l] \in {0, own}
=============================================================================
