---------------------------- MODULE PortalSession ----------------------------
(***************************************************************************)
(* The conversation with the desktop portal that a recording of -w portal  *)
(* begins with (dbus.c, and setup_dbus of capture/portal.c), from one      *)
(* recording to the next: what they share is the file of the restore       *)
(* token.                                                                  *)
(*                                                                         *)
(* A method is called, its reply awaited, and then the Response signal the *)
(* portal sends when the user is done; both arrive over one connection, on *)
(* which replies are matched with their call but any Response will do.     *)
(* The portal is external.  It may refuse a call or answer it late, the    *)
(* user may cancel, and it may die; a token is good for one session.       *)
(***************************************************************************)
EXTENDS Naturals, Sequences

CONSTANTS
    PortalVersions,     \* versions of the ScreenCast interface
    MaxRuns,      \* bound: recordings, one after the other
    MaxLate       \* bound: replies that come after the timeout

ASSUME SessionAssumption ==
    /\ PortalVersions \subseteq Nat
    /\ {MaxRuns, MaxLate} \subseteq Nat

VARIABLES
    portal_version,\* the portal's
    portal,       \* "up" or "dead"
    calls,        \* calls the portal has not answered yet
    dialogs,      \* requests whose Response is still to come
    granted,      \* tokens the portal honours, and how many there were
    tokens,
    signals,      \* Response signals on their way
    reply,        \* reply to the call being blocked on
    run,          \* number of the recording
    restore,      \* params.restore_portal_session
    method,       \* the call setup_dbus is at, or how it ended
    waiting,      \* what for
    handle_counter,
    seen_version, \* screencast_version, 0: not known
    restore_token,
    pipewire_node,
    token_file,   \* the token in the file
    late_replies, \* history: replies that were late
    refused,      \* history: the portal or the user said no in this run
    offered,      \* history: streams the portal started in this run
    given,        \* history: the token it gave in this run
    disturbed     \* history: a token was spent or given, and not saved

portalVars == <<portal_version, portal, calls, dialogs, granted, tokens,
                late_replies>>
caller == <<method, waiting, handle_counter, seen_version, restore_token,
            pipewire_node>>
wire == <<signals, reply>>
history == <<refused, offered, given, disturbed>>
recordings == <<run, restore, token_file>>

sessionVars == <<portalVars, wire, caller, recordings, history>>

NoToken == 0      \* "", which is also what an empty file holds
Tokens == 0 .. tokens
Methods == {"CreateSession", "SelectSources", "Start", "OpenPipeWireRemote"}
SessionOver == {"opened", "failed", "killed"}
Awaiting == {"reply", "again"}      \* blocked on a first or second call

SessionInit ==
    /\ portal_version \in PortalVersions
    /\ portal = "up"
    /\ calls = <<>> /\ dialogs = <<>> /\ signals = <<>> /\ reply = "none"
    /\ tokens \in 0 .. 1
    /\ granted \in SUBSET (1 .. tokens)
    /\ token_file \in Tokens
    /\ run = 0 /\ restore = FALSE
    /\ method = "failed" /\ waiting = "none"
    /\ handle_counter = 0 /\ seen_version = 0
    /\ restore_token = NoToken
    /\ pipewire_node = 0
    /\ late_replies = 0 /\ refused = TRUE /\ offered = 0 /\ given = NoToken
    /\ disturbed = (token_file \notin granted \cup {NoToken})

-----------------------------------------------------------------------------
(* The portal and its user.                                                *)

(* The answer to a call nobody waits for any more is dropped.              *)
Replied(call, answer) == reply' = IF call.late THEN reply ELSE answer

PortalAccepts ==
    /\ calls # <<>>
    /\ LET call == Head(calls)
       IN /\ Replied(call, "ok")
          /\ dialogs' = IF call.method = "OpenPipeWireRemote" THEN dialogs
                        ELSE Append(dialogs, call)
    /\ calls' = Tail(calls)
    /\ UNCHANGED <<portal_version, portal, granted, tokens, late_replies,
                   signals, caller, recordings, history>>

(* A call that brings a token may be refused for it.                       *)
PortalRefuses ==
    /\ calls # <<>>
    /\ Replied(Head(calls), "error")
    /\ refused' = (refused \/ Head(calls).token \in granted \cup {NoToken})
    /\ calls' = Tail(calls)
    /\ UNCHANGED <<portal_version, portal, dialogs, granted, tokens,
                   late_replies, signals, caller, recordings, offered, given,
                   disturbed>>

(* The Response: of Start it brings the streams and maybe a token, and the *)
(* token the session was restored with is spent.                           *)
PortalResponds ==
    /\ dialogs # <<>>
    /\ dialogs' = Tail(dialogs)
    /\ \E status \in 0 .. 2, n \in 0 .. 2, token \in {NoToken, tokens + 1} :
          LET call == Head(dialogs)
              starting == call.method = "Start"
              fresh == token # NoToken
          IN /\ ~starting => n = 0 /\ ~fresh
             /\ status # 0 => n = 0 /\ ~fresh
             /\ fresh => portal_version >= 4
             /\ signals' = Append(signals,
                    [method |-> call.method, handle |-> call.handle,
                     status |-> status, streams |-> n, token |-> token])
             /\ tokens' = IF fresh THEN token ELSE tokens
             /\ granted' = (granted \ {call.token})
                             \cup (IF fresh THEN {token} ELSE {})
             /\ refused' = (refused \/ status # 0 \/ (starting /\ n = 0))
             /\ offered' = IF starting THEN n ELSE offered
             /\ given' = IF fresh THEN token ELSE given
             /\ disturbed' = (disturbed \/ fresh \/ call.token # NoToken)
    /\ UNCHANGED <<portal_version, portal, calls, late_replies, reply, caller,
                   recordings>>

(* The bus answers for a peer that has gone.                               *)
PortalDies ==
    /\ portal = "up" /\ method \notin SessionOver
    /\ portal' = "dead"
    /\ calls' = <<>> /\ dialogs' = <<>>
    /\ reply' = IF waiting \in Awaiting /\ reply = "none" THEN "error"
                ELSE reply
    /\ UNCHANGED <<portal_version, granted, tokens, late_replies, signals,
                   caller, recordings, history>>

Portal == PortalAccepts \/ PortalRefuses \/ PortalResponds

-----------------------------------------------------------------------------
(* gsr_dbus_call_screencast_method.                                        *)

(* Calling a portal that is dead gets an error at once.                    *)
Sent(m, handle, token) ==
    IF portal = "up"
    THEN /\ calls' = Append(calls, [method |-> m, handle |-> handle,
                                    token |-> token, late |-> FALSE])
         /\ reply' = "none"
    ELSE /\ UNCHANGED calls
         /\ reply' = "error"

(* The default timeout of the reply is 25 seconds.                         *)
ReplyTimesOut ==
    /\ waiting \in Awaiting /\ reply = "none" /\ calls # <<>>
    /\ late_replies < MaxLate
    /\ late_replies' = late_replies + 1
    /\ calls' = [i \in DOMAIN calls |-> [calls[i] EXCEPT !.late = TRUE]]
    /\ reply' = "error"
    /\ UNCHANGED <<portal_version, portal, dialogs, granted, tokens, signals,
                   caller, recordings, history>>

Goes(m) == method' = m /\ waiting' = "none"

(* The portal asked for sources, with the token if it may be used.         *)
TokenToUse == IF seen_version >= 4 THEN restore_token ELSE NoToken

(* The version is asked for before the first SelectSources.                *)
LearnVersion ==
    /\ method = "SelectSources" /\ waiting = "none" /\ seen_version = 0
    /\ \E v \in {0, portal_version} :
          /\ portal = "dead" => v = 0
          /\ seen_version' = v
    /\ waiting' = "known"
    /\ UNCHANGED <<portalVars, wire, method, handle_counter, restore_token,
                   pipewire_node, recordings, history>>

CallMethod ==
    /\ method \in Methods
    /\ waiting = IF method = "SelectSources" THEN "known" ELSE "none"
    /\ LET handle == handle_counter + 1
           token == IF method = "SelectSources" THEN TokenToUse ELSE NoToken
       IN Sent(method, handle, token)
    /\ handle_counter' = IF method = "OpenPipeWireRemote" THEN handle_counter
                         ELSE handle_counter + 1
    /\ waiting' = "reply"
    /\ UNCHANGED <<portal_version, portal, dialogs, granted, tokens,
                   late_replies, signals, method, seen_version, restore_token,
                   pipewire_node, recordings, history>>

NextMethod ==
    [CreateSession |-> "SelectSources", SelectSources |-> "Start",
     Start |-> "save", OpenPipeWireRemote |-> "opened"]

(* Mutant: what SelectSources answers is not waited for.                   *)
RepliesSuffice == {"OpenPipeWireRemote", "SelectSources"}

(* Methods that are over with their reply.                                 *)
Immediate == {"OpenPipeWireRemote"}

GotReply ==
    /\ waiting \in Awaiting /\ reply = "ok"
    /\ reply' = "none"
    /\ IF method \in Immediate THEN Goes(NextMethod[method])
       ELSE waiting' = "response" /\ UNCHANGED method
    /\ UNCHANGED <<portalVars, signals, handle_counter, seen_version,
                   restore_token, pipewire_node, recordings, history>>

(* Mutant: a token that is refused is the end.                             *)
RetriesNever == FALSE

(* Whether the call that failed is made again without its token, which it  *)
(* is only once.                                                           *)
Retries == method = "SelectSources" /\ TokenToUse # NoToken

GotError ==
    /\ waiting \in Awaiting /\ reply = "error"
    /\ IF waiting = "reply" /\ Retries
       THEN /\ Sent(method, handle_counter, NoToken)
            /\ waiting' = "again"
            /\ UNCHANGED method
       ELSE /\ Goes("failed")
            /\ reply' = "none"
            /\ UNCHANGED calls
    /\ UNCHANGED <<portal_version, portal, dialogs, granted, tokens,
                   late_replies, signals, handle_counter, seen_version,
                   restore_token, pipewire_node, recordings, history>>

-----------------------------------------------------------------------------
(* The Responses.                                                          *)

(* Mutant: the token a session was restored with is kept.                  *)
TokenKept(new) == IF restore_token = NoToken THEN new ELSE restore_token

(* screencast_restore_token after Start's response.                        *)
TokenAfter(new) == IF new # NoToken THEN new ELSE restore_token

(* The node is that of the array's first stream, every time one is read,   *)
(* although the comment there takes the last one to be valid; there may be *)
(* none.                                                                   *)
NodeOf(n) == IF n = 0 THEN 0 ELSE 1

Missing(n) == NodeOf(n) = 0

(* A response without a session handle or without a node is no answer to   *)
(* CreateSession or Start; the response of SelectSources holds nothing.    *)
GotResponse ==
    /\ waiting = "response" /\ signals # <<>>
    /\ signals' = Tail(signals)
    /\ LET response == Head(signals)
       IN IF \/ response.status # 0
             \/ method = "CreateSession" /\ response.method # method
          THEN Goes("failed") /\ UNCHANGED <<restore_token, pipewire_node>>
          ELSE IF method # "Start"
          THEN /\ Goes(NextMethod[method])
               /\ UNCHANGED <<restore_token, pipewire_node>>
          ELSE /\ Goes(IF Missing(response.streams) THEN "failed"
                       ELSE NextMethod[method])
               /\ restore_token' = TokenAfter(response.token)
               /\ pipewire_node' = NodeOf(response.streams)
    /\ UNCHANGED <<portalVars, reply, handle_counter, seen_version, recordings,
                   history>>

(* gsr_capture_portal_save_restore_token: making the directory or opening  *)
(* the file may fail; opening it empties it.                               *)
OpenTokenFile ==
    /\ method = "save"
    /\ \/ Goes("OpenPipeWireRemote") /\ UNCHANGED token_file
       \/ Goes("write") /\ token_file' = NoToken
    /\ UNCHANGED <<portalVars, wire, handle_counter, seen_version,
                   restore_token, pipewire_node, run, restore, history>>

WriteToken ==
    /\ method = "write"
    /\ \/ token_file' = restore_token
          /\ disturbed' = (disturbed /\ given = NoToken)
       \/ UNCHANGED <<token_file, disturbed>>
    /\ Goes("OpenPipeWireRemote")
    /\ UNCHANGED <<portalVars, wire, handle_counter, seen_version,
                   restore_token, pipewire_node, run, restore, refused,
                   offered, given>>

-----------------------------------------------------------------------------
(* From one recording to the next: every one has its own connection.       *)

StartRun ==
    /\ method \in SessionOver /\ run < MaxRuns
    /\ run' = run + 1
    /\ restore' \in BOOLEAN
    /\ restore_token' = IF restore' THEN token_file ELSE NoToken
    /\ Goes("CreateSession")
    /\ portal' = "up"
    /\ calls' = <<>> /\ dialogs' = <<>> /\ signals' = <<>>
    /\ reply' = "none"
    /\ handle_counter' = 0 /\ seen_version' = 0 /\ pipewire_node' = 0
    /\ refused' = FALSE /\ offered' = 0 /\ given' = NoToken
    /\ UNCHANGED <<portal_version, granted, tokens, late_replies, token_file,
                   disturbed>>

(* Nothing but SIGKILL ends a start that waits.                            *)
Killed ==
    /\ method \notin SessionOver
    /\ Goes("killed")
    /\ UNCHANGED <<portalVars, wire, handle_counter, seen_version,
                   restore_token, pipewire_node, recordings, history>>

SessionStep ==
    \/ LearnVersion \/ CallMethod \/ GotReply \/ GotError \/ GotResponse
    \/ OpenTokenFile \/ WriteToken

SessionNext ==
    \/ Portal \/ PortalDies \/ ReplyTimesOut
    \/ SessionStep \/ StartRun \/ Killed

(* The portal answers and the user makes up their mind.                    *)
SessionFairness ==
    /\ WF_sessionVars(SessionStep)
    /\ WF_sessionVars(Portal)
SessionSpec ==
    SessionInit /\ [][SessionNext]_sessionVars /\ SessionFairness

-----------------------------------------------------------------------------

(* The tokens and handles exist, and nothing is on its way to a start that *)
(* did not ask: a reply is read by the call it was made for.               *)
SessionTypeOK ==
    /\ granted \subseteq 1 .. tokens
    /\ {token_file, restore_token, given} \subseteq Tokens
    /\ method \in Methods \cup SessionOver \cup {"save", "write"}
    /\ waiting \in {"none", "known", "response"} \cup Awaiting
    /\ seen_version \in {0, portal_version}
    /\ pipewire_node \in 0 .. 2 /\ offered \in 0 .. 2
    /\ reply \in {"none", "ok", "error"}
    /\ reply # "none" => waiting \in Awaiting \/ method \in SessionOver
    /\ portal = "dead" => calls \o dialogs = <<>>

(* Responses are taken in the order they arrive, whatever request they are *)
(* for; the request waited for is the one they answer, unless a reply came *)
(* too late and its call was made again.                                   *)
ResponsesMatch ==
    waiting = "response" /\ late_replies = 0 =>
        \A i \in DOMAIN signals :
            signals[i].handle = handle_counter /\ signals[i].method = method

(* A start fails only because the portal or the user refused, the portal   *)
(* died or was late: a token that is no longer honoured only means that    *)
(* the user is asked again.                                                *)
FailsOnlyWhenRefused ==
    method = "failed" => refused \/ portal = "dead" \/ late_replies > 0

(* The token a recording sends is one the portal honours, as long as every *)
(* token spent or given so far was followed by saving the new one.         *)
TokenStaysValid ==
    \A i \in DOMAIN calls :
        disturbed \/ calls[i].token \in granted \cup {NoToken}

(* A start ends, one way or the other, while the portal lives.             *)
SessionReturns ==
    (method \notin SessionOver) ~> (method \in SessionOver \/ portal = "dead")
=============================================================================
