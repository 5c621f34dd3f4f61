--------------------------------- MODULE Kms ---------------------------------
(***************************************************************************)
(* gpu-screen-recorder and the privileged gsr-kms-server that hands it the *)
(* dma-bufs of the monitor's planes (kms_client.c, kms_server.c).  The     *)
(* client forks the server, waits for it on a socket in the file system,   *)
(* sends it one end (REMOTE) of a socketpair to talk over instead, removes *)
(* the file, and from then on asks for the planes once per frame, reading  *)
(* the answers from its own end (LOCAL).                                   *)
(*                                                                         *)
(* The client keeps REMOTE open as well, so it never sees an end of file;  *)
(* it looks for the answer without blocking and, when there is none, asks  *)
(* waitpid if the server is still there: an answer may come between the    *)
(* two, and the server that gave it go.  A server that was                 *)
(* started directly has inherited copies of both ends, since they are not  *)
(* close-on-exec; pkexec closes them.                                      *)
(***************************************************************************)
EXTENDS Naturals

CONSTANTS
    Starts,         \* ways the server is started: "direct" (exec'ed by the
                    \* client, it has the capability) or "pkexec" (as root)
    Versions,       \* its GSR_KMS_PROTOCOL_VERSION: "same" or "other"
    ClientMayCrash,
    ServerMayDie,   \* the server may exit or be killed at any time
    Planes,         \* the planes of the graphics card
    Buffer          \* requests the socket holds before sendmsg blocks

ASSUME KmsAssumption ==
    /\ Starts \subseteq {"direct", "pkexec"}
    /\ Versions \subseteq {"same", "other"}
    /\ {ClientMayCrash, ServerMayDie} \subseteq BOOLEAN
    /\ Buffer \in Nat \ {0}

VARIABLES
    start,        \* how the server was started
    version,      \* the server's protocol version
    client,       \* what the client is doing
    server,       \* what the server is doing
    pid,          \* kms_server_pid: "running", "reaped" or "none"
    file,         \* the socket exists in the file system
    initial,      \* the connection over it: "none", "connected", "requested"
                  \* (a request is in it) or "closed"
    local,        \* processes that hold LOCAL
    remote,       \* processes that hold REMOTE
    requests,     \* requests queued in the socketpair
    replies,      \* answers queued in the socketpair
    carried,      \* planes whose dma-buf a queued answer carries
    clientFds,    \* planes whose dma-buf the client holds
    serverFds     \* planes whose exported dma-buf the server holds

environment == <<start, version>>

kmsVars == <<environment, client, server, pid, file, initial, local, remote,
          requests, replies, carried, clientFds, serverFds>>

(* gsr_kms_client_init up to the fork: socketpair, socket, bind, listen.   *)
KmsInit ==
    /\ client = "waiting"
    /\ server = "connecting"
    /\ pid = "running"
    /\ file = TRUE
    /\ initial = "none"
    /\ start \in Starts
    /\ version \in Versions
    /\ local = IF start = "direct" THEN {"client", "server"} ELSE {"client"}
    /\ remote = local
    /\ requests = 0 /\ replies = 0
    /\ carried = {} /\ clientFds = {} /\ serverFds = {}

Gone == {"failed", "closed", "killed"}

-----------------------------------------------------------------------------
(* The end of a process: the kernel closes what it holds.                  *)

ServerEnds ==
    /\ server' = "dead"
    /\ local' = local \ {"server"}
    /\ remote' = remote \ {"server"}
    /\ serverFds' = {}

ServerDies ==
    /\ ServerMayDie
    /\ server # "dead"
    /\ ServerEnds
    /\ UNCHANGED <<environment, client, pid, file, initial, requests, replies,
                   carried, clientFds>>

(* A crash: the file stays behind and nobody is killed.                    *)
ClientKilled ==
    /\ client' = "killed"
    /\ initial' = "closed"
    /\ local' = local \ {"client"}
    /\ remote' = remote \ {"client"}
    /\ clientFds' = {}
    /\ UNCHANGED <<environment, server, pid, file, requests, replies, carried,
                   serverFds>>

ClientCrashes ==
    /\ ClientMayCrash
    /\ client \notin Gone
    /\ ClientKilled

(* gsr_kms_client_deinit: close both sockets and the pair, kill the server *)
(* if it is ours to kill (one that runs as root is not), remove the file.  *)
Deinit(end) ==
    /\ client' = end
    /\ initial' = "closed"
    /\ file' = FALSE
    /\ clientFds' = {}
    /\ IF pid = "running" /\ server # "dead" /\ start = "direct"
       THEN /\ server' = "dead"
            /\ serverFds' = {}
            /\ local' = {} /\ remote' = {}
       ELSE /\ local' = local \ {"client"}
            /\ remote' = remote \ {"client"}
            /\ UNCHANGED <<server, serverFds>>
    /\ pid' = "none"
    /\ UNCHANGED <<environment, requests, replies, carried>>

-----------------------------------------------------------------------------
(* gsr_kms_client_init, from the fork on.                                  *)

(* The server connected: accept it and pass REMOTE on.  If it died in      *)
(* between, the write raises SIGPIPE, which nobody ignores.                *)
SendReplace ==
    /\ client = "waiting"
    /\ initial = "connected"
    /\ IF server = "dead"
       THEN ClientKilled
       ELSE /\ initial' = "requested"
            /\ client' = "replacing"
            /\ UNCHANGED <<environment, server, pid, file, local, remote,
                           requests, replies, carried, clientFds, serverFds>>

(* Nobody had connected when the poll timed out, and the child is found to *)
(* have exited, be it after connecting.                                    *)
ServerNeverCame ==
    /\ client = "waiting"
    /\ server = "dead"
    /\ Deinit("failed")

(* The answer came over the pair: drop the first connection and the file.  *)
Replaced ==
    /\ client = "replacing"
    /\ replies > 0
    /\ replies' = replies - 1
    /\ initial' = "closed"
    /\ file' = FALSE
    /\ client' = "idle"
    /\ UNCHANGED <<environment, server, pid, local, remote, requests, carried,
                   clientFds, serverFds>>

(* recv_msg_from_server: there is no answer yet...                         *)
NoAnswer(asking, checking) ==
    /\ client = asking
    /\ replies = 0
    /\ client' = checking
    /\ UNCHANGED <<environment, server, pid, file, initial, local, remote,
                   requests, replies, carried, clientFds, serverFds>>

(* ...and waitpid says that the server runs: look again.                   *)
LookAgain(asking, checking) ==
    /\ client = checking
    /\ server # "dead"
    /\ client' = asking
    /\ UNCHANGED <<environment, server, pid, file, initial, local, remote,
                   requests, replies, carried, clientFds, serverFds>>

(* Mutant: a slow answer is taken for a dead server.                       *)
NoAnswerYet == TRUE

(* waitpid says that the server is gone.                                   *)
ServerGone == server = "dead"

ReplaceFails ==
    /\ client = "replacing, no answer"
    /\ ServerGone
    /\ Deinit("failed")

-----------------------------------------------------------------------------
(* gsr_capture_kms_capture, once per frame.                                *)

(* The fds of the last frame are closed first.                             *)
BeginFrame ==
    /\ client = "idle"
    /\ client' = "sending"
    /\ clientFds' = {}
    /\ UNCHANGED <<environment, server, pid, file, initial, local, remote,
                   requests, replies, carried, serverFds>>

(* sendmsg blocks while the socket's buffer is full.                       *)
SendGet ==
    /\ client = "sending"
    /\ requests < Buffer
    /\ requests' = requests + 1
    /\ client' = "getting"
    /\ UNCHANGED <<environment, server, pid, file, initial, local, remote,
                   replies, carried, clientFds, serverFds>>

(* Mutant: the answer is left in the socket.                               *)
GotPeeked ==
    /\ client = "getting"
    /\ replies > 0
    /\ clientFds' = carried
    /\ client' = "drawing"
    /\ UNCHANGED <<environment, server, pid, file, initial, local, remote,
                   requests, replies, carried, serverFds>>

Got ==
    /\ client = "getting"
    /\ replies > 0
    /\ replies' = replies - 1
    /\ clientFds' = carried
    /\ carried' = {}
    /\ client' = "drawing"
    /\ UNCHANGED <<environment, server, pid, file, initial, local, remote,
                   requests, serverFds>>

(* The capture fails; the main loop goes on to the next frame.  An answer  *)
(* that came after the look for it stays in the socket.                    *)
GetFails ==
    /\ client = "getting, no answer"
    /\ ServerGone
    /\ pid' = IF pid = "running" THEN "reaped" ELSE pid
    /\ client' = "idle"
    /\ UNCHANGED <<environment, server, file, initial, local, remote,
                   requests, replies, carried, clientFds, serverFds>>

(* The frame is drawn, or no plane is the monitor's: close the fds.        *)
EndFrame ==
    /\ client = "drawing"
    /\ client' = "idle"
    /\ clientFds' = {}
    /\ UNCHANGED <<environment, server, pid, file, initial, local, remote,
                   requests, replies, carried, serverFds>>

Close ==
    /\ client = "idle"
    /\ Deinit("closed")

Client ==
    \/ SendReplace \/ ServerNeverCame \/ Replaced \/ ReplaceFails
    \/ NoAnswer("replacing", "replacing, no answer")
    \/ LookAgain("replacing", "replacing, no answer")
    \/ BeginFrame \/ SendGet \/ Got \/ GetFails \/ EndFrame
    \/ NoAnswer("getting", "getting, no answer")
    \/ LookAgain("getting", "getting, no answer")

-----------------------------------------------------------------------------
(* The server.                                                             *)

Connect ==
    /\ server = "connecting"
    /\ file /\ client = "waiting"
    /\ initial = "none"
    /\ initial' = "connected"
    /\ server' = "first"
    /\ UNCHANGED <<environment, client, pid, file, local, remote, requests,
                   replies, carried, clientFds, serverFds>>

(* Not connected within five seconds.                                      *)
ConnectTimesOut ==
    /\ server = "connecting"
    /\ client # "waiting"
    /\ ServerEnds
    /\ UNCHANGED <<environment, client, pid, file, initial, requests, replies,
                   carried, clientFds>>

(* The first connection: a request of another version is ignored, else the *)
(* server moves to the fd it got and answers there; an end of file is the  *)
(* end.                                                                    *)
Replace ==
    /\ server = "first"
    /\ initial = "requested"
    /\ IF version = "same"
       THEN /\ server' = "serving"
            /\ remote' = remote \cup {"server"}
            /\ replies' = replies + 1
       ELSE /\ server' = "ignored"
            /\ UNCHANGED <<remote, replies>>
    /\ UNCHANGED <<environment, client, pid, file, initial, local, requests,
                   carried, clientFds, serverFds>>

FirstClosed ==
    /\ server \in {"first", "ignored"}
    /\ initial = "closed"
    /\ ServerEnds
    /\ UNCHANGED <<environment, client, pid, file, initial, requests, replies,
                   carried, clientFds>>

(* kms_get_fb: any of the planes may be off, of another kind or fail to be *)
(* exported.                                                               *)
Exported == SUBSET Planes

(* kms_get_fb exports the planes it can and the answer is sent with their  *)
(* fds, or with none if it failed...                                       *)
Answer ==
    /\ server = "serving"
    /\ requests > 0
    /\ IF local = {}
       THEN /\ ServerEnds       \* SIGPIPE
            /\ requests' = requests - 1
            /\ UNCHANGED <<replies, carried>>
       ELSE /\ requests' = requests - 1
            /\ replies' = replies + 1
            /\ serverFds' \in Exported
            /\ carried' = serverFds'
            /\ server' = "answered"
            /\ UNCHANGED <<local, remote>>
    /\ UNCHANGED <<environment, client, pid, file, initial, clientFds>>

(* Mutant: the server's copies are kept.                                   *)
KeepExported ==
    /\ server = "answered"
    /\ server' = "serving"
    /\ UNCHANGED <<environment, client, pid, file, initial, local, remote,
                   requests, replies, carried, clientFds, serverFds>>

(* ...and the server's own copies of the fds are closed.                   *)
CloseExported ==
    /\ server = "answered"
    /\ server' = "serving"
    /\ serverFds' = {}
    /\ UNCHANGED <<environment, client, pid, file, initial, local, remote,
                   requests, replies, carried, clientFds>>

(* Mutant: an end of file is not the end.                                  *)
NoShutdown == FALSE /\ UNCHANGED kmsVars

(* End of file: nobody has LOCAL open any more.                            *)
ClientShutdown ==
    /\ server = "serving"
    /\ requests = 0
    /\ local = {}
    /\ ServerEnds
    /\ UNCHANGED <<environment, client, pid, file, initial, requests, replies,
                   carried, clientFds>>

Server ==
    \/ Connect \/ ConnectTimesOut \/ Replace \/ FirstClosed
    \/ Answer \/ CloseExported \/ ClientShutdown

KmsNext ==
    \/ Client
    \/ Close
    \/ Server
    \/ ServerDies
    \/ ClientCrashes

KmsSpec == KmsInit /\ [][KmsNext]_kmsVars

(* Both processes keep running while they are alive.                       *)
KmsFairness ==
    WF_kmsVars(Client) /\ WF_kmsVars(Server)
KmsFairSpec == KmsSpec /\ KmsFairness

-----------------------------------------------------------------------------
(* Properties.                                                             *)

(* In gsr_kms_client_init, in gsr_kms_client_get_kms.                      *)
Connecting == {"waiting", "replacing", "replacing, no answer"}
Asking == {"sending", "getting", "getting, no answer"}

KmsTypeOK ==
    /\ start \in Starts /\ version \in Versions
    /\ client \in Connecting \cup Asking \cup {"idle", "drawing"} \cup Gone
    /\ server \in {"connecting", "first", "ignored", "serving", "answered",
                   "dead"}
    /\ pid \in {"running", "reaped", "none"}
    /\ initial \in {"none", "connected", "requested", "closed"}
    /\ file \in BOOLEAN
    /\ carried \cup clientFds \cup serverFds \subseteq Planes
    /\ local \cup remote \subseteq {"client", "server"}
    /\ requests \in 0 .. Buffer /\ replies \in 0 .. 1

(* The dma-bufs of a frame are open in the client while it draws it and in *)
(* the server while it answers, and at no other time: neither side leaks   *)
(* descriptors, whichever of them dies or fails when.                      *)
NoFdLeak ==
    /\ clientFds # {} => client = "drawing"
    /\ serverFds # {} => server = "answered"
    /\ carried # {} => replies > 0

(* The client does not take the answer to an earlier request for the       *)
(* answer to this one: none is left when it asks.  The exception is a      *)
(* server that answered and died between the client's look for the answer  *)
(* and waitpid: what it left is taken by the next frame, if there is one,  *)
(* and by the time it may be the client has been told of the death.        *)
AnswersMatch ==
    /\ client \in {"idle", "sending"} =>
          replies = 0 \/ (server = "dead" /\ pid = "reaped")
    /\ client = "sending" /\ server # "dead" => requests = 0

(* However the handshake ends, the socket in the file system is gone and   *)
(* the first connection closed before the client goes on.                  *)
SocketFileRemoved ==
    client \notin Connecting \cup {"killed"} =>
        ~file /\ initial = "closed"

(* Setting up the connection comes to an end, whenever the server dies.  A *)
(* server of another version is excepted: it ignores the request and the   *)
(* client waits for its answer.                                            *)
InitReturns ==
    version = "same" =>
        (client \in Connecting ~> client \notin Connecting)

(* A frame gets its planes as long as the server lives.                    *)
GetReturns ==
    client \in Asking ~> client \notin Asking \/ server = "dead"

(* recv_msg_from_server: a dead server never leaves the client stuck.      *)
NeverStuck == client \in Asking ~> client \notin Asking

(* The server does not outlive the client: the client ends it or, if the   *)
(* client crashes, it ends by itself.  A server started directly that      *)
(* inherited the client's sockets is excepted: it sees no end of file.     *)
ServerExits ==
    client \in Gone /\ (client = "killed" => start = "pkexec") ~>
        server = "dead"
=============================================================================
