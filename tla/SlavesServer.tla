----------------------------- MODULE SlavesServer -----------------------------
(***************************************************************************)
(* The life of the a-slaves process: SlavesController (apps/slaves/logic/  *)
(* slaves_controller.cpp), the thread it starts, the server thread which   *)
(* that one starts to run SlavesEndpoint::run (apps/slaves/bus/            *)
(* slaves_endpoint.cpp), and the clients that connect.  A session is left  *)
(* abstract: BusTransport shows that it ends by the stop flag, by the end  *)
(* of the client or by a frame the endpoint refuses.                       *)
(***************************************************************************)
EXTENDS Naturals, FiniteSets

CONSTANT Clients   \* processes that connect, each at most once

VARIABLES
  owner,        \* the thread that calls start and stop: idle or stopping
  worker,       \* run_ of the controller: where it is
  server,       \* SlavesEndpoint::run: where it is
  stop,         \* stop_ of the controller
  stopFlag,     \* the flag given to the endpoint
  listenFd,     \* none, open (not listened on), listening, closed
  accepted,     \* the client of fd, or NoClient
  client,       \* where each client is
  listening,    \* SlavesModel
  connected,
  status

modelVars == <<listening, connected, status>>
threadVars == <<owner, worker, server>>
vars == <<threadVars, stop, stopFlag, listenFd, accepted, client, modelVars>>

NoClient == "none"

ASSUME SlavesServerAssumption == NoClient \notin Clients

WorkerPcs == {"none", "begin", "show", "spawn", "announce", "watch", "join", "hide", "retire", "done"}
ServerPcs == {"none", "bind", "top", "poll", "check", "greet", "session", "close", "unlisten",
              "farewell", "done"}
ClientStates == {"away", "queued", "accepted", "served", "reset", "gone"}

TypeOK ==
  /\ owner \in {"idle", "stopping"}
  /\ worker \in WorkerPcs /\ server \in ServerPcs
  /\ stop \in BOOLEAN /\ stopFlag \in BOOLEAN
  /\ listenFd \in {"none", "open", "listening", "closed"}
  /\ accepted \in Clients \union {NoClient}
  /\ client \in [Clients -> ClientStates]
  /\ listening \in BOOLEAN /\ connected \in BOOLEAN
  /\ status \in {"", "starting", "listening", "stopped"}

Init ==
  /\ owner = "idle" /\ worker = "none" /\ server = "none"
  /\ stop = FALSE /\ stopFlag = FALSE
  /\ listenFd = "none" /\ accepted = NoClient
  /\ client = [c \in Clients |-> "away"]
  /\ listening = FALSE /\ connected = FALSE /\ status = ""

-----------------------------------------------------------------------------
(* The owner: start, and stop with its join.                               *)

Start ==
  /\ owner = "idle" /\ worker = "none"
  /\ stop' = FALSE
  /\ worker' = "begin"
  /\ UNCHANGED <<owner, server, stopFlag, listenFd, accepted, client, modelVars>>

Stop ==
  /\ owner = "idle"
  /\ stop' = TRUE
  /\ owner' = IF worker = "none" THEN "idle" ELSE "stopping"
  /\ UNCHANGED <<worker, server, stopFlag, listenFd, accepted, client, modelVars>>

Joined ==
  /\ owner = "stopping" /\ worker = "done"
  /\ owner' = "idle" /\ worker' = "none"
  /\ UNCHANGED <<server, stop, stopFlag, listenFd, accepted, client, modelVars>>

-----------------------------------------------------------------------------
(* run_ of the controller.  Each run has an endpoint and a flag of its own. *)

Begin ==
  /\ worker = "begin"
  /\ worker' = "show" /\ status' = "starting"
  /\ stopFlag' = FALSE /\ listenFd' = "none" /\ accepted' = NoClient
  /\ UNCHANGED <<owner, server, stop, client, listening, connected>>

(* The model shows the controller listening before the thread exists.      *)
Show ==
  /\ worker = "show"
  /\ worker' = "spawn" /\ listening' = TRUE
  /\ UNCHANGED <<owner, server, stop, stopFlag, listenFd, accepted, client, connected, status>>

Spawn ==
  /\ worker = "spawn"
  /\ worker' = "announce" /\ server' = "bind"
  /\ UNCHANGED <<owner, stop, stopFlag, listenFd, accepted, client, modelVars>>

Announce ==
  /\ worker = "announce"
  /\ worker' = "watch" /\ status' = "listening"
  /\ UNCHANGED <<owner, server, stop, stopFlag, listenFd, accepted, client, listening, connected>>

(* stop_ is seen, which stays set until the worker is joined, and the      *)
(* endpoint's flag is set.                                                 *)
Watch ==
  /\ worker = "watch" /\ stop
  /\ worker' = "join" /\ stopFlag' = TRUE
  /\ UNCHANGED <<owner, server, stop, listenFd, accepted, client, modelVars>>

JoinServerMutant ==               \* the server thread is not joined
  /\ worker = "join"
  /\ worker' = "hide"
  /\ UNCHANGED <<owner, server, stop, stopFlag, listenFd, accepted, client, modelVars>>

JoinServer ==
  /\ worker = "join" /\ server = "done"
  /\ worker' = "hide" /\ server' = "none"
  /\ UNCHANGED <<owner, stop, stopFlag, listenFd, accepted, client, modelVars>>

Hide ==
  /\ worker = "hide"
  /\ worker' = "retire" /\ listening' = FALSE
  /\ UNCHANGED <<owner, server, stop, stopFlag, listenFd, accepted, client, connected, status>>

Retire ==
  /\ worker = "retire"
  /\ worker' = "done" /\ status' = "stopped"
  /\ UNCHANGED <<owner, server, stop, stopFlag, listenFd, accepted, client, listening, connected>>

-----------------------------------------------------------------------------
(* SlavesEndpoint::run.                                                    *)

(* What becomes of listen_fd_ when the socket cannot be made, bound or     *)
(* listened on: bindUDS_ closes it, bindTCP_ leaves it open.               *)
UdsFailure == {"none", "closed"}
TcpFailure == {"none", "open"}

(* Parsing the endpoint, which may be of neither kind, and binding it.     *)
Bind ==
  /\ server = "bind"
  /\ \/ server' = "top" /\ listenFd' = "listening"
     \/ server' = "done" /\ listenFd' \in UdsFailure \union TcpFailure
     \/ server' = "done" /\ listenFd' = "none"
  /\ UNCHANGED <<owner, worker, stop, stopFlag, accepted, client, modelVars>>

AcceptTop ==
  /\ server = "top"
  /\ server' = IF stopFlag THEN "check" ELSE "poll"
  /\ UNCHANGED <<owner, worker, stop, stopFlag, listenFd, accepted, client, modelVars>>

PollEmpty ==
  /\ server = "poll"
  /\ \A c \in Clients : client[c] # "queued"
  /\ server' = "top"
  /\ UNCHANGED <<owner, worker, stop, stopFlag, listenFd, accepted, client, modelVars>>

Accept(c) ==
  /\ server = "poll" /\ client[c] = "queued"
  /\ server' = "check" /\ accepted' = c
  /\ client' = [client EXCEPT ![c] = "accepted"]
  /\ UNCHANGED <<owner, worker, stop, stopFlag, listenFd, modelVars>>

(* poll or accept fails.                                                   *)
AcceptFails ==
  /\ server = "poll"
  /\ server' = "check"
  /\ UNCHANGED <<owner, worker, stop, stopFlag, listenFd, accepted, client, modelVars>>

(* Closing the listening socket resets the clients in its backlog.         *)
CloseListener ==
  /\ listenFd' = "closed"
  /\ client' = [c \in Clients |-> IF client[c] = "queued" THEN "reset" ELSE client[c]]

(* The stop flag is tested once more after the accept: a client accepted   *)
(* meanwhile is forgotten with its descriptor open.                        *)
Check ==
  /\ server = "check"
  /\ IF stopFlag \/ accepted = NoClient
     THEN CloseListener /\ server' = "done"
     ELSE server' = "greet" /\ UNCHANGED <<listenFd, client>>
  /\ UNCHANGED <<owner, worker, stop, stopFlag, accepted, modelVars>>

(* on_connection_(true), and the session begins.                           *)
Greet ==
  /\ server = "greet"
  /\ server' = "session" /\ connected' = TRUE
  /\ client' = [client EXCEPT ![accepted] = IF @ = "accepted" THEN "served" ELSE @]
  /\ UNCHANGED <<owner, worker, stop, stopFlag, listenFd, accepted, listening, status>>

(* handleClient_ returns: stopped, or the client gone; or, at any frame,   *)
(* because it refuses the frame.                                           *)
SessionEndsMutant ==              \* a session ends only with its client
  /\ server = "session"
  /\ client[accepted] = "gone"
  /\ server' = "close"
  /\ UNCHANGED <<owner, worker, stop, stopFlag, listenFd, accepted, client, modelVars>>

SessionEnds ==
  /\ server = "session"
  /\ stopFlag \/ client[accepted] = "gone"
  /\ server' = "close"
  /\ UNCHANGED <<owner, worker, stop, stopFlag, listenFd, accepted, client, modelVars>>

FrameRefused ==
  /\ server = "session"
  /\ server' = "close"
  /\ UNCHANGED <<owner, worker, stop, stopFlag, listenFd, accepted, client, modelVars>>

(* The client's descriptor is closed, then the listening socket, and only  *)
(* then the model is told.                                                 *)
EndSession ==
  /\ server = "close"
  /\ server' = "unlisten"
  /\ client' = [client EXCEPT ![accepted] = "gone"]
  /\ accepted' = NoClient
  /\ UNCHANGED <<owner, worker, stop, stopFlag, listenFd, modelVars>>

UnlistenMutant ==                 \* only the client's descriptor is closed
  /\ server = "unlisten"
  /\ server' = "farewell"
  /\ UNCHANGED <<owner, worker, stop, stopFlag, listenFd, accepted, client, modelVars>>

Unlisten ==
  /\ server = "unlisten"
  /\ server' = "farewell" /\ CloseListener
  /\ UNCHANGED <<owner, worker, stop, stopFlag, accepted, modelVars>>

FarewellMutant ==                 \* the model is not told
  /\ server = "farewell"
  /\ server' = "done"
  /\ UNCHANGED <<owner, worker, stop, stopFlag, listenFd, accepted, client, modelVars>>

Farewell ==
  /\ server = "farewell"
  /\ server' = "done" /\ connected' = FALSE
  /\ UNCHANGED <<owner, worker, stop, stopFlag, listenFd, accepted, client, listening, status>>

-----------------------------------------------------------------------------
(* The clients.  One that leaves the backlog is still accepted, so only a  *)
(* client that was accepted can be seen to leave.                          *)

Connect(c) ==
  /\ client[c] = "away" /\ listenFd = "listening"
  /\ client' = [client EXCEPT ![c] = "queued"]
  /\ UNCHANGED <<threadVars, stop, stopFlag, listenFd, accepted, modelVars>>

Leave(c) ==
  /\ client[c] \in {"accepted", "served"}
  /\ client' = [client EXCEPT ![c] = "gone"]
  /\ UNCHANGED <<threadVars, stop, stopFlag, listenFd, accepted, modelVars>>

-----------------------------------------------------------------------------
OwnerNext  == Start \/ Stop \/ Joined
WorkerNext == Begin \/ Show \/ Spawn \/ Announce \/ Watch \/ JoinServer \/ Hide \/ Retire
ServerLoop ==
  \/ Bind \/ AcceptTop \/ PollEmpty \/ Check \/ Greet
  \/ SessionEnds \/ EndSession \/ Unlisten \/ Farewell
  \/ \E c \in Clients : Accept(c)
ServerNext == ServerLoop \/ AcceptFails \/ FrameRefused
ClientNext == \E c \in Clients : Connect(c) \/ Leave(c)

Next == OwnerNext \/ WorkerNext \/ ServerNext \/ ClientNext

Spec == Init /\ [][Next]_vars

(* Threads run: the worker, the server and the join that stop waits in.    *)
(* Neither a client nor the owner has to act, and nothing has to fail.     *)
FairSpec == Spec /\ WF_vars(Joined) /\ WF_vars(WorkerNext) /\ WF_vars(ServerLoop)

-----------------------------------------------------------------------------
(* Properties.                                                             *)

(* Where the threads are decides what the model shows: it shows a session  *)
(* only while a server thread is in one or is just out of it, and it shows *)
(* the controller listening from just before the server thread exists to   *)
(* just after it is joined.                                                *)
ServerInv ==
  /\ TypeOK
  /\ server # "none" <=> worker \in {"announce", "watch", "join"}
  /\ listening <=> worker \in {"spawn", "announce", "watch", "join", "hide"}
  /\ connected <=> server \in {"session", "close", "unlisten", "farewell"}
  /\ server \in {"greet", "session", "close"} => accepted # NoClient
  /\ worker = "done" => status = "stopped"
  /\ owner = "stopping" => stop /\ worker # "none"
  /\ worker = "none" => status \in {"", "stopped"}
  /\ stopFlag /\ worker # "none" => stop \/ worker = "begin"

(* Once stop has returned no thread is left and nothing is left on         *)
(* display, whichever state the two threads and the clients were in when   *)
(* it was called.                                                          *)
StoppedIsQuiet ==
  owner = "idle" /\ worker = "none" =>
    server = "none" /\ ~listening /\ ~connected /\ status \in {"", "stopped"}

(* stop returns, from every state of the worker and of the server.         *)
StopReturns == owner = "stopping" ~> owner = "idle"

(* No client is left in the backlog: one that has connected is served, or  *)
(* reset when run closes the listening socket (at its end, also that of    *)
(* the one session it serves), or accepted too late and forgotten by run   *)
(* when it stops, unless it waits behind a session that never ends.        *)
WaitingClientServed ==
  \A c \in Clients :
    client[c] = "queued"
      ~> \/ client[c] \in {"served", "reset", "gone"}
         \/ client[c] = "accepted" /\ stopFlag
         \/ [](server = "session")
=============================================================================
