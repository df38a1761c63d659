-------------------------- MODULE SlavesServerProofs --------------------------
(***************************************************************************)
(* What the a-slaves process shows and leaves behind, proved for every set *)
(* of clients.  ServerInv is inductive: it says of every place of the      *)
(* threads, also of those between two calls, what the model shows there.   *)
(***************************************************************************)
EXTENDS SlavesServer, TLAPS

(* The places and the model agree when the process begins.                 *)
LEMMA InitServerInv == Init => ServerInv
  BY SlavesServerAssumption DEF Init, ServerInv, TypeOK, WorkerPcs, ServerPcs, ClientStates

(* Only the places and the model matter to it: the clients and the         *)
(* listening socket may change as they like.                               *)
LEMMA PlacesKeepServerInv ==
  ASSUME ServerInv, TypeOK',
         UNCHANGED <<owner, worker, server, stop, stopFlag, accepted, listening, connected, status>>
  PROVE  ServerInv'
<1> USE DEF ServerInv
<1>1. (server # "none" <=> worker \in {"announce", "watch", "join"})'
  OBVIOUS
<1>2. (listening <=> worker \in {"spawn", "announce", "watch", "join", "hide"})'
  OBVIOUS
<1>3. (connected <=> server \in {"session", "close", "unlisten", "farewell"})'
  OBVIOUS
<1>4. (server \in {"greet", "session", "close"} => accepted # NoClient)'
  OBVIOUS
<1>5. (worker = "done" => status = "stopped")'
  OBVIOUS
<1>6. (owner = "stopping" => stop /\ worker # "none")'
  OBVIOUS
<1>7. (worker = "none" => status \in {"", "stopped"})'
  OBVIOUS
<1>8. (stopFlag /\ worker # "none" => stop \/ worker = "begin")'
  OBVIOUS
<1> QED
  BY <1>1, <1>2, <1>3, <1>4, <1>5, <1>6, <1>7, <1>8

(* Each step of the owner, the worker, the server thread or a client keeps *)
(* the places and the model in agreement.                                  *)
LEMMA NextServerInv == ServerInv /\ [Next]_vars => ServerInv'
<1> SUFFICES ASSUME ServerInv, [Next]_vars PROVE ServerInv'
  OBVIOUS
<1> USE SlavesServerAssumption DEF ServerInv, TypeOK, WorkerPcs, ServerPcs, ClientStates
<1>1. CASE Start
  BY <1>1 DEF Start, modelVars
<1>2. CASE Stop
  BY <1>2, ZenonT(60) DEF Stop, modelVars
<1>3. CASE Joined
  BY <1>3 DEF Joined, modelVars
<1>4. CASE Begin
  BY <1>4 DEF Begin
<1>5. CASE Show
  BY <1>5 DEF Show
<1>6. CASE Spawn
  BY <1>6 DEF Spawn, modelVars
<1>7. CASE Announce
  BY <1>7, ZenonT(60) DEF Announce
<1>8. CASE Watch
  BY <1>8, ZenonT(60) DEF Watch, modelVars
<1>9. CASE JoinServer
  BY <1>9 DEF JoinServer, modelVars
<1>10. CASE Hide
  BY <1>10 DEF Hide
<1>11. CASE Retire
  BY <1>11 DEF Retire
<1>12. CASE Bind
  BY <1>12, ZenonT(60) DEF Bind, UdsFailure, TcpFailure, modelVars
<1>13. CASE AcceptTop
  BY <1>13, ZenonT(60) DEF AcceptTop, modelVars
<1>14. CASE PollEmpty
  BY <1>14 DEF PollEmpty, modelVars
<1>15. CASE Check
  BY <1>15, ZenonT(60) DEF Check, CloseListener, modelVars
<1>16. CASE Greet
  BY <1>16 DEF Greet
<1>17. CASE SessionEnds
  BY <1>17 DEF SessionEnds, modelVars
<1>18. CASE EndSession
  BY <1>18 DEF EndSession, modelVars
<1>19. CASE Unlisten
  BY <1>19 DEF Unlisten, CloseListener, modelVars
<1>20. CASE Farewell
  BY <1>20 DEF Farewell
<1>21. CASE AcceptFails
  BY <1>21, ZenonT(60) DEF AcceptFails, modelVars
<1>22. CASE FrameRefused
  BY <1>22 DEF FrameRefused, modelVars
<1>23. ASSUME NEW c \in Clients, Accept(c) PROVE ServerInv'
  BY <1>23 DEF Accept, modelVars
<1>24. ASSUME NEW c \in Clients, Connect(c) PROVE ServerInv'
  BY <1>24, ZenonT(60) DEF Connect, modelVars, threadVars
<1>25. ASSUME NEW c \in Clients, Leave(c) PROVE ServerInv'
  <2>1. TypeOK'
    BY <1>25, ZenonT(60) DEF Leave, modelVars, threadVars
  <2>2. UNCHANGED <<owner, worker, server, stop, stopFlag, accepted, listening, connected, status>>
    BY <1>25 DEF Leave, threadVars, modelVars
  <2> QED
    BY <2>1, <2>2, PlacesKeepServerInv
<1>26. CASE UNCHANGED vars
  <2>1. TypeOK'
    BY <1>26, ZenonT(60) DEF vars, modelVars, threadVars
  <2>2. UNCHANGED <<owner, worker, server, stop, stopFlag, accepted, listening, connected, status>>
    BY <1>26 DEF vars, threadVars, modelVars
  <2> QED
    BY <2>1, <2>2, PlacesKeepServerInv
<1> QED
  BY <1>1, <1>2, <1>3, <1>4, <1>5, <1>6, <1>7, <1>8, <1>9, <1>10, <1>11, <1>12, <1>13, <1>14,
     <1>15, <1>16, <1>17, <1>18, <1>19, <1>20, <1>21, <1>22, <1>23, <1>24, <1>25, <1>26
  DEF Next, OwnerNext, WorkerNext, ServerNext, ServerLoop, ClientNext

(* The model shows a session only while the server thread is in one, and   *)
(* shows the controller listening only while a server thread exists.       *)
THEOREM ServerCorrect == Spec => []ServerInv
  BY InitServerInv, NextServerInv, PTL DEF Spec

(* Once stop has returned nothing is left running or on display, whatever  *)
(* the clients and the two threads were doing when it was called.          *)
THEOREM StopLeavesQuiet == Spec => []StoppedIsQuiet
<1>1. ServerInv => StoppedIsQuiet
  BY DEF ServerInv, StoppedIsQuiet
<1> QED
  BY <1>1, ServerCorrect, PTL
=============================================================================
