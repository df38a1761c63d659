------------------------------- MODULE SimSocket -------------------------------
(***************************************************************************)
(* A master in the same process as the simulator: class SimSocket          *)
(* (core/kickcat/sim_socket.cpp) and the frame queue of NetworkSimulator.  *)
(*                                                                         *)
(* write executes the datagrams of a frame one after the other and then    *)
(* queues the frame; read takes it back once its latency is over.  One     *)
(* thread makes these calls.  The program around it switches the link, the *)
(* latency and the slaves and calls runOnce at any moment: each call of    *)
(* the simulator takes the mutex for itself, the link flag is read without *)
(* it, so all of this happens between two datagrams, between two slaves of *)
(* a broadcast and between the last datagram and the queue.                *)
(*                                                                         *)
(* sendFrame and receiveFrame read the clock, then lock.  Nobody else      *)
(* touches the queue, so the two are one step here.  A frame in the queue  *)
(* carries the time left until ready_at, and instead of its bytes the      *)
(* number of the write that queued it.                                     *)
(***************************************************************************)
EXTENDS NetworkSimulator

CONSTANTS
  Frames,     \* the frames the master writes: sequences of datagrams
  Latencies,  \* arguments of setLatencyMs
  MaxFrames   \* bound: frames queued

ASSUME SimSocketAssumption ==
  /\ Latencies \subseteq Nat /\ 0 \in Latencies
  /\ MaxFrames \in Nat

VARIABLES
  linkUp,     \* linkUp_
  latency,    \* latencyMs_
  queue,      \* queue_
  at,         \* where the master's thread is
  frame,      \* the frame write works on
  answers,    \* the datagrams executed so far, as write leaves them
  bound,      \* online, the bound of a broadcast's loop
  reached,    \* the indices a broadcast has written
  next,       \* idx of that loop
  accepted,   \* history: the number of frames write has reported as sent
  received,   \* history: the frames read has returned, by number
  target      \* history: the slave that took this frame's last AL_CONTROL
              \* while no slave of its address has been switched since

writeVars == <<frame, answers, bound, reached, next, target>>
socketVars == <<linkUp, latency, queue, at, writeVars, accepted, received>>
allVars == <<vars, socketVars>>

Nobody == "nobody"
Kept   == [kept |-> TRUE]    \* the payload of a datagram that reads nothing

Datagrams ==
       [cmd : {"BRD", "NOP"}]
  \union [cmd : {"BWR"}, ctrl : ControlWords]
  \union [cmd : {"FPRD"}, adp : Addresses]
  \union [cmd : {"FPWR"}, adp : Addresses, ctrl : ControlWords]
  \union [cmd : {"APRD"}, adp : Positions]
  \union [cmd : {"APWR"}, adp : Positions, address : Addresses]
  \union [cmd : {"LRD"}, x : Cells, len : Widths]
  \union [cmd : {"LRW"}, x : Cells, len : Widths, byte : Bytes]

ASSUME FramesAssumption == Frames \subseteq Seq(Datagrams)

(* What this module asks of the constants of NetworkSimulator: its own     *)
(* switch serves the datagrams, and there are two slaves to begin with.    *)
InProcess ==
  /\ Dispatcher = "SimSocket"
  /\ \E id, other \in Ids : id # other
  /\ {1, 2} \subseteq Addresses

(* The program has added two slaves, numbered from 1, and started them.    *)
SocketInit ==
  /\ InProcess
  /\ slaves = CHOOSE both \in [1..2 -> Ids] : both[1] # both[2]
  /\ heap = [id \in Ids |-> IF id = slaves[1] THEN Start(NewSlave(1)) ELSE Start(NewSlave(2))]
  /\ inputs = [id \in Ids |-> NoInputs]
  /\ dictionary = [id \in Ids |-> "untouched"]
  /\ held = {} /\ count = 2 /\ maps = <<>>
  /\ logical = [x \in Cells |-> 0]
  /\ wkc = 0
  /\ linkUp = TRUE /\ latency = 0 /\ queue = <<>>
  /\ at = "idle" /\ frame = <<>> /\ answers = <<>>
  /\ bound = 0 /\ reached = {} /\ next = 0
  /\ accepted = 0 /\ received = <<>> /\ target = Nobody

-----------------------------------------------------------------------------
(* SimSocket::write.                                                       *)

(* A frame is taken on while the link is up; otherwise write returns -1.   *)
WriteBegin(f) ==
  /\ at = "idle" /\ linkUp
  /\ accepted < MaxFrames
  /\ at' = "execute" /\ frame' = f
  /\ UNCHANGED <<vars, linkUp, latency, queue, answers, bound, reached, next,
                 accepted, received, target>>

Unexecuted == at = "execute" /\ Len(answers) < Len(frame)
Datagram   == frame[Len(answers) + 1]
Broadcast  == Datagram.cmd = "BWR"

Answer(data) == answers' = Append(answers, [wkc |-> wkc', data |-> data])

(* The slave a datagram of AL_CONTROL reaches.                             *)
Reached(a) == IF Bearers(a) = {} THEN Nobody ELSE slaves[First(Bearers(a))]

(* A datagram that is a single call of the simulator.                      *)
ExecuteOther ==
  LET dg == Datagram IN
  \/ dg.cmd = "BRD"  /\ BroadcastRead /\ Answer(Kept) /\ UNCHANGED target
  \/ dg.cmd = "NOP"  /\ AcknowledgeOnly("NOP") /\ Answer(Kept) /\ UNCHANGED target
  \/ dg.cmd = "FPRD" /\ StationRead(dg.adp) /\ UNCHANGED target
                     /\ Answer(IF ReadFromSlave(dg.adp).ok
                               THEN ReadFromSlave(dg.adp).value ELSE Kept)
  \/ dg.cmd = "FPWR" /\ StationAlControl(dg.adp, dg.ctrl) /\ Answer(Kept)
                     /\ target' = Reached(dg.adp)
  \/ dg.cmd = "APRD" /\ IndexRead(dg.adp) /\ UNCHANGED target
                     /\ LET r == ReadFromSlaveByIndex(Position(dg.adp) + 1)
                        IN  Answer(IF r.ok THEN r.value ELSE Kept)
  \/ dg.cmd = "APWR" /\ IndexStationAddress(dg.adp, dg.address) /\ Answer(Kept)
                     /\ target' = Nobody
  \/ dg.cmd = "LRD"  /\ ReadLogical(dg.x, dg.len) /\ UNCHANGED target
                     /\ Answer(IF wkc' = 1 THEN [first |-> logical[dg.x]] ELSE Kept)
  \/ dg.cmd = "LRW"  /\ WriteLogical(dg.x, dg.len, dg.byte) /\ Answer(Kept)
                     /\ UNCHANGED target

Execute ==
  /\ Unexecuted /\ ~Broadcast
  /\ ExecuteOther
  /\ UNCHANGED <<linkUp, latency, queue, at, frame, bound, reached, next, accepted, received>>

(* BWR: the number of slaves that are on is read once; then one index      *)
(* after the other is written, each with a lock of its own.                *)
BroadcastBegin ==
  /\ Unexecuted /\ Broadcast
  /\ at' = "broadcast"
  /\ bound' = OnlineSlaveCount /\ next' = 1 /\ reached' = {}
  /\ target' = Nobody
  /\ UNCHANGED <<vars, linkUp, latency, queue, frame, answers, accepted, received>>

BroadcastOne ==
  /\ at = "broadcast" /\ next <= bound
  /\ IF IndexReachable(next)
     THEN /\ heap' = [heap EXCEPT ![slaves[next]] = WriteAlControl(@, Datagram.ctrl)]
          /\ reached' = reached \union {next}
     ELSE UNCHANGED <<heap, reached>>
  /\ next' = next + 1
  /\ UNCHANGED <<deviceVars, registryVars, logical, wkc, linkUp, latency, queue, at, frame,
                 answers, bound, accepted, received, target>>

BroadcastEnd ==
  /\ at = "broadcast" /\ next > bound
  /\ wkc' = Cardinality(reached)
  /\ Answer(Kept)
  /\ at' = "execute" /\ bound' = 0 /\ next' = 0 /\ reached' = {}
  /\ UNCHANGED <<heap, deviceVars, registryVars, logical, linkUp, latency, queue, frame,
                 accepted, received, target>>

FrameDone ==
  /\ frame' = <<>> /\ answers' = <<>> /\ target' = Nobody
  /\ UNCHANGED <<vars, linkUp, latency, bound, reached, next, received>>

(* sendFrame looks at the link, and then queues the frame.  If the link    *)
(* went down meanwhile, write returns -1 for a frame that was executed.    *)
SendFails ==
  /\ at = "execute" /\ Len(answers) = Len(frame) /\ ~linkUp
  /\ at' = "idle"
  /\ FrameDone
  /\ UNCHANGED <<queue, accepted>>

SendPasses ==
  /\ at = "execute" /\ Len(answers) = Len(frame) /\ linkUp
  /\ at' = "send"
  /\ UNCHANGED <<vars, linkUp, latency, queue, writeVars, accepted, received>>

SendFrameMutant ==                \* the queue is filled from its front
  /\ at = "send"
  /\ accepted' = accepted + 1
  /\ queue' = <<[number |-> accepted', wait |-> latency]>> \o queue
  /\ at' = "idle"
  /\ FrameDone

SendFrame ==
  /\ at = "send"
  /\ accepted' = accepted + 1
  /\ queue' = Append(queue, [number |-> accepted', wait |-> latency])
  /\ at' = "idle"
  /\ FrameDone

-----------------------------------------------------------------------------
(* SimSocket::read and receiveFrame: the link is looked at first, then the *)
(* front of the queue, which a later frame never overtakes.  read returns  *)
(* 0 when there is nothing, or nothing yet.                                *)
ReadBegin ==
  /\ at = "idle" /\ linkUp
  /\ at' = "take"
  /\ UNCHANGED <<vars, linkUp, latency, queue, writeVars, accepted, received>>

Ready == queue # <<>> /\ Head(queue).wait = 0

ReceiveFrameMutant ==             \* a frame that is not ready is dropped
  /\ at = "take"
  /\ at' = "idle"
  /\ received' = IF Ready THEN Append(received, Head(queue).number) ELSE received
  /\ queue' = IF queue # <<>> THEN Tail(queue) ELSE queue
  /\ UNCHANGED <<vars, linkUp, latency, writeVars, accepted>>

ReceiveFrame ==
  /\ at = "take"
  /\ at' = "idle"
  /\ IF Ready
     THEN /\ received' = Append(received, Head(queue).number)
          /\ queue' = Tail(queue)
     ELSE UNCHANGED <<received, queue>>
  /\ UNCHANGED <<vars, linkUp, latency, writeVars, accepted>>

-----------------------------------------------------------------------------
(* The program and the clock.                                              *)

SetLinkUp(up) ==
  /\ linkUp' = up
  /\ UNCHANGED <<vars, latency, queue, at, writeVars, accepted, received>>

SetLatencyMs(ms) ==
  /\ latency' = ms
  /\ UNCHANGED <<vars, linkUp, queue, at, writeVars, accepted, received>>

Switch(id, on) ==
  /\ SwitchOnline(id, on)
  /\ target' = IF target # Nobody /\ heap[id].address = heap[target].address
               THEN Nobody ELSE target
  /\ UNCHANGED <<linkUp, latency, queue, at, frame, answers, bound, reached, next,
                 accepted, received>>

Periodic == RunOnce /\ UNCHANGED socketVars

Tick ==
  /\ \E k \in DOMAIN queue : queue[k].wait > 0
  /\ queue' = [k \in DOMAIN queue |->
                [queue[k] EXCEPT !.wait = IF @ > 0 THEN @ - 1 ELSE 0]]
  /\ UNCHANGED <<vars, linkUp, latency, at, writeVars, accepted, received>>

-----------------------------------------------------------------------------
Calling == \/ ReadBegin \/ ReceiveFrame
           \/ Execute \/ BroadcastBegin \/ BroadcastOne \/ BroadcastEnd
           \/ SendFails \/ SendPasses \/ SendFrame

SocketNext ==
  \/ \E f \in Frames : WriteBegin(f)
  \/ Calling
  \/ \E up \in BOOLEAN : SetLinkUp(up)
  \/ \E ms \in Latencies : SetLatencyMs(ms)
  \/ \E id \in Ids, on \in OnlineValues : Switch(id, on)
  \/ Periodic
  \/ Tick

SocketSpec == SocketInit /\ [][SocketNext]_allVars

(* The master's thread runs and goes on reading, as KickCAT does until it  *)
(* has its answer or its timeout; time passes.                             *)
FairSocketSpec == SocketSpec /\ WF_allVars(Calling) /\ WF_allVars(Tick)

-----------------------------------------------------------------------------
(* Properties.                                                             *)

(* A frame that write has reported as sent is in the queue or has been     *)
(* read, once and in the order of the writes; a frame reported as failed   *)
(* never turns up.  This holds while the link goes down and up and the     *)
(* latency changes between any two steps: a link that is down keeps the    *)
(* queue, and a frame with a short latency waits behind a long one.        *)
NothingLostOrReordered ==
  received \o [k \in DOMAIN queue |-> queue[k].number] = [n \in 1..accepted |-> n]

(* A frame that writes AL_CONTROL of a slave and then reads AL_STATUS sees *)
(* the state and the error that the write led to: between the two          *)
(* datagrams the locks are free, but whatever the program does to the link *)
(* and to other slaves, and though it may call runOnce, the register is    *)
(* that of the slave that took the write, unless a slave of that address   *)
(* was switched.                                                           *)
FrameReadsOwnWrite ==
  [][/\ Len(answers') = Len(answers) + 1
     /\ Datagram.cmd = "FPRD" /\ target # Nobody
     /\ frame[Len(answers)].cmd = "FPWR" /\ frame[Len(answers)].adp = Datagram.adp
     => answers'[Len(answers')].data = [state |-> heap[target].al,
                                        error |-> heap[target].ackReq]]_allVars

(* A frame that was reported as sent arrives, once the link stays up and   *)
(* the master goes on reading, although frames in front of it may have     *)
(* been sent with a longer latency.                                        *)
SentArrives ==
  \A n \in 1..MaxFrames :
    <>[]linkUp => (accepted >= n ~> Len(received) >= n)
=============================================================================
