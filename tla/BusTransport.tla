----------------------------- MODULE BusTransport -----------------------------
(***************************************************************************)
(* The stream between the master and the simulated slaves: MasterSocket    *)
(* (apps/master/bus/master_socket.cpp) on one end, SlavesEndpoint          *)
(* (apps/slaves/bus/slaves_endpoint.cpp) on the other.  A frame travels as *)
(* a length prefix followed by its bytes.  The stream is modelled in       *)
(* pieces: pieces 1 and 2 of a message are the two bytes of the prefix,    *)
(* the pieces after them the body.  A receive takes any number of the      *)
(* pieces that have arrived, up to the number it asked for.                *)
(*                                                                         *)
(* The users of MasterSocket are external: KickCAT's Link writes frames    *)
(* and calls read once for each (Window of them may be outstanding), under *)
(* the bus mutex of MasterController.                                      *)
(***************************************************************************)
EXTENDS Naturals, Sequences

CONSTANTS
  MaxFrames,   \* bound: frames the master writes
  Window,      \* frames written before the first of them is read
  Body,        \* pieces of the body of a frame
  Oversized    \* frames longer than 1500 bytes

ASSUME BusTransportAssumption ==
  /\ MaxFrames \in Nat /\ Window \in Nat \ {0} /\ Body \in Nat \ {0}
  /\ Oversized \subseteq 1..MaxFrames

VARIABLES
  sent,        \* frames written by the master
  owed,        \* of those, the ones read has not been called for yet
  reading,     \* where MasterSocket::read is: idle, prefix, body, drop
  need,        \* pieces the receive in progress still asks for
  got,         \* pieces taken by the current readAll_
  delivered,   \* what read has handed to the Link: a frame, or Garbage
  toSlaves,    \* frames on their way to the endpoint
  toMaster,    \* pieces on their way to the master
  serving,     \* where handleClient_ is: top of its loop, waiting for a
               \* frame, about to write prefix or body, closed
  frame,       \* the frame the endpoint is serving
  executed,    \* frames processed by the slaves
  stop,        \* the endpoint's stop flag
  masterOpen,  \* the master process still holds its end
  cut          \* history: Len(delivered) when a receive first timed out
               \* within an answer, Never before that

masterVars == <<sent, owed, reading, need, got, delivered>>
endpointVars == <<serving, frame, executed>>
vars == <<masterVars, endpointVars, toSlaves, toMaster, stop, masterOpen, cut>>

Pieces == [of : 1..MaxFrames, piece : 1..Body + 2]
Garbage == 0
Never   == MaxFrames + 1   \* more answers than are ever delivered

Prefix(f)  == <<[of |-> f, piece |-> 1], [of |-> f, piece |-> 2]>>
BodyOfMutant(f) == [k \in 1..Body |-> [of |-> f, piece |-> k + 3]]
BodyOf(f)  == [k \in 1..Body |-> [of |-> f, piece |-> k + 2]]

TypeOK ==
  /\ sent \in 0..MaxFrames /\ owed \in 0..Window
  /\ reading \in {"idle", "prefix", "body", "drop"}
  /\ need \in 0..Body + 2
  /\ got \in Seq(Pieces)
  /\ delivered \in Seq(0..MaxFrames)
  /\ toSlaves \in Seq(1..MaxFrames) /\ toMaster \in Seq(Pieces)
  /\ serving \in {"top", "waiting", "prefix", "body", "closed"}
  /\ frame \in 0..MaxFrames /\ executed \in 0..MaxFrames
  /\ stop \in BOOLEAN /\ masterOpen \in BOOLEAN
  /\ cut \in 0..Never

Init ==
  /\ sent = 0 /\ owed = 0 /\ reading = "idle" /\ need = 0 /\ got = <<>>
  /\ delivered = <<>>
  /\ toSlaves = <<>> /\ toMaster = <<>>
  /\ serving = "top" /\ frame = 0 /\ executed = 0
  /\ stop = FALSE /\ masterOpen = TRUE
  /\ cut = Never

-----------------------------------------------------------------------------
(* The master.                                                             *)

(* write: both sends fit the socket buffer, so they succeed or, once the   *)
(* endpoint has closed, fail with -1 and change nothing.                   *)
Write ==
  /\ masterOpen /\ reading = "idle"
  /\ sent < MaxFrames /\ owed < Window
  /\ serving # "closed"
  /\ sent' = sent + 1 /\ owed' = owed + 1
  /\ toSlaves' = Append(toSlaves, sent + 1)
  /\ UNCHANGED <<reading, need, got, delivered, toMaster, endpointVars, stop, masterOpen, cut>>

ReadBegin ==
  /\ masterOpen /\ reading = "idle" /\ owed > 0
  /\ owed' = owed - 1
  /\ reading' = "prefix" /\ need' = 2 /\ got' = <<>>
  /\ UNCHANGED <<sent, delivered, toSlaves, toMaster, endpointVars, stop, masterOpen, cut>>

(* One recv of readAll_.                                                   *)
Receive(n) ==
  /\ masterOpen /\ reading # "idle" /\ need > 0
  /\ n <= need /\ n <= Len(toMaster)
  /\ got' = got \o SubSeq(toMaster, 1, n)
  /\ toMaster' = SubSeq(toMaster, n + 1, Len(toMaster))
  /\ need' = need - n
  /\ UNCHANGED <<sent, owed, reading, delivered, toSlaves, endpointVars, stop, masterOpen, cut>>

(* The two bytes read as a length: that of the frame when they are a       *)
(* prefix, and any other bytes' value when they are not.                   *)
AtPrefix == \E f \in 1..MaxFrames : got = Prefix(f)

PrefixComplete ==
  /\ masterOpen /\ reading = "prefix" /\ need = 0
  /\ got' = <<>>
  /\ IF AtPrefix
     THEN reading' = "body" /\ need' = Body
     ELSE reading' \in {"body", "drop"} /\ need' \in 0..Body + 2
  /\ UNCHANGED <<sent, owed, delivered, toSlaves, toMaster, endpointVars, stop, masterOpen, cut>>

(* readAll_ of the body succeeded.  A body read behind a false prefix may  *)
(* have length 0, and read then returns 0 as for a timeout.                *)
FrameOf(seq) ==
  IF \E f \in 1..MaxFrames : seq = BodyOf(f)
  THEN CHOOSE f \in 1..MaxFrames : seq = BodyOf(f)
  ELSE Garbage

BodyComplete ==
  /\ masterOpen /\ reading = "body" /\ need = 0
  /\ delivered' = IF got = <<>> THEN delivered ELSE Append(delivered, FrameOf(got))
  /\ reading' = "idle" /\ got' = <<>>
  /\ UNCHANGED <<sent, owed, need, toSlaves, toMaster, endpointVars, stop, masterOpen, cut>>

DropComplete ==
  /\ masterOpen /\ reading = "drop" /\ need = 0
  /\ reading' = "idle" /\ got' = <<>>
  /\ UNCHANGED <<sent, owed, need, delivered, toSlaves, toMaster, endpointVars, stop, masterOpen, cut>>

(* recv returns -1 after SO_RCVTIMEO without data, or 0 when the endpoint  *)
(* has closed: read gives up and forgets the pieces it took.               *)
WithinAnswer == got # <<>> \/ reading # "prefix"

ReadFailsMutant ==                \* the end of the stream is retried
  /\ masterOpen /\ reading # "idle" /\ need > 0
  /\ toMaster = <<>>
  /\ serving # "closed"
  /\ reading' = "idle" /\ need' = 0 /\ got' = <<>>
  /\ cut' = IF WithinAnswer /\ cut = Never THEN Len(delivered) ELSE cut
  /\ UNCHANGED <<sent, owed, delivered, toSlaves, toMaster, endpointVars, stop, masterOpen>>

ReadFails ==
  /\ masterOpen /\ reading # "idle" /\ need > 0
  /\ toMaster = <<>>
  /\ reading' = "idle" /\ need' = 0 /\ got' = <<>>
  /\ cut' = IF WithinAnswer /\ cut = Never THEN Len(delivered) ELSE cut
  /\ UNCHANGED <<sent, owed, delivered, toSlaves, toMaster, endpointVars, stop, masterOpen>>

(* The master process ends.                                                *)
MasterExit ==
  /\ masterOpen
  /\ masterOpen' = FALSE
  /\ UNCHANGED <<masterVars, endpointVars, toSlaves, toMaster, stop, cut>>

-----------------------------------------------------------------------------
(* The endpoint: handleClient_.                                            *)

(* read_exact_nb of the prefix and of the body, the check of the length,   *)
(* processFrame_ and runOnce.  It waits for a frame without a timeout.     *)
ServeMutant ==                    \* the frame is left for the next turn
  /\ serving = "waiting" /\ toSlaves # <<>>
  /\ serving' = "prefix" /\ frame' = Head(toSlaves)
  /\ executed' = IF executed < MaxFrames THEN executed + 1 ELSE executed
  /\ UNCHANGED <<masterVars, toSlaves, toMaster, stop, masterOpen, cut>>

Serve ==
  /\ serving = "waiting" /\ toSlaves # <<>>
  /\ toSlaves' = Tail(toSlaves)
  /\ IF Head(toSlaves) \in Oversized
     THEN /\ serving' = "closed"
          /\ UNCHANGED <<frame, executed, cut>>
     ELSE /\ serving' = "prefix"
          /\ frame' = Head(toSlaves)
          /\ executed' = executed + 1
  /\ UNCHANGED <<masterVars, toMaster, stop, masterOpen, cut>>

(* write_exact_nb of the prefix, then of the body; each fails when the     *)
(* master is gone.                                                         *)
Answer ==
  /\ serving \in {"prefix", "body"}
  /\ IF masterOpen
     THEN /\ toMaster' = toMaster \o (IF serving = "prefix" THEN Prefix(frame) ELSE BodyOf(frame))
          /\ serving' = IF serving = "prefix" THEN "body" ELSE "top"
     ELSE /\ serving' = "closed"
          /\ UNCHANGED toMaster
  /\ UNCHANGED <<masterVars, frame, executed, toSlaves, stop, masterOpen, cut>>

(* The stop flag is tested at the top of the loop, and while waiting       *)
(* whenever a poll of 200 ms finds nothing to read; the end of the         *)
(* master's stream ends the session too.                                   *)
LoopTop ==
  /\ serving = "top"
  /\ serving' = IF stop THEN "closed" ELSE "waiting"
  /\ UNCHANGED <<masterVars, frame, executed, toSlaves, toMaster, stop, masterOpen, cut>>

GiveUpMutant ==                   \* the wait ignores the stop flag
  /\ serving = "waiting"
  /\ toSlaves = <<>>
  /\ ~masterOpen
  /\ serving' = "closed"
  /\ UNCHANGED <<masterVars, frame, executed, toSlaves, toMaster, stop, masterOpen, cut>>

GiveUp ==
  /\ serving = "waiting"
  /\ toSlaves = <<>>
  /\ stop \/ ~masterOpen
  /\ serving' = "closed"
  /\ UNCHANGED <<masterVars, frame, executed, toSlaves, toMaster, stop, masterOpen, cut>>

RequestStop ==
  /\ ~stop
  /\ stop' = TRUE
  /\ UNCHANGED <<masterVars, endpointVars, toSlaves, toMaster, masterOpen, cut>>

-----------------------------------------------------------------------------
MasterReads ==
  \/ \E n \in 1..Body + 2 : Receive(n)
  \/ PrefixComplete \/ BodyComplete \/ DropComplete \/ ReadFails

MasterNext == Write \/ ReadBegin \/ MasterReads \/ MasterExit
EndpointNext == LoopTop \/ Serve \/ Answer \/ GiveUp

Next == MasterNext \/ EndpointNext \/ RequestStop

Spec == Init /\ [][Next]_vars

(* Every step of the endpoint's loop and of a read in progress is taken by *)
(* a running thread; nothing obliges the master to write, to stop or to    *)
(* exit.                                                                   *)
FairSpec == Spec /\ WF_vars(MasterReads) /\ WF_vars(EndpointNext)

-----------------------------------------------------------------------------
(* Properties.                                                             *)

(* The comment on MasterSocket: the length prefix preserves the message    *)
(* boundaries on the stream, so whatever read hands out is one answer.     *)
(* A receive that times out within an answer forgets the pieces it took,   *)
(* and the rest of the answer is then read as a prefix.                    *)
BoundariesPreserved == \A i \in DOMAIN delivered : delivered[i] # Garbage

(* Up to the first timeout within an answer the transport is a             *)
(* FrameChannel, whatever the interleaving of late answers, timeouts       *)
(* between answers, refused frames, stops and exits; the slaves execute    *)
(* every frame once and in order even after it.                            *)
Whole == IF cut = Never THEN delivered ELSE SubSeq(delivered, 1, cut)

Channel == INSTANCE FrameChannel WITH delivered <- Whole

ImplementsFrameChannel == Channel!Spec

(* A read always returns: an answer, a timeout within an answer, a false   *)
(* length or a closed endpoint all end it.                                 *)
ReadReturns == reading # "idle" ~> (reading = "idle" \/ ~masterOpen)

(* A stop request or the end of the master closes the session, whichever   *)
(* step of its loop the endpoint is at.                                    *)
SessionEnds == (stop \/ ~masterOpen) ~> serving = "closed"
=============================================================================
