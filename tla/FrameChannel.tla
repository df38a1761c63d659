----------------------------- MODULE FrameChannel -----------------------------
(***************************************************************************)
(* What the transport between a master and the simulated slaves promises:  *)
(* frames are numbered in the order the master writes them, the slaves     *)
(* execute each of them once and in that order, and the master reads the   *)
(* answers whole and in that order, each after its frame was executed.     *)
(* A frame may stay unanswered; it is never skipped.  BusTransport         *)
(* implements this specification up to the first receive timeout that      *)
(* falls within an answer.                                                 *)
(***************************************************************************)
EXTENDS Naturals, Sequences

VARIABLES
  sent,       \* number of frames written
  executed,   \* number of frames the slaves executed
  delivered   \* the answers the master has read, by frame number

vars == <<sent, executed, delivered>>

Init == sent = 0 /\ executed = 0 /\ delivered = <<>>

Write ==
  /\ sent' = sent + 1
  /\ UNCHANGED <<executed, delivered>>

Execute ==
  /\ executed < sent
  /\ executed' = executed + 1
  /\ UNCHANGED <<sent, delivered>>

Deliver ==
  /\ Len(delivered) < executed
  /\ delivered' = Append(delivered, Len(delivered) + 1)
  /\ UNCHANGED <<sent, executed>>

Next == Write \/ Execute \/ Deliver

Spec == Init /\ [][Next]_vars
=============================================================================
