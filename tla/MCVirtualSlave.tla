--------------------------- MODULE MCVirtualSlave ---------------------------
(* Values of the constants of VirtualSlave for TLC.                        *)
EXTENDS VirtualSlave

(* Every target, SAFE_OP by a nibble that names more than one state,       *)
(* with and without the acknowledge bit.                                   *)
MCControl == LET nibbles == {0, 1, 2, 3, 6, 8}
             IN  nibbles \union {n + 16 : n \in nibbles}

MCEveryState == AlStates

(* An upload, a download and an unknown service, of two objects, with two  *)
(* session counts.                                                         *)
MCRequests ==
  { [service |-> "UPLOAD", object |-> "dev", count |-> 1],
    [service |-> "DOWNLOAD", object |-> "dev", count |-> 2],
    [service |-> "OTHER", object |-> "VENDOR", count |-> 1] }

(* One value for each status register: a slave that is up with an error, a *)
(* code of a refused request, a link that is down.                         *)
MCStatusWrites ==
  { <<"AL_STATUS", [state |-> "OPERATIONAL", error |-> TRUE]>>,
    <<"AL_STATUS_CODE", BootNotSupported>>,
    <<"DL_STATUS", FALSE>> }
=============================================================================
