--------------------------- MODULE AlStateMachine ---------------------------
(***************************************************************************)
(* What a simulated slave promises its master about the EtherCAT state     *)
(* machine, said without the loop, the registers or the coding of the      *)
(* control word: a request for a higher state takes the slave as high as   *)
(* its PDO mapping allows, and raises the error when that falls short; a   *)
(* lower state is entered directly or refused; an acknowledgement lowers   *)
(* nothing.  The program that owns the slave may put it into any state;    *)
(* no request takes it out of BOOT.  VirtualSlave implements this          *)
(* specification.                                                          *)
(***************************************************************************)
EXTENDS Integers

VARIABLES
  state,    \* AL state of the slave
  error,    \* the error indication of AL_STATUS
  mapped,   \* a PDO mapping is configured
  request   \* the last request: its target state and acknowledge bit

vars == <<state, error, mapped, request>>

Ladder  == [BOOT |-> 0, INIT |-> 1, PRE_OP |-> 2, SAFE_OP |-> 3, OPERATIONAL |-> 4]
States  == DOMAIN Ladder
Esm     == States \ {"BOOT"}
Targets == States \union {"INVALID"}

(* The states that may be entered from above, without passing the states   *)
(* in between.  PRE_OP cannot be entered from OPERATIONAL.                 *)
Below == [ BOOT        |-> {},
           INIT        |-> {},
           PRE_OP      |-> {"INIT"},
           SAFE_OP     |-> {"PRE_OP", "INIT"},
           OPERATIONAL |-> {"SAFE_OP", "INIT"} ]

Above(target) == target \in Esm /\ Ladder[target] > Ladder[state]

CanHold(st) == st \in {"SAFE_OP", "OPERATIONAL"} => mapped

(* The states on the way up to target that the mapping admits, the present *)
(* one among them.                                                         *)
Reachable(target) ==
  {state} \union {st \in Esm : /\ state # "BOOT"
                               /\ Ladder[state] < Ladder[st]
                               /\ Ladder[st] <= Ladder[target]
                               /\ CanHold(st)}

Init ==
  /\ state = "INIT"
  /\ error = FALSE
  /\ mapped = FALSE
  /\ request = [target |-> "INVALID", ack |-> FALSE]

Climb(target) ==
  /\ Above(target)
  /\ state' \in Reachable(target)
  /\ \A st \in Reachable(target) : Ladder[st] <= Ladder[state']
  /\ error' = (state' # target)

Descend(target) ==
  /\ target \in Below[state]
  /\ CanHold(target)
  /\ state' = target
  /\ error' = FALSE

(* A request that cannot be met where the slave is: BOOT, PRE_OP from      *)
(* OPERATIONAL, SAFE_OP from above once the mapping is gone.               *)
Refuse(target) ==
  /\ target = "BOOT" \/ target \notin {"INVALID", state}
  /\ ~Above(target)
  /\ ~(target \in Below[state] /\ CanHold(target))
  /\ state' = state
  /\ error' = TRUE

Request(target, ack) ==
  /\ request' = [target |-> target, ack |-> ack]
  /\ UNCHANGED mapped
  /\ \/ Climb(target)
     \/ ack /\ ~Above(target) /\ state' = state /\ error' = FALSE
     \/ ~ack /\ Descend(target)
     \/ ~ack /\ Refuse(target)
     \/ ~ack /\ target \in {"INVALID", state} \ {"BOOT"} /\ UNCHANGED <<state, error>>

(* The mapping is the application's business and may change at any time.   *)
Remap ==
  /\ mapped' \in BOOLEAN
  /\ UNCHANGED <<state, error, request>>

(* The program sets the state, past every rule above.                      *)
Force ==
  /\ state' \in States
  /\ UNCHANGED <<error, mapped, request>>

Next ==
  \/ \E target \in Targets, ack \in BOOLEAN : Request(target, ack)
  \/ Remap
  \/ Force

Spec == Init /\ [][Next]_vars
=============================================================================
