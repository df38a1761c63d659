------------------------------ MODULE SlaveOps ------------------------------
(***************************************************************************)
(* The simulated EtherCAT slave as a value: class VirtualSlave of          *)
(* include/ethercat_sim/simulation/virtual_slave.h.  A slave is a record;  *)
(* every method that changes it is an operator from the record before the  *)
(* call to the record after it, so that one slave (VirtualSlave) and a     *)
(* registry of slaves (NetworkSimulator) run the same definitions.         *)
(*                                                                         *)
(* The register file is kept only where a property can tell a stale copy   *)
(* from a fresh one: AL_STATUS, AL_STATUS_CODE, DL_STATUS and the status   *)
(* byte of sync manager 1.  Those four are separate fields because the     *)
(* code keeps them separate: a method that changes al_state_ is not the    *)
(* method that copies it into regs_.                                       *)
(***************************************************************************)
EXTENDS Integers

CONSTANTS
  Addresses,   \* station addresses a slave may carry
  Objects,     \* device objects of the dictionary answered by a derived class
  Counts,      \* values of the 3-bit session counter of the mailbox header
  Values,      \* values a device object may hold; 0 is the value of no answer
  WordWidth    \* eeprom_addr_ wraps modulo this: 2^32 in the code

ASSUME SlaveAssumption ==
  /\ Counts \subseteq 0..7
  /\ Values \subseteq Nat
  /\ 0 \in Values
  /\ WordWidth \in Nat \ {0}
  /\ Objects \cap {"VENDOR", "PRODUCT", "REVISION", "SERIAL"} = {}

-----------------------------------------------------------------------------
(* The EtherCAT state machine states (kickcat::State).                     *)

EsmStates == {"INIT", "PRE_OP", "SAFE_OP", "OPERATIONAL"}
AlStates  == EsmStates \union {"BOOT"}

NoError            == 0
InvalidStateChange == 17     \* 0x0011
BootNotSupported   == 67     \* 0x0043
AlCodes == {NoError, InvalidStateChange, BootNotSupported}

(* stateRank_                                                              *)
Rank(st) ==
  CASE st = "INIT"        -> 1
    [] st = "PRE_OP"      -> 2
    [] st = "SAFE_OP"     -> 3
    [] st = "OPERATIONAL" -> 4
    [] OTHER              -> 0

(* decodeControlState_: the low nibble of AL_CONTROL.  Nibbles that are no *)
(* single state fall back to their highest set bit.                        *)
DecodeControlState(ctrl) ==
  LET bits == ctrl % 16 IN
  CASE bits = 0     -> "INVALID"
    [] bits = 1     -> "INIT"
    [] bits = 2     -> "PRE_OP"
    [] bits = 3     -> "BOOT"
    [] bits \in 4..7  -> "SAFE_OP"
    [] bits \in 8..15 -> "OPERATIONAL"

(* The acknowledge bit, 0x10.                                              *)
AckBit(ctrl) == (ctrl \div 16) % 2 = 1

(* nextStateUp_                                                            *)
NextStateUp(st) ==
  CASE st = "INIT"    -> "PRE_OP"
    [] st = "PRE_OP"  -> "SAFE_OP"
    [] st = "SAFE_OP" -> "OPERATIONAL"
    [] OTHER          -> st

(* isTransitionAllowed_                                                    *)
AllowedFrom ==
  [ INIT        |-> {"INIT", "PRE_OP"},
    PRE_OP      |-> {"INIT", "PRE_OP", "SAFE_OP"},
    SAFE_OP     |-> {"INIT", "PRE_OP", "SAFE_OP", "OPERATIONAL"},
    OPERATIONAL |-> {"INIT", "SAFE_OP", "OPERATIONAL"},
    BOOT        |-> {"INIT"} ]

-----------------------------------------------------------------------------
(* The slave record.                                                       *)

IdentityObjects == {"VENDOR", "PRODUCT", "REVISION", "SERIAL"}   \* 0x1018:1..4
AllObjects == IdentityObjects \union Objects

Requests == [service : {"UPLOAD", "DOWNLOAD", "OTHER"}, object : AllObjects,
             count : Counts]

(* An upload answers with the identity of the slave, written as the name   *)
(* of the object, or with the number the derived class returns.            *)
Answers == {"VENDOR", "PRODUCT"} \X {0}  \union  {"VALUE"} \X Values

Replies == [command : {"UPLOAD", "DOWNLOAD"}, object : AllObjects,
            count : Counts, answer : Answers]

NoReply == [command |-> "NONE"]       \* mb_out_ as constructed: all zero

MbContents   == Replies \union {NoReply}
WordAddresses == 0..WordWidth - 1
AlControlWords == 0..65535
AlStatusWords == [state : AlStates, error : BOOLEAN]

(* What a master may write over the status registers, each a register and   *)
(* the value put there.                                                    *)
StatusRegisters == {"AL_STATUS", "AL_STATUS_CODE", "DL_STATUS"}
StatusWords ==
  {"AL_STATUS"} \X AlStatusWords \union {"AL_STATUS_CODE"} \X AlCodes
    \union {"DL_STATUS"} \X BOOLEAN

Slaves ==
  [ address    : Addresses,
    online     : BOOLEAN,             \* online_
    started    : BOOLEAN,             \* started_
    al         : AlStates,            \* al_state_
    code       : AlCodes,             \* al_status_code_
    ackReq     : BOOLEAN,             \* ack_requested_
    mapped     : BOOLEAN,             \* input_pdo_mapped_
    haveReply  : BOOLEAN,             \* mb_have_reply_
    mbOut      : MbContents,
    eepromAddr : WordAddresses,
    alControl  : AlControlWords,      \* AL_CONTROL 0x120, as last written
    regAl      : AlStatusWords,       \* AL_STATUS 0x130
    regCode    : AlCodes,             \* AL_STATUS_CODE 0x134
    regDl      : BOOLEAN,             \* DL_STATUS 0x110, set or clear as one
    regSm1     : BOOLEAN ]            \* MAILBOX_STATUS of SM1's status byte

(* The constructor: state INIT, online, all registers synchronised.        *)
NewSlave(a) ==
  [ address |-> a, online |-> TRUE, started |-> FALSE, al |-> "INIT",
    code |-> NoError, ackReq |-> FALSE, mapped |-> FALSE,
    haveReply |-> FALSE, mbOut |-> NoReply, eepromAddr |-> 0, alControl |-> 0,
    regAl |-> [state |-> "INIT", error |-> FALSE], regCode |-> NoError,
    regDl |-> TRUE, regSm1 |-> FALSE ]

(* syncCoreRegisters_                                                      *)
SyncCoreRegisters(s) ==
  [s EXCEPT !.regDl   = s.online,
            !.regAl   = [state |-> s.al, error |-> s.ackReq],
            !.regCode = s.code]

(* syncSMStatus_                                                           *)
SyncSMStatus(s) == [s EXCEPT !.regSm1 = s.haveReply]

-----------------------------------------------------------------------------
(* AL_CONTROL.                                                             *)

(* preconditionsMet_                                                       *)
PreconditionsMetMutant(s, target) ==       \* SAFE_OP let in without a mapping
  /\ target # "BOOT"
  /\ target = "OPERATIONAL" => s.mapped

PreconditionsMet(s, target) ==
  /\ target # "BOOT"
  /\ target \in {"SAFE_OP", "OPERATIONAL"} => s.mapped

(* signalError_                                                            *)
SignalErrorStale(s, c) == [s EXCEPT !.code = c, !.ackReq = TRUE]
SignalErrorSilent(s, c) == SyncCoreRegisters([s EXCEPT !.code = c])

SignalError(s, c) == SyncCoreRegisters([s EXCEPT !.code = c, !.ackReq = TRUE])

(* The entry actions, of which enterInit_ alone touches more than the      *)
(* state, and none refreshes a register.                                   *)
EnterState(s, target) ==
  IF target = "INIT"
  THEN [s EXCEPT !.al = "INIT", !.ackReq = FALSE, !.haveReply = FALSE]
  ELSE [s EXCEPT !.al = target]

(* applyStateTransition_                                                   *)
ApplyStateTransition(s, target) ==
  IF target \in EsmStates THEN EnterState(s, target) ELSE s

(* One turn of the loop of handleAlControlWrite_: upwards one state at a   *)
(* time, downwards straight to the target; a turn that is refused raises   *)
(* the error and ends the loop in the state reached so far.                *)
Turn(r, requested) ==
  LET next == IF Rank(requested) > Rank(r.slave.al)
              THEN NextStateUp(r.slave.al)
              ELSE requested
  IN  IF r.refused \/ r.slave.al = requested
      THEN r
      ELSE IF next \in AllowedFrom[r.slave.al] /\ PreconditionsMet(r.slave, next)
      THEN [slave |-> ApplyStateTransition(r.slave, next), refused |-> FALSE]
      ELSE [slave |-> SignalError(r.slave, InvalidStateChange), refused |-> TRUE]

(* The whole loop: three turns are enough, INIT to OPERATIONAL being the   *)
(* longest climb (lemma LoopEnds of SlaveOpsProofs).                       *)
TurnsMutant(s, requested) ==               \* one state per request
  Turn([slave |-> s, refused |-> FALSE], requested)

Turns(s, requested) ==
  Turn(Turn(Turn([slave |-> s, refused |-> FALSE], requested), requested), requested)

WantsProgress(s, requested) ==
  requested # "INVALID" /\ Rank(requested) > Rank(s.al)

(* An acknowledgement that asks for no higher state changes no state.       *)
PureAckMutant(s, ctrl) == AckBit(ctrl) /\ DecodeControlState(ctrl) = "INVALID"

PureAck(s, ctrl) == AckBit(ctrl) /\ ~WantsProgress(s, DecodeControlState(ctrl))

(* write() of AL_CONTROL: the raw copy, then handleAlControlWrite_.        *)
WriteAlControl(s, ctrl) ==
  LET requested == DecodeControlState(ctrl)
      cleared   == IF AckBit(ctrl)
                   THEN [s EXCEPT !.alControl = ctrl, !.ackReq = FALSE, !.code = NoError]
                   ELSE [s EXCEPT !.alControl = ctrl]
      end       == Turns(cleared, requested)
  IN  CASE \/ PureAck(s, ctrl)
           \/ requested = "INVALID"
           \/ requested = s.al /\ requested # "BOOT"  -> SyncCoreRegisters(cleared)
        [] requested = "BOOT" /\ ~PureAck(s, ctrl)   -> SignalError(cleared, BootNotSupported)
        [] OTHER ->
             IF end.refused
             THEN end.slave
             ELSE SyncCoreRegisters([end.slave EXCEPT !.code = NoError, !.ackReq = FALSE])

-----------------------------------------------------------------------------
(* Mailbox, EEPROM and the remaining methods.                              *)

(* handleMailboxWrite_: the base class answers the identity objects, the   *)
(* virtual method onSdoUpload the others (answer = v; a derived class that *)
(* does not know the object leaves 0), and onSdoDownload may change the    *)
(* PDO mapping to m.  A reply not yet read is overwritten.                 *)
UploadAnswer(object, v) ==
  CASE object \in {"VENDOR", "PRODUCT"}   -> <<object, 0>>
    [] object \in {"REVISION", "SERIAL"}  -> <<"VALUE", 0>>
    [] OTHER                              -> <<"VALUE", v>>

ComposeReply(req, v) ==
  [ command |-> IF req.service = "DOWNLOAD" THEN "DOWNLOAD" ELSE "UPLOAD",
    object  |-> req.object,
    count   |-> req.count,
    answer  |-> IF req.service = "UPLOAD"
                THEN UploadAnswer(req.object, v)
                ELSE <<"VALUE", 0>> ]

HandleMailboxWriteMutant(s, req, v, m) ==   \* an unread reply is kept
  IF s.haveReply
  THEN s
  ELSE SyncSMStatus([s EXCEPT !.mbOut = ComposeReply(req, v), !.haveReply = TRUE])

HandleMailboxWrite(s, req, v, m) ==
  SyncSMStatus([s EXCEPT !.mbOut     = ComposeReply(req, v),
                         !.haveReply = TRUE,
                         !.mapped    = IF req.service = "DOWNLOAD" THEN m ELSE @])

(* read() in the mailbox send area: hands out mb_out_ whatever it holds    *)
(* and drops the pending flag.                                             *)
ReadMailbox(s) == SyncSMStatus([s EXCEPT !.haveReply = FALSE])

(* write() of EEPROM_CONTROL, and read() of EEPROM_DATA with its           *)
(* auto-increment.                                                         *)
WriteEepromControl(s, word) == [s EXCEPT !.eepromAddr = word]
ReadEepromDataMutant(s) == [s EXCEPT !.eepromAddr = @ + 2]
ReadEepromData(s) == [s EXCEPT !.eepromAddr = (@ + 2) % WordWidth]

(* write() of the sync manager registers: the branch for the register file *)
(* takes it, so the byte goes raw over the status the slave maintains.     *)
WriteSm1Raw(s, full) == [s EXCEPT !.regSm1 = full]

(* The same branch lets a status register be written over; only the next   *)
(* syncCoreRegisters_ puts the slave's own status back.                    *)
WriteStatusRaw(s, w) ==
  CASE w[1] = "AL_STATUS"      -> [s EXCEPT !.regAl = w[2]]
    [] w[1] = "AL_STATUS_CODE" -> [s EXCEPT !.regCode = w[2]]
    [] w[1] = "DL_STATUS"      -> [s EXCEPT !.regDl = w[2]]

(* write() of STATION_ADDR.                                                *)
WriteStationAddress(s, a) == [s EXCEPT !.address = a]

SetOnline(s, on)  == SyncCoreRegisters([s EXCEPT !.online = on])
SetALState(s, st) == SyncCoreRegisters([s EXCEPT !.al = st])
SetInputPDOMapped(s, m) == [s EXCEPT !.mapped = m]
Start(s)   == [s EXCEPT !.started = TRUE]
RoutineMutant(s) ==
  IF s.started THEN SyncCoreRegisters([s EXCEPT !.ackReq = FALSE, !.code = NoError]) ELSE s
Routine(s) == IF s.started THEN SyncCoreRegisters(s) ELSE s
=============================================================================
