---------------------------- MODULE VirtualSlave ----------------------------
(***************************************************************************)
(* One simulated slave and everything that can happen to it: the datagrams *)
(* of a master, the periodic routine, and the calls of the program that    *)
(* owns it.  The simulator serialises all of them behind its mutex, so a   *)
(* method call is one action.                                              *)
(***************************************************************************)
EXTENDS SlaveOps

CONSTANTS
  ControlWords,  \* values written to AL_CONTROL
  SdoRequests,   \* requests written to the mailbox
  Sm1Writes,     \* values masters write over MAILBOX_STATUS of SM1
  StatusWrites,  \* registers and values masters write over the status
  ApiStates      \* states the program sets through setALState

ASSUME VirtualSlaveAssumption ==
  /\ ControlWords \subseteq AlControlWords
  /\ SdoRequests \subseteq Requests
  /\ Sm1Writes \subseteq BOOLEAN
  /\ StatusWrites \subseteq StatusWords
  /\ ApiStates \subseteq AlStates
  /\ Addresses # {}

VARIABLES
  slave,       \* the slave
  lastReq,     \* history: the last mailbox request written to it
  overwritten  \* history: status registers written over since a refresh

histVars == <<lastReq, overwritten>>
vars == <<slave, histVars>>

NoRequest == [service |-> "NONE"]

TypeOK ==
  /\ slave \in Slaves
  /\ lastReq \in Requests \union {NoRequest}
  /\ overwritten \subseteq StatusRegisters

Init ==
  /\ \E a \in Addresses : slave = NewSlave(a)
  /\ lastReq = NoRequest
  /\ overwritten = {}

-----------------------------------------------------------------------------
(* Datagrams of the master.                                                *)

AlControl(ctrl) ==
  /\ slave' = WriteAlControl(slave, ctrl)
  /\ overwritten' = {}
  /\ UNCHANGED lastReq

MailboxWrite(req) ==
  /\ \E v \in Values, m \in BOOLEAN : slave' = HandleMailboxWrite(slave, req, v, m)
  /\ lastReq' = req
  /\ UNCHANGED overwritten

MailboxRead ==
  /\ slave' = ReadMailbox(slave)
  /\ UNCHANGED histVars

Sm1Write(full) ==
  /\ slave' = WriteSm1Raw(slave, full)
  /\ UNCHANGED histVars

StatusWrite(w) ==
  /\ slave' = WriteStatusRaw(slave, w)
  /\ overwritten' = overwritten \union {w[1]}
  /\ UNCHANGED lastReq

StationAddress(a) ==
  /\ slave' = WriteStationAddress(slave, a)
  /\ UNCHANGED histVars

EepromControl(word) ==
  /\ slave' = WriteEepromControl(slave, word)
  /\ UNCHANGED histVars

EepromData ==
  /\ slave' = ReadEepromData(slave)
  /\ UNCHANGED histVars

DatagramNext ==
  \/ \E ctrl \in ControlWords : AlControl(ctrl)
  \/ \E req \in SdoRequests : MailboxWrite(req)
  \/ MailboxRead
  \/ \E full \in Sm1Writes : Sm1Write(full)
  \/ \E w \in StatusWrites : StatusWrite(w)
  \/ \E a \in Addresses : StationAddress(a)
  \/ \E word \in WordAddresses : EepromControl(word)
  \/ EepromData

-----------------------------------------------------------------------------
(* The owning program and its periodic call.                               *)

CallStart ==
  /\ slave' = Start(slave)
  /\ UNCHANGED histVars

CallRoutine ==
  /\ slave' = Routine(slave)
  /\ overwritten' = (IF slave.started THEN {} ELSE overwritten)
  /\ UNCHANGED lastReq

CallSetOnline(on) ==
  /\ slave' = SetOnline(slave, on)
  /\ overwritten' = {}
  /\ UNCHANGED lastReq

CallSetInputPDOMapped(m) ==
  /\ slave' = SetInputPDOMapped(slave, m)
  /\ UNCHANGED histVars

CallSetALState(st) ==
  /\ slave' = SetALState(slave, st)
  /\ overwritten' = {}
  /\ UNCHANGED lastReq

ProgramNext ==
  \/ CallStart
  \/ CallRoutine
  \/ \E on \in BOOLEAN : CallSetOnline(on)
  \/ \E m \in BOOLEAN : CallSetInputPDOMapped(m)
  \/ \E st \in ApiStates : CallSetALState(st)

Next == DatagramNext \/ ProgramNext

Spec == Init /\ [][Next]_vars

-----------------------------------------------------------------------------
(* Invariants.                                                             *)

(* The error indication and the error code tell the same story: the error  *)
(* flag is up exactly while AL_STATUS_CODE holds a code.  signalError_,    *)
(* enterInit_, the acknowledgement and the success path each write one or  *)
(* both of the two fields.                                                 *)
ErrorFlagHasCode == slave.ackReq <=> slave.code # NoError

(* A master reading AL_STATUS, AL_STATUS_CODE or DL_STATUS sees the slave  *)
(* as it is, unless a master has written over that register: every path    *)
(* out of handleAlControlWrite_, early returns included, refreshes the     *)
(* registers its entry actions left behind, and with it, with setOnline,   *)
(* with setALState and with the routine of a started slave whatever was    *)
(* written over them is gone.                                              *)
AlRegistersFresh ==
  /\ "AL_STATUS" \in overwritten
       \/ slave.regAl = [state |-> slave.al, error |-> slave.ackReq]
  /\ "AL_STATUS_CODE" \in overwritten \/ slave.regCode = slave.code
  /\ "DL_STATUS" \in overwritten \/ slave.regDl = slave.online

(* The reply waiting in the mailbox answers the last request written, in   *)
(* object and session count, whatever was overwritten, read or reset in    *)
(* between.                                                                *)
ReplyAnswersLastRequest ==
  slave.haveReply => /\ slave.mbOut # NoReply
                     /\ slave.mbOut.object = lastReq.object
                     /\ slave.mbOut.count = lastReq.count

(* A write of AL_CONTROL that is sent again, as a master does that was     *)
(* told it failed (SimSocket::write reports so when the link went down     *)
(* after the slaves were written), leaves the slave as the first did.      *)
RetryIsHarmless ==
  \A ctrl \in ControlWords :
    LET once == WriteAlControl(slave, ctrl) IN WriteAlControl(once, ctrl) = once

(* The inductive invariant behind all but the last of these.               *)
SlaveInv ==
  /\ TypeOK
  /\ ErrorFlagHasCode
  /\ AlRegistersFresh
  /\ ReplyAnswersLastRequest

-----------------------------------------------------------------------------
(* Action properties.                                                      *)

(* An AL_CONTROL write with the acknowledge bit never takes the slave to a *)
(* lower state, so the INIT|ACK broadcast of a starting master leaves a    *)
(* slave that is already up where it is.                                   *)
AckNeverLowers ==
  [][AckBit(slave'.alControl) /\ AlControl(slave'.alControl)
       => Rank(slave'.al) >= Rank(slave.al)]_vars

(* A raised error is latched: it goes away only by an acknowledgement or   *)
(* together with a change of state, never by a repeated request, a         *)
(* mailbox exchange or the routine.                                        *)
ErrorLatched ==
  [][slave.ackReq /\ ~slave'.ackReq =>
       \/ slave'.al # slave.al
       \/ AlControl(slave'.alControl) /\ AckBit(slave'.alControl)]_vars

-----------------------------------------------------------------------------
(* The slave as the abstract state machine sees it.                        *)

Esm == INSTANCE AlStateMachine WITH
         state   <- slave.al,
         error   <- slave.ackReq,
         mapped  <- slave.mapped,
         request <- [target |-> DecodeControlState(slave.alControl),
                     ack    |-> AckBit(slave.alControl)]

(* However it is driven, the slave behaves as AlStateMachine.               *)
ImplementsAlStateMachine == Esm!Spec
=============================================================================
