------------------------- MODULE VirtualSlaveProofs -------------------------
(***************************************************************************)
(* Proofs about VirtualSlave for every value of its constants.             *)
(***************************************************************************)
EXTENDS VirtualSlave, SlaveOpsProofs

-----------------------------------------------------------------------------
(* The invariants.                                                         *)

(* The parts of the invariant, as a step of any kind must hand them on:    *)
(* one that refreshes the status registers, and one that leaves them.      *)
LEMMA Carry ==
  ASSUME SlaveInv, slave' \in Slaves, RegistersFresh(slave'), Coherent(slave'),
         slave'.mbOut = slave.mbOut, slave'.haveReply => slave.haveReply,
         UNCHANGED lastReq, overwritten' \subseteq overwritten
  PROVE  SlaveInv'
BY DEF SlaveInv, TypeOK, ErrorFlagHasCode, AlRegistersFresh, ReplyAnswersLastRequest,
       RegistersFresh, Coherent

LEMMA CarryUntouched ==
  ASSUME SlaveInv, slave' \in Slaves, Untouched(slave, slave'), UNCHANGED histVars
  PROVE  SlaveInv'
BY DEF SlaveInv, TypeOK, ErrorFlagHasCode, AlRegistersFresh, ReplyAnswersLastRequest,
       Untouched, histVars

LEMMA SlaveInvStep == SlaveInv /\ [Next]_vars => SlaveInv'
<1> SUFFICES ASSUME SlaveInv, [Next]_vars
             PROVE  SlaveInv'
  OBVIOUS
<1>0. slave \in Slaves /\ Coherent(slave)
  BY DEF SlaveInv, TypeOK, ErrorFlagHasCode, Coherent
<1>1. ASSUME NEW ctrl \in ControlWords, AlControl(ctrl)
      PROVE  SlaveInv'
  <2>1. ctrl \in AlControlWords
    BY VirtualSlaveAssumption
  <2> QED
    BY <1>0, <1>1, <2>1, WriteAlControlFacts, Carry DEF AlControl
<1>2. ASSUME NEW req \in SdoRequests, MailboxWrite(req)
      PROVE  SlaveInv'
  <2>1. req \in Requests
    BY VirtualSlaveAssumption
  <2>2. PICK v \in Values, m \in BOOLEAN : slave' = HandleMailboxWrite(slave, req, v, m)
    BY <1>2 DEF MailboxWrite
  <2>3. /\ slave' \in Slaves /\ slave'.mbOut \in Replies
        /\ slave'.al = slave.al /\ slave'.code = slave.code
        /\ slave'.ackReq = slave.ackReq /\ slave'.online = slave.online
        /\ slave'.regAl = slave.regAl /\ slave'.regCode = slave.regCode
        /\ slave'.regDl = slave.regDl
        /\ slave'.mbOut.object = req.object /\ slave'.mbOut.count = req.count
    BY <1>0, <2>1, <2>2, MailboxWriteFacts
  <2>4. slave'.mbOut # NoReply
    BY <2>3 DEF Replies, NoReply
  <2>5. lastReq' = req
    BY <1>2 DEF MailboxWrite
  <2>6. TypeOK' /\ ReplyAnswersLastRequest'
    BY <1>2, <2>1, <2>3, <2>4, <2>5
    DEF SlaveInv, MailboxWrite, TypeOK, ReplyAnswersLastRequest
  <2>7. ErrorFlagHasCode' /\ AlRegistersFresh'
    BY <1>2, <2>3 DEF SlaveInv, MailboxWrite, ErrorFlagHasCode, AlRegistersFresh
  <2> QED
    BY <2>6, <2>7 DEF SlaveInv
<1>3. ASSUME MailboxRead PROVE SlaveInv'
  BY <1>0, <1>3, MinorMethods, CarryUntouched DEF MailboxRead
<1>4. ASSUME NEW full \in Sm1Writes, Sm1Write(full) PROVE SlaveInv'
  <2>1. full \in BOOLEAN
    BY VirtualSlaveAssumption
  <2> QED
    BY <1>0, <1>4, <2>1, MinorMethods, CarryUntouched DEF Sm1Write
<1>5. ASSUME NEW a \in Addresses, StationAddress(a) PROVE SlaveInv'
  BY <1>0, <1>5, MinorMethods, CarryUntouched DEF StationAddress
<1>6. ASSUME NEW word \in WordAddresses, EepromControl(word) PROVE SlaveInv'
  BY <1>0, <1>6, MinorMethods, CarryUntouched DEF EepromControl
<1>7. ASSUME EepromData PROVE SlaveInv'
  BY <1>0, <1>7, MinorMethods, CarryUntouched DEF EepromData
<1>8. ASSUME CallStart PROVE SlaveInv'
  BY <1>0, <1>8, MinorMethods, CarryUntouched DEF CallStart
<1>9. ASSUME CallRoutine PROVE SlaveInv'
  <2>1. CASE slave.started
    <3>1. slave' = SyncCoreRegisters(slave) /\ UNCHANGED lastReq /\ overwritten' = {}
      BY <1>9, <2>1 DEF CallRoutine, Routine
    <3>2. /\ slave' \in Slaves /\ RegistersFresh(slave') /\ Coherent(slave')
          /\ slave'.mbOut = slave.mbOut /\ slave'.haveReply = slave.haveReply
      BY <1>0, <3>1, SyncCoreFacts DEF RegistersFresh, Coherent
    <3> QED
      BY <3>1, <3>2, Carry
  <2>2. CASE ~slave.started
    <3>1. slave' = slave /\ UNCHANGED histVars
      BY <1>9, <2>2 DEF CallRoutine, Routine, histVars
    <3> QED
      BY <1>0, <3>1, CarryUntouched DEF Untouched
  <2> QED
    BY <2>1, <2>2
<1>10. ASSUME NEW on \in BOOLEAN, CallSetOnline(on) PROVE SlaveInv'
  BY <1>0, <1>10, SyncingMethods, Carry DEF CallSetOnline
<1>11. ASSUME NEW m \in BOOLEAN, CallSetInputPDOMapped(m) PROVE SlaveInv'
  BY <1>0, <1>11, MinorMethods, CarryUntouched DEF CallSetInputPDOMapped
<1>12. ASSUME NEW st \in ApiStates, CallSetALState(st) PROVE SlaveInv'
  <2>1. st \in AlStates
    BY VirtualSlaveAssumption
  <2> QED
    BY <1>0, <1>12, <2>1, SyncingMethods, Carry DEF CallSetALState
<1>13. ASSUME UNCHANGED vars PROVE SlaveInv'
  BY <1>13 DEF vars, histVars, SlaveInv, TypeOK, ErrorFlagHasCode, AlRegistersFresh,
               ReplyAnswersLastRequest
<1>14. ASSUME NEW w \in StatusWrites, StatusWrite(w) PROVE SlaveInv'
  <2>1. w \in StatusWords /\ slave' = WriteStatusRaw(slave, w)
    BY <1>14, VirtualSlaveAssumption DEF StatusWrite
  <2>2. lastReq' = lastReq /\ overwritten' = overwritten \union {w[1]}
    BY <1>14 DEF StatusWrite
  <2>3. TypeOK' /\ ErrorFlagHasCode' /\ ReplyAnswersLastRequest'
    BY <1>0, <2>1, <2>2, StatusWriteFacts
    DEF SlaveInv, TypeOK, ErrorFlagHasCode, ReplyAnswersLastRequest
  <2>4. AlRegistersFresh'
    BY <1>0, <2>1, <2>2, StatusWriteFacts DEF SlaveInv, AlRegistersFresh
  <2> QED
    BY <2>3, <2>4 DEF SlaveInv
<1> QED
  BY <1>1, <1>2, <1>3, <1>4, <1>5, <1>6, <1>7, <1>8, <1>9, <1>10, <1>11, <1>12, <1>13, <1>14
  DEF Next, DatagramNext, ProgramNext

LEMMA SlaveInvInit == Init => SlaveInv
<1> SUFFICES ASSUME Init PROVE SlaveInv
  OBVIOUS
<1>1. PICK a \in Addresses : slave = NewSlave(a)
  BY DEF Init
<1>2. slave \in Slaves
  BY <1>1, NewSlaveFacts
<1> QED
  BY <1>1, <1>2 DEF Init, SlaveInv, TypeOK, ErrorFlagHasCode, AlRegistersFresh,
     ReplyAnswersLastRequest, NewSlave, NoError

LEMMA SlaveInvHolds == Spec => []SlaveInv
BY SlaveInvInit, SlaveInvStep, PTL DEF Spec

(* The slave record keeps its type through every datagram and call.        *)
THEOREM TypeCorrect == Spec => []TypeOK
<1>1. SlaveInv => TypeOK
  BY DEF SlaveInv
<1> QED
  BY <1>1, SlaveInvHolds, PTL

(* The error indication is up exactly while an error code is stored,       *)
(* whichever path through handleAlControlWrite_ was taken.                 *)
THEOREM ErrorFlagCorrect == Spec => []ErrorFlagHasCode
<1>1. SlaveInv => ErrorFlagHasCode
  BY DEF SlaveInv
<1> QED
  BY <1>1, SlaveInvHolds, PTL

(* The AL and DL status registers a master reads show the slave as it is,   *)
(* but for those a master has written over since the last refresh.         *)
THEOREM RegistersCorrect == Spec => []AlRegistersFresh
<1>1. SlaveInv => AlRegistersFresh
  BY DEF SlaveInv
<1> QED
  BY <1>1, SlaveInvHolds, PTL

(* A waiting mailbox reply answers the last request written.               *)
THEOREM ReplyCorrect == Spec => []ReplyAnswersLastRequest
<1>1. SlaveInv => ReplyAnswersLastRequest
  BY DEF SlaveInv
<1> QED
  BY <1>1, SlaveInvHolds, PTL

-----------------------------------------------------------------------------
(* Requests.                                                               *)

(* All other steps leave state, error and request alone, but for the       *)
(* program's setALState, which leaves the error as it is.                  *)
KeepsState ==
  /\ slave'.al = slave.al /\ slave'.ackReq = slave.ackReq
  /\ slave'.alControl = slave.alControl

Forced ==
  /\ slave'.ackReq = slave.ackReq /\ slave'.mapped = slave.mapped
  /\ slave'.alControl = slave.alControl

LEMMA StepKinds ==
  ASSUME SlaveInv, [Next]_vars
  PROVE  (\E ctrl \in ControlWords : AlControl(ctrl)) \/ KeepsState \/ Forced
<1>0. slave \in Slaves
  BY DEF SlaveInv, TypeOK
<1>1. ASSUME NEW req \in SdoRequests, MailboxWrite(req) PROVE KeepsState
  <2>1. req \in Requests
    BY VirtualSlaveAssumption
  <2> QED
    BY <1>0, <1>1, <2>1, MailboxWriteFacts DEF MailboxWrite, KeepsState
<1>2. ASSUME Untouched(slave, slave') PROVE KeepsState
  BY <1>2 DEF Untouched, KeepsState
<1>3. ASSUME MailboxRead PROVE KeepsState
  BY <1>0, <1>2, <1>3, MinorMethods DEF MailboxRead
<1>4. ASSUME NEW full \in Sm1Writes, Sm1Write(full) PROVE KeepsState
  <2>1. full \in BOOLEAN
    BY VirtualSlaveAssumption
  <2> QED
    BY <1>0, <1>2, <1>4, <2>1, MinorMethods DEF Sm1Write
<1>5. ASSUME NEW a \in Addresses, StationAddress(a) PROVE KeepsState
  BY <1>0, <1>2, <1>5, MinorMethods DEF StationAddress
<1>6. ASSUME NEW word \in WordAddresses, EepromControl(word) PROVE KeepsState
  BY <1>0, <1>2, <1>6, MinorMethods DEF EepromControl
<1>7. ASSUME EepromData PROVE KeepsState
  BY <1>0, <1>2, <1>7, MinorMethods DEF EepromData
<1>8. ASSUME CallStart PROVE KeepsState
  BY <1>0, <1>2, <1>8, MinorMethods DEF CallStart
<1>9. ASSUME CallRoutine PROVE KeepsState
  BY <1>0, <1>9, SyncCoreFacts DEF CallRoutine, Routine, KeepsState
<1>10. ASSUME NEW on \in BOOLEAN, CallSetOnline(on) PROVE KeepsState
  BY <1>0, <1>10, SyncingMethods DEF CallSetOnline, KeepsState
<1>11. ASSUME NEW m \in BOOLEAN, CallSetInputPDOMapped(m) PROVE KeepsState
  BY <1>0, <1>2, <1>11, MinorMethods DEF CallSetInputPDOMapped
<1>12. ASSUME NEW st \in ApiStates, CallSetALState(st) PROVE Forced
  BY <1>0, <1>12, SyncingMethods, VirtualSlaveAssumption DEF CallSetALState, Forced
<1>13. ASSUME UNCHANGED vars PROVE KeepsState
  BY <1>13 DEF vars, KeepsState
<1>14. ASSUME NEW w \in StatusWrites, StatusWrite(w) PROVE KeepsState
  BY <1>0, <1>14, StatusWriteFacts, VirtualSlaveAssumption DEF StatusWrite, KeepsState
<1> QED
  BY <1>1, <1>3, <1>4, <1>5, <1>6, <1>7, <1>8, <1>9, <1>10, <1>11, <1>12, <1>13, <1>14
  DEF Next, DatagramNext, ProgramNext

(* Sending an AL_CONTROL write again changes nothing, whatever the slave   *)
(* was and whatever became of the first: handleAlControlWrite_ leaves the  *)
(* slave where the same word asks for nothing more or is refused alike.    *)
THEOREM RetryCorrect == Spec => []RetryIsHarmless
<1>1. SlaveInv => RetryIsHarmless
  <2> SUFFICES ASSUME SlaveInv, NEW ctrl \in ControlWords
               PROVE  LET once == WriteAlControl(slave, ctrl) IN
                      WriteAlControl(once, ctrl) = once
    BY DEF RetryIsHarmless
  <2>1. slave \in Slaves /\ ctrl \in AlControlWords
    BY VirtualSlaveAssumption DEF SlaveInv, TypeOK
  <2>2. WriteAlControl(slave, ctrl) \in Slaves
    BY <2>1, WriteAlControlFacts
  <2> QED
    BY <2>1, <2>2, WriteSettles, SettledWrite
<1> QED
  BY <1>1, SlaveInvHolds, PTL

(* A write with the acknowledge bit takes no slave to a lower state.       *)
THEOREM AckKeepsState == Spec => AckNeverLowers
<1>1. SlaveInv /\ SlaveInv' =>
        (AckBit(slave'.alControl) /\ AlControl(slave'.alControl)
           => Rank(slave'.al) >= Rank(slave.al))
  <2> SUFFICES ASSUME SlaveInv, SlaveInv', AckBit(slave'.alControl),
                      AlControl(slave'.alControl)
               PROVE  Rank(slave'.al) >= Rank(slave.al)
    OBVIOUS
  <2>1. /\ slave \in Slaves /\ slave'.alControl \in AlControlWords
        /\ slave' = WriteAlControl(slave, slave'.alControl)
    BY SMT DEF SlaveInv, TypeOK, Slaves, AlControl
  <2> QED
    BY <2>1, AckRaises
<1> QED
  BY <1>1, SlaveInvHolds, PTL DEF Spec, AckNeverLowers

(* No step but an acknowledgement or a change of state takes a raised      *)
(* error away.                                                             *)
THEOREM ErrorStaysLatched == Spec => ErrorLatched
<1>1. SlaveInv /\ [Next]_vars =>
        (slave.ackReq /\ ~slave'.ackReq =>
           \/ slave'.al # slave.al
           \/ AlControl(slave'.alControl) /\ AckBit(slave'.alControl))
  <2> SUFFICES ASSUME SlaveInv, [Next]_vars, slave.ackReq, ~slave'.ackReq,
                      slave'.al = slave.al
               PROVE  AlControl(slave'.alControl) /\ AckBit(slave'.alControl)
    OBVIOUS
  <2>0. slave \in Slaves
    BY DEF SlaveInv, TypeOK
  <2>1. ASSUME NEW ctrl \in ControlWords, AlControl(ctrl)
        PROVE  AlControl(slave'.alControl) /\ AckBit(slave'.alControl)
    <3>1. ctrl \in AlControlWords /\ slave' = WriteAlControl(slave, ctrl)
      BY <2>1, VirtualSlaveAssumption DEF AlControl
    <3>2. slave'.alControl = ctrl
      BY <2>0, <3>1, WriteAlControlFacts
    <3>3. CASE Quiet(slave.al, ctrl)
      <4>1. slave'.ackReq <=> slave.ackReq /\ ~AckBit(ctrl)
        BY <2>0, <3>1, <3>3, WriteAlControlFacts
      <4> QED
        BY <2>1, <3>2, <4>1
    <3>4. CASE ~Quiet(slave.al, ctrl) /\ DecodeControlState(ctrl) = "BOOT"
      BY <2>0, <3>1, <3>4, WriteAlControlFacts
    <3>5. CASE ~Quiet(slave.al, ctrl) /\ DecodeControlState(ctrl) # "BOOT"
      BY <2>0, <3>1, <3>5, WriteAlControlFacts
    <3> QED
      BY <3>3, <3>4, <3>5
  <2>2. CASE KeepsState \/ Forced
    BY <2>2 DEF KeepsState, Forced
  <2> QED
    BY <2>1, <2>2, StepKinds
<1> QED
  BY <1>1, SlaveInvHolds, PTL DEF Spec, ErrorLatched

-----------------------------------------------------------------------------
(* The slave implements AlStateMachine.                                    *)

(* The names of the abstract machine are those of the code.                *)
LEMMA EsmNames ==
  /\ Esm!States = AlStates /\ Esm!Esm = EsmStates
  /\ Esm!Targets = AlStates \union {"INVALID"}
  /\ \A st \in AlStates : Esm!Ladder[st] = Rank(st) /\ Rank(st) \in Int
<1>1. Esm!States = AlStates
  BY DEF Esm!States, Esm!Ladder, AlStates, EsmStates
<1>2. Esm!Esm = EsmStates
  BY <1>1 DEF Esm!Esm, AlStates, EsmStates
<1>3. \A st \in AlStates : Esm!Ladder[st] = Rank(st) /\ Rank(st) \in Int
  BY RankValues DEF Esm!Ladder, AlStates, EsmStates
<1> QED
  BY <1>1, <1>2, <1>3 DEF Esm!Targets

(* A way down that passes is one of the machine's.                         *)
LEMMA DescentTable ==
  ASSUME NEW al \in AlStates, NEW requested \in EsmStates, NEW m \in BOOLEAN,
         al # requested, Rank(requested) <= Rank(al)
  PROVE  Passes(al, requested, m) <=>
           /\ requested \in Esm!Below[al]
           /\ requested \in {"SAFE_OP", "OPERATIONAL"} => m
<1>1. requested \in {"INIT", "PRE_OP", "SAFE_OP", "OPERATIONAL"}
  BY DEF EsmStates
<1>2. CASE al = "PRE_OP"
  BY <1>1, <1>2, PassTable, RankValues DEF Esm!Below
<1>3. CASE al = "SAFE_OP"
  BY <1>1, <1>3, PassTable, RankValues DEF Esm!Below
<1>4. CASE al = "OPERATIONAL"
  BY <1>1, <1>4, PassTable, RankValues DEF Esm!Below
<1> QED
  BY <1>1, <1>2, <1>3, <1>4, RankValues DEF AlStates, EsmStates

(* A write of AL_CONTROL is one request of the machine.                    *)
LEMMA AlControlRequests ==
  ASSUME SlaveInv, NEW ctrl \in ControlWords, AlControl(ctrl)
  PROVE  Esm!Next
<1> DEFINE al     == slave.al
           m      == slave.mapped
           target == DecodeControlState(ctrl)
           ack    == AckBit(ctrl)
<1>1. /\ slave \in Slaves /\ slave' \in Slaves
      /\ ctrl \in AlControlWords /\ slave' = WriteAlControl(slave, ctrl)
  BY VirtualSlaveAssumption, WriteAlControlFacts DEF SlaveInv, TypeOK, AlControl
<1>2. /\ al \in AlStates /\ m \in BOOLEAN
      /\ slave.ackReq \in BOOLEAN /\ slave'.ackReq \in BOOLEAN
      /\ slave'.al \in AlStates
  BY <1>1, SMT DEF Slaves
<1>3. target \in Esm!Targets /\ ack \in BOOLEAN
  BY <1>1, DecodedState, EsmNames
<1>4. slave'.alControl = ctrl /\ slave'.mapped = m
  BY <1>1, WriteAlControlFacts
<1> SUFFICES \/ Esm!Climb(target)
             \/ ack /\ ~Esm!Above(target) /\ slave'.al = al /\ slave'.ackReq = FALSE
             \/ ~ack /\ Esm!Descend(target)
             \/ ~ack /\ Esm!Refuse(target)
             \/ /\ ~ack /\ target \in {"INVALID", al} \ {"BOOT"}
                /\ slave'.al = al /\ slave'.ackReq = slave.ackReq
  <2>1. Esm!Request(target, ack)
    BY <1>4 DEF Esm!Request
  <2> QED
    BY <1>3, <2>1 DEF Esm!Next
<1>5. Esm!Above(target) <=> target \in EsmStates /\ Rank(target) > Rank(al)
  BY <1>2, EsmNames DEF Esm!Above, AlStates
<1>6. CASE Quiet(al, ctrl)
  <2>1. slave'.al = al /\ (slave'.ackReq <=> slave.ackReq /\ ~ack)
    BY <1>1, <1>6, WriteAlControlFacts
  <2>2. CASE ack
    <3>1. ~Esm!Above(target)
      BY <1>2, <1>5, <1>6, EsmNames DEF Quiet, EsmStates, AlStates
    <3>2. slave'.ackReq = FALSE
      BY <1>2, <2>1, <2>2
    <3> QED
      BY <2>1, <2>2, <3>1, <3>2
  <2>3. CASE ~ack
    <3>1. target \in {"INVALID", al} \ {"BOOT"}
      BY <1>6, <2>3 DEF Quiet
    <3>2. slave'.ackReq = slave.ackReq
      BY <1>2, <2>1, <2>3
    <3> QED
      BY <2>1, <2>3, <3>1, <3>2
  <2> QED
    BY <2>2, <2>3
<1>7. CASE ~Quiet(al, ctrl) /\ target = "BOOT"
  <2>1. slave'.al = al /\ slave'.ackReq = TRUE
    BY <1>1, <1>2, <1>7, WriteAlControlFacts
  <2>2. ~ack
    BY <1>2, <1>7, RankValues DEF Quiet, AlStates, EsmStates
  <2>3. ~Esm!Above(target)
    BY <1>5, <1>7 DEF EsmStates
  <2>4. target \notin Esm!Below[al]
    BY <1>2, <1>7 DEF Esm!Below, AlStates, EsmStates
  <2>5. Esm!Refuse(target)
    BY <1>7, <2>1, <2>3, <2>4 DEF Esm!Refuse
  <2> QED
    BY <2>2, <2>5
<1>8. CASE ~Quiet(al, ctrl) /\ target # "BOOT"
  <2>1. /\ target \in EsmStates /\ al # target
        /\ ack => Rank(target) > Rank(al)
        /\ slave'.al = Outcome(al, target, m)
        /\ slave'.ackReq <=> slave'.al # target
    BY <1>1, <1>8, WriteAlControlFacts
  <2> HIDE DEF target, ack
  <2>2. CASE Rank(target) > Rank(al)
    <3>1. slave'.al \in Esm!Reachable(target)
      <4>1. slave'.al = al \/ (al # "BOOT" /\ slave'.al \in Admitted(al, target, m))
        BY <1>2, <2>1, <2>2, OutcomeFacts
      <4> QED
        BY <1>2, <2>1, <4>1, EsmNames DEF Admitted, Esm!Reachable, Esm!CanHold, AlStates
    <3>2. ASSUME NEW st \in Esm!Reachable(target)
          PROVE  Esm!Ladder[st] <= Esm!Ladder[slave'.al]
      <4>1. \/ st = al
            \/ al # "BOOT" /\ st \in Admitted(al, target, m)
        BY <1>2, <2>1, <3>2, EsmNames
        DEF Admitted, Esm!Reachable, Esm!CanHold, AlStates
      <4>2. CASE st = al
        <5>1. Rank(al) <= Rank(slave'.al)
          <6>1. slave'.al = al \/ slave'.al \in Admitted(al, target, m)
            BY <1>2, <2>1, <2>2, OutcomeFacts
          <6> QED
            BY <1>2, <6>1, EsmNames DEF Admitted, AlStates
        <5> QED
          BY <1>2, <4>2, <5>1, EsmNames
      <4>3. CASE al # "BOOT" /\ st \in Admitted(al, target, m)
        <5>1. Rank(st) <= Rank(slave'.al)
          BY <1>2, <2>1, <2>2, <4>3, OutcomeFacts
        <5>2. st \in AlStates
          BY <4>3 DEF Admitted, AlStates
        <5> QED
          BY <1>2, <5>1, <5>2, EsmNames
      <4> QED
        BY <4>1, <4>2, <4>3
    <3>3. slave'.ackReq = (slave'.al # target)
      BY <1>2, <2>1
    <3> QED
      BY <1>5, <2>1, <2>2, <3>1, <3>2, <3>3 DEF Esm!Climb
  <2>3. CASE Rank(target) <= Rank(al)
    <3>1. slave'.al = IF Passes(al, target, m) THEN target ELSE al
      BY <1>2, <2>1, <2>3, OutcomeFacts
    <3>2. Passes(al, target, m) <=> target \in Esm!Below[al] /\ Esm!CanHold(target)
      BY <1>2, <2>1, <2>3, DescentTable DEF Esm!CanHold
    <3>3. ~(Rank(target) > Rank(al))
      BY <1>2, <2>1, <2>3, EsmNames DEF AlStates
    <3>4. ~ack /\ ~Esm!Above(target)
      BY <1>5, <2>1, <3>3
    <3>5. CASE Passes(al, target, m)
      <4>1. slave'.ackReq = FALSE /\ slave'.al = target
        BY <1>2, <2>1, <3>1, <3>5
      <4> QED
        BY <3>2, <3>4, <3>5, <4>1 DEF Esm!Descend
    <3>6. CASE ~Passes(al, target, m)
      <4>1. slave'.ackReq = TRUE /\ slave'.al = al
        BY <1>2, <2>1, <3>1, <3>6
      <4>2. target \notin {"INVALID", al}
        BY <2>1 DEF EsmStates
      <4> QED
        BY <3>2, <3>4, <3>6, <4>1, <4>2 DEF Esm!Refuse
    <3> QED
      BY <3>5, <3>6
  <2>4. Rank(target) \in Int /\ Rank(al) \in Int
    BY <1>2, <2>1, EsmNames DEF AlStates
  <2>5. Rank(target) > Rank(al) \/ Rank(target) <= Rank(al)
    BY <2>4
  <2> QED
    BY <2>2, <2>3, <2>5, Zenon
<1> QED
  BY <1>6, <1>7, <1>8

(* However it is driven, the slave behaves as the abstract state machine:  *)
(* an AL_CONTROL write is a request, a change of the mapping a remapping,  *)
(* setALState a forced state, and everything else a stuttering step.       *)
THEOREM SlaveImplementsStateMachine == Spec => ImplementsAlStateMachine
<1>1. Init => Esm!Init
  <2> SUFFICES ASSUME NEW a \in Addresses, slave = NewSlave(a)
               PROVE  Esm!Init
    BY DEF Init
  <2>1. DecodeControlState(0) = "INVALID" /\ AckBit(0) = FALSE
    BY DEF DecodeControlState, AckBit
  <2>2. slave.al = "INIT" /\ slave.ackReq = FALSE /\ slave.mapped = FALSE
        /\ slave.alControl = 0
    BY DEF NewSlave
  <2> QED
    BY <2>1, <2>2 DEF Esm!Init
<1>2. SlaveInv /\ SlaveInv' /\ [Next]_vars => [Esm!Next]_(Esm!vars)
  <2> SUFFICES ASSUME SlaveInv, SlaveInv', [Next]_vars
               PROVE  Esm!Next \/ UNCHANGED Esm!vars
    BY DEF Esm!vars
  <2>1. ASSUME NEW ctrl \in ControlWords, AlControl(ctrl)
        PROVE  Esm!Next
    BY <2>1, AlControlRequests
  <2>2. slave'.mapped \in BOOLEAN /\ slave'.al \in AlStates
    BY SMT DEF SlaveInv, TypeOK, Slaves
  <2>3. CASE KeepsState
    <3>1. Esm!Remap
      BY <2>2, <2>3 DEF KeepsState, Esm!Remap
    <3> QED
      BY <3>1 DEF Esm!Next
  <2>4. CASE Forced
    <3>1. Esm!Force
      BY <2>2, <2>4, EsmNames DEF Forced, Esm!Force
    <3> QED
      BY <3>1 DEF Esm!Next
  <2> QED
    BY <2>1, <2>3, <2>4, StepKinds
<1> QED
  BY <1>1, <1>2, SlaveInvHolds, PTL DEF Spec, ImplementsAlStateMachine, Esm!Spec
=============================================================================
