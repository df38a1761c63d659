--------------------------- MODULE SlaveOpsProofs ---------------------------
(***************************************************************************)
(* What the methods of a slave do, for every slave, control word and       *)
(* request: the facts that the proofs about one slave (VirtualSlave) and   *)
(* about a registry of slaves (NetworkSimulator) rest on.                  *)
(***************************************************************************)
EXTENDS SlaveOps, TLAPS

-----------------------------------------------------------------------------
(* Lemmas about the operators of SlaveOps.                                 *)

(* A control word always decodes to a state or to INVALID.                 *)
LEMMA DecodedState ==
  ASSUME NEW ctrl \in AlControlWords
  PROVE  /\ DecodeControlState(ctrl) \in AlStates \union {"INVALID"}
         /\ AckBit(ctrl) \in BOOLEAN
<1>1. ctrl % 16 \in 0..15
  BY SMTT(30) DEF AlControlWords
<1>2. DecodeControlState(ctrl) \in AlStates \union {"INVALID"}
  BY <1>1 DEF DecodeControlState, AlStates, EsmStates
<1> QED
  BY <1>2, SMTT(30) DEF AckBit

(* syncCoreRegisters_ touches the three registers and nothing else.        *)
LEMMA SyncCoreFacts ==
  ASSUME NEW s \in Slaves
  PROVE  LET t == SyncCoreRegisters(s) IN
         /\ t \in Slaves
         /\ t.regAl = [state |-> s.al, error |-> s.ackReq]
         /\ t.regCode = s.code /\ t.regDl = s.online
         /\ t.al = s.al /\ t.code = s.code /\ t.ackReq = s.ackReq
         /\ t.mapped = s.mapped /\ t.online = s.online /\ t.alControl = s.alControl
         /\ t.haveReply = s.haveReply /\ t.mbOut = s.mbOut
<1>1. /\ [state |-> s.al, error |-> s.ackReq] \in AlStatusWords
      /\ s.online \in BOOLEAN /\ s.code \in AlCodes
  BY SMT DEF Slaves, AlStatusWords
<1>2. SyncCoreRegisters(s) \in Slaves
  BY <1>1, Zenon DEF Slaves, SyncCoreRegisters
<1> QED
  BY <1>2, SMT DEF Slaves, SyncCoreRegisters

(* signalError_ raises flag and code, refreshes the registers and leaves   *)
(* the state.                                                              *)
LEMMA SignalErrorFacts ==
  ASSUME NEW s \in Slaves, NEW c \in AlCodes
  PROVE  LET t == SignalError(s, c) IN
         /\ t \in Slaves
         /\ t.regAl = [state |-> s.al, error |-> TRUE]
         /\ t.regCode = c /\ t.regDl = s.online
         /\ t.al = s.al /\ t.code = c /\ t.ackReq = TRUE
         /\ t.mapped = s.mapped /\ t.online = s.online /\ t.alControl = s.alControl
         /\ t.haveReply = s.haveReply /\ t.mbOut = s.mbOut
<1> DEFINE u == [s EXCEPT !.code = c, !.ackReq = TRUE]
<1>1. u \in Slaves
  BY Zenon DEF Slaves
<1>2. /\ u.al = s.al /\ u.code = c /\ u.ackReq = TRUE
      /\ u.mapped = s.mapped /\ u.online = s.online /\ u.alControl = s.alControl
      /\ u.haveReply = s.haveReply /\ u.mbOut = s.mbOut
  BY SMT DEF Slaves
<1>3. SignalError(s, c) = SyncCoreRegisters(u)
  BY DEF SignalError
<1> HIDE DEF u
<1> QED
  BY <1>1, <1>2, <1>3, SyncCoreFacts, ZenonT(60)

(* An entry action changes the state and, for INIT, drops the error flag   *)
(* and the waiting reply.                                                  *)
LEMMA ApplyFacts ==
  ASSUME NEW s \in Slaves, NEW target \in EsmStates
  PROVE  LET t == ApplyStateTransition(s, target) IN
         /\ t \in Slaves
         /\ t.al = target
         /\ t.mapped = s.mapped /\ t.online = s.online /\ t.alControl = s.alControl
         /\ t.mbOut = s.mbOut
         /\ t.haveReply => s.haveReply
         /\ t.regDl = s.regDl
<1>1. /\ target \in AlStates /\ "INIT" \in AlStates
      /\ FALSE \in BOOLEAN
  BY DEF AlStates, EsmStates
<1>2. [s EXCEPT !.al = target] \in Slaves
  BY <1>1, Zenon DEF Slaves
<1>3. [s EXCEPT !.al = "INIT", !.ackReq = FALSE, !.haveReply = FALSE] \in Slaves
  BY <1>1, Zenon DEF Slaves
<1>4. ApplyStateTransition(s, target) \in Slaves
  BY <1>2, <1>3 DEF ApplyStateTransition, EnterState
<1> QED
  BY <1>4, SMT DEF Slaves, ApplyStateTransition, EnterState

-----------------------------------------------------------------------------
(* The loop of handleAlControlWrite_.                                      *)

Climbers == [slave : Slaves, refused : BOOLEAN]

(* The rung a turn aims at, and whether it gets there.                     *)
Aim(al, requested) == IF Rank(requested) > Rank(al) THEN NextStateUp(al) ELSE requested
Passes(al, requested, m) ==
  /\ Aim(al, requested) \in AllowedFrom[al]
  /\ Aim(al, requested) \in {"SAFE_OP", "OPERATIONAL"} => m

(* A turn that passes reaches the request or climbs one rung, staying below *)
(* the request; from BOOT it never passes.                                 *)
LEMMA AimFacts ==
  ASSUME NEW al \in AlStates, NEW requested \in EsmStates, al # requested,
         Aim(al, requested) \in AllowedFrom[al], Aim(al, requested) # requested
  PROVE  /\ Aim(al, requested) \in EsmStates
         /\ Rank(Aim(al, requested)) = Rank(al) + 1
         /\ Rank(al) >= 1
         /\ Rank(Aim(al, requested)) < 4
BY DEF Aim, AllowedFrom, NextStateUp, Rank, AlStates, EsmStates

(* Where a turn takes the state, and where the loop does.                  *)
After(al, requested, m) ==
  IF al # requested /\ Passes(al, requested, m) THEN Aim(al, requested) ELSE al

Outcome(al, requested, m) ==
  After(After(After(al, requested, m), requested, m), requested, m)

(* The rungs from al up to requested that the mapping admits.              *)
Admitted(al, requested, m) ==
  {st \in EsmStates : /\ Rank(al) < Rank(st) /\ Rank(st) <= Rank(requested)
                      /\ st \in {"SAFE_OP", "OPERATIONAL"} => m}

(* The order of the states, and one turn from each of them.                *)
LEMMA RankValues ==
  /\ Rank("BOOT") = 0 /\ Rank("INIT") = 1 /\ Rank("PRE_OP") = 2
  /\ Rank("SAFE_OP") = 3 /\ Rank("OPERATIONAL") = 4 /\ Rank("INVALID") = 0
BY DEF Rank

LEMMA PassTable ==
  ASSUME NEW requested \in EsmStates, NEW m \in BOOLEAN
  PROVE  /\ ~Passes("BOOT", requested, m)
         /\ Passes("INIT", requested, m)
         /\ Passes("PRE_OP", requested, m) <=> requested \in {"INIT", "PRE_OP"} \/ m
         /\ Passes("SAFE_OP", requested, m) <=> requested \in {"INIT", "PRE_OP"} \/ m
         /\ Passes("OPERATIONAL", requested, m) <=>
              requested = "INIT" \/ (requested \in {"SAFE_OP", "OPERATIONAL"} /\ m)
<1> USE DEF Passes, Aim, NextStateUp
<1>1. /\ AllowedFrom["BOOT"] = {"INIT"}
      /\ AllowedFrom["INIT"] = {"INIT", "PRE_OP"}
      /\ AllowedFrom["PRE_OP"] = {"INIT", "PRE_OP", "SAFE_OP"}
      /\ AllowedFrom["SAFE_OP"] = {"INIT", "PRE_OP", "SAFE_OP", "OPERATIONAL"}
      /\ AllowedFrom["OPERATIONAL"] = {"INIT", "SAFE_OP", "OPERATIONAL"}
  BY DEF AllowedFrom
<1>2. requested \in {"INIT", "PRE_OP", "SAFE_OP", "OPERATIONAL"}
  BY DEF EsmStates
<1>3. ~Passes("BOOT", requested, m)
  BY <1>1, <1>2, RankValues
<1>4. Passes("INIT", requested, m)
  BY <1>1, <1>2, RankValues
<1>5. Passes("PRE_OP", requested, m) <=> requested \in {"INIT", "PRE_OP"} \/ m
  BY <1>1, <1>2, RankValues
<1>6. Passes("SAFE_OP", requested, m) <=> requested \in {"INIT", "PRE_OP"} \/ m
  BY <1>1, <1>2, RankValues
<1>7. Passes("OPERATIONAL", requested, m) <=>
        requested = "INIT" \/ (requested \in {"SAFE_OP", "OPERATIONAL"} /\ m)
  BY <1>1, <1>2, RankValues
<1> QED
  BY <1>3, <1>4, <1>5, <1>6, <1>7

LEMMA AfterTable ==
  ASSUME NEW requested \in EsmStates, NEW m \in BOOLEAN
  PROVE  /\ After("BOOT", requested, m) = "BOOT"
         /\ After("INIT", requested, m) = IF requested = "INIT" THEN "INIT" ELSE "PRE_OP"
         /\ After("PRE_OP", requested, m) =
              IF requested = "INIT" THEN "INIT"
              ELSE IF requested # "PRE_OP" /\ m THEN "SAFE_OP" ELSE "PRE_OP"
         /\ After("SAFE_OP", requested, m) =
              IF requested \in {"INIT", "PRE_OP"} \/ m THEN requested ELSE "SAFE_OP"
         /\ After("OPERATIONAL", requested, m) =
              IF requested = "INIT" \/ (requested = "SAFE_OP" /\ m)
              THEN requested ELSE "OPERATIONAL"
<1>1. /\ Aim("INIT", requested) = IF requested = "INIT" THEN "INIT" ELSE "PRE_OP"
      /\ Aim("PRE_OP", requested) =
           IF requested \in {"INIT", "PRE_OP"} THEN requested ELSE "SAFE_OP"
      /\ Aim("SAFE_OP", requested) = requested
      /\ Aim("OPERATIONAL", requested) = requested
  BY DEF Aim, NextStateUp, Rank, EsmStates
<1>2. requested \in {"INIT", "PRE_OP", "SAFE_OP", "OPERATIONAL"}
  BY DEF EsmStates
<1> QED
  BY <1>1, <1>2, PassTable DEF After

(* The loop climbs to the highest rung admitted, goes down to the request  *)
(* in one turn or not at all, never moves from BOOT towards a higher state *)
(* and would not move again.                                               *)
LEMMA OutcomeFacts ==
  ASSUME NEW al \in AlStates, NEW requested \in EsmStates, NEW m \in BOOLEAN,
         al # requested
  PROVE  LET o == Outcome(al, requested, m) IN
         /\ o \in AlStates
         /\ Rank(requested) > Rank(al) /\ al # "BOOT" =>
              /\ o = al \/ o \in Admitted(al, requested, m)
              /\ \A st \in Admitted(al, requested, m) : Rank(st) <= Rank(o)
         /\ Rank(requested) > Rank(al) /\ al = "BOOT" => o = al
         /\ Rank(requested) <= Rank(al) =>
              o = IF Passes(al, requested, m) THEN requested ELSE al
         /\ o # requested => ~Passes(o, requested, m)
<1> DEFINE o == Outcome(al, requested, m)
<1>0. requested \in {"INIT", "PRE_OP", "SAFE_OP", "OPERATIONAL"}
  BY DEF EsmStates
<1>1. CASE al = "BOOT"
  <2>1. o = "BOOT"
    BY <1>1, AfterTable DEF Outcome
  <2> QED
    BY <1>0, <1>1, <2>1, PassTable, RankValues
<1>2. CASE al = "INIT"
  <2>1. o = IF requested = "PRE_OP" \/ ~m THEN "PRE_OP" ELSE requested
    <3>1. After(al, requested, m) = "PRE_OP"
      BY <1>2, AfterTable
    <3>2. After("PRE_OP", requested, m) =
            IF requested = "PRE_OP" \/ ~m THEN "PRE_OP" ELSE "SAFE_OP"
      BY <1>2, AfterTable
    <3> QED
      BY <1>0, <1>2, <3>1, <3>2, AfterTable DEF Outcome
  <2> HIDE DEF o
  <2>2. o \in Admitted(al, requested, m)
    BY <1>0, <1>2, <2>1, RankValues DEF Admitted, EsmStates
  <2>3. \A st \in Admitted(al, requested, m) : Rank(st) <= Rank(o)
    BY <1>0, <1>2, <2>1, RankValues DEF Admitted, EsmStates
  <2>4. o # requested => ~Passes(o, requested, m)
    BY <1>0, <1>2, <2>1, PassTable
  <2>5. Rank(requested) > Rank(al)
    BY <1>0, <1>2, RankValues
  <2>6. o \in AlStates
    BY <1>0, <2>1 DEF AlStates, EsmStates
  <2>7. ~(Rank(requested) <= Rank(al))
    BY <1>0, <1>2, RankValues
  <2> QED
    BY <1>2, <2>2, <2>3, <2>4, <2>5, <2>6, <2>7 DEF o
<1>3. CASE al = "PRE_OP"
  <2>1. o = IF requested = "INIT" THEN "INIT" ELSE IF m THEN requested ELSE "PRE_OP"
    BY <1>0, <1>3, AfterTable DEF Outcome
  <2> HIDE DEF o
  <2>2. o = al \/ o \in Admitted(al, requested, m) \/ requested = "INIT"
    BY <1>0, <1>3, <2>1, RankValues DEF Admitted, EsmStates
  <2>3. requested # "INIT" => \A st \in Admitted(al, requested, m) : Rank(st) <= Rank(o)
    BY <1>0, <1>3, <2>1, RankValues DEF Admitted, EsmStates
  <2>4. o # requested => ~Passes(o, requested, m)
    BY <1>0, <1>3, <2>1, PassTable
  <2>5. Rank(requested) > Rank(al) <=> requested # "INIT"
    BY <1>0, <1>3, RankValues
  <2>6. Rank(requested) <= Rank(al) <=> requested = "INIT"
    BY <1>0, <1>3, RankValues
  <2>7. o \in AlStates
    BY <1>0, <2>1 DEF AlStates, EsmStates
  <2> QED
    BY <1>3, <2>1, <2>2, <2>3, <2>4, <2>5, <2>6, <2>7, PassTable DEF o
<1>4. CASE al = "SAFE_OP"
  <2>1. o = IF requested \in {"INIT", "PRE_OP"} \/ m THEN requested ELSE "SAFE_OP"
    BY <1>0, <1>4, AfterTable DEF Outcome
  <2> HIDE DEF o
  <2>2. o = al \/ o \in Admitted(al, requested, m) \/ requested # "OPERATIONAL"
    BY <1>0, <1>4, <2>1, RankValues DEF Admitted, EsmStates
  <2>3. requested = "OPERATIONAL" =>
          \A st \in Admitted(al, requested, m) : Rank(st) <= Rank(o)
    BY <1>0, <1>4, <2>1, RankValues DEF Admitted, EsmStates
  <2>4. o # requested => ~Passes(o, requested, m)
    BY <1>0, <1>4, <2>1, PassTable
  <2>5. Rank(requested) > Rank(al) <=> requested = "OPERATIONAL"
    BY <1>0, <1>4, RankValues
  <2>6. Rank(requested) <= Rank(al) <=> requested # "OPERATIONAL"
    BY <1>0, <1>4, RankValues
  <2>7. o \in AlStates
    BY <1>0, <2>1 DEF AlStates, EsmStates
  <2> QED
    BY <1>0, <1>4, <2>1, <2>2, <2>3, <2>4, <2>5, <2>6, <2>7, PassTable DEF o
<1>5. CASE al = "OPERATIONAL"
  <2>1. o = IF requested = "INIT" \/ (requested = "SAFE_OP" /\ m)
            THEN requested ELSE "OPERATIONAL"
    BY <1>0, <1>5, AfterTable DEF Outcome
  <2> HIDE DEF o
  <2>2. o # requested => ~Passes(o, requested, m)
    BY <1>0, <1>5, <2>1, PassTable
  <2>3. Rank(requested) <= Rank(al) /\ ~(Rank(requested) > Rank(al))
    BY <1>0, <1>5, RankValues
  <2>4. o \in AlStates
    BY <1>0, <2>1 DEF AlStates, EsmStates
  <2> QED
    BY <1>0, <1>5, <2>1, <2>2, <2>3, <2>4, PassTable DEF o
<1> QED
  BY <1>1, <1>2, <1>3, <1>4, <1>5 DEF AlStates, EsmStates

(* One turn, in terms of the state alone; the rest of the slave the later  *)
(* proofs look at is left as it was, and a refusal leaves the error raised *)
(* and the registers fresh.                                                *)
LEMMA TurnFacts ==
  ASSUME NEW r \in Climbers, NEW requested \in EsmStates
  PROVE  LET t    == Turn(r, requested)
             idle == r.refused \/ r.slave.al = requested
             pass == Passes(r.slave.al, requested, r.slave.mapped)
         IN
         /\ t \in Climbers
         /\ idle => t = r
         /\ ~idle /\ pass =>
              t.refused = FALSE /\ t.slave.al = Aim(r.slave.al, requested)
         /\ ~idle /\ ~pass =>
              /\ t.refused = TRUE /\ t.slave.al = r.slave.al
              /\ t.slave.ackReq = TRUE /\ t.slave.code = InvalidStateChange
              /\ t.slave.regAl = [state |-> t.slave.al, error |-> TRUE]
              /\ t.slave.regCode = InvalidStateChange
              /\ t.slave.regDl = t.slave.online
         /\ t.slave.mapped = r.slave.mapped /\ t.slave.online = r.slave.online
         /\ t.slave.alControl = r.slave.alControl /\ t.slave.mbOut = r.slave.mbOut
         /\ t.slave.haveReply => r.slave.haveReply
<1> DEFINE s    == r.slave
           idle == r.refused \/ s.al = requested
           pass == Passes(s.al, requested, s.mapped)
           aim  == Aim(s.al, requested)
<1>1. /\ s \in Slaves /\ r.refused \in BOOLEAN
      /\ s.al \in AlStates /\ s.mapped \in BOOLEAN
  BY SMT DEF Climbers, Slaves
<1>2. InvalidStateChange \in AlCodes
  BY DEF AlCodes
<1>3. s.al # requested /\ pass => aim \in EsmStates
  BY <1>1 DEF Aim, Passes, AllowedFrom, NextStateUp, Rank, AlStates, EsmStates
<1>4. pass <=> aim \in AllowedFrom[s.al] /\ PreconditionsMet(s, aim)
  BY <1>1 DEF Aim, Passes, AllowedFrom, NextStateUp, Rank, AlStates, EsmStates, PreconditionsMet
<1>5. CASE idle
  BY <1>1, <1>5 DEF Turn
<1>6. CASE ~idle /\ pass
  <2> DEFINE u == ApplyStateTransition(s, aim)
  <2>1. Turn(r, requested) = [slave |-> u, refused |-> FALSE]
    BY <1>4, <1>6 DEF Turn, Aim
  <2>2. /\ u \in Slaves /\ u.al = aim /\ u.mapped = s.mapped /\ u.online = s.online
        /\ u.alControl = s.alControl /\ u.mbOut = s.mbOut
        /\ u.haveReply => s.haveReply
    BY <1>1, <1>3, <1>6, ApplyFacts
  <2> HIDE DEF u
  <2>3. [slave |-> u, refused |-> FALSE] \in Climbers
    BY <2>2 DEF Climbers
  <2> QED
    BY <1>6, <2>1, <2>2, <2>3
<1>7. CASE ~idle /\ ~pass
  <2> DEFINE u == SignalError(s, InvalidStateChange)
  <2>1. Turn(r, requested) = [slave |-> u, refused |-> TRUE]
    BY <1>4, <1>7 DEF Turn, Aim
  <2>2. /\ u \in Slaves
        /\ u.regAl = [state |-> s.al, error |-> TRUE]
        /\ u.regCode = InvalidStateChange /\ u.regDl = s.online
        /\ u.al = s.al /\ u.code = InvalidStateChange /\ u.ackReq = TRUE
        /\ u.mapped = s.mapped /\ u.online = s.online /\ u.alControl = s.alControl
        /\ u.haveReply = s.haveReply /\ u.mbOut = s.mbOut
    BY <1>1, <1>2, SignalErrorFacts
  <2> HIDE DEF u
  <2>3. [slave |-> u, refused |-> TRUE] \in Climbers
    BY <2>2 DEF Climbers
  <2>4. u.regAl = [state |-> u.al, error |-> TRUE] /\ u.regDl = u.online
    BY <2>2
  <2>5. Turn(r, requested).slave = u /\ Turn(r, requested).refused = TRUE
    BY <2>1
  <2> QED
    BY <1>7, <2>1, <2>2, <2>3, <2>4, <2>5
<1> QED
  BY <1>5, <1>6, <1>7

(* A turn that may not pass raises the error where the slave is.           *)
LEMMA TurnRefuses ==
  ASSUME NEW s \in Slaves, NEW requested \in EsmStates,
         s.al # requested, ~Passes(s.al, requested, s.mapped)
  PROVE  Turn([slave |-> s, refused |-> FALSE], requested) =
           [slave |-> SignalError(s, InvalidStateChange), refused |-> TRUE]
<1>1. s.al \in AlStates /\ s.mapped \in BOOLEAN
  BY SMT DEF Slaves
<1>2. ~(Aim(s.al, requested) \in AllowedFrom[s.al] /\ PreconditionsMet(s, Aim(s.al, requested)))
  BY <1>1 DEF Aim, Passes, AllowedFrom, NextStateUp, Rank, AlStates, EsmStates, PreconditionsMet
<1> QED
  BY <1>2 DEF Turn, Aim

(* Three turns end the loop: the slave is at the requested state or has    *)
(* refused on the way, with the error raised.                              *)
LEMMA LoopEnds ==
  ASSUME NEW s \in Slaves, NEW requested \in EsmStates
  PROVE  LET e == Turns(s, requested) IN
         /\ e \in Climbers
         /\ e.slave.al = Outcome(s.al, requested, s.mapped)
         /\ ~e.refused => e.slave.al = requested
         /\ e.refused =>
              /\ e.slave.al # requested
              /\ e.slave.ackReq = TRUE /\ e.slave.code = InvalidStateChange
              /\ e.slave.regAl = [state |-> e.slave.al, error |-> TRUE]
              /\ e.slave.regCode = InvalidStateChange
              /\ e.slave.regDl = e.slave.online
         /\ e.slave.mapped = s.mapped /\ e.slave.online = s.online
         /\ e.slave.alControl = s.alControl /\ e.slave.mbOut = s.mbOut
         /\ e.slave.haveReply => s.haveReply
<1> DEFINE r0 == [slave |-> s, refused |-> FALSE]
           r1 == Turn(r0, requested)
           r2 == Turn(r1, requested)
           r3 == Turn(r2, requested)
<1>1. r0 \in Climbers /\ r0.slave = s /\ r0.refused = FALSE
  BY DEF Climbers
<1>2. s.al \in AlStates /\ s.mapped \in BOOLEAN
  BY SMT DEF Slaves
<1>3. Turns(s, requested) = r3
  BY DEF Turns
<1> HIDE DEF r0
<1>4. r1 \in Climbers
  BY <1>1, TurnFacts
<1>5. r2 \in Climbers
  BY <1>4, TurnFacts
<1>6. r3 \in Climbers
  BY <1>5, TurnFacts
<1> DEFINE Kept(r) ==
             /\ r.slave.mapped = s.mapped /\ r.slave.online = s.online
             /\ r.slave.alControl = s.alControl /\ r.slave.mbOut = s.mbOut
             /\ r.slave.haveReply => s.haveReply
             /\ r.refused =>
                  /\ r.slave.al # requested
                  /\ ~Passes(r.slave.al, requested, s.mapped)
                  /\ r.slave.ackReq = TRUE /\ r.slave.code = InvalidStateChange
                  /\ r.slave.regAl = [state |-> r.slave.al, error |-> TRUE]
                  /\ r.slave.regCode = InvalidStateChange
                  /\ r.slave.regDl = r.slave.online
<1>7. ASSUME NEW r \in Climbers, Kept(r)
      PROVE  Kept(Turn(r, requested))
  BY <1>7, TurnFacts
<1>8. Kept(r0)
  BY <1>1
<1>9. Kept(r1) /\ Kept(r2) /\ Kept(r3)
  <2>1. Kept(r1)
    BY <1>1, <1>7, <1>8
  <2>2. Kept(r2)
    BY <1>4, <1>7, <2>1
  <2> QED
    BY <1>5, <1>7, <2>1, <2>2
<1>10. r3.slave.al = Outcome(s.al, requested, s.mapped)
  <2>1. ASSUME NEW r \in Climbers, Kept(r)
        PROVE  Turn(r, requested).slave.al = After(r.slave.al, requested, s.mapped)
    BY <2>1, TurnFacts DEF After
  <2>2. r1.slave.al = After(s.al, requested, s.mapped)
    BY <1>1, <1>8, <2>1
  <2>3. r2.slave.al = After(r1.slave.al, requested, s.mapped)
    BY <1>4, <1>9, <2>1
  <2>4. r3.slave.al = After(r2.slave.al, requested, s.mapped)
    BY <1>5, <1>9, <2>1
  <2> QED
    BY <2>2, <2>3, <2>4 DEF Outcome
<1>11. r3.refused \/ r3.slave.al = requested
  <2> SUFFICES ASSUME ~r3.refused, r3.slave.al # requested
               PROVE  FALSE
    OBVIOUS
  <2> DEFINE Rung(r) == Aim(r.slave.al, requested)
  <2>1. ASSUME NEW r \in Climbers, ~Turn(r, requested).refused,
               Turn(r, requested).slave.al # requested
        PROVE  /\ ~r.refused /\ r.slave.al # requested
               /\ r.slave.al \in AlStates
               /\ Turn(r, requested).slave.al = Rung(r)
               /\ Rung(r) \in AllowedFrom[r.slave.al]
    <3>1. r.slave.al \in AlStates
      BY SMT DEF Climbers, Slaves
    <3>2. ~(r.refused \/ r.slave.al = requested)
      BY <2>1, TurnFacts
    <3>3. Passes(r.slave.al, requested, r.slave.mapped)
      BY <2>1, <3>2, TurnFacts
    <3>4. Turn(r, requested).slave.al = Rung(r)
      BY <2>1, <3>2, <3>3, TurnFacts
    <3> QED
      BY <3>1, <3>2, <3>3, <3>4 DEF Passes
  <2>2. r3.slave.al = Rung(r2) /\ Rung(r2) \in AllowedFrom[r2.slave.al]
        /\ ~r2.refused /\ r2.slave.al # requested /\ r2.slave.al \in AlStates
    BY <1>5, <2>1
  <2>3. r2.slave.al = Rung(r1) /\ Rung(r1) \in AllowedFrom[r1.slave.al]
        /\ ~r1.refused /\ r1.slave.al # requested /\ r1.slave.al \in AlStates
    BY <1>4, <2>1, <2>2
  <2>4. r1.slave.al = Rung(r0) /\ Rung(r0) \in AllowedFrom[r0.slave.al]
        /\ r0.slave.al # requested /\ r0.slave.al \in AlStates
    BY <1>1, <2>1, <2>3
  <2>5. Rank(r1.slave.al) = Rank(r0.slave.al) + 1 /\ Rank(r0.slave.al) >= 1
    BY <2>3, <2>4, AimFacts
  <2>6. Rank(r2.slave.al) = Rank(r1.slave.al) + 1
    BY <2>2, <2>3, AimFacts
  <2>7. Rank(r3.slave.al) = Rank(r2.slave.al) + 1 /\ Rank(r3.slave.al) < 4
    BY <2>2, AimFacts
  <2> QED
    BY <2>4, <2>5, <2>6, <2>7 DEF Rank, AlStates, EsmStates
<1> QED
  BY <1>3, <1>6, <1>9, <1>10, <1>11

(* The loop of handleAlControlWrite_ is over after three turns, whatever   *)
(* state it begins in and whatever is requested: one more changes nothing. *)
THEOREM ThreeTurnsSuffice ==
  \A s \in Slaves, requested \in EsmStates :
    Turn(Turns(s, requested), requested) = Turns(s, requested)
<1> SUFFICES ASSUME NEW s \in Slaves, NEW requested \in EsmStates
             PROVE  Turn(Turns(s, requested), requested) = Turns(s, requested)
  OBVIOUS
<1> DEFINE e == Turns(s, requested)
<1>1. e \in Climbers /\ (e.refused \/ e.slave.al = requested)
  BY LoopEnds
<1> HIDE DEF e
<1>2. Turn(e, requested) = e
  BY <1>1, TurnFacts
<1> QED
  BY <1>2 DEF e

-----------------------------------------------------------------------------
(* AL_CONTROL as a whole.                                                  *)

RegistersFresh(s) ==
  /\ s.regAl = [state |-> s.al, error |-> s.ackReq]
  /\ s.regCode = s.code
  /\ s.regDl = s.online

Coherent(s) == s.ackReq <=> s.code # NoError

(* The writes that ask nothing of the state machine.                       *)
Quiet(al, ctrl) ==
  LET requested == DecodeControlState(ctrl) IN
  \/ AckBit(ctrl) /\ (requested = "INVALID" \/ Rank(requested) <= Rank(al))
  \/ requested = "INVALID"
  \/ requested = al /\ requested # "BOOT"

(* The copy of the raw word, and what an acknowledgement clears.           *)
Cleared(s, ctrl) ==
  IF AckBit(ctrl)
  THEN [s EXCEPT !.alControl = ctrl, !.ackReq = FALSE, !.code = NoError]
  ELSE [s EXCEPT !.alControl = ctrl]

LEMMA ClearedFacts ==
  ASSUME NEW s \in Slaves, NEW ctrl \in AlControlWords
  PROVE  LET u == Cleared(s, ctrl) IN
         /\ u \in Slaves
         /\ u.alControl = ctrl
         /\ u.ackReq <=> s.ackReq /\ ~AckBit(ctrl)
         /\ u.code = IF AckBit(ctrl) THEN NoError ELSE s.code
         /\ u.al = s.al /\ u.online = s.online /\ u.mapped = s.mapped
         /\ u.mbOut = s.mbOut /\ u.haveReply = s.haveReply
<1>1. NoError \in AlCodes
  BY DEF AlCodes
<1>2. [s EXCEPT !.alControl = ctrl, !.ackReq = FALSE, !.code = NoError] \in Slaves
  BY <1>1, Zenon DEF Slaves
<1>3. [s EXCEPT !.alControl = ctrl] \in Slaves
  BY Zenon DEF Slaves
<1> QED
  BY <1>2, <1>3, SMT DEF Slaves, Cleared

(* The three ways through handleAlControlWrite_.                           *)
LEMMA WriteAlControlPaths ==
  ASSUME NEW s \in Slaves, NEW ctrl \in AlControlWords
  PROVE  LET requested == DecodeControlState(ctrl)
             u == Cleared(s, ctrl)
             end == Turns(u, requested)
             t == WriteAlControl(s, ctrl)
         IN
         /\ Quiet(s.al, ctrl) => t = SyncCoreRegisters(u)
         /\ ~Quiet(s.al, ctrl) /\ requested = "BOOT" => t = SignalError(u, BootNotSupported)
         /\ ~Quiet(s.al, ctrl) /\ requested # "BOOT" =>
              /\ requested \in EsmStates /\ s.al # requested
              /\ AckBit(ctrl) => Rank(requested) > Rank(s.al)
              /\ t = IF end.refused
                     THEN end.slave
                     ELSE SyncCoreRegisters([end.slave EXCEPT !.code = NoError, !.ackReq = FALSE])
<1> DEFINE requested == DecodeControlState(ctrl)
<1>1. requested \in AlStates \union {"INVALID"} /\ s.al \in AlStates
  BY DecodedState, SMT DEF Slaves
<1>2. Rank(requested) \in Int /\ Rank(s.al) \in Int
  BY <1>1, RankValues DEF AlStates, EsmStates
<1>3. Quiet(s.al, ctrl) <=> \/ PureAck(s, ctrl)
                            \/ requested = "INVALID"
                            \/ requested = s.al /\ requested # "BOOT"
  BY <1>2 DEF Quiet, PureAck, WantsProgress
<1>4. Cleared(s, ctrl) = IF AckBit(ctrl)
                         THEN [s EXCEPT !.alControl = ctrl, !.ackReq = FALSE, !.code = NoError]
                         ELSE [s EXCEPT !.alControl = ctrl]
  BY DEF Cleared
<1>5. ~Quiet(s.al, ctrl) => ~PureAck(s, ctrl)
  BY <1>3
<1>6. ~Quiet(s.al, ctrl) /\ requested # "BOOT" =>
        /\ requested \in EsmStates /\ s.al # requested
        /\ AckBit(ctrl) => Rank(requested) > Rank(s.al)
  BY <1>1, <1>2 DEF Quiet, AlStates
<1> QED
  BY <1>3, <1>4, <1>5, <1>6 DEF WriteAlControl

(* Whatever path a write takes, the registers are fresh afterwards, flag   *)
(* and code still agree, and the mailbox gains no reply.  A quiet write    *)
(* keeps the state; any other raises the error unless it meets the request.*)
LEMMA WriteAlControlFacts ==
  ASSUME NEW s \in Slaves, NEW ctrl \in AlControlWords
  PROVE  LET requested == DecodeControlState(ctrl)
             t == WriteAlControl(s, ctrl)
         IN
         /\ t \in Slaves
         /\ RegistersFresh(t)
         /\ Coherent(s) => Coherent(t)
         /\ t.mapped = s.mapped /\ t.online = s.online /\ t.alControl = ctrl
         /\ t.mbOut = s.mbOut /\ (t.haveReply => s.haveReply)
         /\ Quiet(s.al, ctrl) =>
              /\ t.al = s.al
              /\ t.ackReq <=> s.ackReq /\ ~AckBit(ctrl)
              /\ t.code = IF AckBit(ctrl) THEN NoError ELSE s.code
         /\ ~Quiet(s.al, ctrl) /\ requested = "BOOT" =>
              t.al = s.al /\ t.ackReq /\ t.code = BootNotSupported
         /\ ~Quiet(s.al, ctrl) /\ requested # "BOOT" =>
              /\ requested \in EsmStates /\ s.al # requested
              /\ AckBit(ctrl) => Rank(requested) > Rank(s.al)
              /\ t.al = Outcome(s.al, requested, s.mapped)
              /\ t.ackReq <=> t.al # requested
              /\ t.code = IF t.ackReq THEN InvalidStateChange ELSE NoError
<1> DEFINE requested == DecodeControlState(ctrl)
           u         == Cleared(s, ctrl)
           end       == Turns(u, requested)
           met       == [end.slave EXCEPT !.code = NoError, !.ackReq = FALSE]
           t         == WriteAlControl(s, ctrl)
           Kept(v)   == /\ v.mapped = s.mapped /\ v.online = s.online
                        /\ v.alControl = ctrl /\ v.mbOut = s.mbOut
                        /\ v.haveReply => s.haveReply
<1>1. NoError \in AlCodes /\ BootNotSupported \in AlCodes /\ InvalidStateChange \in AlCodes
      /\ NoError # BootNotSupported /\ NoError # InvalidStateChange
  BY DEF AlCodes, NoError, BootNotSupported, InvalidStateChange
<1>2. u \in Slaves /\ Kept(u) /\ u.al = s.al
  BY ClearedFacts
<1>3. /\ u.ackReq <=> s.ackReq /\ ~AckBit(ctrl)
      /\ u.code = IF AckBit(ctrl) THEN NoError ELSE s.code
  BY ClearedFacts
<1>4. CASE Quiet(s.al, ctrl)
  <2>1. t = SyncCoreRegisters(u)
    BY <1>4, WriteAlControlPaths
  <2> HIDE DEF u, t
  <2>2. /\ t \in Slaves /\ RegistersFresh(t) /\ Kept(t)
        /\ t.al = u.al /\ t.ackReq = u.ackReq /\ t.code = u.code
    BY <1>2, <2>1, SyncCoreFacts, ZenonT(60) DEF RegistersFresh
  <2>3. Coherent(s) => Coherent(t)
    BY <1>3, <2>2 DEF Coherent
  <2> QED
    BY <1>2, <1>3, <1>4, <2>2, <2>3 DEF t
<1>5. CASE ~Quiet(s.al, ctrl) /\ requested = "BOOT"
  <2>1. t = SignalError(u, BootNotSupported)
    BY <1>5, WriteAlControlPaths
  <2> HIDE DEF u, t
  <2>2. /\ t \in Slaves /\ Kept(t)
        /\ t.regAl = [state |-> u.al, error |-> TRUE]
        /\ t.regCode = BootNotSupported /\ t.regDl = t.online
        /\ t.al = u.al /\ t.code = BootNotSupported /\ t.ackReq = TRUE
    BY <1>1, <1>2, <2>1, SignalErrorFacts, ZenonT(60)
  <2>3. RegistersFresh(t) /\ Coherent(t)
    BY <1>1, <2>2 DEF RegistersFresh, Coherent
  <2> QED
    BY <1>2, <1>5, <2>2, <2>3 DEF t
<1>6. CASE ~Quiet(s.al, ctrl) /\ requested # "BOOT"
  <2>1. /\ requested \in EsmStates /\ s.al # requested
        /\ AckBit(ctrl) => Rank(requested) > Rank(s.al)
        /\ t = IF end.refused THEN end.slave ELSE SyncCoreRegisters(met)
    BY <1>6, WriteAlControlPaths
  <2> HIDE DEF u, t, requested
  <2>2. /\ end \in Climbers
        /\ end.slave.al = Outcome(u.al, requested, u.mapped)
        /\ ~end.refused => end.slave.al = requested
        /\ end.refused =>
             /\ end.slave.al # requested
             /\ end.slave.ackReq = TRUE /\ end.slave.code = InvalidStateChange
             /\ end.slave.regAl = [state |-> end.slave.al, error |-> TRUE]
             /\ end.slave.regCode = InvalidStateChange
             /\ end.slave.regDl = end.slave.online
        /\ end.slave.mapped = u.mapped /\ end.slave.online = u.online
        /\ end.slave.alControl = u.alControl /\ end.slave.mbOut = u.mbOut
        /\ end.slave.haveReply => u.haveReply
    BY <1>2, <2>1, LoopEnds, Zenon
  <2> HIDE DEF end
  <2>3. /\ end.slave \in Slaves /\ Kept(end.slave)
        /\ end.slave.al = Outcome(s.al, requested, s.mapped)
    BY <1>2, <2>2 DEF Climbers
  <2> SUFFICES /\ t \in Slaves /\ RegistersFresh(t) /\ Coherent(t) /\ Kept(t)
               /\ t.al = end.slave.al /\ (t.ackReq <=> t.al # requested)
               /\ t.code = IF t.ackReq THEN InvalidStateChange ELSE NoError
    BY <1>6, <2>1, <2>3 DEF t, requested
  <2>4. CASE end.refused
    <3>1. t = end.slave
      BY <2>1, <2>4
    <3>2. /\ t.ackReq = TRUE /\ t.code = InvalidStateChange /\ t.al # requested
          /\ t.regAl = [state |-> t.al, error |-> TRUE]
          /\ t.regCode = InvalidStateChange /\ t.regDl = t.online
      BY <2>4, <2>2, <3>1
    <3>3. RegistersFresh(t) /\ Coherent(t)
      BY <1>1, <3>2 DEF RegistersFresh, Coherent
    <3> QED
      BY <2>3, <3>1, <3>2, <3>3
  <2>5. CASE ~end.refused
    <3>1. end.slave.al = requested
      BY <2>5, <2>2
    <3>2. t = SyncCoreRegisters(met)
      BY <2>1, <2>5
    <3>3. met \in Slaves
      BY <1>1, <2>3, Zenon DEF Slaves
    <3>4. Kept(met) /\ met.ackReq = FALSE /\ met.code = NoError /\ met.al = end.slave.al
      BY <2>3, SMT DEF Slaves
    <3> HIDE DEF met
    <3>5. /\ t \in Slaves /\ RegistersFresh(t) /\ Kept(t)
          /\ t.al = met.al /\ t.ackReq = FALSE /\ t.code = NoError
      BY <3>2, <3>3, <3>4, SyncCoreFacts, ZenonT(60) DEF RegistersFresh
    <3> QED
      BY <3>1, <3>4, <3>5 DEF Coherent
  <2> QED
    BY <2>4, <2>5
<1> QED
  BY <1>4, <1>5, <1>6

(* A write with the acknowledge bit takes no slave to a lower state.       *)
LEMMA AckRaises ==
  ASSUME NEW s \in Slaves, NEW ctrl \in AlControlWords, AckBit(ctrl)
  PROVE  Rank(WriteAlControl(s, ctrl).al) >= Rank(s.al)
<1> DEFINE requested == DecodeControlState(ctrl)
           al        == s.al
           m         == s.mapped
           end       == WriteAlControl(s, ctrl).al
<1>1. al \in AlStates /\ m \in BOOLEAN
  BY SMT DEF Slaves
<1>2. Rank(al) \in Int
  BY <1>1, RankValues DEF AlStates, EsmStates
<1>3. /\ Quiet(al, ctrl) => end = al
      /\ ~Quiet(al, ctrl) /\ requested = "BOOT" => end = al
      /\ ~Quiet(al, ctrl) /\ requested # "BOOT" =>
           /\ requested \in EsmStates /\ al # requested
           /\ Rank(requested) > Rank(al)
           /\ end = Outcome(al, requested, m)
  BY WriteAlControlFacts
<1> HIDE DEF requested, al, m, end
<1>4. CASE Quiet(al, ctrl) \/ requested = "BOOT"
  BY <1>2, <1>3, <1>4 DEF end, al
<1>5. CASE ~Quiet(al, ctrl) /\ requested # "BOOT"
  <2>1. end = al \/ end \in Admitted(al, requested, m)
    BY <1>1, <1>3, <1>5, OutcomeFacts
  <2>2. end \in Admitted(al, requested, m) => Rank(end) >= Rank(al)
    BY <1>2, RankValues DEF Admitted, EsmStates
  <2> QED
    BY <1>2, <2>1, <2>2 DEF end, al
<1> QED
  BY <1>4, <1>5

(* SAFE_OP is not reached from below without a mapping.                    *)
LEMMA ClimbNeedsMapping ==
  ASSUME NEW s \in Slaves, NEW ctrl \in AlControlWords, s.al \in {"INIT", "PRE_OP"},
         WriteAlControl(s, ctrl).al \in {"SAFE_OP", "OPERATIONAL"}
  PROVE  s.mapped
<1> SUFFICES ASSUME ~s.mapped PROVE FALSE
  OBVIOUS
<1> DEFINE requested == DecodeControlState(ctrl)
           al        == s.al
           m         == s.mapped
           end       == WriteAlControl(s, ctrl).al
<1>1. m \in BOOLEAN /\ ~m
  BY SMT DEF Slaves
<1>2. /\ Quiet(al, ctrl) => end = al
      /\ ~Quiet(al, ctrl) /\ requested = "BOOT" => end = al
      /\ ~Quiet(al, ctrl) /\ requested # "BOOT" =>
           requested \in EsmStates /\ end = Outcome(al, requested, m)
  BY WriteAlControlFacts
<1>3. al \in {"INIT", "PRE_OP"} /\ end \in {"SAFE_OP", "OPERATIONAL"}
  OBVIOUS
<1> HIDE DEF requested, al, m, end
<1>4. ASSUME requested \in EsmStates
      PROVE  Outcome(al, requested, m) \in {"INIT", "PRE_OP"}
  <2>1. \A st \in {"INIT", "PRE_OP"} : After(st, requested, m) \in {"INIT", "PRE_OP"}
    <3>1. /\ After("INIT", requested, m) = IF requested = "INIT" THEN "INIT" ELSE "PRE_OP"
          /\ After("PRE_OP", requested, m) =
               IF requested = "INIT" THEN "INIT"
               ELSE IF requested # "PRE_OP" /\ m THEN "SAFE_OP" ELSE "PRE_OP"
      BY <1>1, <1>4, AfterTable
    <3> QED
      BY <1>1, <3>1
  <2>2. After(al, requested, m) \in {"INIT", "PRE_OP"}
    BY <1>3, <2>1
  <2>3. After(After(al, requested, m), requested, m) \in {"INIT", "PRE_OP"}
    BY <2>1, <2>2
  <2>4. After(After(After(al, requested, m), requested, m), requested, m)
          \in {"INIT", "PRE_OP"}
    BY <2>1, <2>3
  <2> QED
    BY <2>4 DEF Outcome
<1> QED
  BY <1>1, <1>2, <1>3, <1>4

-----------------------------------------------------------------------------
(* A write sent again.                                                     *)

(* A slave as it is when a write of ctrl has been dealt with: that word    *)
(* asks for nothing more, or is refused where the slave is, and flag, code *)
(* and registers say so.                                                   *)
DealtWith(s, ctrl) ==
  LET requested == DecodeControlState(ctrl) IN
  /\ s.alControl = ctrl
  /\ RegistersFresh(s)
  /\ Quiet(s.al, ctrl) => (AckBit(ctrl) => s.ackReq = FALSE /\ s.code = NoError)
  /\ ~Quiet(s.al, ctrl) /\ requested = "BOOT" =>
       s.ackReq = TRUE /\ s.code = BootNotSupported
  /\ ~Quiet(s.al, ctrl) /\ requested # "BOOT" =>
       /\ ~Passes(s.al, requested, s.mapped)
       /\ s.ackReq = TRUE /\ s.code = InvalidStateChange

(* Writing back what a slave already holds changes nothing.                *)
LEMMA SameRegisters ==
  ASSUME NEW s \in Slaves, RegistersFresh(s)
  PROVE  SyncCoreRegisters(s) = s
<1>1. /\ s.online = s.regDl /\ s.code = s.regCode
      /\ [state |-> s.al, error |-> s.ackReq] = s.regAl
  BY DEF RegistersFresh
<1> QED
  BY <1>1, Zenon DEF Slaves, SyncCoreRegisters

LEMMA SameError ==
  ASSUME NEW s \in Slaves, NEW c \in AlCodes,
         RegistersFresh(s), s.ackReq = TRUE, s.code = c
  PROVE  SignalError(s, c) = s
<1>1. [s EXCEPT !.code = c, !.ackReq = TRUE] = s
  BY Zenon DEF Slaves
<1> QED
  BY <1>1, SameRegisters DEF SignalError

(* What an acknowledgement clears, a refusal raises again.                 *)
LEMMA RaisedAgain ==
  ASSUME NEW s \in Slaves, NEW ctrl \in AlControlWords, NEW c \in AlCodes,
         RegistersFresh(s), s.alControl = ctrl, s.ackReq = TRUE, s.code = c
  PROVE  SignalError(Cleared(s, ctrl), c) = s
<1> DEFINE u == Cleared(s, ctrl)
<1>1. [u EXCEPT !.code = c, !.ackReq = TRUE] = s
  <2>1. [s EXCEPT !.alControl = ctrl] = s
    BY Zenon DEF Slaves
  <2>2. CASE AckBit(ctrl)
    <3>1. u = [s EXCEPT !.alControl = ctrl, !.ackReq = FALSE, !.code = NoError]
      BY <2>2 DEF Cleared
    <3> QED
      BY <3>1, Zenon DEF Slaves
  <2>3. CASE ~AckBit(ctrl)
    <3>1. u = s
      BY <2>1, <2>3 DEF Cleared
    <3> QED
      BY <3>1, Zenon DEF Slaves
  <2> QED
    BY <2>2, <2>3
<1>2. SignalError(u, c) = SignalError(s, c)
  <2>1. [s EXCEPT !.code = c, !.ackReq = TRUE] = s
    BY Zenon DEF Slaves
  <2> QED
    BY <1>1, <2>1 DEF SignalError
<1> QED
  BY <1>2, SameError

LEMMA SettledWrite ==
  ASSUME NEW s \in Slaves, NEW ctrl \in AlControlWords, DealtWith(s, ctrl)
  PROVE  WriteAlControl(s, ctrl) = s
<1> DEFINE requested == DecodeControlState(ctrl)
           u         == Cleared(s, ctrl)
<1>1. /\ s.alControl = ctrl /\ RegistersFresh(s)
      /\ InvalidStateChange \in AlCodes /\ BootNotSupported \in AlCodes
  BY DEF DealtWith, AlCodes
<1>2. CASE Quiet(s.al, ctrl)
  <2>1. u = s
    <3>1. CASE AckBit(ctrl)
      <4>1. s.ackReq = FALSE /\ s.code = NoError
        BY <1>2, <3>1 DEF DealtWith
      <4>2. u = [s EXCEPT !.alControl = ctrl, !.ackReq = FALSE, !.code = NoError]
        BY <3>1 DEF Cleared
      <4> QED
        BY <1>1, <4>1, <4>2, Zenon DEF Slaves
    <3>2. CASE ~AckBit(ctrl)
      <4>1. u = [s EXCEPT !.alControl = ctrl]
        BY <3>2 DEF Cleared
      <4> QED
        BY <1>1, <4>1, Zenon DEF Slaves
    <3> QED
      BY <3>1, <3>2
  <2>2. WriteAlControl(s, ctrl) = SyncCoreRegisters(u)
    BY <1>2, WriteAlControlPaths
  <2> QED
    BY <1>1, <2>1, <2>2, SameRegisters
<1>3. CASE ~Quiet(s.al, ctrl) /\ requested = "BOOT"
  <2>1. WriteAlControl(s, ctrl) = SignalError(u, BootNotSupported)
    BY <1>3, WriteAlControlPaths
  <2>2. s.ackReq = TRUE /\ s.code = BootNotSupported
    BY <1>3 DEF DealtWith
  <2> QED
    BY <1>1, <2>1, <2>2, RaisedAgain
<1>4. CASE ~Quiet(s.al, ctrl) /\ requested # "BOOT"
  <2> DEFINE end == Turns(u, requested)
  <2>1. /\ requested \in EsmStates /\ s.al # requested
        /\ WriteAlControl(s, ctrl) =
             IF end.refused
             THEN end.slave
             ELSE SyncCoreRegisters([end.slave EXCEPT !.code = NoError, !.ackReq = FALSE])
    BY <1>4, WriteAlControlPaths
  <2>2. /\ ~Passes(s.al, requested, s.mapped)
        /\ s.ackReq = TRUE /\ s.code = InvalidStateChange
    BY <1>4 DEF DealtWith
  <2>3. u.al = s.al /\ u.mapped = s.mapped /\ u \in Slaves
    BY ClearedFacts
  <2>4. SignalError(u, InvalidStateChange) = s
    BY <1>1, <2>2, RaisedAgain
  <2> HIDE DEF u, requested
  <2>5. Turn([slave |-> u, refused |-> FALSE], requested) = [slave |-> s, refused |-> TRUE]
    BY <2>1, <2>2, <2>3, <2>4, TurnRefuses
  <2>6. Turn([slave |-> s, refused |-> TRUE], requested) = [slave |-> s, refused |-> TRUE]
    BY DEF Turn
  <2>7. end = [slave |-> s, refused |-> TRUE]
    BY <2>5, <2>6 DEF Turns
  <2> QED
    BY <2>1, <2>7
<1> QED
  BY <1>2, <1>3, <1>4

(* A write leaves the slave settled for that word.                         *)
LEMMA WriteSettles ==
  ASSUME NEW s \in Slaves, NEW ctrl \in AlControlWords
  PROVE  DealtWith(WriteAlControl(s, ctrl), ctrl)
<1> DEFINE requested == DecodeControlState(ctrl)
           t         == WriteAlControl(s, ctrl)
<1>1. /\ t \in Slaves /\ RegistersFresh(t) /\ t.alControl = ctrl /\ t.mapped = s.mapped
      /\ s.al \in AlStates /\ s.mapped \in BOOLEAN
  BY WriteAlControlFacts, SMT DEF Slaves
<1>2. CASE Quiet(s.al, ctrl)
  <2>1. /\ t.al = s.al
        /\ AckBit(ctrl) => t.ackReq = FALSE /\ t.code = NoError
    BY <1>1, <1>2, WriteAlControlFacts DEF Slaves
  <2> HIDE DEF t
  <2> QED
    BY <1>1, <1>2, <2>1 DEF DealtWith, t
<1>3. CASE ~Quiet(s.al, ctrl) /\ requested = "BOOT"
  <2>1. t.al = s.al /\ t.ackReq = TRUE /\ t.code = BootNotSupported
    BY <1>1, <1>3, WriteAlControlFacts DEF Slaves
  <2> HIDE DEF t
  <2> QED
    BY <1>1, <1>3, <2>1 DEF DealtWith, t
<1>4. CASE ~Quiet(s.al, ctrl) /\ requested # "BOOT"
  <2>1. /\ requested \in EsmStates /\ s.al # requested
        /\ AckBit(ctrl) => Rank(requested) > Rank(s.al)
        /\ t.al = Outcome(s.al, requested, s.mapped)
        /\ t.ackReq <=> t.al # requested
        /\ t.code = IF t.ackReq THEN InvalidStateChange ELSE NoError
    BY <1>4, WriteAlControlFacts
  <2> SUFFICES DealtWith(t, ctrl)
    OBVIOUS
  <2> HIDE DEF t, requested
  <2>2. CASE t.al = requested
    <3>1. Quiet(t.al, ctrl)
      BY <2>1, <2>2 DEF Quiet, requested, EsmStates
    <3>2. t.ackReq = FALSE /\ t.code = NoError
      BY <1>1, <2>1, <2>2, SMT DEF Slaves
    <3> QED
      BY <1>1, <3>1, <3>2 DEF DealtWith, requested
  <2>3. CASE t.al # requested
    <3>1. ~Passes(t.al, requested, t.mapped)
      BY <1>1, <2>1, <2>3, OutcomeFacts
    <3>2. t.ackReq = TRUE /\ t.code = InvalidStateChange
      BY <1>1, <2>1, <2>3, SMT DEF Slaves
    <3>3. requested # "BOOT" /\ requested # "INVALID"
      BY <2>1 DEF EsmStates
    <3>4. ~Quiet(t.al, ctrl)
      <4>1. AckBit(ctrl) => Rank(requested) > Rank(t.al)
        <5> SUFFICES ASSUME AckBit(ctrl) PROVE Rank(requested) > Rank(t.al)
          OBVIOUS
        <5>1. Rank(requested) > Rank(s.al)
          BY <2>1
        <5>2. t.al = s.al \/ t.al \in Admitted(s.al, requested, s.mapped)
          BY <1>1, <2>1, <5>1, OutcomeFacts
        <5>3. t.al \in EsmStates /\ Rank(t.al) <= Rank(requested) => Rank(t.al) < Rank(requested)
          BY <2>1, <2>3, RankValues DEF EsmStates
        <5> QED
          BY <5>1, <5>2, <5>3 DEF Admitted
      <4>2. Rank(requested) \in Int /\ Rank(t.al) \in Int
        BY <1>1, <2>1, RankValues DEF Slaves, AlStates, EsmStates
      <4> QED
        BY <2>3, <3>3, <4>1, <4>2 DEF Quiet, requested
    <3> QED
      BY <1>1, <3>1, <3>2, <3>3, <3>4 DEF DealtWith, requested
  <2> QED
    BY <2>2, <2>3
<1> QED
  BY <1>2, <1>3, <1>4

-----------------------------------------------------------------------------
(* The constructor, the mailbox and the remaining methods.                 *)

LEMMA NewSlaveFacts ==
  ASSUME NEW a \in Addresses
  PROVE  NewSlave(a) \in Slaves
<1>1. /\ 0 \in WordAddresses
      /\ NoReply \in MbContents
      /\ 0 \in AlControlWords
      /\ [state |-> "INIT", error |-> FALSE] \in AlStatusWords
      /\ NoError \in AlCodes
      /\ "INIT" \in AlStates
  BY SlaveAssumption DEF WordAddresses, MbContents, AlControlWords, AlStatusWords,
                         AlCodes, AlStates, EsmStates
<1> QED
  BY <1>1 DEF NewSlave, Slaves

(* The reply handleMailboxWrite_ composes.                                 *)
LEMMA MailboxWriteFacts ==
  ASSUME NEW s \in Slaves, NEW req \in Requests, NEW v \in Values, NEW m \in BOOLEAN
  PROVE  LET t == HandleMailboxWrite(s, req, v, m) IN
         /\ t \in Slaves
         /\ t.al = s.al /\ t.code = s.code /\ t.ackReq = s.ackReq /\ t.online = s.online
         /\ t.regAl = s.regAl /\ t.regCode = s.regCode /\ t.regDl = s.regDl
         /\ t.alControl = s.alControl
         /\ t.mbOut \in Replies
         /\ t.mbOut.object = req.object /\ t.mbOut.count = req.count
<1> DEFINE reply  == ComposeReply(req, v)
           map    == IF req.service = "DOWNLOAD" THEN m ELSE s.mapped
           u      == [s EXCEPT !.mbOut = reply, !.haveReply = TRUE, !.mapped = map]
<1>1. /\ UploadAnswer(req.object, v) \in Answers
      /\ <<"VALUE", 0>> \in Answers
  BY SlaveAssumption DEF Answers, UploadAnswer
<1>2. req.object \in AllObjects /\ req.count \in Counts
  BY DEF Requests
<1>3. reply \in Replies
  BY <1>1, <1>2 DEF Replies, ComposeReply
<1>4. /\ reply.object = req.object /\ reply.count = req.count
      /\ reply \in MbContents /\ map \in BOOLEAN
  BY <1>3, SMT DEF MbContents, Slaves, ComposeReply
<1>5. HandleMailboxWrite(s, req, v, m) = SyncSMStatus(u)
  BY DEF HandleMailboxWrite
<1> HIDE DEF reply, map
<1>6. u \in Slaves
  BY <1>4, Zenon DEF Slaves
<1>7. /\ u.haveReply \in BOOLEAN /\ u.mbOut = reply
      /\ u.al = s.al /\ u.code = s.code /\ u.ackReq = s.ackReq /\ u.online = s.online
      /\ u.regAl = s.regAl /\ u.regCode = s.regCode /\ u.regDl = s.regDl
      /\ u.alControl = s.alControl
  BY SMT DEF Slaves
<1> HIDE DEF u
<1>8. SyncSMStatus(u) \in Slaves
  BY <1>6, <1>7, Zenon DEF Slaves, SyncSMStatus
<1>9. /\ SyncSMStatus(u).mbOut = reply
      /\ SyncSMStatus(u).al = s.al /\ SyncSMStatus(u).code = s.code
      /\ SyncSMStatus(u).ackReq = s.ackReq /\ SyncSMStatus(u).online = s.online
      /\ SyncSMStatus(u).regAl = s.regAl /\ SyncSMStatus(u).regCode = s.regCode
      /\ SyncSMStatus(u).regDl = s.regDl /\ SyncSMStatus(u).alControl = s.alControl
  BY <1>6, <1>7, SMT DEF Slaves, SyncSMStatus
<1> QED
  BY <1>3, <1>4, <1>5, <1>8, <1>9

(* The methods that touch neither state, error nor the AL registers, and   *)
(* raise no reply.                                                         *)
Untouched(s, t) ==
  /\ t.al = s.al /\ t.code = s.code /\ t.ackReq = s.ackReq /\ t.online = s.online
  /\ t.regAl = s.regAl /\ t.regCode = s.regCode /\ t.regDl = s.regDl
  /\ t.mbOut = s.mbOut /\ t.alControl = s.alControl
  /\ t.haveReply => s.haveReply

LEMMA MinorMethods ==
  ASSUME NEW s \in Slaves
  PROVE  /\ ReadMailbox(s) \in Slaves /\ Untouched(s, ReadMailbox(s))
         /\ ReadMailbox(s).mapped = s.mapped
         /\ \A full \in BOOLEAN : /\ WriteSm1Raw(s, full) \in Slaves
                                 /\ Untouched(s, WriteSm1Raw(s, full))
                                 /\ WriteSm1Raw(s, full).mapped = s.mapped
         /\ \A a \in Addresses : /\ WriteStationAddress(s, a) \in Slaves
                                /\ Untouched(s, WriteStationAddress(s, a))
                                /\ WriteStationAddress(s, a).mapped = s.mapped
         /\ \A w \in WordAddresses : /\ WriteEepromControl(s, w) \in Slaves
                                    /\ Untouched(s, WriteEepromControl(s, w))
                                    /\ WriteEepromControl(s, w).mapped = s.mapped
         /\ ReadEepromData(s) \in Slaves /\ Untouched(s, ReadEepromData(s))
         /\ ReadEepromData(s).mapped = s.mapped
         /\ \A m \in BOOLEAN : /\ SetInputPDOMapped(s, m) \in Slaves
                              /\ Untouched(s, SetInputPDOMapped(s, m))
         /\ Start(s) \in Slaves /\ Untouched(s, Start(s)) /\ Start(s).mapped = s.mapped
<1>1. ReadMailbox(s) \in Slaves
  <2> DEFINE u == [s EXCEPT !.haveReply = FALSE]
  <2>1. u \in Slaves
    BY Zenon DEF Slaves
  <2>2. u.haveReply \in BOOLEAN
    BY <2>1, SMT DEF Slaves
  <2>3. ReadMailbox(s) = SyncSMStatus(u)
    BY DEF ReadMailbox
  <2> HIDE DEF u
  <2> QED
    BY <2>1, <2>2, <2>3, Zenon DEF Slaves, SyncSMStatus
<1>2. Untouched(s, ReadMailbox(s)) /\ ReadMailbox(s).mapped = s.mapped
  BY SMT DEF ReadMailbox, SyncSMStatus, Untouched, Slaves
<1>3. ASSUME NEW full \in BOOLEAN
      PROVE  /\ WriteSm1Raw(s, full) \in Slaves
             /\ Untouched(s, WriteSm1Raw(s, full))
             /\ WriteSm1Raw(s, full).mapped = s.mapped
  BY SMT DEF WriteSm1Raw, Untouched, Slaves
<1>4. ASSUME NEW a \in Addresses
      PROVE  /\ WriteStationAddress(s, a) \in Slaves
             /\ Untouched(s, WriteStationAddress(s, a))
             /\ WriteStationAddress(s, a).mapped = s.mapped
  BY SMT DEF WriteStationAddress, Untouched, Slaves
<1>5. ASSUME NEW w \in WordAddresses
      PROVE  /\ WriteEepromControl(s, w) \in Slaves
             /\ Untouched(s, WriteEepromControl(s, w))
             /\ WriteEepromControl(s, w).mapped = s.mapped
  BY SMT DEF WriteEepromControl, Untouched, Slaves
<1>6. ReadEepromData(s) \in Slaves /\ Untouched(s, ReadEepromData(s))
      /\ ReadEepromData(s).mapped = s.mapped
  <2>1. s.eepromAddr \in WordAddresses
    BY SMT DEF Slaves
  <2>2. (s.eepromAddr + 2) % WordWidth \in WordAddresses
    BY <2>1, SlaveAssumption DEF WordAddresses
  <2> QED
    BY <2>2, SMT DEF ReadEepromData, Untouched, Slaves
<1>7. ASSUME NEW m \in BOOLEAN
      PROVE  SetInputPDOMapped(s, m) \in Slaves /\ Untouched(s, SetInputPDOMapped(s, m))
  BY SMT DEF SetInputPDOMapped, Untouched, Slaves
<1>8. Start(s) \in Slaves /\ Untouched(s, Start(s)) /\ Start(s).mapped = s.mapped
  <2>1. Start(s) \in Slaves
    BY Zenon DEF Start, Slaves
  <2> QED
    BY <2>1, SMT DEF Start, Untouched, Slaves
<1> QED
  BY <1>1, <1>2, <1>3, <1>4, <1>5, <1>6, <1>7, <1>8

(* A raw write over a status register reaches that register alone.         *)
LEMMA StatusWriteFacts ==
  ASSUME NEW s \in Slaves, NEW w \in StatusWords
  PROVE  LET t == WriteStatusRaw(s, w) IN
         /\ t \in Slaves /\ w[1] \in StatusRegisters
         /\ t.al = s.al /\ t.code = s.code /\ t.ackReq = s.ackReq
         /\ t.online = s.online /\ t.mapped = s.mapped /\ t.alControl = s.alControl
         /\ t.mbOut = s.mbOut /\ t.haveReply = s.haveReply
         /\ w[1] # "AL_STATUS" => t.regAl = s.regAl
         /\ w[1] # "AL_STATUS_CODE" => t.regCode = s.regCode
         /\ w[1] # "DL_STATUS" => t.regDl = s.regDl
<1>1. CASE w[1] = "AL_STATUS" /\ w[2] \in AlStatusWords
  <2>1. WriteStatusRaw(s, w) = [s EXCEPT !.regAl = w[2]]
    BY <1>1 DEF WriteStatusRaw
  <2>2. [s EXCEPT !.regAl = w[2]] \in Slaves
    BY <1>1, Zenon DEF Slaves
  <2> QED
    BY <1>1, <2>1, <2>2, SMT DEF Slaves, StatusRegisters
<1>2. CASE w[1] = "AL_STATUS_CODE" /\ w[2] \in AlCodes
  <2>1. WriteStatusRaw(s, w) = [s EXCEPT !.regCode = w[2]]
    BY <1>2 DEF WriteStatusRaw
  <2>2. [s EXCEPT !.regCode = w[2]] \in Slaves
    BY <1>2, Zenon DEF Slaves
  <2> QED
    BY <1>2, <2>1, <2>2, SMT DEF Slaves, StatusRegisters
<1>3. CASE w[1] = "DL_STATUS" /\ w[2] \in BOOLEAN
  <2>1. WriteStatusRaw(s, w) = [s EXCEPT !.regDl = w[2]]
    BY <1>3 DEF WriteStatusRaw
  <2>2. [s EXCEPT !.regDl = w[2]] \in Slaves
    BY <1>3, Zenon DEF Slaves
  <2> QED
    BY <1>3, <2>1, <2>2, SMT DEF Slaves, StatusRegisters
<1> QED
  BY <1>1, <1>2, <1>3 DEF StatusWords

(* The methods that end in syncCoreRegisters_.                             *)
LEMMA SyncingMethods ==
  ASSUME NEW s \in Slaves
  PROVE  /\ \A on \in BOOLEAN : LET t == SetOnline(s, on) IN
              /\ t \in Slaves /\ RegistersFresh(t) /\ (Coherent(s) => Coherent(t))
              /\ t.al = s.al /\ t.ackReq = s.ackReq /\ t.mapped = s.mapped
              /\ t.alControl = s.alControl
              /\ t.mbOut = s.mbOut /\ t.haveReply = s.haveReply
         /\ \A st \in AlStates : LET t == SetALState(s, st) IN
              /\ t \in Slaves /\ RegistersFresh(t) /\ (Coherent(s) => Coherent(t))
              /\ t.al = st /\ t.ackReq = s.ackReq /\ t.mapped = s.mapped
              /\ t.alControl = s.alControl
              /\ t.mbOut = s.mbOut /\ t.haveReply = s.haveReply
<1>1. ASSUME NEW u \in Slaves, u.code = s.code, u.ackReq = s.ackReq
      PROVE  LET t == SyncCoreRegisters(u) IN
             /\ t \in Slaves /\ RegistersFresh(t) /\ (Coherent(s) => Coherent(t))
             /\ t.al = u.al /\ t.ackReq = u.ackReq /\ t.mapped = u.mapped
             /\ t.alControl = u.alControl
             /\ t.mbOut = u.mbOut /\ t.haveReply = u.haveReply
  <2> DEFINE t == SyncCoreRegisters(u)
  <2>1. /\ t \in Slaves
        /\ t.regAl = [state |-> u.al, error |-> u.ackReq]
        /\ t.regCode = u.code /\ t.regDl = u.online
        /\ t.al = u.al /\ t.code = u.code /\ t.ackReq = u.ackReq
        /\ t.mapped = u.mapped /\ t.online = u.online /\ t.alControl = u.alControl
        /\ t.haveReply = u.haveReply /\ t.mbOut = u.mbOut
    BY SyncCoreFacts
  <2> HIDE DEF t
  <2>2. RegistersFresh(t)
    BY <2>1 DEF RegistersFresh
  <2>3. Coherent(s) => Coherent(t)
    BY <1>1, <2>1 DEF Coherent
  <2> QED
    BY <2>1, <2>2, <2>3 DEF t
<1>2. ASSUME NEW on \in BOOLEAN
      PROVE  LET t == SetOnline(s, on) IN
              /\ t \in Slaves /\ RegistersFresh(t) /\ (Coherent(s) => Coherent(t))
              /\ t.al = s.al /\ t.ackReq = s.ackReq /\ t.mapped = s.mapped
              /\ t.alControl = s.alControl
              /\ t.mbOut = s.mbOut /\ t.haveReply = s.haveReply
  <2> DEFINE u == [s EXCEPT !.online = on]
  <2>1. /\ u \in Slaves /\ u.al = s.al /\ u.ackReq = s.ackReq /\ u.code = s.code
        /\ u.mapped = s.mapped /\ u.alControl = s.alControl
        /\ u.mbOut = s.mbOut /\ u.haveReply = s.haveReply
    BY SMT DEF Slaves
  <2> HIDE DEF u
  <2> QED
    BY <1>1, <2>1 DEF SetOnline, u
<1>3. ASSUME NEW st \in AlStates
      PROVE  LET t == SetALState(s, st) IN
              /\ t \in Slaves /\ RegistersFresh(t) /\ (Coherent(s) => Coherent(t))
              /\ t.al = st /\ t.ackReq = s.ackReq /\ t.mapped = s.mapped
              /\ t.alControl = s.alControl
              /\ t.mbOut = s.mbOut /\ t.haveReply = s.haveReply
  <2> DEFINE u == [s EXCEPT !.al = st]
  <2>1. /\ u \in Slaves /\ u.al = st /\ u.ackReq = s.ackReq /\ u.code = s.code
        /\ u.mapped = s.mapped /\ u.alControl = s.alControl
        /\ u.mbOut = s.mbOut /\ u.haveReply = s.haveReply
    BY SMT DEF Slaves
  <2> HIDE DEF u
  <2> QED
    BY <1>1, <2>1 DEF SetALState, u
<1> QED
  BY <1>2, <1>3

(* No write of AL_CONTROL changes the station address, whatever turns the  *)
(* loop takes.                                                             *)
LEMMA AddressKept ==
  ASSUME NEW s \in Slaves, NEW ctrl \in AlControlWords
  PROVE  WriteAlControl(s, ctrl).address = s.address
<1> DEFINE requested == DecodeControlState(ctrl)
           u         == Cleared(s, ctrl)
           end       == Turns(u, requested)
           met       == [end.slave EXCEPT !.code = NoError, !.ackReq = FALSE]
           t         == WriteAlControl(s, ctrl)
<1>1. ASSUME NEW v \in Slaves
      PROVE  /\ SyncCoreRegisters(v).address = v.address
             /\ \A c \in AlCodes : SignalError(v, c).address = v.address
             /\ \A target : ApplyStateTransition(v, target).address = v.address
  <2>1. SyncCoreRegisters(v).address = v.address
    BY SMT DEF SyncCoreRegisters, Slaves
  <2>2. ASSUME NEW c \in AlCodes PROVE SignalError(v, c).address = v.address
    BY SMT DEF SignalError, SyncCoreRegisters, Slaves
  <2>3. ASSUME NEW target PROVE ApplyStateTransition(v, target).address = v.address
    BY SMT DEF ApplyStateTransition, EnterState, Slaves
  <2> QED
    BY <2>1, <2>2, <2>3
<1>2. InvalidStateChange \in AlCodes /\ BootNotSupported \in AlCodes
  BY DEF AlCodes
<1>3. ASSUME NEW r \in Climbers
      PROVE  Turn(r, requested).slave.address = r.slave.address
  <2>1. r.slave \in Slaves
    BY DEF Climbers
  <2>2. SignalError(r.slave, InvalidStateChange).address = r.slave.address
    BY <1>1, <1>2, <2>1
  <2>3. \A target : ApplyStateTransition(r.slave, target).address = r.slave.address
    BY <1>1, <2>1
  <2> HIDE DEF requested
  <2> QED
    BY <2>2, <2>3 DEF Turn
<1>4. u \in Slaves /\ u.address = s.address
  <2>1. u \in Slaves
    BY ClearedFacts
  <2> QED
    BY <2>1, SMT DEF Cleared, Slaves
<1>5. CASE Quiet(s.al, ctrl)
  <2>1. t = SyncCoreRegisters(u)
    BY <1>5, WriteAlControlPaths
  <2> HIDE DEF u, t
  <2>2. t.address = s.address
    BY <1>1, <1>4, <2>1
  <2> QED
    BY <2>2 DEF t
<1>6. CASE ~Quiet(s.al, ctrl) /\ requested = "BOOT"
  <2>1. t = SignalError(u, BootNotSupported)
    BY <1>6, WriteAlControlPaths
  <2> HIDE DEF u, t
  <2>2. t.address = s.address
    BY <1>1, <1>2, <1>4, <2>1
  <2> QED
    BY <2>2 DEF t
<1>7. CASE ~Quiet(s.al, ctrl) /\ requested # "BOOT"
  <2>1. requested \in EsmStates /\ t = IF end.refused THEN end.slave ELSE SyncCoreRegisters(met)
    BY <1>7, WriteAlControlPaths
  <2> HIDE DEF u, t, requested
  <2> DEFINE r0 == [slave |-> u, refused |-> FALSE]
             r1 == Turn(r0, requested)
             r2 == Turn(r1, requested)
             r3 == Turn(r2, requested)
  <2>2. r0 \in Climbers /\ r0.slave = u
    BY <1>4 DEF Climbers
  <2>3. end = r3
    BY DEF Turns
  <2> HIDE DEF r0, end
  <2>4. r1 \in Climbers /\ r1.slave.address = u.address
    BY <1>3, <2>1, <2>2, TurnFacts
  <2> HIDE DEF r1
  <2>5. r2 \in Climbers /\ r2.slave.address = u.address
    BY <1>3, <2>1, <2>4, TurnFacts
  <2> HIDE DEF r2
  <2>6. r3 \in Climbers /\ r3.slave.address = u.address
    BY <1>3, <2>1, <2>5, TurnFacts
  <2>7. end.slave \in Slaves /\ end.slave.address = s.address
    BY <1>4, <2>3, <2>6 DEF Climbers
  <2>8. met \in Slaves /\ met.address = s.address
    <3>1. NoError \in AlCodes
      BY DEF AlCodes
    <3>2. met \in Slaves
      BY <2>7, <3>1, Zenon DEF Slaves
    <3> QED
      BY <2>7, <3>2, SMT DEF Slaves
  <2> HIDE DEF met
  <2>9. SyncCoreRegisters(met).address = s.address
    BY <1>1, <2>8
  <2>10. t.address = s.address
    BY <2>1, <2>7, <2>9
  <2> QED
    BY <2>10 DEF t
<1> QED
  BY <1>5, <1>6, <1>7
=============================================================================
