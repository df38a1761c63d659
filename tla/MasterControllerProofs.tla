------------------------ MODULE MasterControllerProofs ------------------------
(***************************************************************************)
(* What holds of the master for any slaves and any number of tries, with   *)
(* failing exchanges where the property does not exclude them.             *)
(*                                                                         *)
(* The argument: every list of cached states, the rows on display, the     *)
(* snapshot of the cyclic thread and the list of the bus alike, was read   *)
(* of slaves that have not fallen since, because every control word of the *)
(* controller carries the acknowledge bit (MasterInv).  Without faults a   *)
(* list is exact when it is read, and the first one read makes every later *)
(* snapshot useful (ScanInv).                                              *)
(***************************************************************************)
EXTENDS MasterController, SlaveOpsProofs

-----------------------------------------------------------------------------
(* The invariants.                                                         *)

(* A list shows no slave further up than it is.                            *)
NeverAhead(list, s) == \A n \in Nodes : Rank(list[n]) <= Rank(s[n].al)

MasterInv ==
  /\ TypeOK
  /\ known # Empty => NeverAhead(known, slaves)
  /\ pending # Empty => NeverAhead(pending, slaves)
  /\ rows # Empty => NeverAhead(rows, slaves)
  /\ auto.look => ~AutoDone

(* The first step of the automatic sequence.  The cyclic thread may put    *)
(* one empty snapshot over the rows of the first scan; by then the list    *)
(* is there, and the next snapshot is not empty.                           *)
ScanInv ==
  AutoSteps # <<>> /\ auto.step = 1 =>
    /\ auto.look \/ auto.tries > 0 => known # Empty
    /\ auto.tries <= 1
    /\ auto.look => detected
    /\ auto.look /\ rows = Empty => worker # "push" \/ pending # Empty
    /\ auto.tries > 0 => worker # "push" \/ pending # Empty
    /\ auto.look /\ auto.tries > 0 => rows # Empty

-----------------------------------------------------------------------------
(* The exchanges with the slaves.                                          *)

(* What the proofs use of the constants.                                   *)
LEMMA Bounds ==
  /\ Nodes # {} /\ Faults \in BOOLEAN /\ Tries \in Nat \ {0} /\ 1 \in Addresses
  /\ Mappings \subseteq BOOLEAN
  /\ AutoSteps = <<>> \/ AutoSteps = <<"scan", "preop", "op">>
BY MasterAssumption

Names == AlStates \union {"INVALID"}

LEMMA RankTyped == \A st \in Names : Rank(st) \in 0..4
BY RankValues DEF Names, AlStates, EsmStates

(* The states the controller asks for, each with the acknowledge bit.      *)
Targets == {"INIT", "PRE_OP", "OPERATIONAL"}

LEMMA ControlWords ==
  ASSUME NEW target \in Targets
  PROVE  ControlWord[target] \in AlControlWords /\ AckBit(ControlWord[target])
<1>1. /\ ControlWord["INIT"] = 17 /\ ControlWord["PRE_OP"] = 18
      /\ ControlWord["OPERATIONAL"] = 24
  BY DEF ControlWord
<1>2. AckBit(17) /\ AckBit(18) /\ AckBit(24)
  BY DEF AckBit
<1>3. ControlWord[target] \in {17, 18, 24}
  BY <1>1 DEF Targets
<1>4. 17 \in AlControlWords /\ 18 \in AlControlWords /\ 24 \in AlControlWords
  BY DEF AlControlWords
<1> QED
  BY <1>2, <1>3, <1>4

(* The slaves of t are where those of s are, or further up.                *)
Above(t, s) == \A n \in Nodes : Rank(s[n].al) <= Rank(t[n].al)

States == [Nodes -> Slaves]

LEMMA AlTyped ==
  ASSUME NEW s \in States, NEW n \in Nodes
  PROVE  s[n].al \in AlStates /\ Rank(s[n].al) \in 0..4
<1>1. s[n] \in Slaves
  BY DEF States
<1>2. s[n].al \in AlStates
  BY <1>1, SMT DEF Slaves
<1> QED
  BY <1>2, RankTyped DEF Names

LEMMA AboveTransitive ==
  ASSUME NEW s \in States, NEW t \in States, NEW u \in States, Above(t, s), Above(u, t)
  PROVE  Above(u, s)
<1> SUFFICES ASSUME NEW n \in Nodes PROVE Rank(s[n].al) <= Rank(u[n].al)
  BY DEF Above
<1>1. Rank(s[n].al) <= Rank(t[n].al) /\ Rank(t[n].al) <= Rank(u[n].al)
  BY DEF Above
<1>2. Rank(s[n].al) \in 0..4 /\ Rank(t[n].al) \in 0..4 /\ Rank(u[n].al) \in 0..4
  BY AlTyped
<1> QED
  BY <1>1, <1>2

LEMMA AboveReflexive ==
  ASSUME NEW s \in States
  PROVE  Above(s, s)
<1>1. \A n \in Nodes : Rank(s[n].al) \in 0..4
  BY AlTyped
<1> QED
  BY <1>1 DEF Above

(* A list stays behind slaves that climb.                                  *)
LEMMA StillBehind ==
  ASSUME NEW s \in States, NEW t \in States, NEW list \in Known,
         Above(t, s), NeverAhead(list, s)
  PROVE  NeverAhead(list, t)
<1> SUFFICES ASSUME NEW n \in Nodes PROVE Rank(list[n]) <= Rank(t[n].al)
  BY DEF NeverAhead
<1>1. Rank(list[n]) \in 0..4
  BY RankTyped DEF Known, Names
<1>2. Rank(s[n].al) \in 0..4 /\ Rank(t[n].al) \in 0..4
  BY AlTyped
<1> QED
  BY <1>1, <1>2 DEF Above, NeverAhead

LEMMA BroadcastRaises ==
  ASSUME NEW s \in States, NEW target \in Targets
  PROVE  Broadcast(s, target) \in States /\ Above(Broadcast(s, target), s)
<1>1. ControlWord[target] \in AlControlWords /\ AckBit(ControlWord[target])
  BY ControlWords
<1> DEFINE word == ControlWord[target]
<1> HIDE DEF word
<1>2. ASSUME NEW n \in Nodes
      PROVE  WriteAlControl(s[n], word) \in Slaves
             /\ Rank(s[n].al) <= Rank(WriteAlControl(s[n], word).al)
  <2>1. s[n] \in Slaves
    BY DEF States
  <2>2. WriteAlControl(s[n], word) \in Slaves
    BY <1>1, <2>1, WriteAlControlFacts DEF word
  <2>3. Rank(WriteAlControl(s[n], word).al) >= Rank(s[n].al)
    BY <1>1, <2>1, AckRaises DEF word
  <2>4. WriteAlControl(s[n], word).al \in AlStates
    BY <2>2, SMT DEF Slaves
  <2>5. Rank(WriteAlControl(s[n], word).al) \in 0..4 /\ Rank(s[n].al) \in 0..4
    BY <2>4, RankTyped, AlTyped DEF Names
  <2> QED
    BY <2>2, <2>3, <2>5
<1>3. Broadcast(s, target) = [n \in Nodes |-> WriteAlControl(s[n], word)]
  BY DEF Broadcast, word
<1> QED
  BY <1>2, <1>3 DEF States, Above

LEMMA ListsOfStates ==
  ASSUME NEW s \in States
  PROVE  /\ StatesOf(s) \in Known /\ NeverAhead(StatesOf(s), s)
         /\ Undefined \in Known /\ NeverAhead(Undefined, s)
<1>1. \A n \in Nodes : s[n].al \in AlStates /\ Rank(s[n].al) \in 0..4
  BY AlTyped
<1>2. StatesOf(s) \in Known /\ Undefined \in Known
  BY <1>1 DEF StatesOf, Undefined, Known
<1>3. \A n \in Nodes : StatesOf(s)[n] = s[n].al /\ Undefined[n] = "INVALID"
  BY DEF StatesOf, Undefined
<1> QED
  BY <1>1, <1>2, <1>3, RankValues DEF NeverAhead

(* A list of slaves is not empty.                                          *)
LEMMA KnownNotEmpty == Empty \notin Known
<1> SUFFICES ASSUME Empty \in Known PROVE FALSE
  OBVIOUS
<1>1. DOMAIN Empty = {} /\ DOMAIN Empty = Nodes
  BY DEF Empty, Known
<1> QED
  BY <1>1, Bounds

LEMMA MixesBehind ==
  ASSUME NEW s \in States, NEW k \in Known, NeverAhead(k, s), NEW q \in Mixes(k, s)
  PROVE  q \in Known /\ NeverAhead(q, s)
<1>1. \A n \in Nodes : Rank(s[n].al) \in 0..4
  BY AlTyped
<1> QED
  BY <1>1 DEF Mixes, NeverAhead

LEMMA RefreshedBehind ==
  ASSUME NEW s \in States, NEW k \in Known, NeverAhead(k, s), NEW q \in Refreshed(k, s)
  PROVE  q \in Known /\ NeverAhead(q, s)
BY MixesBehind, ListsOfStates DEF Refreshed

(* What an exchange with the slaves s may result in: slaves that have not  *)
(* fallen and a list that does not run ahead of them.                      *)
Results(s) ==
  {e \in [slaves : States, known : Known, done : BOOLEAN] :
     Above(e.slaves, s) /\ NeverAhead(e.known, e.slaves)}

LEMMA ResultFacts ==
  ASSUME NEW s, NEW e \in Results(s)
  PROVE  /\ e.slaves \in States /\ e.known \in Known /\ e.done \in BOOLEAN
         /\ Above(e.slaves, s) /\ NeverAhead(e.known, e.slaves)
BY DEF Results

LEMMA ResultMade ==
  ASSUME NEW s, NEW t \in States, NEW k \in Known, NEW d \in BOOLEAN,
         Above(t, s), NeverAhead(k, t)
  PROVE  [slaves |-> t, known |-> k, done |-> d] \in Results(s)
BY DEF Results

LEMMA ResultsFollow ==
  ASSUME NEW s \in States, NEW e \in Results(s), NEW f \in Results(e.slaves)
  PROVE  f \in Results(s)
<1>1. e.slaves \in States /\ Above(e.slaves, s)
  BY ResultFacts
<1>2. /\ f \in [slaves : States, known : Known, done : BOOLEAN]
      /\ Above(f.slaves, e.slaves) /\ NeverAhead(f.known, f.slaves) /\ f.slaves \in States
  BY DEF Results
<1>3. Above(f.slaves, s)
  BY <1>1, <1>2, AboveTransitive
<1> QED
  BY <1>2, <1>3 DEF Results

LEMMA ExchangeResults ==
  ASSUME NEW s \in States, NEW k \in Known, NeverAhead(k, s), NEW target \in Targets,
         NEW e \in Exchange(s, k, target)
  PROVE  e \in Results(s)
<1> DEFINE t == Broadcast(s, target)
<1>1. t \in States /\ Above(t, s)
  BY BroadcastRaises
<1>2. e = [slaves |-> t, known |-> StatesOf(t), done |-> AllIn(StatesOf(t), target)]
      \/ \E u \in {s, t} : \E q \in Mixes(k, u) : e = [slaves |-> u, known |-> q, done |-> FALSE]
  BY DEF Exchange
<1> HIDE DEF t
<1>3. CASE e = [slaves |-> t, known |-> StatesOf(t), done |-> AllIn(StatesOf(t), target)]
  <2>1. AllIn(StatesOf(t), target) \in BOOLEAN
    BY DEF AllIn
  <2> QED
    BY <1>1, <1>3, <2>1, ListsOfStates, ResultMade
<1>4. ASSUME NEW u \in {s, t}, NEW q \in Mixes(k, u),
             e = [slaves |-> u, known |-> q, done |-> FALSE]
      PROVE  e \in Results(s)
  <2>1. u \in States /\ Above(u, s)
    BY <1>1, AboveReflexive
  <2>2. NeverAhead(k, u)
    BY <2>1, StillBehind
  <2>3. q \in Known /\ NeverAhead(q, u)
    BY <2>1, <2>2, MixesBehind
  <2> QED
    BY <1>4, <2>1, <2>3, ResultMade
<1> QED
  BY <1>2, <1>3, <1>4

LEMMA BusInitResults ==
  ASSUME NEW s \in States, NEW k \in Known, NeverAhead(k, s), NEW e \in BusInit(s, k)
  PROVE  e \in Results(s)
<1>1. Undefined \in Known /\ NeverAhead(Undefined, s)
  BY ListsOfStates
<1>2. "INIT" \in Targets /\ "PRE_OP" \in Targets
  BY DEF Targets
<1>3. \/ \E d \in Exchange(s, Undefined, "INIT") :
           e \in IF d.done THEN Exchange(d.slaves, d.known, "PRE_OP") ELSE {d}
      \/ e = [slaves |-> s, known |-> k, done |-> FALSE]
  <2> DEFINE begun == UNION { IF d.done THEN Exchange(d.slaves, d.known, "PRE_OP") ELSE {d}
                                : d \in Exchange(s, Undefined, "INIT") }
             failed == IF Faults THEN {[slaves |-> s, known |-> k, done |-> FALSE]} ELSE {}
  <2>1. BusInit(s, k) = begun \union failed
    BY DEF BusInit
  <2>2. e \in begun =>
          \E d \in Exchange(s, Undefined, "INIT") :
            e \in IF d.done THEN Exchange(d.slaves, d.known, "PRE_OP") ELSE {d}
    OBVIOUS
  <2>3. e \in failed => e = [slaves |-> s, known |-> k, done |-> FALSE]
    OBVIOUS
  <2> HIDE DEF begun, failed
  <2> QED
    BY <2>1, <2>2, <2>3
<1>4. ASSUME NEW d \in Exchange(s, Undefined, "INIT"),
             e \in IF d.done THEN Exchange(d.slaves, d.known, "PRE_OP") ELSE {d}
      PROVE  e \in Results(s)
  <2>1. d \in Results(s)
    BY <1>1, <1>2, ExchangeResults
  <2>2. d.slaves \in States /\ d.known \in Known /\ NeverAhead(d.known, d.slaves)
    BY <2>1, ResultFacts
  <2>3. CASE e \in Exchange(d.slaves, d.known, "PRE_OP")
    <3>1. e \in Results(d.slaves)
      BY <1>2, <2>2, <2>3, ExchangeResults
    <3> QED
      BY <2>1, <3>1, ResultsFollow
  <2> QED
    BY <1>4, <2>1, <2>3
<1>5. CASE e = [slaves |-> s, known |-> k, done |-> FALSE]
  BY <1>5, AboveReflexive, ResultMade
<1> QED
  BY <1>3, <1>4, <1>5

LEMMA ReachResults ==
  ASSUME NEW s \in States, NEW k \in Known, NeverAhead(k, s), NEW target \in Targets,
         NEW e \in Reach(s, k, target)
  PROVE  e \in Results(s)
<1>1. CASE AllIn(k, target)
  <2>1. e = [slaves |-> s, known |-> k, done |-> TRUE]
    BY <1>1 DEF Reach
  <2> QED
    BY <2>1, AboveReflexive, ResultMade
<1>2. CASE ~AllIn(k, target)
  <2>1. PICK d \in Exchange(s, k, target) : \E q \in Refreshed(d.known, d.slaves) :
          e = [slaves |-> d.slaves, known |-> q, done |-> AllIn(q, target)]
    BY <1>2 DEF Reach
  <2>2. PICK q \in Refreshed(d.known, d.slaves) :
          e = [slaves |-> d.slaves, known |-> q, done |-> AllIn(q, target)]
    BY <2>1
  <2>3. d \in Results(s)
    BY ExchangeResults
  <2>4. d.slaves \in States /\ d.known \in Known /\ NeverAhead(d.known, d.slaves)
        /\ Above(d.slaves, s)
    BY <2>3, ResultFacts
  <2>5. q \in Known /\ NeverAhead(q, d.slaves)
    BY <2>4, RefreshedBehind
  <2>6. AllIn(q, target) \in BOOLEAN
    BY DEF AllIn
  <2> QED
    BY <2>2, <2>4, <2>5, <2>6, ResultMade
<1> QED
  BY <1>1, <1>2

LEMMA AttemptResults ==
  ASSUME slaves \in States, NEW k \in Known, NeverAhead(k, slaves), NEW a \in Attempts(k)
  PROVE  a \in Results(slaves)
<1>1. PICK e \in BusInit(slaves, k) :
        a \in IF e.done /\ AllIn(e.known, "PRE_OP")
              THEN {[slaves |-> e.slaves, known |-> e.known, done |-> TRUE]}
              ELSE UNION { Reach(i.slaves, i.known, "PRE_OP")
                             : i \in Reach(e.slaves, e.known, "INIT") }
  BY DEF Attempts
<1>2. e \in Results(slaves)
  BY BusInitResults
<1>3. e.slaves \in States /\ e.known \in Known /\ NeverAhead(e.known, e.slaves)
      /\ Above(e.slaves, slaves)
  BY <1>2, ResultFacts
<1>4. "INIT" \in Targets /\ "PRE_OP" \in Targets
  BY DEF Targets
<1>5. CASE e.done /\ AllIn(e.known, "PRE_OP")
  <2>1. a = [slaves |-> e.slaves, known |-> e.known, done |-> TRUE]
    BY <1>1, <1>5
  <2> QED
    BY <1>3, <2>1, ResultMade
<1>6. CASE ~(e.done /\ AllIn(e.known, "PRE_OP"))
  <2>1. PICK i \in Reach(e.slaves, e.known, "INIT") : a \in Reach(i.slaves, i.known, "PRE_OP")
    BY <1>1, <1>6
  <2>2. i \in Results(e.slaves)
    BY <1>3, <1>4, ReachResults
  <2>3. i \in Results(slaves)
    BY <1>2, <2>2, ResultsFollow
  <2>4. i.slaves \in States /\ i.known \in Known /\ NeverAhead(i.known, i.slaves)
    BY <2>3, ResultFacts
  <2>5. a \in Results(i.slaves)
    BY <1>4, <2>1, <2>4, ReachResults
  <2> QED
    BY <2>3, <2>5, ResultsFollow
<1> QED
  BY <1>5, <1>6

-----------------------------------------------------------------------------
(* The calls of the controller.                                            *)

(* What any of them may do: no slave falls, the list stays behind the      *)
(* slaves, and the rows are left or taken from the list.                   *)
CallEffect ==
  /\ slaves' \in States /\ Above(slaves', slaves)
  /\ busMade' \in BOOLEAN /\ detected' \in BOOLEAN /\ preop' \in BOOLEAN
  /\ operational' \in BOOLEAN /\ status' \in Statuses
  /\ known' = Empty \/ (known' \in Known /\ NeverAhead(known', slaves'))
  /\ rows' = rows \/ rows' = known'

(* The parts of the invariant that the calls start from.                   *)
LEMMA CallStart ==
  ASSUME MasterInv
  PROVE  /\ slaves \in States /\ Above(slaves, slaves)
         /\ known = Empty \/ (known \in Known /\ NeverAhead(known, slaves))
         /\ busMade \in BOOLEAN /\ detected \in BOOLEAN /\ preop \in BOOLEAN
         /\ operational \in BOOLEAN /\ status \in Statuses
<1>1. TypeOK
  BY DEF MasterInv
<1>2. slaves \in States
  BY <1>1 DEF TypeOK, States
<1>3. known \in Known \union {Empty}
  BY <1>1 DEF TypeOK, Views
<1> QED
  BY <1>1, <1>2, <1>3, AboveReflexive DEF MasterInv, TypeOK

LEMMA ListChosen ==
  ASSUME MasterInv, NEW wanted \in BOOLEAN, wanted \/ known # Empty,
         NEW list \in Lists(wanted), list # Empty
  PROVE  list \in Known /\ NeverAhead(list, slaves)
<1>1. list = Undefined \/ list = known
  BY DEF Lists
<1>2. CASE list = Undefined
  BY <1>2, CallStart, ListsOfStates
<1>3. CASE list = known
  BY <1>3, CallStart
<1> QED
  BY <1>1, <1>2, <1>3

LEMMA ThrowEffect ==
  ASSUME MasterInv, NEW error \in Statuses, NEW wanted \in BOOLEAN, CallThrows(error, wanted)
  PROVE  CallEffect
<1>1. slaves' = slaves /\ rows' = rows /\ preop' = preop /\ operational' = operational
      /\ status' = error
  BY DEF CallThrows
<1>2. \/ known' = known /\ detected' = detected /\ busMade' \in {busMade, TRUE}
      \/ known' = Empty /\ detected' = FALSE /\ busMade' = TRUE
      \/ known' = Undefined /\ detected' = TRUE /\ busMade' = TRUE
  BY DEF CallThrows
<1>3. Undefined \in Known /\ NeverAhead(Undefined, slaves)
  BY CallStart, ListsOfStates
<1> QED
  BY <1>1, <1>2, <1>3, CallStart DEF CallEffect

LEMMA ScanEffect ==
  ASSUME MasterInv, Scan
  PROVE  CallEffect
<1>1. CASE CallThrows("scan err", TRUE)
  BY <1>1, ThrowEffect DEF Statuses
<1>2. ASSUME NEW list \in Lists(TRUE),
             busMade' = TRUE, detected' = (list # Empty),
             IF list = Empty
             THEN known' = Empty /\ status' = "scan err"
             ELSE known' \in Refreshed(list, slaves) /\ status' = "scan ok",
             rows' = known', UNCHANGED <<slaves, preop, operational>>
      PROVE  CallEffect
  <2>1. known' = Empty \/ (known' \in Known /\ NeverAhead(known', slaves))
    BY <1>2, CallStart, ListChosen, RefreshedBehind
  <2> QED
    BY <1>2, <2>1, CallStart DEF CallEffect, Statuses
<1> QED
  BY <1>1, <1>2 DEF Scan

LEMMA InitPreopEffect ==
  ASSUME MasterInv, InitPreop
  PROVE  CallEffect
<1> DEFINE wanted == known = Empty
<1>1. wanted \in BOOLEAN /\ (wanted \/ known # Empty)
  OBVIOUS
<1>2. CASE CallThrows("preop err", wanted)
  BY <1>1, <1>2, ThrowEffect DEF Statuses
<1>3. ASSUME NEW list \in Lists(wanted),
             busMade' = TRUE,
             detected' = IF known = Empty THEN list # Empty ELSE detected,
             IF list = Empty
             THEN /\ known' = Empty /\ preop' = FALSE
                  /\ UNCHANGED slaves
             ELSE \E a \in Attempts(list) :
                    /\ slaves' = a.slaves
                    /\ known' \in Refreshed(a.known, a.slaves)
                    /\ preop' = (a.done \/ AllIn(known', "PRE_OP")),
             rows' = known',
             status' = IF preop' THEN "preop ok" ELSE "preop err",
             UNCHANGED operational
      PROVE  CallEffect
  <2>1. CASE list = Empty
    BY <1>3, <2>1, CallStart DEF CallEffect, Statuses
  <2>2. CASE list # Empty
    <3>1. list \in Known /\ NeverAhead(list, slaves)
      BY <1>1, <2>2, ListChosen
    <3>2. PICK a \in Attempts(list) :
            /\ slaves' = a.slaves
            /\ known' \in Refreshed(a.known, a.slaves)
            /\ preop' = (a.done \/ AllIn(known', "PRE_OP"))
      BY <1>3, <2>2
    <3>3. a \in Results(slaves)
      BY <3>1, CallStart, AttemptResults
    <3>4. /\ a.slaves \in States /\ a.known \in Known /\ a.done \in BOOLEAN
          /\ Above(a.slaves, slaves) /\ NeverAhead(a.known, a.slaves)
      BY <3>3, ResultFacts
    <3>5. known' \in Known /\ NeverAhead(known', a.slaves)
      BY <3>2, <3>4, RefreshedBehind
    <3>6. preop' \in BOOLEAN
      BY <3>2, <3>4 DEF AllIn
    <3>7. detected' \in BOOLEAN /\ busMade' \in BOOLEAN /\ operational' \in BOOLEAN
      BY <1>3, CallStart
    <3>8. status' \in Statuses
      BY <1>3 DEF Statuses
    <3> QED
      BY <1>3, <3>2, <3>4, <3>5, <3>6, <3>7, <3>8 DEF CallEffect
  <2> QED
    BY <2>1, <2>2
<1> QED
  BY <1>2, <1>3 DEF InitPreop

LEMMA RequestOperationalEffect ==
  ASSUME MasterInv, RequestOperational
  PROVE  CallEffect
<1> DEFINE wanted == known = Empty
<1>1. wanted \in BOOLEAN /\ (wanted \/ known # Empty)
  OBVIOUS
<1>2. CASE CallThrows("op err", wanted)
  BY <1>1, <1>2, ThrowEffect DEF Statuses
<1>3. ASSUME NEW list \in Lists(wanted),
             busMade' = TRUE,
             detected' = IF known = Empty THEN list # Empty ELSE detected,
             IF list = Empty
             THEN /\ known' = Empty /\ status' = "op err"
                  /\ UNCHANGED <<slaves, operational, rows>>
             ELSE \E e \in Exchange(slaves, list, "OPERATIONAL") :
                    /\ slaves' = e.slaves
                    /\ IF e.done
                       THEN /\ known' \in Refreshed(e.known, e.slaves)
                            /\ rows' = known'
                            /\ operational' = TRUE /\ status' = "op ok"
                       ELSE /\ known' = e.known /\ status' = "op err"
                            /\ UNCHANGED <<operational, rows>>,
             UNCHANGED preop
      PROVE  CallEffect
  <2>1. CASE list = Empty
    BY <1>3, <2>1, CallStart DEF CallEffect, Statuses
  <2>2. CASE list # Empty
    <3>1. list \in Known /\ NeverAhead(list, slaves)
      BY <1>1, <2>2, ListChosen
    <3>2. PICK e \in Exchange(slaves, list, "OPERATIONAL") :
            /\ slaves' = e.slaves
            /\ IF e.done
               THEN /\ known' \in Refreshed(e.known, e.slaves)
                    /\ rows' = known'
                    /\ operational' = TRUE /\ status' = "op ok"
               ELSE /\ known' = e.known /\ status' = "op err"
                    /\ UNCHANGED <<operational, rows>>
      BY <1>3, <2>2
    <3>3. e \in Results(slaves)
      BY <3>1, CallStart, ExchangeResults DEF Targets
    <3>4. /\ e.slaves \in States /\ e.known \in Known
          /\ Above(e.slaves, slaves) /\ NeverAhead(e.known, e.slaves)
      BY <3>3, ResultFacts
    <3>5. known' \in Known /\ NeverAhead(known', e.slaves)
      BY <3>2, <3>4, RefreshedBehind
    <3>6. detected' \in BOOLEAN /\ busMade' \in BOOLEAN /\ preop' \in BOOLEAN
      BY <1>3, CallStart
    <3>7. operational' \in BOOLEAN /\ status' \in Statuses /\ (rows' = rows \/ rows' = known')
      BY <3>2, CallStart DEF Statuses
    <3> QED
      BY <3>2, <3>4, <3>5, <3>6, <3>7 DEF CallEffect
  <2> QED
    BY <2>1, <2>2
<1> QED
  BY <1>2, <1>3 DEF RequestOperational

LEMMA SdoEffect ==
  ASSUME MasterInv, SdoUpload \/ \E n \in Nodes, m \in Mappings : SdoDownload(n, m)
  PROVE  CallEffect
<1>1. CASE SdoUpload
  BY <1>1, CallStart DEF SdoUpload, CallEffect, modelVars
<1>2. ASSUME NEW n \in Nodes, NEW m \in Mappings, SdoDownload(n, m)
      PROVE  CallEffect
  <2>1. slaves' = [slaves EXCEPT ![n] = SetInputPDOMapped(slaves[n], m)]
        /\ busMade' = TRUE /\ UNCHANGED <<known, modelVars>>
    BY <1>2 DEF SdoDownload
  <2>2. slaves[n] \in Slaves /\ m \in BOOLEAN /\ slaves \in States
    BY CallStart, Bounds DEF States
  <2>3. SetInputPDOMapped(slaves[n], m) \in Slaves
        /\ SetInputPDOMapped(slaves[n], m).al = slaves[n].al
    BY <2>2, MinorMethods DEF Untouched
  <2>4. slaves' \in States
    BY <2>1, <2>2, <2>3 DEF States
  <2>5. \A x \in Nodes : slaves'[x].al = slaves[x].al
    BY <2>1, <2>2, <2>3 DEF States
  <2>6. Above(slaves', slaves)
    BY <2>5, CallStart DEF Above
  <2>7. known = Empty \/ (known \in Known /\ NeverAhead(known, slaves'))
    BY <2>5, CallStart DEF NeverAhead
  <2> QED
    BY <2>1, <2>4, <2>6, <2>7, CallStart DEF CallEffect, modelVars
<1> QED
  BY <1>1, <1>2

(* Whatever a call does, the lists that stay behind the slaves still do.   *)
LEMMA CallKeeps ==
  ASSUME MasterInv, CallEffect, UNCHANGED <<worker, pending, stop>>,
         auto' \in [step : 1..Len(AutoSteps) + 1, tries : 0..Tries, look : BOOLEAN],
         auto'.look => ~AutoDone'
  PROVE  MasterInv'
<1>1. TypeOK
  BY DEF MasterInv
<1>2. slaves \in States /\ slaves' \in States /\ Above(slaves', slaves)
  BY CallStart DEF CallEffect
<1>3. pending = Empty \/ (pending \in Known /\ NeverAhead(pending, slaves'))
  <2>1. pending \in Known \/ pending = Empty
    BY <1>1 DEF TypeOK, Views
  <2>2. pending # Empty => NeverAhead(pending, slaves)
    BY DEF MasterInv
  <2> QED
    BY <1>2, <2>1, <2>2, StillBehind
<1>4. rows = Empty \/ (rows \in Known /\ NeverAhead(rows, slaves'))
  <2>1. rows \in Known \/ rows = Empty
    BY <1>1 DEF TypeOK, Views
  <2>2. rows # Empty => NeverAhead(rows, slaves)
    BY DEF MasterInv
  <2> QED
    BY <1>2, <2>1, <2>2, StillBehind
<1>5. rows' = Empty \/ (rows' \in Known /\ NeverAhead(rows', slaves'))
  BY <1>4 DEF CallEffect
<1>6. known' = Empty \/ (known' \in Known /\ NeverAhead(known', slaves'))
  BY DEF CallEffect
<1>7. TypeOK'
  BY <1>1, <1>3, <1>5, <1>6 DEF CallEffect, TypeOK, Views, States
<1>8. NeverAhead(known, slaves)' = NeverAhead(known', slaves')
      /\ NeverAhead(pending, slaves)' = NeverAhead(pending', slaves')
      /\ NeverAhead(rows, slaves)' = NeverAhead(rows', slaves')
  BY DEF NeverAhead
<1>9. /\ known' # Empty => NeverAhead(known, slaves)'
      /\ pending' # Empty => NeverAhead(pending, slaves)'
      /\ rows' # Empty => NeverAhead(rows, slaves)'
  BY <1>3, <1>5, <1>6, <1>8
<1>10. Empty' = Empty
  BY DEF Empty
<1> QED
  BY <1>7, <1>9, <1>10 DEF MasterInv

(* The steps of Act and Key, and what the automatic sequence keeps of      *)
(* itself in every step.                                                   *)
LEMMA ActKeeps ==
  ASSUME MasterInv, Act
  PROVE  MasterInv'
<1>1. TypeOK /\ ~AutoDone /\ UNCHANGED <<worker, pending, stop>>
  BY DEF MasterInv, Act
<1>2. auto \in [step : 1..Len(AutoSteps) + 1, tries : 0..Tries, look : BOOLEAN]
  BY <1>1 DEF TypeOK
<1>3. auto' = [auto EXCEPT !.look = TRUE]
  BY DEF Act
<1>4. auto' \in [step : 1..Len(AutoSteps) + 1, tries : 0..Tries, look : BOOLEAN]
      /\ auto'.step = auto.step /\ auto'.tries = auto.tries
  BY <1>2, <1>3
<1>5. ~AutoDone'
  BY <1>1, <1>4 DEF AutoDone
<1>6. CallEffect
  <2>1. AutoSteps # <<>> /\ auto.step \in {1, 2, 3}
    <3>1. ~(auto.step > Len(AutoSteps)) /\ auto.step \in 1..Len(AutoSteps) + 1
      BY <1>1, <1>2 DEF AutoDone
    <3>2. CASE AutoSteps = <<>>
      <4>1. Len(AutoSteps) = 0
        BY <3>2
      <4> QED
        BY <3>1, <4>1
    <3>3. CASE AutoSteps = <<"scan", "preop", "op">>
      <4>1. Len(AutoSteps) = 3 /\ AutoSteps # <<>>
        BY <3>3
      <4> QED
        BY <3>1, <4>1
    <3> QED
      BY <3>2, <3>3, Bounds
  <2>2. AutoSteps[auto.step] \in {"scan", "preop", "op"}
    BY <2>1, Bounds
  <2>3. Scan \/ InitPreop \/ RequestOperational
    BY <2>2 DEF Act
  <2> QED
    BY <2>3, ScanEffect, InitPreopEffect, RequestOperationalEffect
<1> QED
  BY <1>1, <1>4, <1>5, <1>6, CallKeeps

LEMMA KeyKeeps ==
  ASSUME MasterInv, Key
  PROVE  MasterInv'
<1>1. TypeOK /\ UNCHANGED <<worker, pending, stop, auto>>
  BY DEF MasterInv, Key
<1>2. auto' \in [step : 1..Len(AutoSteps) + 1, tries : 0..Tries, look : BOOLEAN]
  BY <1>1 DEF TypeOK
<1>3. auto'.look => ~AutoDone'
  BY <1>1 DEF MasterInv, AutoDone
<1>4. CallEffect
  BY ScanEffect, InitPreopEffect, RequestOperationalEffect, SdoEffect DEF Key
<1> QED
  BY <1>1, <1>2, <1>3, <1>4, CallKeeps

LEMMA LookKeeps ==
  ASSUME MasterInv, Look
  PROVE  MasterInv'
<1>1. TypeOK /\ ~AutoDone /\ auto.look
  BY DEF MasterInv, Look
<1>2. /\ auto \in [step : 1..Len(AutoSteps) + 1, tries : 0..Tries, look : BOOLEAN]
      /\ auto.step <= Len(AutoSteps) /\ auto.tries # Tries /\ Len(AutoSteps) \in Nat
      /\ Tries \in Nat
  BY <1>1, Bounds DEF TypeOK, AutoDone
<1>3. auto' \in [step : 1..Len(AutoSteps) + 1, tries : 0..Tries, look : BOOLEAN] /\ ~auto'.look
  <2>1. /\ auto.step + 1 \in 1..Len(AutoSteps) + 1 /\ auto.tries + 1 \in 0..Tries
        /\ 0 \in 0..Tries
    BY <1>2
  <2>2. \/ auto' = [step |-> auto.step + 1, tries |-> 0, look |-> FALSE]
        \/ auto' = [auto EXCEPT !.tries = auto.tries + 1, !.look = FALSE]
    BY DEF Look
  <2>3. CASE auto' = [step |-> auto.step + 1, tries |-> 0, look |-> FALSE]
    BY <2>1, <2>3
  <2>4. CASE auto' = [auto EXCEPT !.tries = auto.tries + 1, !.look = FALSE]
    BY <1>2, <2>1, <2>4
  <2> QED
    BY <2>2, <2>3, <2>4
<1>4. UNCHANGED <<slaves, busMade, known, detected, preop, operational, status, rows, worker,
                  pending, stop>>
  BY DEF Look, modelVars
<1> QED
  BY <1>1, <1>3, <1>4 DEF MasterInv, TypeOK, Views, NeverAhead, Empty

(* The steps that leave the slaves alone and move lists only.              *)
LEMMA MoveKeeps ==
  ASSUME MasterInv, UNCHANGED <<slaves, known, detected, preop, operational, auto>>,
         busMade' \in BOOLEAN, stop' \in BOOLEAN, status' \in Statuses,
         worker' \in {"none", "begin", "loop", "push", "done"},
         rows' \in {rows, pending}, pending' \in {pending, known}
  PROVE  MasterInv'
<1>1. TypeOK
  BY DEF MasterInv
<1>2. /\ known = Empty \/ NeverAhead(known, slaves)
      /\ pending = Empty \/ NeverAhead(pending, slaves)
      /\ rows = Empty \/ NeverAhead(rows, slaves)
      /\ auto.look => ~AutoDone
  BY DEF MasterInv
<1>3. TypeOK'
  BY <1>1 DEF TypeOK
<1>4. /\ known' # Empty => NeverAhead(known', slaves')
      /\ pending' # Empty => NeverAhead(pending', slaves')
      /\ rows' # Empty => NeverAhead(rows', slaves')
  BY <1>2
<1>5. auto'.look => ~AutoDone'
  BY <1>2 DEF AutoDone
<1> QED
  BY <1>3, <1>4, <1>5 DEF MasterInv, NeverAhead, Empty

LEMMA MasterStep == MasterInv /\ [Next]_vars => MasterInv'
<1> SUFFICES ASSUME MasterInv, [Next]_vars PROVE MasterInv'
  OBVIOUS
<1>0. TypeOK
  BY DEF MasterInv
<1>t. busMade \in BOOLEAN /\ stop \in BOOLEAN /\ status \in Statuses
      /\ worker \in {"none", "begin", "loop", "push", "done"}
  BY <1>0 DEF TypeOK
<1>1. CASE Ready
  BY <1>1, <1>t, MoveKeeps DEF Ready, Statuses
<1>2. CASE Cycle
  <2>1. UNCHANGED <<slaves, known, detected, preop, operational, auto, stop, status, rows>>
    BY <1>2 DEF Cycle, modelVars
  <2>2. busMade' \in BOOLEAN /\ worker' \in {worker, "push"} /\ pending' \in {pending, known}
    BY <1>2, <1>t DEF Cycle
  <2> QED
    BY <2>1, <2>2, <1>t, MoveKeeps
<1>3. CASE Push
  BY <1>3, <1>t, MoveKeeps DEF Push
<1>4. CASE Leave
  BY <1>4, <1>t, MoveKeeps DEF Leave, modelVars
<1>5. CASE Launch
  BY <1>5, <1>t, MoveKeeps DEF Launch, modelVars
<1>6. CASE Stop
  BY <1>6, <1>t, MoveKeeps DEF Stop, modelVars
<1>7. CASE UNCHANGED vars
  BY <1>7, <1>t, MoveKeeps DEF vars, modelVars
<1> QED
  BY <1>1, <1>2, <1>3, <1>4, <1>5, <1>6, <1>7, ActKeeps, KeyKeeps, LookKeeps
  DEF Next, WorkerNext, MainNext

LEMMA MasterStart == Init => MasterInv
<1> SUFFICES ASSUME Init PROVE MasterInv
  OBVIOUS
<1>1. SetInputPDOMapped(NewSlave(1), TRUE) \in Slaves
  BY Bounds, NewSlaveFacts, MinorMethods
<1>2. slaves \in [Nodes -> Slaves]
  BY <1>1 DEF Init
<1>3. auto \in [step : 1..Len(AutoSteps) + 1, tries : 0..Tries, look : BOOLEAN] /\ ~auto.look
  <2>1. Len(AutoSteps) \in Nat /\ Tries \in Nat
    BY Bounds
  <2>2. 1 \in 1..Len(AutoSteps) + 1 /\ 0 \in 0..Tries
    BY <2>1
  <2> QED
    BY <2>2 DEF Init
<1>4. known = Empty /\ rows = Empty /\ pending = Empty
  BY DEF Init
<1>5. TypeOK
  BY <1>2, <1>3, <1>4 DEF Init, TypeOK, Views, Statuses
<1> QED
  BY <1>3, <1>4, <1>5 DEF MasterInv

(* No list of cached states, on display, in the snapshot of the cyclic     *)
(* thread or in the bus, ever shows a slave further up than it is.         *)
THEOREM MasterInvariant == Spec => []MasterInv
BY MasterStart, MasterStep, PTL DEF Spec

(* Every variable of the a-master process keeps its type.                  *)
THEOREM MasterTyped == Spec => []TypeOK
<1>1. MasterInv => TypeOK
  BY DEF MasterInv
<1> QED
  BY <1>1, MasterInvariant, PTL

(* The rows on display never show a slave further up than it is, whatever  *)
(* exchange fails and however old the snapshot that setSlaves writes.      *)
THEOREM RowsNeverAheadHolds == Spec => []RowsNeverAhead
<1>1. MasterInv => RowsNeverAhead
  BY DEF MasterInv, RowsNeverAhead, NeverAhead
<1> QED
  BY <1>1, MasterInvariant, PTL

-----------------------------------------------------------------------------
(* The master while every exchange succeeds.                               *)

(* A list read of the slaves themselves.                                   *)
Exact(e) == e.known = StatesOf(e.slaves)

LEMMA ListNotEmpty == \A s : StatesOf(s) # Empty /\ Undefined # Empty
<1> TAKE s
<1>1. DOMAIN StatesOf(s) = Nodes /\ DOMAIN Undefined = Nodes
  BY DEF StatesOf, Undefined
<1>2. DOMAIN Empty = {}
  BY DEF Empty
<1> QED
  BY <1>1, <1>2, Bounds

LEMMA ExchangeExact ==
  ASSUME ~Faults, NEW s, NEW k, NEW target, NEW e \in Exchange(s, k, target)
  PROVE  Exact(e) /\ (e.done => AllIn(e.known, target))
<1> DEFINE t == Broadcast(s, target)
<1>1. e = [slaves |-> t, known |-> StatesOf(t), done |-> AllIn(StatesOf(t), target)]
  BY DEF Exchange
<1> HIDE DEF t
<1>2. e.slaves = t /\ e.known = StatesOf(t) /\ e.done = AllIn(StatesOf(t), target)
  BY <1>1
<1> QED
  BY <1>2 DEF Exact

LEMMA ReachExact ==
  ASSUME ~Faults, NEW s, NEW target, NEW e \in Reach(s, StatesOf(s), target)
  PROVE  Exact(e) /\ (e.done => AllIn(e.known, target))
<1>1. CASE AllIn(StatesOf(s), target)
  <2>1. e = [slaves |-> s, known |-> StatesOf(s), done |-> TRUE]
    BY <1>1 DEF Reach
  <2> QED
    BY <1>1, <2>1 DEF Exact
<1>2. CASE ~AllIn(StatesOf(s), target)
  <2>1. PICK d \in Exchange(s, StatesOf(s), target) :
          \E q \in Refreshed(d.known, d.slaves) :
            e = [slaves |-> d.slaves, known |-> q, done |-> AllIn(q, target)]
    BY <1>2 DEF Reach
  <2>2. e = [slaves |-> d.slaves, known |-> StatesOf(d.slaves),
             done |-> AllIn(StatesOf(d.slaves), target)]
    BY <2>1 DEF Refreshed
  <2> DEFINE u == d.slaves
  <2>3. e = [slaves |-> u, known |-> StatesOf(u), done |-> AllIn(StatesOf(u), target)]
    BY <2>2
  <2> HIDE DEF u
  <2>4. e.slaves = u /\ e.known = StatesOf(u) /\ e.done = AllIn(StatesOf(u), target)
    BY <2>3
  <2> QED
    BY <2>4 DEF Exact
<1> QED
  BY <1>1, <1>2

LEMMA AttemptExact ==
  ASSUME ~Faults, NEW k, NEW a \in Attempts(k)
  PROVE  Exact(a) /\ (a.done => AllIn(a.known, "PRE_OP"))
<1>1. PICK e \in BusInit(slaves, k) :
        a \in IF e.done /\ AllIn(e.known, "PRE_OP")
              THEN {[slaves |-> e.slaves, known |-> e.known, done |-> TRUE]}
              ELSE UNION { Reach(i.slaves, i.known, "PRE_OP")
                             : i \in Reach(e.slaves, e.known, "INIT") }
  BY DEF Attempts
<1>2. e.known = StatesOf(e.slaves)
  <2>1. PICK d \in Exchange(slaves, Undefined, "INIT") :
          e \in IF d.done THEN Exchange(d.slaves, d.known, "PRE_OP") ELSE {d}
    BY DEF BusInit
  <2>2. e \in Exchange(d.slaves, d.known, "PRE_OP") \/ e = d
    BY <2>1
  <2> QED
    BY <2>2, ExchangeExact DEF Exact
<1>3. CASE e.done /\ AllIn(e.known, "PRE_OP")
  <2>1. a = [slaves |-> e.slaves, known |-> e.known, done |-> TRUE]
    BY <1>1, <1>3
  <2>2. a.slaves = e.slaves /\ a.known = e.known
    BY <2>1
  <2> QED
    BY <1>2, <1>3, <2>2 DEF Exact
<1>4. CASE ~(e.done /\ AllIn(e.known, "PRE_OP"))
  <2>1. PICK i \in Reach(e.slaves, e.known, "INIT") : a \in Reach(i.slaves, i.known, "PRE_OP")
    BY <1>1, <1>4
  <2>2. i \in Reach(e.slaves, StatesOf(e.slaves), "INIT")
    BY <1>2, <2>1
  <2>3. i.known = StatesOf(i.slaves)
    BY <2>2, ReachExact DEF Exact
  <2>4. a \in Reach(i.slaves, StatesOf(i.slaves), "PRE_OP")
    BY <2>1, <2>3
  <2> QED
    BY <2>4, ReachExact
<1> QED
  BY <1>3, <1>4

(* What a scan finds, and that no call loses the list of slaves.           *)
LEMMA ScanFinds ==
  ASSUME ~Faults, Scan
  PROVE  known' # Empty /\ detected' = TRUE /\ rows' # Empty
<1>1. ~CallThrows("scan err", TRUE)
  BY DEF CallThrows
<1>2. PICK list \in Lists(TRUE) :
        /\ detected' = (list # Empty)
        /\ list # Empty => known' \in Refreshed(list, slaves)
        /\ rows' = known'
  BY <1>1 DEF Scan
<1>3. list = Undefined
  BY DEF Lists
<1>4. known' = StatesOf(slaves)
  BY <1>2, <1>3, ListNotEmpty DEF Refreshed
<1> QED
  BY <1>2, <1>3, <1>4, ListNotEmpty

LEMMA CallsKeepTheList ==
  ASSUME ~Faults, known # Empty, Scan \/ InitPreop \/ RequestOperational \/ SdoUpload
                                 \/ \E n \in Nodes, m \in Mappings : SdoDownload(n, m)
  PROVE  known' # Empty
<1>1. CASE Scan
  BY <1>1, ScanFinds
<1>2. CASE InitPreop
  <2>1. ~CallThrows("preop err", known = Empty)
    BY DEF CallThrows
  <2>2. \A list \in Lists(known = Empty) : list # Empty
    BY DEF Lists
  <2>3. \E list \in Lists(known = Empty) :
          list # Empty => \E a \in Attempts(list) : known' \in Refreshed(a.known, a.slaves)
    BY <1>2, <2>1 DEF InitPreop
  <2>4. PICK list \in Lists(known = Empty) :
          \E a \in Attempts(list) : known' \in Refreshed(a.known, a.slaves)
    BY <2>2, <2>3
  <2>5. PICK a \in Attempts(list) : known' \in Refreshed(a.known, a.slaves)
    BY <2>4
  <2>6. known' = StatesOf(a.slaves)
    BY <2>5 DEF Refreshed
  <2> QED
    BY <2>6, ListNotEmpty
<1>3. CASE RequestOperational
  <2>1. ~CallThrows("op err", known = Empty)
    BY DEF CallThrows
  <2>2. \A list \in Lists(known = Empty) : list # Empty
    BY DEF Lists
  <2>3. \E list \in Lists(known = Empty) :
          list # Empty => \E e \in Exchange(slaves, list, "OPERATIONAL") :
                            known' \in Refreshed(e.known, e.slaves) \/ known' = e.known
    BY <1>3, <2>1 DEF RequestOperational
  <2>4. PICK list \in Lists(known = Empty) :
          \E e \in Exchange(slaves, list, "OPERATIONAL") :
            known' \in Refreshed(e.known, e.slaves) \/ known' = e.known
    BY <2>2, <2>3
  <2>5. PICK e \in Exchange(slaves, list, "OPERATIONAL") :
          known' \in Refreshed(e.known, e.slaves) \/ known' = e.known
    BY <2>4
  <2>6. known' = StatesOf(e.slaves)
    BY <2>5, ExchangeExact DEF Refreshed, Exact
  <2> QED
    BY <2>6, ListNotEmpty
<1>4. CASE SdoUpload
  BY <1>4 DEF SdoUpload, Empty
<1>5. CASE \E n \in Nodes, m \in Mappings : SdoDownload(n, m)
  BY <1>5 DEF SdoDownload, Empty
<1> QED
  BY <1>1, <1>2, <1>3, <1>4, <1>5

(* With faults a refresh keeps what it could not read, and initPreop takes *)
(* that for a confirmation; without them its success means what it says.   *)
THEOREM PreopIsConfirmed == ~Faults => (Spec => PreopOkIsTrue)
<1> SUFFICES ASSUME ~Faults PROVE Spec => PreopOkIsTrue
  OBVIOUS
<1>1. ASSUME InitPreop, status' = "preop ok"
      PROVE  \A n \in Nodes : slaves'[n].al = "PRE_OP"
  <2>1. ~CallThrows("preop err", known = Empty)
    BY DEF CallThrows
  <2>2. \A list \in Lists(known = Empty) : list # Empty
    BY ListNotEmpty DEF Lists
  <2>3. PICK list \in Lists(known = Empty) :
          /\ IF list = Empty
             THEN /\ known' = Empty /\ preop' = FALSE
                  /\ UNCHANGED slaves
             ELSE \E a \in Attempts(list) :
                    /\ slaves' = a.slaves
                    /\ known' \in Refreshed(a.known, a.slaves)
                    /\ preop' = (a.done \/ AllIn(known', "PRE_OP"))
          /\ status' = IF preop' THEN "preop ok" ELSE "preop err"
    BY <1>1, <2>1 DEF InitPreop
  <2>4. PICK a \in Attempts(list) :
          /\ slaves' = a.slaves
          /\ known' \in Refreshed(a.known, a.slaves)
          /\ preop' = (a.done \/ AllIn(known', "PRE_OP"))
    BY <2>2, <2>3
  <2>5. preop'
    BY <1>1, <2>3
  <2>6. known' = StatesOf(a.slaves)
    BY <2>4 DEF Refreshed
  <2>7. a.known = StatesOf(a.slaves) /\ (a.done => AllIn(a.known, "PRE_OP"))
    BY AttemptExact DEF Exact
  <2>8. AllIn(StatesOf(slaves'), "PRE_OP")
    BY <2>4, <2>5, <2>6, <2>7
  <2> QED
    BY <2>8 DEF AllIn, StatesOf
<1>2. [Next]_vars =>
        [InitPreop /\ status' = "preop ok" => \A n \in Nodes : slaves'[n].al = "PRE_OP"]_vars
  BY <1>1
<1> QED
  BY <1>2, PTL DEF Spec, PreopOkIsTrue

(* ScanInv says nothing once the first step is behind, and no step leads   *)
(* back to it.                                                             *)
ScanStarts == AutoSteps # <<>> /\ auto.step = 1

ScanKept ==
  /\ auto.look \/ auto.tries > 0 => known # Empty
  /\ auto.tries <= 1
  /\ auto.look => detected
  /\ auto.look /\ rows = Empty => worker # "push" \/ pending # Empty
  /\ auto.tries > 0 => worker # "push" \/ pending # Empty
  /\ auto.look /\ auto.tries > 0 => rows # Empty

LEMMA ScanStep ==
  ASSUME ~Faults, MasterInv, ScanInv, [Next]_vars, ScanStarts'
  PROVE  ScanKept'
<1>0. TypeOK /\ (auto.look => ~AutoDone)
  BY DEF MasterInv
<1>a. /\ auto \in [step : 1..Len(AutoSteps) + 1, tries : 0..Tries, look : BOOLEAN]
      /\ auto.tries \in Nat /\ auto.step \in Nat /\ auto.step >= 1
  BY <1>0, Bounds DEF TypeOK
<1>b. AutoSteps = <<"scan", "preop", "op">> /\ AutoSteps # <<>> /\ AutoSteps[1] = "scan"
  BY Bounds DEF ScanStarts
<1>c. Empty' = Empty
  BY DEF Empty
<1>d. auto.step = 1 => ScanKept
  BY <1>b DEF ScanInv, ScanKept
<1>1. CASE Act
  <2>1. auto' = [auto EXCEPT !.look = TRUE] /\ UNCHANGED <<worker, pending, stop>>
    BY <1>1 DEF Act
  <2>2. auto'.step = auto.step /\ auto'.tries = auto.tries /\ auto.step = 1
    BY <1>a, <2>1 DEF ScanStarts
  <2>3. Scan
    BY <1>1, <1>b, <2>2 DEF Act
  <2>4. known' # Empty /\ detected' /\ rows' # Empty
    BY <2>3, ScanFinds
  <2> QED
    BY <1>c, <1>d, <2>1, <2>2, <2>4 DEF ScanKept
<1>2. CASE Look
  <2>1. auto.look /\ UNCHANGED <<known, detected, rows, worker, pending>>
    BY <1>2 DEF Look, modelVars
  <2>2. auto' = IF Achieved[AutoSteps[auto.step]]
                THEN [step |-> auto.step + 1, tries |-> 0, look |-> FALSE]
                ELSE [auto EXCEPT !.tries = auto.tries + 1, !.look = FALSE]
    BY <1>2 DEF Look
  <2>3. CASE Achieved[AutoSteps[auto.step]]
    <3>1. auto'.step = auto.step + 1
      BY <2>2, <2>3
    <3> QED
      BY <1>a, <3>1 DEF ScanStarts
  <2>4. CASE ~Achieved[AutoSteps[auto.step]]
    <3>1. auto'.step = auto.step /\ auto'.tries = auto.tries + 1 /\ ~auto'.look
      BY <1>a, <2>2, <2>4
    <3>2. auto.step = 1 /\ ScanKept
      BY <1>d, <3>1 DEF ScanStarts
    <3>3. ~(detected /\ rows # Empty)
      <4>1. AutoSteps[auto.step] = "scan"
        BY <1>b, <3>2
      <4>2. Achieved["scan"] = (detected /\ rows # Empty)
        BY DEF Achieved
      <4> QED
        BY <2>4, <4>1, <4>2
    <3>4. rows = Empty /\ ~(auto.tries > 0)
      BY <2>1, <3>2, <3>3 DEF ScanKept
    <3>5. auto'.tries <= 1
      BY <1>a, <3>1, <3>4
    <3>6. known' # Empty /\ (worker' # "push" \/ pending' # Empty)
      BY <2>1, <3>2, <3>4 DEF ScanKept
    <3> QED
      BY <1>c, <3>1, <3>5, <3>6 DEF ScanKept
  <2> QED
    BY <2>3, <2>4
<1>3. CASE Key
  <2>1. UNCHANGED <<worker, pending, auto>> /\ AutoDone
    BY <1>3 DEF Key
  <2>2. ~auto.look /\ auto.step = 1 /\ ScanKept
    BY <1>0, <1>d, <2>1 DEF ScanStarts
  <2>3. known # Empty => known' # Empty
    BY <1>3, CallsKeepTheList DEF Key
  <2> QED
    BY <1>c, <2>1, <2>2, <2>3 DEF ScanKept
<1>4. CASE Cycle
  <2>1. UNCHANGED <<known, detected, rows, auto>> /\ pending' = known
    BY <1>4 DEF Cycle, modelVars
  <2>2. ScanKept
    BY <1>d, <2>1 DEF ScanStarts
  <2> QED
    BY <1>c, <2>1, <2>2 DEF ScanKept
<1>5. CASE Push
  <2>1. UNCHANGED <<known, detected, pending, auto>> /\ rows' = pending
        /\ worker = "push" /\ worker' = "loop"
    BY <1>5 DEF Push
  <2>2. ScanKept
    BY <1>d, <2>1 DEF ScanStarts
  <2> QED
    BY <1>c, <2>1, <2>2 DEF ScanKept
<1>6. CASE Ready \/ Leave \/ Launch \/ Stop \/ UNCHANGED vars
  <2>1. UNCHANGED <<known, detected, rows, pending, auto>>
        /\ (worker' = "push" => worker = "push")
    BY <1>6 DEF Ready, Leave, Launch, Stop, vars, modelVars
  <2>2. ScanKept
    BY <1>d, <2>1 DEF ScanStarts
  <2> QED
    BY <1>c, <2>1, <2>2 DEF ScanKept
<1> QED
  BY <1>1, <1>2, <1>3, <1>4, <1>5, <1>6 DEF Next, WorkerNext, MainNext

(* A stale snapshot can hide the result of the first scan only once: the   *)
(* second attempt of the automatic sequence always passes.                 *)
THEOREM SecondScanIsEnough == ~Faults => (Spec => []SecondScanPasses)
<1> SUFFICES ASSUME ~Faults PROVE Spec => []SecondScanPasses
  OBVIOUS
<1>1. Init => ScanInv
  <2> SUFFICES ASSUME Init PROVE ScanInv
    OBVIOUS
  <2>1. auto = [step |-> 1, tries |-> 0, look |-> FALSE]
    BY DEF Init
  <2>2. auto.tries = 0 /\ ~auto.look
    BY <2>1
  <2> QED
    BY <2>2 DEF ScanInv
<1>2. MasterInv /\ ScanInv /\ [Next]_vars => ScanInv'
  <2> SUFFICES ASSUME MasterInv, ScanInv, [Next]_vars PROVE ScanInv'
    OBVIOUS
  <2>1. ScanStarts' => ScanKept'
    BY ScanStep
  <2> QED
    BY <2>1 DEF ScanInv, ScanStarts, ScanKept
<1>3. ScanInv => SecondScanPasses
  BY DEF ScanInv, SecondScanPasses
<1> QED
  BY <1>1, <1>2, <1>3, MasterInvariant, PTL DEF Spec

===============================================================================
