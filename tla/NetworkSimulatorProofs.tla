------------------------ MODULE NetworkSimulatorProofs ------------------------
(***************************************************************************)
(* Proofs about NetworkSimulator, for any number of slave objects, any     *)
(* bound on the registry and on the input mappings, and any logical        *)
(* memory: the types, the count of the registry, the mapping flag of every *)
(* slave, and what a datagram may change.  Then about SimSocket, for any   *)
(* frames and latencies: the queue, and what a frame that writes and reads *)
(* one slave finds with the program at work between its datagrams.         *)
(*                                                                         *)
(* SimSocket adds constants of its own and asks nothing of the others in   *)
(* an assumption, so the theorems about Spec are those of any instance of  *)
(* NetworkSimulator.                                                       *)
(***************************************************************************)
EXTENDS SimSocket, SlaveOpsProofs, SequenceTheorems, FiniteSetTheorems

-----------------------------------------------------------------------------
(* Numbers and sequences.                                                  *)

(* The least number principle, for the set at hand.                        *)
LEMMA Smallest ==
  ASSUME NEW S \in SUBSET Nat, S # {}
  PROVE  \E x \in S : \A y \in S : x <= y
<1> DEFINE R == {p \in Nat \X Nat : p[1] < p[2]}
<1>1. IsWellFoundedOn(R, Nat)
  BY NatLessThanWellFounded DEF OpToRel
<1>2. \E x \in S : \A y \in S : <<y, x>> \notin R
  <2> HIDE DEF R
  <2> QED
    BY <1>1, WFMin
<1>3. PICK x \in S : \A y \in S : <<y, x>> \notin R
  BY <1>2
<1>4. ASSUME NEW y \in S PROVE x <= y
  <2>1. <<y, x>> \in Nat \X Nat /\ <<y, x>>[1] = y /\ <<y, x>>[2] = x
    OBVIOUS
  <2>2. ~(y < x)
    BY <1>3, <2>1
  <2> QED
    BY <2>2
<1> QED
  BY <1>4

LEMMA Largest ==
  ASSUME NEW n \in Nat, NEW S \in SUBSET (1..n), S # {}
  PROVE  \E x \in S : \A y \in S : y <= x
<1> DEFINE D == {n - x : x \in S}
<1>1. D \in SUBSET Nat /\ D # {}
  <2>1. \A x \in S : n - x \in Nat
    OBVIOUS
  <2>2. PICK x \in S : TRUE
    OBVIOUS
  <2>3. n - x \in D
    BY <2>2
  <2> QED
    BY <2>1, <2>3
<1>2. PICK d \in D : \A e \in D : d <= e
  BY <1>1, Smallest
<1>3. PICK x \in S : d = n - x
  OBVIOUS
<1>4. ASSUME NEW y \in S PROVE y <= x
  <2>1. n - y \in D
    OBVIOUS
  <2>2. d <= n - y
    BY <1>2, <2>1
  <2> QED
    BY <1>3, <2>2
<1> QED
  BY <1>4

LEMMA SizeOfPart ==
  ASSUME NEW n \in Nat, NEW S \in SUBSET (1..n)
  PROVE  IsFiniteSet(S) /\ Cardinality(S) \in 0..n
<1>1. IsFiniteSet(1..n) /\ Cardinality(1..n) = n
  BY FS_Interval
<1>2. IsFiniteSet(S) /\ Cardinality(S) <= n
  BY <1>1, FS_Subset
<1> QED
  BY <1>2, FS_CardinalityType

(* A function on 1..n is a sequence of length n.                           *)
LEMMA FunctionIsSeq ==
  ASSUME NEW T, NEW n \in Nat, NEW f \in [1..n -> T]
  PROVE  f \in Seq(T) /\ Len(f) = n
OBVIOUS

(* The bounds on the constants that the proofs use.                        *)
LEMMA Bounds ==
  /\ MaxSlaves \in Nat /\ MaxMaps \in Nat /\ LogicalSize \in Nat /\ InputBytes \in Nat
  /\ 0 \in Bytes /\ 0 \in Addresses
  /\ Widths \subseteq 1..InputBytes /\ ControlWords \subseteq AlControlWords
  /\ OnlineValues \subseteq BOOLEAN /\ OwnMappings \subseteq BOOLEAN
  /\ SdoRequests \subseteq Requests /\ MailboxReads \subseteq Addresses
BY NetworkSimulatorAssumption

-----------------------------------------------------------------------------
(* What the methods that the simulator calls do to one slave.              *)

LEMMA RegistryMethods ==
  ASSUME NEW s \in Slaves
  PROVE  /\ Start(s) \in Slaves /\ Start(s).mapped = s.mapped
         /\ \A on \in BOOLEAN : SetOnline(s, on) \in Slaves /\ SetOnline(s, on).mapped = s.mapped
         /\ \A m \in BOOLEAN : /\ SetInputPDOMapped(s, m) \in Slaves
                              /\ SetInputPDOMapped(s, m).mapped = m
         /\ Routine(s) \in Slaves /\ Routine(s).mapped = s.mapped
         /\ \A ctrl \in AlControlWords : LET t == WriteAlControl(s, ctrl) IN
              t \in Slaves /\ t.mapped = s.mapped /\ t.alControl = ctrl
         /\ \A a \in Addresses : /\ WriteStationAddress(s, a) \in Slaves
                                 /\ WriteStationAddress(s, a).mapped = s.mapped
         /\ ReadMailbox(s) \in Slaves /\ ReadMailbox(s).mapped = s.mapped
<1>1. Start(s) \in Slaves /\ Start(s).mapped = s.mapped
  BY MinorMethods, Zenon
<1>2. ASSUME NEW on \in BOOLEAN
      PROVE  SetOnline(s, on) \in Slaves /\ SetOnline(s, on).mapped = s.mapped
  BY SyncingMethods, Zenon
<1>3. ASSUME NEW m \in BOOLEAN
      PROVE  SetInputPDOMapped(s, m) \in Slaves /\ SetInputPDOMapped(s, m).mapped = m
  <2>1. SetInputPDOMapped(s, m) \in Slaves
    BY MinorMethods, Zenon
  <2>2. SetInputPDOMapped(s, m).mapped = m
    BY DEF SetInputPDOMapped, Slaves
  <2> QED
    BY <2>1, <2>2
<1>4. Routine(s) \in Slaves /\ Routine(s).mapped = s.mapped
  <2>1. SyncCoreRegisters(s) \in Slaves /\ SyncCoreRegisters(s).mapped = s.mapped
    BY SyncCoreFacts, Zenon
  <2> QED
    BY <2>1 DEF Routine
<1>5. ASSUME NEW ctrl \in AlControlWords
      PROVE  /\ WriteAlControl(s, ctrl) \in Slaves
             /\ WriteAlControl(s, ctrl).mapped = s.mapped
             /\ WriteAlControl(s, ctrl).alControl = ctrl
  BY WriteAlControlFacts, Zenon
<1>6. ASSUME NEW a \in Addresses
      PROVE  /\ WriteStationAddress(s, a) \in Slaves
             /\ WriteStationAddress(s, a).mapped = s.mapped
  BY MinorMethods, Zenon
<1>7. ReadMailbox(s) \in Slaves /\ ReadMailbox(s).mapped = s.mapped
  BY MinorMethods, Zenon
<1> QED
  BY <1>1, <1>2, <1>3, <1>4, <1>5, <1>6, <1>7, Zenon

(* A request leaves the flag alone, or a download sets it to m.            *)
LEMMA RequestsAndFlag ==
  ASSUME NEW s \in Slaves, NEW req \in Requests, NEW v \in Values, NEW m \in BOOLEAN
  PROVE  LET t == HandleMailboxWrite(s, req, v, m) IN
         /\ t \in Slaves
         /\ t.mapped = IF req.service = "DOWNLOAD" THEN m ELSE s.mapped
<1>1. HandleMailboxWrite(s, req, v, m) \in Slaves
  BY MailboxWriteFacts
<1>2. HandleMailboxWrite(s, req, v, m).mapped = IF req.service = "DOWNLOAD" THEN m ELSE s.mapped
  BY SMT DEF HandleMailboxWrite, SyncSMStatus, Slaves
<1> QED
  BY <1>1, <1>2

LEMMA ConstructedSlave ==
  ASSUME NEW a \in Addresses
  PROVE  NewSlave(a) \in Slaves /\ NewSlave(a).mapped = FALSE
BY NewSlaveFacts DEF NewSlave

(* The address of a stub wraps to 16 bits.                                 *)
LEMMA AddressWraps ==
  ASSUME TypeOK, NEW i \in Int
  PROVE  NextAddress(i) \in Addresses
<1> DEFINE c == Cardinality(Addresses)
<1>1. c \in Nat /\ c > 0 /\ Addresses = 0..c - 1
  <2>1. c \in Nat
    BY NetworkSimulatorAssumption, FS_CardinalityType
  <2>2. Addresses = 0..c - 1 /\ 0 \in Addresses
    BY NetworkSimulatorAssumption
  <2> HIDE DEF c
  <2>3. 0 \in 0..c - 1
    BY <2>2
  <2> QED
    BY <2>1, <2>2, <2>3
<1> HIDE DEF c
<1>2. \A x \in Int : x % c \in Addresses
  BY <1>1
<1>3. CASE slaves = <<>>
  BY <1>2, <1>3 DEF NextAddress, c
<1>4. CASE slaves # <<>>
  <2>1. Len(slaves) \in Nat \ {0} /\ slaves[Len(slaves)] \in Ids
    <3>1. slaves \in Seq(Ids) /\ Len(slaves) \in Nat
      BY DEF TypeOK
    <3>2. Len(slaves) \in Nat \ {0}
      BY <1>4, <3>1, EmptySeq
    <3> QED
      BY <3>1, <3>2, ElementOfSeq
  <2>2. heap[slaves[Len(slaves)]].address \in Addresses
    BY <2>1 DEF TypeOK, Slaves
  <2>3. heap[slaves[Len(slaves)]].address + i - Len(slaves) \in Int
    BY <1>1, <2>1, <2>2
  <2> QED
    BY <1>2, <1>4, <2>3 DEF NextAddress, c
<1> QED
  BY <1>3, <1>4

-----------------------------------------------------------------------------
(* The inductive invariant.                                                *)

RegistryInv == TypeOK /\ CountIsRegistry /\ MappedHasSource

LEMMA InvInit == Init => RegistryInv
<1> SUFFICES ASSUME Init PROVE RegistryInv
  OBVIOUS
<1>1. TypeOK
  <2>1. NewSlave(0) \in Slaves
    BY ConstructedSlave, Bounds
  <2>2. NoInputs \in Inputs /\ 0 \in Bytes
    BY Bounds DEF Inputs
  <2>3. <<>> \in Seq(Ids) /\ <<>> \in Seq(InputMaps) /\ Len(<<>>) = 0
    OBVIOUS
  <2> QED
    BY <2>1, <2>2, <2>3, Bounds DEF Init, TypeOK, Decisions
<1>2. CountIsRegistry
  BY DEF Init, CountIsRegistry
<1>3. MappedHasSource
  BY DEF Init, MappedHasSource, Alive, Listed
<1> QED
  BY <1>1, <1>2, <1>3 DEF RegistryInv

(* The steps, each named once.                                             *)
LEMMA NextCases ==
  ASSUME Next, NEW G,
         DatagramNext => G, ClearSlaves => G, StartAllSlaves => G,
         ClearInputMappings => G, RunOnce => G,
         \A id \in Ids :
           /\ \A a \in Addresses, own \in BOOLEAN : Construct(id, a, own) => G
           /\ ApplyDefaultTxPdoMapping(id) => G
           /\ Release(id) => G
           /\ AddVirtualSlave(id) => G
           /\ \A on \in BOOLEAN : SwitchOnline(id, on) => G
           /\ \A k \in Offsets, b \in Bytes : SetInput(id, k, b) => G
           /\ \A x \in Cells, w \in Widths : MapDigitalInputs(id, x, w) => G,
         \A n \in 0..MaxSlaves : SetVirtualSlaveCount(n) => G
  PROVE  G
<1> QED
  BY Bounds, Zenon DEF Next, ProgramNext

(* What setVirtualSlaveCount appends: objects that nothing refers to.      *)
LEMMA GrowFacts ==
  ASSUME TypeOK, NEW n \in 0..MaxSlaves, Len(slaves) < n, Grow(n)
  PROVE  /\ slaves' \in Seq(Ids) /\ Len(slaves') = n
         /\ heap' \in [Ids -> Slaves] /\ inputs' \in [Ids -> Inputs]
         /\ dictionary' \in [Ids -> Decisions]
         /\ \A id \in Listed(slaves') : id \in Listed(slaves) \/ id \in Fresh
         /\ \A id \in Ids :
              \/ /\ heap'[id] = heap[id] /\ dictionary'[id] = dictionary[id]
                 /\ id \in Listed(slaves') => id \in Listed(slaves)
              \/ id \in Fresh /\ heap'[id].mapped = FALSE
<1>0. /\ heap \in [Ids -> Slaves] /\ inputs \in [Ids -> Inputs]
      /\ dictionary \in [Ids -> Decisions]
      /\ slaves \in Seq(Ids) /\ Len(slaves) \in Nat /\ DOMAIN slaves = 1..Len(slaves)
      /\ \A i \in 1..Len(slaves) : slaves[i] \in Ids
      /\ n \in Nat
  BY Bounds DEF TypeOK
<1>1. PICK stubs \in [Len(slaves) + 1..n -> Fresh] :
        /\ slaves' = [i \in 1..n |-> IF i \in DOMAIN stubs THEN stubs[i] ELSE slaves[i]]
        /\ heap' = [id \in Ids |-> IF \E i \in DOMAIN stubs : stubs[i] = id
                                   THEN NewSlave(NextAddress(CHOOSE i \in DOMAIN stubs : stubs[i] = id))
                                   ELSE heap[id]]
        /\ inputs' = [id \in Ids |-> IF \E i \in DOMAIN stubs : stubs[i] = id
                                     THEN NoInputs ELSE inputs[id]]
        /\ dictionary' = [id \in Ids |-> IF \E i \in DOMAIN stubs : stubs[i] = id
                                         THEN "untouched" ELSE dictionary[id]]
  BY DEF Grow
<1>2. DOMAIN stubs = Len(slaves) + 1..n /\ Fresh \subseteq Ids
  BY DEF Fresh
<1>3. ASSUME NEW i \in 1..n
      PROVE  /\ slaves'[i] \in Ids
             /\ \/ slaves'[i] \in Listed(slaves)
                \/ slaves'[i] \in Fresh /\ \E j \in DOMAIN stubs : stubs[j] = slaves'[i]
  <2>1. CASE i \in DOMAIN stubs
    BY <1>1, <1>2, <2>1
  <2>2. CASE i \notin DOMAIN stubs
    <3>1. i \in 1..Len(slaves)
      BY <1>0, <1>2, <2>2
    <3>2. slaves'[i] = slaves[i]
      BY <1>1, <2>2
    <3> QED
      BY <1>0, <3>1, <3>2 DEF Listed
  <2> QED
    BY <2>1, <2>2
<1>4. slaves' \in Seq(Ids) /\ Len(slaves') = n /\ DOMAIN slaves' = 1..n
  <2>1. slaves' \in [1..n -> Ids]
    BY <1>1, <1>3
  <2> QED
    BY <1>0, <2>1, FunctionIsSeq
<1>5. ASSUME NEW id \in Ids
      PROVE  IF \E i \in DOMAIN stubs : stubs[i] = id
             THEN /\ heap'[id] \in Slaves /\ heap'[id].mapped = FALSE
                  /\ id \in Fresh /\ inputs'[id] \in Inputs
             ELSE /\ heap'[id] = heap[id] /\ inputs'[id] = inputs[id]
                  /\ dictionary'[id] = dictionary[id]
  <2>1. CASE \E i \in DOMAIN stubs : stubs[i] = id
    <3> DEFINE place == CHOOSE i \in DOMAIN stubs : stubs[i] = id
    <3>1. place \in DOMAIN stubs
      BY <2>1
    <3> HIDE DEF place
    <3>2. place \in Int
      BY <1>0, <1>2, <3>1
    <3>3. NewSlave(NextAddress(place)) \in Slaves /\ NewSlave(NextAddress(place)).mapped = FALSE
      BY <3>2, AddressWraps, ConstructedSlave
    <3>4. heap'[id] = NewSlave(NextAddress(place))
      BY <1>1, <2>1 DEF place
    <3>5. inputs'[id] \in Inputs /\ id \in Fresh
      BY <1>1, <2>1 DEF Inputs
    <3> QED
      BY <2>1, <3>3, <3>4, <3>5
  <2>2. CASE ~\E i \in DOMAIN stubs : stubs[i] = id
    BY <1>1, <2>2
  <2> QED
    BY <2>1, <2>2
<1>9. dictionary' \in [Ids -> Decisions]
  BY <1>0, <1>1 DEF Decisions
<1>6. heap' \in [Ids -> Slaves] /\ inputs' \in [Ids -> Inputs]
  <2>1. \A id \in Ids : heap'[id] \in Slaves /\ inputs'[id] \in Inputs
    BY <1>0, <1>5
  <2>2. heap' = [id \in Ids |-> heap'[id]] /\ inputs' = [id \in Ids |-> inputs'[id]]
    BY <1>1
  <2> QED
    BY <2>1, <2>2
<1>7. \A id \in Listed(slaves') : id \in Listed(slaves) \/ id \in Fresh
  BY <1>3, <1>4 DEF Listed
<1>8. ASSUME NEW id \in Ids
      PROVE  \/ /\ heap'[id] = heap[id] /\ dictionary'[id] = dictionary[id]
                /\ id \in Listed(slaves') => id \in Listed(slaves)
             \/ id \in Fresh /\ heap'[id].mapped = FALSE
  <2>1. CASE \E i \in DOMAIN stubs : stubs[i] = id
    BY <1>5, <2>1
  <2>2. CASE ~\E i \in DOMAIN stubs : stubs[i] = id
    <3>1. ASSUME id \in Listed(slaves') PROVE id \in Listed(slaves)
      <4>1. PICK i \in 1..n : id = slaves'[i]
        BY <1>4, <3>1 DEF Listed
      <4> QED
        BY <1>3, <2>2, <4>1
    <3> QED
      BY <1>5, <2>2, <3>1
  <2> QED
    BY <2>1, <2>2
<1> QED
  BY <1>4, <1>6, <1>7, <1>8, <1>9

(* The working counter of a datagram stays within the bound.               *)
LEMMA CountersTyped ==
  ASSUME TypeOK
  PROVE  /\ CountOrOne \in 0..MaxSlaves + 1
         /\ Cardinality(BroadcastTargets) \in 0..MaxSlaves + 1
         /\ \A b \in BOOLEAN : Bool2Wkc(b) \in 0..MaxSlaves + 1
<1> DEFINE online == {i \in DOMAIN slaves : heap[slaves[i]].online}
<1>0. /\ Len(slaves) \in Nat /\ Len(slaves) <= MaxSlaves /\ DOMAIN slaves = 1..Len(slaves)
      /\ count \in 0..MaxSlaves /\ MaxSlaves \in Nat
  BY Bounds DEF TypeOK
<1>1. Cardinality(online) \in 0..Len(slaves)
  <2>1. online \in SUBSET (1..Len(slaves))
    BY <1>0
  <2> HIDE DEF online
  <2> QED
    BY <1>0, <2>1, SizeOfPart
<1>2. OnlineSlaveCount \in 0..MaxSlaves
  <2>1. OnlineSlaveCount = Cardinality(online)
                             + (IF count > Len(slaves) THEN count - Len(slaves) ELSE 0)
    BY DEF OnlineSlaveCount
  <2> HIDE DEF online
  <2> QED
    BY <1>0, <1>1, <2>1
<1>3. CountOrOne \in 0..MaxSlaves + 1
  BY <1>0, <1>2 DEF CountOrOne
<1>4. Cardinality(BroadcastTargets) \in 0..MaxSlaves + 1
  <2>1. BroadcastTargets \in SUBSET (1..Len(slaves))
    BY <1>0, <1>2 DEF BroadcastTargets
  <2>2. Cardinality(BroadcastTargets) \in 0..Len(slaves)
    BY <1>0, <2>1, SizeOfPart, SMTT(30)
  <2> QED
    BY <1>0, <2>2
<1> QED
  BY <1>0, <1>3, <1>4 DEF Bool2Wkc

(* The flag of a slave stays with the decision of its dictionary, or the   *)
(* dictionary decides anew.                                                *)
FlagKept(id) ==
  \/ heap'[id].mapped = heap[id].mapped /\ dictionary'[id] = dictionary[id]
  \/ dictionary'[id] = IF heap'[id].mapped THEN "mapped" ELSE "unmapped"

(* The bearer of a station address is in the registry and online.          *)
LEMMA BearerFacts ==
  ASSUME TypeOK, NEW a \in Addresses, Bearers(a) # {}
  PROVE  Bearer(a) \in Ids /\ Bearer(a) \in Listed(slaves) /\ heap[Bearer(a)].online
<1>1. /\ DOMAIN slaves = 1..Len(slaves) /\ Len(slaves) \in Nat
      /\ \A i \in 1..Len(slaves) : slaves[i] \in Ids /\ slaves[i] \in Listed(slaves)
  BY DEF TypeOK, Listed
<1>2. Bearers(a) \in SUBSET Nat
  BY <1>1 DEF Bearers
<1>3. \E i \in Bearers(a) : \A j \in Bearers(a) : i <= j
  BY <1>2, Smallest
<1>4. First(Bearers(a)) \in Bearers(a)
  BY <1>3, SMTT(30) DEF First
<1> QED
  BY <1>1, <1>4 DEF Bearers, Bearer

(* What any datagram does to the slaves: nothing but to those in the       *)
(* registry that are online, and to these by a write of AL_CONTROL, of the *)
(* station address or of the mailbox.                                      *)
LEMMA DatagramFacts ==
  ASSUME TypeOK, DatagramNext
  PROVE  /\ TypeOK'
         /\ UNCHANGED <<inputs, slaves, held, count, maps>>
         /\ \A id \in Ids : FlagKept(id)
         /\ \A id \in Ids : ~(id \in Listed(slaves) /\ heap[id].online) => heap'[id] = heap[id]
<1> DEFINE Only == \A id \in Ids :
                     ~(id \in Listed(slaves) /\ heap[id].online) => heap'[id] = heap[id]
           Fine == /\ heap' \in [Ids -> Slaves]
                   /\ \A id \in Ids : heap'[id].mapped = heap[id].mapped
                   /\ Only
           Kept4 == UNCHANGED <<inputs, slaves, held, count, maps>>
           Counted == wkc' \in 0..MaxSlaves + 1 /\ logical' \in [Cells -> Bytes]
           Kind == Kept4 /\ dictionary' = dictionary /\ Counted /\ Fine
           Decided == /\ Kept4 /\ Counted /\ Only
                      /\ heap' \in [Ids -> Slaves] /\ dictionary' \in [Ids -> Decisions]
                      /\ \A id \in Ids : FlagKept(id)
<1>0. /\ heap \in [Ids -> Slaves] /\ logical \in [Cells -> Bytes]
      /\ dictionary \in [Ids -> Decisions]
      /\ DOMAIN slaves = 1..Len(slaves) /\ Len(slaves) \in Nat
      /\ \A i \in 1..Len(slaves) : slaves[i] \in Ids /\ slaves[i] \in Listed(slaves)
  BY DEF TypeOK, Listed
<1>a. heap' = heap => Fine
  BY <1>0
<1>b. ASSUME NEW s \in Slaves, NEW ctrl \in ControlWords
      PROVE  WriteAlControl(s, ctrl) \in Slaves /\ WriteAlControl(s, ctrl).mapped = s.mapped
  <2>1. ctrl \in AlControlWords
    BY Bounds
  <2> QED
    BY <2>1, RegistryMethods, Zenon
<1>c. ASSUME NEW id \in Listed(slaves), heap[id].online, NEW ctrl \in ControlWords,
             heap' = [heap EXCEPT ![id] = WriteAlControl(@, ctrl)]
      PROVE  Fine
  <2>1. id \in Ids
    BY <1>0 DEF Listed
  <2> QED
    BY <1>0, <1>b, <1>c, <2>1
<1>1. ASSUME BroadcastRead PROVE Kind
  BY <1>0, <1>1, <1>a, CountersTyped DEF BroadcastRead, registryVars, deviceVars
<1>2. ASSUME NEW cmd, AcknowledgeOnly(cmd) PROVE Kind
  <2>1. wkc' \in 0..MaxSlaves + 1
    <3>1. 0 \in 0..MaxSlaves + 1
      BY Bounds
    <3>2. Bool2Wkc(OnlineSlaveCount > 0) \in 0..MaxSlaves + 1
      BY Bounds DEF Bool2Wkc
    <3> QED
      BY <1>2, <3>1, <3>2, CountersTyped DEF AcknowledgeOnly
  <2> QED
    BY <1>0, <1>2, <1>a, <2>1 DEF AcknowledgeOnly, registryVars, deviceVars
<1>3. ASSUME NEW ctrl \in ControlWords, BroadcastAlControl(ctrl) PROVE Kind
  <2> DEFINE written == {slaves[i] : i \in BroadcastTargets}
  <2>1. ASSUME NEW id \in written PROVE id \in Ids /\ id \in Listed(slaves) /\ heap[id].online
    <3>1. PICK i \in BroadcastTargets : id = slaves[i]
      OBVIOUS
    <3>2. i \in Int /\ 1 <= i
      BY DEF BroadcastTargets
    <3>3. i \in 1..Len(slaves) /\ heap[slaves[i]].online
      BY <1>0, <3>2 DEF BroadcastTargets
    <3> QED
      BY <1>0, <3>1, <3>3
  <2>2. heap' = [id \in Ids |-> IF id \in written THEN WriteAlControl(heap[id], ctrl) ELSE heap[id]]
    BY <1>3 DEF BroadcastAlControl
  <2> HIDE DEF written
  <2>3. Fine
    BY <1>0, <1>b, <2>1, <2>2
  <2> QED
    BY <1>0, <1>3, <2>3, CountersTyped DEF BroadcastAlControl, registryVars, deviceVars
<1>4. ASSUME NEW a \in Addresses, StationRead(a) PROVE Kind
  <2>1. ReadFromSlave(a).ok \in BOOLEAN
    BY DEF ReadFromSlave
  <2> QED
    BY <1>0, <1>4, <1>a, <2>1, CountersTyped DEF StationRead, registryVars, deviceVars
<1>d. ASSUME NEW a \in Addresses, wkc' = Bool2Wkc(StationAnswers(a)) PROVE wkc' \in 0..MaxSlaves + 1
  BY <1>d, Bounds DEF Bool2Wkc
<1>5. ASSUME NEW a \in Addresses, NEW ctrl \in ControlWords, StationAlControl(a, ctrl)
      PROVE  Kind
  <2>1. Fine
    <3>1. CASE Bearers(a) # {}
      <4>1. heap' = [heap EXCEPT ![Bearer(a)] = WriteAlControl(@, ctrl)]
        BY <1>5, <3>1 DEF StationAlControl
      <4> QED
        BY <1>c, <3>1, <4>1, BearerFacts
    <3>2. CASE Bearers(a) = {}
      BY <1>5, <1>a, <3>2 DEF StationAlControl
    <3> QED
      BY <3>1, <3>2
  <2> QED
    BY <1>0, <1>5, <1>d, <2>1 DEF StationAlControl, registryVars, deviceVars
<1>12. ASSUME NEW a \in Addresses, NEW req \in SdoRequests, StationMailboxWrite(a, req)
       PROVE  Decided
  <2>0. req \in Requests
    BY Bounds
  <2>1. Kept4 /\ Counted
    BY <1>0, <1>12, <1>d DEF StationMailboxWrite, registryVars
  <2>2. CASE Bearers(a) = {}
    <3>1. heap' = heap /\ dictionary' = dictionary
      BY <1>12, <2>2 DEF StationMailboxWrite
    <3> QED
      BY <1>0, <2>1, <3>1 DEF FlagKept
  <2>3. CASE Bearers(a) # {}
    <3> DEFINE id == Bearer(a)
    <3>1. PICK v \in Values, m \in BOOLEAN :
            /\ ~Decides(id, req) => m = heap[id].mapped
            /\ heap' = [heap EXCEPT ![id] = HandleMailboxWrite(@, req, v, m)]
            /\ dictionary' = IF Decides(id, req)
                             THEN [dictionary EXCEPT ![id] = IF m THEN "mapped" ELSE "unmapped"]
                             ELSE dictionary
      BY <1>12, <2>3 DEF StationMailboxWrite
    <3>2. id \in Ids /\ id \in Listed(slaves) /\ heap[id].online
      BY <2>3, BearerFacts
    <3> DEFINE s == HandleMailboxWrite(heap[id], req, v, m)
    <3> HIDE DEF id
    <3>3. /\ s \in Slaves
          /\ s.mapped = IF req.service = "DOWNLOAD" THEN m ELSE heap[id].mapped
      BY <1>0, <2>0, <3>2, RequestsAndFlag
    <3>4. heap' = [heap EXCEPT ![id] = s]
      BY <3>1
    <3> HIDE DEF s
    <3>5. heap' \in [Ids -> Slaves] /\ heap'[id] = s /\ Only
      BY <1>0, <3>2, <3>3, <3>4
    <3>6. \A other \in Ids \ {id} : heap'[other] = heap[other]
      BY <1>0, <3>4
    <3>7. CASE Decides(id, req)
      <4>1. dictionary' = [dictionary EXCEPT ![id] = IF m THEN "mapped" ELSE "unmapped"]
        BY <3>1, <3>7
      <4>2. dictionary' \in [Ids -> Decisions]
        BY <1>0, <4>1 DEF Decisions
      <4>3. s.mapped = m
        BY <3>3, <3>7 DEF Decides
      <4>4. FlagKept(id)
        BY <1>0, <3>2, <3>5, <4>1, <4>3 DEF FlagKept
      <4>5. \A other \in Ids \ {id} : FlagKept(other)
        BY <1>0, <3>6, <4>1 DEF FlagKept
      <4> QED
        BY <2>1, <3>5, <4>2, <4>4, <4>5
    <3>8. CASE ~Decides(id, req)
      <4>1. dictionary' = dictionary /\ s.mapped = heap[id].mapped
        BY <3>1, <3>3, <3>8
      <4>2. \A other \in Ids : FlagKept(other)
        BY <3>5, <3>6, <4>1 DEF FlagKept
      <4> QED
        BY <1>0, <2>1, <3>5, <4>1, <4>2
    <3> QED
      BY <3>7, <3>8
  <2> QED
    BY <2>2, <2>3
<1>13. ASSUME NEW a \in Addresses, StationMailboxRead(a) PROVE Kind
  <2>1. Fine
    <3>1. CASE Bearers(a) # {}
      <4> DEFINE id == Bearer(a)
      <4>1. heap' = [heap EXCEPT ![id] = ReadMailbox(@)]
        BY <1>13, <3>1 DEF StationMailboxRead
      <4>2. id \in Ids /\ id \in Listed(slaves) /\ heap[id].online
        BY <3>1, BearerFacts
      <4> HIDE DEF id
      <4>3. ReadMailbox(heap[id]) \in Slaves /\ ReadMailbox(heap[id]).mapped = heap[id].mapped
        BY <1>0, <4>2, RegistryMethods
      <4> QED
        BY <1>0, <4>1, <4>2, <4>3
    <3>2. CASE Bearers(a) = {}
      BY <1>13, <1>a, <3>2 DEF StationMailboxRead
    <3> QED
      BY <3>1, <3>2
  <2> QED
    BY <1>0, <1>13, <1>d, <2>1 DEF StationMailboxRead, registryVars, deviceVars
<1>6. ASSUME NEW adp \in Positions, IndexRead(adp) PROVE Kind
  <2>1. wkc' \in 0..MaxSlaves + 1
    BY <1>6, Bounds DEF IndexRead, Bool2Wkc
  <2> QED
    BY <1>0, <1>6, <1>a, <2>1 DEF IndexRead, registryVars, deviceVars
<1>7. ASSUME NEW adp \in Positions, NEW a \in Addresses, IndexStationAddress(adp, a)
      PROVE  Kind
  <2> DEFINE i == Position(adp) + 1
             id == slaves[i]
  <2>1. wkc' \in 0..MaxSlaves + 1
    BY <1>7, Bounds DEF IndexStationAddress, Bool2Wkc
  <2>2. CASE IndexReachable(i)
    <3>1. id \in Ids /\ id \in Listed(slaves) /\ heap[id].online
      BY <1>0, <2>2 DEF IndexReachable
    <3>2. heap' = [heap EXCEPT ![id] = WriteStationAddress(@, a)]
      BY <1>7, <2>2 DEF IndexStationAddress
    <3>3. /\ WriteStationAddress(heap[id], a) \in Slaves
          /\ WriteStationAddress(heap[id], a).mapped = heap[id].mapped
      BY <1>0, <3>1, RegistryMethods
    <3> HIDE DEF id
    <3>4. Fine
      BY <1>0, <3>1, <3>2, <3>3
    <3> QED
      BY <1>0, <1>7, <2>1, <3>4 DEF IndexStationAddress, registryVars, deviceVars
  <2>3. CASE ~IndexReachable(i)
    <3>1. heap' = heap
      BY <1>7, <2>3 DEF IndexStationAddress
    <3> QED
      BY <1>0, <1>7, <1>a, <2>1, <3>1 DEF IndexStationAddress, registryVars, deviceVars
  <2> QED
    BY <2>2, <2>3
<1>8. ASSUME NEW x \in Cells, NEW len \in Widths, ReadLogical(x, len) PROVE Kind
  <2>1. wkc' \in 0..MaxSlaves + 1
    BY <1>8, Bounds DEF ReadLogical, Bool2Wkc
  <2> QED
    BY <1>0, <1>8, <1>a, <2>1 DEF ReadLogical, registryVars, deviceVars
<1>9. ASSUME NEW x \in Cells, NEW len \in Widths, NEW b \in Bytes, WriteLogical(x, len, b)
      PROVE  Kind
  <2>1. wkc' \in 0..MaxSlaves + 1
    BY <1>9, Bounds DEF WriteLogical, Bool2Wkc
  <2>2. logical' \in [Cells -> Bytes]
    BY <1>0, <1>9 DEF WriteLogical
  <2> QED
    BY <1>0, <1>9, <1>a, <2>1, <2>2 DEF WriteLogical, registryVars, deviceVars
<1>14. Kind => Decided
  BY <1>0 DEF FlagKept
<1> HIDE DEF Kind, Decided
<1>15. MailboxReads \subseteq Addresses
  BY Bounds
<1>10. Kind \/ Decided
  BY <1>1, <1>2, <1>3, <1>4, <1>5, <1>6, <1>7, <1>8, <1>9, <1>12, <1>13, <1>15
  DEF DatagramNext
<1>11. Decided => TypeOK'
  BY DEF Decided, TypeOK
<1> QED
  BY <1>10, <1>11, <1>14 DEF Decided

(* The mappings that runOnce keeps: those of living slaves, all of them.   *)
LEMMA RemainingFacts ==
  ASSUME TypeOK, NEW kept \in Remaining, maps' = [i \in DOMAIN kept |-> maps[kept[i]]]
  PROVE  /\ maps' \in Seq(InputMaps) /\ Len(maps') <= MaxMaps
         /\ {maps'[k].slave : k \in DOMAIN maps'} = Mapped \cap Alive
<1> DEFINE live == {k \in DOMAIN maps : maps[k].slave \in Alive}
<1>0. /\ Len(maps) \in Nat /\ Len(maps) <= MaxMaps /\ MaxMaps \in Nat
      /\ \A k \in DOMAIN maps : maps[k] \in InputMaps
  BY Bounds DEF TypeOK
<1>1. /\ kept \in UNION {[1..n -> live] : n \in 0..Len(maps)}
      /\ \A k \in live : \E i \in DOMAIN kept : kept[i] = k
  BY DEF Remaining
<1>2. PICK n \in 0..Len(maps) : kept \in [1..n -> live]
  BY <1>1
<1>3. n \in Nat /\ n <= MaxMaps /\ DOMAIN kept = 1..n /\ \A i \in 1..n : kept[i] \in live
  BY <1>0, <1>2
<1>4. maps' \in [1..n -> InputMaps]
  BY <1>0, <1>3
<1>5. maps' \in Seq(InputMaps) /\ Len(maps') = n /\ DOMAIN maps' = 1..n
  BY <1>3, <1>4, FunctionIsSeq
<1>6. ASSUME NEW k \in 1..n PROVE maps'[k].slave \in Mapped /\ maps'[k].slave \in Alive
  BY <1>3 DEF Mapped
<1>7. ASSUME NEW id \in Mapped, id \in Alive PROVE \E k \in 1..n : maps'[k].slave = id
  <2>1. PICK j \in DOMAIN maps : maps[j].slave = id
    BY DEF Mapped
  <2>2. j \in live
    BY <1>7, <2>1
  <2>3. PICK i \in DOMAIN kept : kept[i] = j
    BY <1>1, <2>2
  <2> QED
    BY <1>3, <2>1, <2>3
<1>8. {maps'[k].slave : k \in DOMAIN maps'} \subseteq Mapped \cap Alive
  BY <1>5, <1>6
<1>9. Mapped \cap Alive \subseteq {maps'[k].slave : k \in DOMAIN maps'}
  BY <1>5, <1>7
<1> QED
  BY <1>3, <1>5, <1>8, <1>9

(* What runOnce finds for a cell is a byte: a writer of the cell has       *)
(* inputs, and the cell is within its width.                               *)
LEMMA WrittenBytes ==
  ASSUME TypeOK, NEW x \in Cells, Writers(x) # {}
  PROVE  LET k == LastWriter(x) IN inputs[maps[k].slave][x - maps[k].address] \in Bytes
<1> DEFINE k == LastWriter(x)
<1>1. Len(maps) \in Nat /\ DOMAIN maps = 1..Len(maps) /\ \A j \in 1..Len(maps) : maps[j] \in InputMaps
  BY DEF TypeOK
<1>2. Writers(x) \in SUBSET (1..Len(maps))
  BY <1>1 DEF Writers
<1>3. k \in Writers(x)
  <2>1. \E y \in Writers(x) : \A j \in Writers(x) : j <= y
    BY <1>1, <1>2, Largest
  <2> QED
    BY <2>1 DEF LastWriter
<1> HIDE DEF k
<1> DEFINE m == maps[k]
<1>4. /\ m \in InputMaps /\ inputs[m.slave] # NoInputs
      /\ m.address <= x /\ x < m.address + m.width
  BY <1>1, <1>2, <1>3 DEF Writers
<1> HIDE DEF m
<1>5. m.slave \in Ids /\ m.address \in Cells /\ m.width \in Widths
  BY <1>4 DEF InputMaps
<1>6. x - m.address \in Offsets
  <2>1. m.width \in 1..InputBytes /\ InputBytes \in Nat /\ LogicalSize \in Nat
    BY <1>5, Bounds
  <2>2. m.address \in Int /\ x \in Int
    BY <1>5, <2>1 DEF Cells
  <2> QED
    BY <1>4, <2>1, <2>2 DEF Offsets
<1>7. inputs[m.slave] \in [Offsets -> Bytes]
  BY <1>4, <1>5 DEF TypeOK, Inputs
<1> QED
  BY <1>6, <1>7 DEF m, k

LEMMA TypeStep == TypeOK /\ [Next]_vars => TypeOK'
<1> SUFFICES ASSUME TypeOK, [Next]_vars PROVE TypeOK'
  OBVIOUS
<1>0. heap \in [Ids -> Slaves] /\ inputs \in [Ids -> Inputs] /\ held \subseteq Ids
  BY DEF TypeOK
<1>9. dictionary \in [Ids -> Decisions]
  BY DEF TypeOK
<1>1. ASSUME DatagramNext PROVE TypeOK'
  BY <1>1, DatagramFacts
<1>2. ASSUME ClearSlaves PROVE TypeOK'
  BY <1>2, Bounds DEF deviceVars, ClearSlaves, TypeOK
<1>3. ASSUME StartAllSlaves PROVE TypeOK'
  <2>1. \A id \in Ids : Start(heap[id]) \in Slaves
    BY <1>0, RegistryMethods
  <2> QED
    BY <1>0, <1>3, <2>1 DEF deviceVars, StartAllSlaves, TypeOK, registryVars
<1>4. ASSUME ClearInputMappings PROVE TypeOK'
  <2>1. \A id \in Ids : SetInputPDOMapped(heap[id], FALSE) \in Slaves
    BY <1>0, RegistryMethods
  <2>2. maps' \in Seq(InputMaps) /\ Len(maps') <= MaxMaps
    <3>1. <<>> \in Seq(InputMaps) /\ Len(<<>>) = 0
      OBVIOUS
    <3> QED
      BY <1>4, <3>1, Bounds DEF deviceVars, ClearInputMappings
  <2>3. heap' \in [Ids -> Slaves]
    BY <1>0, <1>4, <2>1 DEF deviceVars, ClearInputMappings
  <2> QED
    BY <1>4, <2>2, <2>3 DEF deviceVars, ClearInputMappings, TypeOK
<1>5. ASSUME RunOnce PROVE TypeOK'
  <2>1. heap' \in [Ids -> Slaves]
    <3>1. \A id \in Ids : Routine(heap[id]) \in Slaves
      BY <1>0, RegistryMethods
    <3> QED
      BY <1>0, <1>5, <3>1 DEF deviceVars, RunOnce
  <2>2. logical' \in [Cells -> Bytes]
    <3>1. \A x \in Cells : logical'[x] \in Bytes
      BY <1>5, WrittenBytes DEF deviceVars, RunOnce, TypeOK
    <3> QED
      BY <1>5, <3>1 DEF deviceVars, RunOnce
  <2>3. maps' \in Seq(InputMaps) /\ Len(maps') <= MaxMaps
    BY <1>5, RemainingFacts DEF deviceVars, RunOnce
  <2> QED
    BY <1>5, <2>1, <2>2, <2>3 DEF deviceVars, RunOnce, TypeOK
<1>6. ASSUME NEW id \in Ids
      PROVE  /\ \A a \in Addresses, own \in BOOLEAN : Construct(id, a, own) => TypeOK'
             /\ ApplyDefaultTxPdoMapping(id) => TypeOK'
             /\ Release(id) => TypeOK'
             /\ AddVirtualSlave(id) => TypeOK'
             /\ \A on \in BOOLEAN : SwitchOnline(id, on) => TypeOK'
             /\ \A k \in Offsets, b \in Bytes : SetInput(id, k, b) => TypeOK'
             /\ \A x \in Cells, w \in Widths : MapDigitalInputs(id, x, w) => TypeOK'
  <2>1. ASSUME NEW a \in Addresses, NEW own \in BOOLEAN, Construct(id, a, own) PROVE TypeOK'
    <3>1. SetInputPDOMapped(NewSlave(a), own) \in Slaves
      BY ConstructedSlave, RegistryMethods
    <3>2. [i \in Offsets |-> 0] \in Inputs
      BY Bounds DEF Inputs
    <3> QED
      BY <1>0, <1>9, <2>1, <3>1, <3>2 DEF Construct, TypeOK, Decisions
  <2>7. ASSUME ApplyDefaultTxPdoMapping(id) PROVE TypeOK'
    <3>1. SetInputPDOMapped(heap[id], TRUE) \in Slaves
      BY <1>0, RegistryMethods
    <3> QED
      BY <1>0, <1>9, <2>7, <3>1 DEF ApplyDefaultTxPdoMapping, TypeOK, Decisions, registryVars
  <2>2. ASSUME Release(id) PROVE TypeOK'
    BY <2>2 DEF deviceVars, Release, TypeOK
  <2>3. ASSUME AddVirtualSlave(id) PROVE TypeOK'
    <3>1. slaves' \in Seq(Ids) /\ Len(slaves') = Len(slaves) + 1
      BY <2>3, AppendProperties DEF deviceVars, AddVirtualSlave, TypeOK
    <3>2. Len(slaves') \in 0..MaxSlaves
      BY <2>3, <3>1, Bounds DEF deviceVars, AddVirtualSlave, TypeOK
    <3> QED
      BY <2>3, <3>1, <3>2, Bounds DEF deviceVars, AddVirtualSlave, TypeOK
  <2>4. ASSUME NEW on \in BOOLEAN, SwitchOnline(id, on) PROVE TypeOK'
    <3>1. SetOnline(heap[id], on) \in Slaves
      BY <1>0, RegistryMethods
    <3> QED
      BY <1>0, <2>4, <3>1 DEF deviceVars, SwitchOnline, TypeOK, registryVars
  <2>5. ASSUME NEW k \in Offsets, NEW b \in Bytes, SetInput(id, k, b) PROVE TypeOK'
    <3>1. inputs[id] \in [Offsets -> Bytes]
      BY <1>0, <2>5 DEF SetInput, Inputs
    <3>2. [inputs[id] EXCEPT ![k] = b] \in Inputs
      BY <3>1 DEF Inputs
    <3>3. inputs' = [inputs EXCEPT ![id] = [inputs[id] EXCEPT ![k] = b]]
      BY <2>5 DEF SetInput
    <3> QED
      BY <1>0, <2>5, <3>2, <3>3 DEF SetInput, TypeOK, registryVars
  <2>6. ASSUME NEW x \in Cells, NEW w \in Widths, MapDigitalInputs(id, x, w) PROVE TypeOK'
    <3>1. [slave |-> id, address |-> x, width |-> w] \in InputMaps
      BY DEF InputMaps
    <3>2. maps' \in Seq(InputMaps) /\ Len(maps') = Len(maps) + 1
      BY <2>6, <3>1, AppendProperties DEF deviceVars, MapDigitalInputs, TypeOK
    <3>3. Len(maps') <= MaxMaps
      BY <2>6, <3>2, Bounds DEF deviceVars, MapDigitalInputs, TypeOK
    <3>4. SetInputPDOMapped(heap[id], TRUE) \in Slaves
      BY <1>0, RegistryMethods
    <3> QED
      BY <1>0, <2>6, <3>2, <3>3, <3>4 DEF deviceVars, MapDigitalInputs, TypeOK
  <2> QED
    BY <2>1, <2>2, <2>3, <2>4, <2>5, <2>6, <2>7
<1>7. ASSUME NEW n \in 0..MaxSlaves, SetVirtualSlaveCount(n) PROVE TypeOK'
  <2>1. CASE Len(slaves) < n
    <3>1. Grow(n)
      BY <1>7, <2>1 DEF deviceVars, SetVirtualSlaveCount
    <3>2. /\ slaves' \in Seq(Ids) /\ Len(slaves') = n
          /\ heap' \in [Ids -> Slaves] /\ inputs' \in [Ids -> Inputs]
          /\ dictionary' \in [Ids -> Decisions]
      BY <2>1, <3>1, GrowFacts
    <3> QED
      BY <1>7, <3>2, Bounds DEF deviceVars, SetVirtualSlaveCount, TypeOK
  <2>2. CASE ~(Len(slaves) < n)
    <3>1. slaves' = SubSeq(slaves, 1, n) /\ UNCHANGED <<heap, inputs, dictionary>>
      BY <1>7, <2>2 DEF deviceVars, SetVirtualSlaveCount, Shrink
    <3>2. slaves' \in Seq(Ids) /\ Len(slaves') = n
      BY <2>2, <3>1, Bounds DEF TypeOK
    <3> QED
      BY <1>7, <3>1, <3>2, Bounds DEF deviceVars, SetVirtualSlaveCount, TypeOK
  <2> QED
    BY <2>1, <2>2
<1>8. ASSUME UNCHANGED vars PROVE TypeOK'
  BY <1>8 DEF deviceVars, vars, registryVars, TypeOK
<1> QED
  BY <1>1, <1>2, <1>3, <1>4, <1>5, <1>6, <1>7, <1>8, NextCases

LEMMA CountStep == TypeOK /\ CountIsRegistry /\ [Next]_vars => CountIsRegistry'
<1> SUFFICES ASSUME TypeOK, CountIsRegistry, [Next]_vars PROVE CountIsRegistry'
  OBVIOUS
<1> USE DEF CountIsRegistry
<1>1. ASSUME UNCHANGED <<slaves, count>> PROVE CountIsRegistry'
  BY <1>1
<1>2. ASSUME count' = Len(slaves') PROVE CountIsRegistry'
  BY <1>2
<1> HIDE DEF CountIsRegistry
<1>3. DatagramNext => CountIsRegistry'
  BY <1>1, DatagramFacts
<1>4. ClearSlaves => CountIsRegistry'
  BY <1>2 DEF deviceVars, ClearSlaves
<1>5. StartAllSlaves => CountIsRegistry'
  BY <1>1 DEF deviceVars, StartAllSlaves, registryVars
<1>6. ClearInputMappings => CountIsRegistry'
  BY <1>1 DEF deviceVars, ClearInputMappings
<1>7. RunOnce => CountIsRegistry'
  BY <1>1 DEF deviceVars, RunOnce
<1>8. ASSUME NEW id \in Ids
      PROVE  /\ \A a \in Addresses, own \in BOOLEAN : Construct(id, a, own) => CountIsRegistry'
             /\ ApplyDefaultTxPdoMapping(id) => CountIsRegistry'
             /\ Release(id) => CountIsRegistry'
             /\ AddVirtualSlave(id) => CountIsRegistry'
             /\ \A on \in BOOLEAN : SwitchOnline(id, on) => CountIsRegistry'
             /\ \A k \in Offsets, b \in Bytes : SetInput(id, k, b) => CountIsRegistry'
             /\ \A x \in Cells, w \in Widths : MapDigitalInputs(id, x, w) => CountIsRegistry'
  BY <1>1, <1>2 DEF Construct, ApplyDefaultTxPdoMapping, Release, AddVirtualSlave, SwitchOnline, SetInput, MapDigitalInputs,
                    registryVars, deviceVars
<1>9. ASSUME NEW n \in 0..MaxSlaves PROVE SetVirtualSlaveCount(n) => CountIsRegistry'
  BY <1>2 DEF deviceVars, SetVirtualSlaveCount
<1>10. ASSUME UNCHANGED vars PROVE CountIsRegistry'
  BY <1>1, <1>10 DEF deviceVars, vars, registryVars
<1> QED
  BY <1>3, <1>4, <1>5, <1>6, <1>7, <1>8, <1>9, <1>10, NextCases

(* The flags stay explained while the mappings stay and no object is made. *)
LEMMA FlagsStay ==
  ASSUME MappedHasSource, maps' = maps,
         \A id \in Alive' : id \in Alive /\ FlagKept(id)
  PROVE  MappedHasSource'
<1>1. Mapped' = Mapped
  BY DEF Mapped
<1> QED
  BY <1>1 DEF MappedHasSource, FlagKept

(* The objects of the registry after an append and after a cut.            *)
LEMMA ListedAfter ==
  ASSUME TypeOK
  PROVE  /\ Alive \subseteq Ids
         /\ \A id \in Ids : slaves' = Append(slaves, id) => Listed(slaves)' \subseteq Listed(slaves) \union {id}
         /\ \A n \in 0..Len(slaves) :
              slaves' = SubSeq(slaves, 1, n) => Listed(slaves)' \subseteq Listed(slaves)
<1>0. /\ slaves \in Seq(Ids) /\ Len(slaves) \in Nat /\ DOMAIN slaves = 1..Len(slaves)
      /\ \A i \in 1..Len(slaves) : slaves[i] \in Ids
  BY DEF TypeOK
<1>1. Alive \subseteq Ids
  BY <1>0 DEF Alive, Listed, TypeOK
<1>2. ASSUME NEW id \in Ids, slaves' = Append(slaves, id)
      PROVE  Listed(slaves)' \subseteq Listed(slaves) \union {id}
  <2>1. /\ DOMAIN slaves' = 1..Len(slaves) + 1
        /\ \A i \in 1..Len(slaves) : slaves'[i] = slaves[i]
        /\ slaves'[Len(slaves) + 1] = id
    BY <1>0, <1>2, AppendProperties
  <2> QED
    BY <1>0, <2>1 DEF Listed
<1>3. ASSUME NEW n \in 0..Len(slaves), slaves' = SubSeq(slaves, 1, n)
      PROVE  Listed(slaves)' \subseteq Listed(slaves)
  <2>1. DOMAIN slaves' = 1..n /\ \A i \in 1..n : slaves'[i] = slaves[i]
    BY <1>0, <1>3
  <2> QED
    BY <1>0, <2>1 DEF Listed
<1> QED
  BY <1>1, <1>2, <1>3

LEMMA MappedStep == TypeOK /\ MappedHasSource /\ [Next]_vars => MappedHasSource'
<1> SUFFICES ASSUME TypeOK, MappedHasSource, [Next]_vars PROVE MappedHasSource'
  OBVIOUS
<1>0. heap \in [Ids -> Slaves] /\ dictionary \in [Ids -> Decisions] /\ Alive \subseteq Ids
  BY ListedAfter DEF TypeOK
<1>1. ASSUME DatagramNext PROVE MappedHasSource'
  <2>1. UNCHANGED <<inputs, slaves, held, count, maps>>
    BY <1>1, DatagramFacts, Zenon
  <2>2. \A id \in Ids : FlagKept(id)
    BY <1>1, DatagramFacts, Zenon
  <2>3. Alive' = Alive /\ maps' = maps
    BY <2>1 DEF Alive, Listed
  <2> QED
    BY <1>0, <2>2, <2>3, FlagsStay
<1>2. ASSUME ClearSlaves PROVE MappedHasSource'
  <2>1. Alive' \subseteq Alive /\ heap' = heap /\ dictionary' = dictionary /\ maps' = maps
    BY <1>2 DEF deviceVars, ClearSlaves, Alive, Listed
  <2> QED
    BY <2>1, FlagsStay DEF FlagKept
<1>3. ASSUME StartAllSlaves PROVE MappedHasSource'
  <2>1. \A id \in Ids : heap'[id].mapped = heap[id].mapped
    <3>1. \A id \in Ids : Start(heap[id]).mapped = heap[id].mapped
      BY <1>0, RegistryMethods
    <3> QED
      BY <1>3, <3>1 DEF deviceVars, StartAllSlaves
  <2>2. Alive' = Alive /\ maps' = maps /\ dictionary' = dictionary
    BY <1>3 DEF deviceVars, StartAllSlaves, registryVars, Alive, Listed
  <2> QED
    BY <1>0, <2>1, <2>2, FlagsStay DEF FlagKept
<1>4. ASSUME ClearInputMappings PROVE MappedHasSource'
  <2>1. Alive' = Alive /\ Mapped' = {} /\ dictionary' = dictionary
    BY <1>4 DEF deviceVars, ClearInputMappings, Alive, Listed, Mapped
  <2>2. ASSUME NEW id \in Alive
        PROVE  /\ heap'[id].mapped => dictionary[id] = "mapped"
               /\ dictionary[id] = "untouched" => ~heap'[id].mapped
    <3>1. CASE id \in Mapped
      <4>1. SetInputPDOMapped(heap[id], FALSE).mapped = FALSE
        BY <1>0, RegistryMethods
      <4> QED
        BY <1>0, <1>4, <3>1, <4>1 DEF ClearInputMappings
    <3>2. CASE id \notin Mapped
      <4>1. heap'[id] = heap[id]
        BY <1>0, <1>4, <3>2 DEF ClearInputMappings
      <4> QED
        BY <3>2, <4>1 DEF MappedHasSource
    <3> QED
      BY <3>1, <3>2
  <2> QED
    BY <2>1, <2>2 DEF MappedHasSource
<1>5. ASSUME RunOnce PROVE MappedHasSource'
  <2>1. Alive' = Alive /\ dictionary' = dictionary
    BY <1>5 DEF deviceVars, RunOnce, Alive, Listed
  <2>2. Mapped' = Mapped \cap Alive
    BY <1>5, RemainingFacts DEF deviceVars, RunOnce, Mapped
  <2>3. ASSUME NEW id \in Ids PROVE heap'[id].mapped = heap[id].mapped
    <3>1. Routine(heap[id]).mapped = heap[id].mapped
      BY <1>0, RegistryMethods
    <3> QED
      BY <1>5, <3>1 DEF deviceVars, RunOnce
  <2> QED
    BY <1>0, <2>1, <2>2, <2>3 DEF MappedHasSource
<1>6. ASSUME NEW id \in Ids
      PROVE  /\ \A a \in Addresses, own \in BOOLEAN : Construct(id, a, own) => MappedHasSource'
             /\ ApplyDefaultTxPdoMapping(id) => MappedHasSource'
             /\ Release(id) => MappedHasSource'
             /\ AddVirtualSlave(id) => MappedHasSource'
             /\ \A on \in BOOLEAN : SwitchOnline(id, on) => MappedHasSource'
             /\ \A k \in Offsets, b \in Bytes : SetInput(id, k, b) => MappedHasSource'
             /\ \A x \in Cells, w \in Widths : MapDigitalInputs(id, x, w) => MappedHasSource'
  <2>1. ASSUME NEW a \in Addresses, NEW own \in BOOLEAN, Construct(id, a, own)
        PROVE  MappedHasSource'
    <3>1. id \notin Alive /\ id \notin Mapped /\ Alive' = Alive \union {id} /\ Mapped' = Mapped
      BY <2>1 DEF Construct, Fresh, Alive, Listed, Mapped
    <3>2. heap'[id].mapped = own
      <4> DEFINE new == NewSlave(a)
      <4>1. new \in Slaves
        BY ConstructedSlave
      <4>2. heap' = [heap EXCEPT ![id] = SetInputPDOMapped(new, own)]
        BY <2>1 DEF Construct
      <4> HIDE DEF new
      <4>3. SetInputPDOMapped(new, own).mapped = own
        BY <4>1, RegistryMethods
      <4> QED
        BY <1>0, <4>2, <4>3
    <3>3. dictionary'[id] = IF own THEN "mapped" ELSE "untouched"
      BY <1>0, <2>1 DEF Construct
    <3>4. \A o \in Alive : heap'[o] = heap[o] /\ dictionary'[o] = dictionary[o]
      BY <1>0, <2>1, <3>1 DEF Construct
    <3> QED
      BY <3>1, <3>2, <3>3, <3>4 DEF MappedHasSource
  <2>7. ASSUME ApplyDefaultTxPdoMapping(id) PROVE MappedHasSource'
    <3>1. heap' = [heap EXCEPT ![id] = SetInputPDOMapped(@, TRUE)]
          /\ dictionary' = [dictionary EXCEPT ![id] = "mapped"]
      BY <2>7 DEF ApplyDefaultTxPdoMapping
    <3>2. heap'[id].mapped = TRUE /\ dictionary'[id] = "mapped"
      <4>1. SetInputPDOMapped(heap[id], TRUE).mapped = TRUE
        BY <1>0, RegistryMethods
      <4> QED
        BY <1>0, <3>1, <4>1
    <3>3. \A o \in Ids : FlagKept(o)
      BY <1>0, <3>1, <3>2 DEF FlagKept
    <3>4. Alive' = Alive /\ maps' = maps
      BY <2>7 DEF ApplyDefaultTxPdoMapping, registryVars, Alive, Listed
    <3> QED
      BY <1>0, <3>3, <3>4, FlagsStay
  <2>2. ASSUME Release(id) PROVE MappedHasSource'
    <3>1. Alive' \subseteq Alive /\ UNCHANGED <<heap, dictionary, maps>>
      BY <2>2 DEF deviceVars, Release, Alive, Listed
    <3> QED
      BY <3>1, FlagsStay DEF FlagKept
  <2>3. ASSUME AddVirtualSlave(id) PROVE MappedHasSource'
    <3>1. id \in held /\ slaves' = Append(slaves, id) /\ UNCHANGED <<heap, dictionary, held, maps>>
      BY <2>3 DEF deviceVars, AddVirtualSlave
    <3>2. Alive' \subseteq Alive
      BY <3>1, ListedAfter DEF Alive
    <3> QED
      BY <3>1, <3>2, FlagsStay DEF FlagKept
  <2>4. ASSUME NEW on \in BOOLEAN, SwitchOnline(id, on) PROVE MappedHasSource'
    <3>1. SetOnline(heap[id], on).mapped = heap[id].mapped
      BY <1>0, RegistryMethods
    <3>2. \A o \in Ids : heap'[o].mapped = heap[o].mapped
      BY <1>0, <2>4, <3>1 DEF deviceVars, SwitchOnline
    <3>3. Alive' = Alive /\ maps' = maps /\ dictionary' = dictionary
      BY <2>4 DEF deviceVars, SwitchOnline, registryVars, Alive, Listed
    <3> QED
      BY <1>0, <3>2, <3>3, FlagsStay DEF FlagKept
  <2>5. ASSUME NEW k \in Offsets, NEW b \in Bytes, SetInput(id, k, b) PROVE MappedHasSource'
    <3>1. Alive' = Alive /\ UNCHANGED <<maps, heap, dictionary>>
      BY <2>5 DEF SetInput, registryVars, Alive, Listed
    <3> QED
      BY <3>1, FlagsStay DEF FlagKept
  <2>6. ASSUME NEW x \in Cells, NEW w \in Widths, MapDigitalInputs(id, x, w) PROVE MappedHasSource'
    <3> DEFINE m == [slave |-> id, address |-> x, width |-> w]
    <3>1. Alive' = Alive /\ maps' = Append(maps, m)
      BY <2>6 DEF deviceVars, MapDigitalInputs, Alive, Listed
    <3>2. Mapped' = Mapped \union {id}
      <4>1. m.slave = id /\ m \in InputMaps
        BY DEF InputMaps
      <4> HIDE DEF m
      <4>2. /\ DOMAIN maps = 1..Len(maps) /\ DOMAIN maps' = 1..Len(maps) + 1 /\ Len(maps) \in Nat
            /\ \A k \in 1..Len(maps) : maps'[k] = maps[k]
            /\ maps'[Len(maps) + 1] = m
        BY <3>1, <4>1, AppendProperties DEF TypeOK
      <4> QED
        BY <4>1, <4>2 DEF Mapped
    <3>3. heap'[id].mapped = TRUE
      <4>1. SetInputPDOMapped(heap[id], TRUE).mapped = TRUE
        BY <1>0, RegistryMethods
      <4> QED
        BY <1>0, <2>6, <4>1 DEF deviceVars, MapDigitalInputs
    <3>4. dictionary' = dictionary /\ \A o \in Alive \ {id} : heap'[o] = heap[o]
      BY <1>0, <2>6 DEF deviceVars, MapDigitalInputs
    <3> QED
      BY <3>1, <3>2, <3>3, <3>4 DEF MappedHasSource
  <2> QED
    BY <2>1, <2>2, <2>3, <2>4, <2>5, <2>6, <2>7
<1>7. ASSUME NEW n \in 0..MaxSlaves, SetVirtualSlaveCount(n) PROVE MappedHasSource'
  <2>1. UNCHANGED <<held, maps>> /\ Mapped' = Mapped
    BY <1>7 DEF deviceVars, SetVirtualSlaveCount, Mapped
  <2>2. CASE Len(slaves) < n
    <3>1. /\ \A id \in Listed(slaves') : id \in Listed(slaves) \/ id \in Fresh
          /\ \A id \in Ids :
               \/ /\ heap'[id] = heap[id] /\ dictionary'[id] = dictionary[id]
                  /\ id \in Listed(slaves') => id \in Listed(slaves)
               \/ id \in Fresh /\ heap'[id].mapped = FALSE
      BY <1>7, <2>2, GrowFacts DEF deviceVars, SetVirtualSlaveCount
    <3>2. ASSUME NEW id \in Alive'
          PROVE  /\ heap'[id].mapped => id \in Mapped \/ dictionary'[id] = "mapped"
                 /\ dictionary'[id] = "untouched" => (heap'[id].mapped <=> id \in Mapped)
      <4>1. id \in Ids
        BY <1>0, <2>1, <3>1 DEF Alive, Fresh
      <4>2. CASE id \in Fresh /\ heap'[id].mapped = FALSE
        BY <4>2 DEF Fresh
      <4>3. CASE /\ heap'[id] = heap[id] /\ dictionary'[id] = dictionary[id]
                 /\ id \in Listed(slaves') => id \in Listed(slaves)
        <5>1. id \in Alive
          BY <2>1, <4>3 DEF Alive
        <5> QED
          BY <4>3, <5>1 DEF MappedHasSource
      <4> QED
        BY <3>1, <4>1, <4>2, <4>3
    <3> QED
      BY <2>1, <3>2 DEF MappedHasSource
  <2>3. CASE ~(Len(slaves) < n)
    <3>1. slaves' = SubSeq(slaves, 1, n) /\ UNCHANGED <<heap, dictionary>>
      BY <1>7, <2>3 DEF deviceVars, SetVirtualSlaveCount, Shrink
    <3>2. n \in 0..Len(slaves)
      BY <2>3 DEF TypeOK
    <3>3. Alive' \subseteq Alive
      BY <2>1, <3>1, <3>2, ListedAfter DEF Alive
    <3> QED
      BY <2>1, <3>1, <3>3, FlagsStay DEF FlagKept
  <2> QED
    BY <2>2, <2>3
<1>8. ASSUME UNCHANGED vars PROVE MappedHasSource'
  <2>1. Alive' = Alive /\ UNCHANGED <<maps, heap, dictionary>>
    BY <1>8 DEF deviceVars, vars, registryVars, Alive, Listed
  <2> QED
    BY <2>1, FlagsStay DEF FlagKept
<1> QED
  BY <1>1, <1>2, <1>3, <1>4, <1>5, <1>6, <1>7, <1>8, NextCases

-----------------------------------------------------------------------------
(* Theorems.                                                               *)

(* The inductive invariant of the simulator: its types with the three      *)
(* relations between the registry, its count and the flags of its slaves.  *)
THEOREM RegistryInvariant == Spec => []RegistryInv
<1>1. RegistryInv /\ [Next]_vars => RegistryInv'
  BY TypeStep, CountStep, MappedStep DEF RegistryInv
<1> QED
  BY <1>1, InvInit, PTL DEF Spec

(* TypeOK: every slave, memory cell and counter stays in range, the        *)
(* working counter of a broadcast among them.                              *)
THEOREM RegistryTyped == Spec => []TypeOK
BY RegistryInvariant, PTL DEF RegistryInv

(* CountIsRegistry: virtualSlaveCount_ is the length of slaves_, so the    *)
(* paths for slaves that are only counted are dead.                        *)
THEOREM CountExact == Spec => []CountIsRegistry
BY RegistryInvariant, PTL DEF RegistryInv

(* MappedHasSource: the mapping flag of a slave that is alive goes back to *)
(* an input mapping or to its own dictionary, and is exactly the input     *)
(* mapping until the dictionary decides, through clears, releases, cuts of *)
(* the registry and the erasure of mappings by runOnce.                    *)
THEOREM MappingFlagExplained == Spec => []MappedHasSource
BY RegistryInvariant, PTL DEF RegistryInv

(* OfflineUntouched: no datagram changes a slave that is off or not in     *)
(* the registry.                                                           *)
THEOREM OfflineStaysUntouched == Spec => OfflineUntouched
<1>1. TypeOK /\ [Next]_vars =>
        [DatagramNext =>
           \A id \in Ids : ~(id \in Listed(slaves) /\ heap[id].online) => heap'[id] = heap[id]]_vars
  BY DatagramFacts, Zenon
<1> QED
  BY <1>1, RegistryTyped, PTL DEF Spec, OfflineUntouched

(* BroadcastReachesAll: the loop of a broadcast, bounded by the number of  *)
(* slaves online, reaches the whole registry when none is off: no slave is *)
(* counted twice or missed, whatever the registry went through.            *)
THEOREM BroadcastReachesEverySlave == Spec => BroadcastReachesAll
<1>1. RegistryInv /\ [Next]_vars =>
        [\A ctrl \in ControlWords :
           BroadcastAlControl(ctrl) /\ (\A id \in Listed(slaves) : heap[id].online) =>
             \A id \in Listed(slaves) : heap'[id].alControl = ctrl]_vars
  <2> SUFFICES ASSUME RegistryInv, NEW ctrl \in ControlWords, BroadcastAlControl(ctrl),
                      \A id \in Listed(slaves) : heap[id].online,
                      NEW id \in Listed(slaves)
               PROVE  heap'[id].alControl = ctrl
    OBVIOUS
  <2>0. /\ TypeOK /\ count = Len(slaves) /\ Len(slaves) \in Nat /\ DOMAIN slaves = 1..Len(slaves)
        /\ heap \in [Ids -> Slaves] /\ \A i \in 1..Len(slaves) : slaves[i] \in Ids
    BY DEF RegistryInv, CountIsRegistry, TypeOK
  <2>1. OnlineSlaveCount = Len(slaves)
    <3> DEFINE n == Len(slaves)
    <3>1. {i \in DOMAIN slaves : heap[slaves[i]].online} = 1..n
      BY <2>0 DEF Listed
    <3>2. n \in Nat /\ count = n
      BY <2>0
    <3>3. OnlineSlaveCount = Cardinality(1..n) + (IF count > n THEN count - n ELSE 0)
      BY <3>1 DEF OnlineSlaveCount
    <3> HIDE DEF n
    <3>4. Cardinality(1..n) = n
      <4>1. Cardinality(1..n) = IF 1 > n THEN 0 ELSE n - 1 + 1
        BY <3>2, FS_Interval
      <4> QED
        BY <3>2, <4>1
    <3>5. OnlineSlaveCount = n
      BY <3>2, <3>3, <3>4
    <3> QED
      BY <3>5 DEF n
  <2>2. PICK i \in 1..Len(slaves) : id = slaves[i]
    BY <2>0 DEF Listed
  <2>3. i \in BroadcastTargets
    BY <2>0, <2>1, <2>2 DEF BroadcastTargets
  <2>4. heap'[id] = WriteAlControl(heap[id], ctrl)
    BY <2>0, <2>2, <2>3 DEF BroadcastAlControl
  <2>5. ctrl \in AlControlWords /\ heap[id] \in Slaves
    BY <2>0, <2>2, Bounds
  <2>6. WriteAlControl(heap[id], ctrl).alControl = ctrl
    BY <2>5, WriteAlControlFacts, Zenon
  <2> QED
    BY <2>4, <2>6
<1> QED
  BY <1>1, RegistryInvariant, PTL DEF Spec, BroadcastReachesAll

-----------------------------------------------------------------------------
(* SimSocket: the queue.                                                   *)

QueuedFrames == [number : Nat, wait : Nat]

(* The frames in the queue are the ones behind those read, in their order. *)
QueueInv ==
  /\ latency \in Nat /\ accepted \in Nat
  /\ queue \in Seq(QueuedFrames) /\ received \in Seq(Nat)
  /\ Len(received) + Len(queue) = accepted
  /\ \A n \in 1..Len(received) : received[n] = n
  /\ \A k \in 1..Len(queue) : queue[k].number = Len(received) + k

LEMMA QueueInit == SocketInit => QueueInv
BY DEF SocketInit, QueueInv

(* A frame is appended with the next number.                               *)
LEMMA SendKeepsQueue ==
  ASSUME QueueInv, SendFrame
  PROVE  QueueInv'
<1> DEFINE e == [number |-> accepted', wait |-> latency]
<1>1. /\ accepted' = accepted + 1 /\ queue' = Append(queue, e)
      /\ latency' = latency /\ received' = received
  BY DEF SendFrame, FrameDone
<1>2. e \in QueuedFrames /\ e.number = accepted + 1
  BY <1>1 DEF QueueInv, QueuedFrames
<1> HIDE DEF e
<1>3. /\ queue' \in Seq(QueuedFrames) /\ Len(queue') = Len(queue) + 1
      /\ \A k \in 1..Len(queue) : queue'[k] = queue[k]
      /\ queue'[Len(queue) + 1] = e
  BY <1>1, <1>2, AppendProperties DEF QueueInv
<1>4. /\ Len(queue) \in Nat /\ Len(received) \in Nat /\ accepted \in Nat
      /\ Len(received) + Len(queue) = accepted
  BY DEF QueueInv
<1>8. /\ received \in Seq(Nat) /\ \A n \in 1..Len(received) : received[n] = n
      /\ \A k \in 1..Len(queue) : queue[k].number = Len(received) + k
      /\ latency \in Nat
  BY DEF QueueInv
<1>5. ASSUME NEW k \in 1..Len(queue') PROVE queue'[k].number = Len(received') + k
  <2>1. CASE k \in 1..Len(queue)
    BY <1>1, <1>3, <1>8, <2>1
  <2>2. CASE k = Len(queue) + 1
    <3>1. queue'[k].number = accepted + 1
      BY <1>2, <1>3, <2>2
    <3>2. Len(received) + k = accepted + 1
      BY <1>4, <2>2
    <3> QED
      BY <1>1, <3>1, <3>2
  <2> QED
    BY <1>3, <1>4, <2>1, <2>2
<1>6. Len(received') + Len(queue') = accepted'
  BY <1>1, <1>3, <1>4
<1>7. accepted' \in Nat
  BY <1>1, <1>4
<1> QED
  BY <1>1, <1>3, <1>5, <1>6, <1>7, <1>8 DEF QueueInv

(* The front of the queue is the frame that is read next.                  *)
LEMMA ReceiveKeepsQueue ==
  ASSUME QueueInv, ReceiveFrame
  PROVE  QueueInv'
<1>1. latency' = latency /\ accepted' = accepted
  BY DEF ReceiveFrame
<1>2. CASE ~Ready
  BY <1>1, <1>2 DEF ReceiveFrame, QueueInv
<1>3. CASE Ready
  <2>1. /\ received' = Append(received, Head(queue).number) /\ queue' = Tail(queue)
        /\ queue # <<>>
    BY <1>3 DEF ReceiveFrame, Ready
  <2>2. /\ Len(queue) \in Nat /\ Len(received) \in Nat /\ accepted \in Nat
        /\ Len(received) + Len(queue) = accepted
        /\ queue \in Seq(QueuedFrames) /\ received \in Seq(Nat)
    BY DEF QueueInv
  <2>3. /\ Len(queue) > 0 /\ Head(queue) = queue[1]
        /\ Tail(queue) \in Seq(QueuedFrames) /\ Len(Tail(queue)) = Len(queue) - 1
        /\ \A k \in 1..Len(queue) - 1 : Tail(queue)[k] = queue[k + 1]
    BY <2>1, <2>2, HeadTailProperties
  <2>4. Head(queue).number = Len(received) + 1
    BY <2>2, <2>3 DEF QueueInv
  <2>5. /\ received' \in Seq(Nat) /\ Len(received') = Len(received) + 1
        /\ \A n \in 1..Len(received) : received'[n] = received[n]
        /\ received'[Len(received) + 1] = Len(received) + 1
    BY <2>1, <2>2, <2>4, AppendProperties
  <2>6. ASSUME NEW n \in 1..Len(received') PROVE received'[n] = n
    <3>1. n \in 1..Len(received) \/ n = Len(received) + 1
      BY <2>2, <2>5
    <3> QED
      BY <2>5, <3>1 DEF QueueInv
  <2>7. ASSUME NEW k \in 1..Len(queue') PROVE queue'[k].number = Len(received') + k
    <3>1. k \in 1..Len(queue) - 1 /\ k + 1 \in 1..Len(queue)
      BY <2>1, <2>2, <2>3
    <3>2. queue'[k] = queue[k + 1]
      BY <2>1, <2>3, <3>1
    <3>3. queue[k + 1].number = Len(received) + (k + 1)
      BY <3>1 DEF QueueInv
    <3> QED
      BY <2>2, <2>5, <3>1, <3>2, <3>3
  <2>8. Len(received') + Len(queue') = accepted'
    <3>1. Len(received') = Len(received) + 1 /\ Len(queue') = Len(queue) - 1
      BY <2>1, <2>3, <2>5
    <3> QED
      BY <1>1, <2>2, <3>1
  <2> QED
    BY <1>1, <2>1, <2>2, <2>3, <2>5, <2>6, <2>7, <2>8 DEF QueueInv
<1> QED
  BY <1>2, <1>3

(* Time changes what the frames wait for and nothing else.                 *)
LEMMA TickKeepsQueue ==
  ASSUME QueueInv, Tick
  PROVE  QueueInv'
<1> DEFINE Aged(q) == [q EXCEPT !.wait = IF @ > 0 THEN @ - 1 ELSE 0]
<1>1. /\ queue \in Seq(QueuedFrames) /\ Len(queue) \in Nat /\ DOMAIN queue = 1..Len(queue)
      /\ \A k \in 1..Len(queue) : queue[k] \in QueuedFrames
  BY DEF QueueInv
<1>2. queue' = [k \in 1..Len(queue) |-> Aged(queue[k])] /\ UNCHANGED <<latency, accepted, received>>
  BY <1>1 DEF Tick
<1>3. ASSUME NEW q \in QueuedFrames
      PROVE  Aged(q) \in QueuedFrames /\ Aged(q).number = q.number
  BY DEF QueuedFrames
<1> HIDE DEF Aged
<1>4. queue' \in [1..Len(queue) -> QueuedFrames]
  BY <1>1, <1>2, <1>3
<1>5. queue' \in Seq(QueuedFrames) /\ Len(queue') = Len(queue)
  BY <1>1, <1>4, FunctionIsSeq
<1>6. \A k \in 1..Len(queue) : queue'[k].number = queue[k].number
  BY <1>1, <1>2, <1>3
<1> QED
  BY <1>2, <1>5, <1>6 DEF QueueInv

(* Every other step leaves the frames alone.                               *)
LEMMA QueueStep == QueueInv /\ [SocketNext]_allVars => QueueInv'
<1> SUFFICES ASSUME QueueInv, [SocketNext]_allVars PROVE QueueInv'
  OBVIOUS
<1>1. CASE SendFrame
  BY <1>1, SendKeepsQueue
<1>2. CASE ReceiveFrame
  BY <1>2, ReceiveKeepsQueue
<1>3. CASE Tick
  BY <1>3, TickKeepsQueue
<1>4. ASSUME NEW ms \in Latencies, SetLatencyMs(ms) PROVE QueueInv'
  BY <1>4, SimSocketAssumption DEF SetLatencyMs, QueueInv
<1>5. ASSUME UNCHANGED <<latency, queue, accepted, received>> PROVE QueueInv'
  BY <1>5 DEF QueueInv
<1>6. CASE \E f \in Frames : WriteBegin(f)
  BY <1>5, <1>6 DEF WriteBegin
<1>7. CASE ReadBegin \/ SendPasses
  BY <1>5, <1>7 DEF ReadBegin, SendPasses
<1>8. CASE Execute \/ BroadcastBegin \/ BroadcastOne \/ BroadcastEnd
  BY <1>5, <1>8 DEF Execute, BroadcastBegin, BroadcastOne, BroadcastEnd
<1>9. CASE SendFails
  BY <1>5, <1>9 DEF SendFails, FrameDone
<1>10. CASE \E up \in BOOLEAN : SetLinkUp(up)
  BY <1>5, <1>10 DEF SetLinkUp
<1>11. CASE \E id \in Ids, on \in OnlineValues : Switch(id, on)
  BY <1>5, <1>11 DEF Switch
<1>12. CASE Periodic
  BY <1>5, <1>12 DEF Periodic, socketVars
<1>13. CASE UNCHANGED allVars
  BY <1>5, <1>13 DEF allVars, socketVars
<1> QED
  BY <1>1, <1>2, <1>3, <1>4, <1>6, <1>7, <1>8, <1>9, <1>10, <1>11, <1>12, <1>13
  DEF SocketNext, Calling

(* A frame that write has reported as sent is in the queue or has been     *)
(* read, once and in order, whatever happens to the link and the latency.  *)
THEOREM QueueKeepsFrames == SocketSpec => []NothingLostOrReordered
<1>1. QueueInv => NothingLostOrReordered
  <2> SUFFICES ASSUME QueueInv PROVE NothingLostOrReordered
    OBVIOUS
  <2> DEFINE r     == Len(received)
             q     == Len(queue)
             tail  == [k \in 1..q |-> queue[k].number]
             whole == [n \in 1..accepted |-> n]
  <2>1. /\ r \in Nat /\ q \in Nat /\ accepted = r + q /\ DOMAIN queue = 1..q
        /\ received \in Seq(Nat)
    BY DEF QueueInv
  <2>2. \A k \in 1..q : queue[k].number = r + k /\ r + k \in Nat
    BY <2>1 DEF QueueInv
  <2>3. tail \in [1..q -> Nat] /\ whole \in [1..accepted -> Nat]
    BY <2>1, <2>2
  <2>4. /\ tail \in Seq(Nat) /\ Len(tail) = q
        /\ whole \in Seq(Nat) /\ Len(whole) = accepted
    BY <2>1, <2>3, FunctionIsSeq, SMTT(30)
  <2>5. \A k \in 1..q : tail[k] = r + k
    BY <2>2
  <2>6. \A n \in 1..accepted : whole[n] = n
    OBVIOUS
  <2>7. NothingLostOrReordered <=> received \o tail = whole
    BY <2>1 DEF NothingLostOrReordered
  <2>8. r = Len(received) /\ \A n \in 1..r : received[n] = n
    BY DEF QueueInv
  <2> DEFINE s == received \o tail
  <2> HIDE DEF tail, whole, r, q
  <2>9. /\ s \in Seq(Nat) /\ Len(s) = Len(received) + Len(tail)
        /\ \A n \in 1..Len(received) + Len(tail) :
             s[n] = IF n <= Len(received) THEN received[n] ELSE tail[n - Len(received)]
    BY <2>1, <2>4, ConcatProperties
  <2> HIDE DEF s
  <2>10. r \in Nat /\ q \in Nat
    BY <2>1
  <2>11. \A n \in 1..r + q : s[n] = IF n <= r THEN received[n] ELSE tail[n - r]
    BY <2>4, <2>8, <2>9
  <2>12. ASSUME NEW n \in 1..r + q PROVE s[n] = n
    <3>1. CASE n <= r
      <4>1. n \in 1..r
        BY <2>10, <3>1
      <4> QED
        BY <2>8, <2>11, <3>1, <4>1
    <3>2. CASE n > r
      <4>1. n - r \in 1..q /\ r + (n - r) = n /\ ~(n <= r)
        BY <2>10, <3>2
      <4> QED
        BY <2>5, <2>11, <4>1
    <3> QED
      BY <2>10, <3>1, <3>2
  <2>13. Len(s) = r + q /\ Len(whole) = r + q
    BY <2>1, <2>4, <2>8, <2>9
  <2>14. \A n \in 1..Len(s) : s[n] = whole[n]
    BY <2>1, <2>6, <2>12, <2>13
  <2>15. s = whole
    BY <2>4, <2>9, <2>13, <2>14, SeqEqual
  <2> QED
    BY <2>7, <2>15 DEF s
<1> QED
  BY <1>1, QueueInit, QueueStep, PTL DEF SocketSpec

-----------------------------------------------------------------------------
(* SimSocket: the frame under way.                                         *)

(* The registers every call leaves are fresh, and so is what a read finds. *)
HeapInv ==
  /\ heap \in [Ids -> Slaves]
  /\ \A id \in Ids : RegistersFresh(heap[id])
  /\ slaves \in Seq(Ids)

Unanswered == Len(answers) < Len(frame)

(* The datagrams executed so far, and the slave the last of them wrote.    *)
FrameInv ==
  /\ frame \in Seq(Datagrams)
  /\ \E S : answers \in Seq(S)
  /\ at \in {"idle", "take"} => target = Nobody /\ answers = <<>>
  /\ at = "broadcast" => target = Nobody /\ Unanswered /\ Broadcast
  /\ answers = <<>> => target = Nobody

(* The slave that took the last write is still the first that answers to   *)
(* the address.                                                            *)
TargetInv ==
  target # Nobody /\ frame[Len(answers)].cmd = "FPWR" =>
    LET a == frame[Len(answers)].adp IN
    Bearers(a) # {} /\ target = slaves[First(Bearers(a))]

SimInv == HeapInv /\ FrameInv /\ TargetInv


(* The operands a datagram of each command has.                            *)
LEMMA DatagramFields ==
  ASSUME NEW dg \in Datagrams
  PROVE  /\ dg.cmd = "FPWR" => dg.adp \in Addresses /\ dg.ctrl \in AlControlWords
         /\ dg.cmd = "BWR"  => dg.ctrl \in AlControlWords
         /\ dg.cmd = "APWR" => dg.address \in Addresses
<1>1. ControlWords \subseteq AlControlWords
  BY Bounds
<1>2. dg.cmd = "FPWR" => dg \in [cmd : {"FPWR"}, adp : Addresses, ctrl : ControlWords]
  BY DEF Datagrams
<1>3. dg.cmd = "BWR" => dg \in [cmd : {"BWR"}, ctrl : ControlWords]
  BY DEF Datagrams
<1>4. dg.cmd = "APWR" => dg \in [cmd : {"APWR"}, adp : Positions, address : Addresses]
  BY DEF Datagrams
<1> QED
  BY <1>1, <1>2, <1>3, <1>4

(* The calls that reach a slave while frames are under way.                *)
LEMMA CallsOnSlave ==
  ASSUME NEW v \in Slaves, RegistersFresh(v)
  PROVE  /\ \A ctrl \in AlControlWords : LET t == WriteAlControl(v, ctrl) IN
              /\ t \in Slaves /\ RegistersFresh(t)
              /\ t.online = v.online /\ t.address = v.address
         /\ \A a \in Addresses :
              WriteStationAddress(v, a) \in Slaves /\ RegistersFresh(WriteStationAddress(v, a))
         /\ \A on \in BOOLEAN : LET t == SetOnline(v, on) IN
              t \in Slaves /\ RegistersFresh(t) /\ t.address = v.address
         /\ LET t == Routine(v) IN
              /\ t \in Slaves /\ RegistersFresh(t)
              /\ t.online = v.online /\ t.address = v.address
<1>1. ASSUME NEW ctrl \in AlControlWords
      PROVE  LET t == WriteAlControl(v, ctrl) IN
              /\ t \in Slaves /\ RegistersFresh(t)
              /\ t.online = v.online /\ t.address = v.address
  <2>1. /\ WriteAlControl(v, ctrl) \in Slaves /\ RegistersFresh(WriteAlControl(v, ctrl))
        /\ WriteAlControl(v, ctrl).online = v.online
    BY WriteAlControlFacts, Zenon
  <2> QED
    BY <2>1, AddressKept
<1>2. ASSUME NEW a \in Addresses
      PROVE  WriteStationAddress(v, a) \in Slaves /\ RegistersFresh(WriteStationAddress(v, a))
  <2>1. WriteStationAddress(v, a) \in Slaves /\ Untouched(v, WriteStationAddress(v, a))
    BY MinorMethods, Zenon
  <2> QED
    BY <2>1 DEF Untouched, RegistersFresh
<1>3. ASSUME NEW on \in BOOLEAN
      PROVE  LET t == SetOnline(v, on) IN
              t \in Slaves /\ RegistersFresh(t) /\ t.address = v.address
  <2>1. SetOnline(v, on) \in Slaves /\ RegistersFresh(SetOnline(v, on))
    BY SyncingMethods, Zenon
  <2>2. SetOnline(v, on).address = v.address
    BY SMT DEF SetOnline, SyncCoreRegisters, Slaves
  <2> QED
    BY <2>1, <2>2
<1>4. LET t == Routine(v) IN
        /\ t \in Slaves /\ RegistersFresh(t)
        /\ t.online = v.online /\ t.address = v.address
  <2>1. /\ SyncCoreRegisters(v) \in Slaves
        /\ SyncCoreRegisters(v).online = v.online
        /\ SyncCoreRegisters(v).al = v.al /\ SyncCoreRegisters(v).ackReq = v.ackReq
        /\ SyncCoreRegisters(v).code = v.code
        /\ SyncCoreRegisters(v).regAl = [state |-> v.al, error |-> v.ackReq]
        /\ SyncCoreRegisters(v).regCode = v.code /\ SyncCoreRegisters(v).regDl = v.online
    BY SyncCoreFacts, Zenon
  <2>2. RegistersFresh(SyncCoreRegisters(v))
    BY <2>1 DEF RegistersFresh
  <2>3. SyncCoreRegisters(v).address = v.address
    BY SMT DEF SyncCoreRegisters, Slaves
  <2> QED
    BY <2>1, <2>2, <2>3 DEF Routine
<1> QED
  BY <1>1, <1>2, <1>3, <1>4, Zenon

(* A new slave that has been started has fresh registers.                  *)
LEMMA StartedSlave ==
  ASSUME NEW a \in Addresses
  PROVE  Start(NewSlave(a)) \in Slaves /\ RegistersFresh(Start(NewSlave(a)))
<1> DEFINE v == NewSlave(a)
<1>1. v \in Slaves
  BY NewSlaveFacts
<1>2. RegistersFresh(v)
  BY DEF NewSlave, RegistersFresh
<1> HIDE DEF v
<1>3. Start(v) \in Slaves /\ Untouched(v, Start(v))
  BY <1>1, MinorMethods, Zenon
<1>4. RegistersFresh(Start(v))
  BY <1>2, <1>3, SMTT(30) DEF Untouched, RegistersFresh
<1> QED
  BY <1>3, <1>4 DEF v

(* The first slave that answers to an address.                             *)
LEMMA FirstBearer ==
  ASSUME HeapInv, NEW a, Bearers(a) # {}
  PROVE  LET id == slaves[First(Bearers(a))] IN
         id \in Ids /\ heap[id].online /\ heap[id].address = a
<1>1. Len(slaves) \in Nat /\ DOMAIN slaves = 1..Len(slaves) /\ \A i \in DOMAIN slaves : slaves[i] \in Ids
  BY DEF HeapInv
<1>2. Bearers(a) \in SUBSET Nat
  BY <1>1 DEF Bearers
<1>3. \E i \in Bearers(a) : \A j \in Bearers(a) : i <= j
  BY <1>2, Smallest
<1>4. First(Bearers(a)) \in Bearers(a)
  BY <1>3, SMTT(30) DEF First
<1> QED
  BY <1>1, <1>4 DEF Bearers

(* One slave is written.                                                   *)
LEMMA OneSlaveWritten ==
  ASSUME HeapInv, NEW id \in Ids, NEW v \in Slaves, RegistersFresh(v),
         heap' = [heap EXCEPT ![id] = v], slaves' = slaves
  PROVE  HeapInv'
<1>1. heap' \in [Ids -> Slaves]
  BY DEF HeapInv
<1>2. \A other \in Ids : heap'[other] = IF other = id THEN v ELSE heap[other]
  BY DEF HeapInv
<1>3. \A other \in Ids : RegistersFresh(heap'[other])
  BY <1>2 DEF HeapInv
<1> QED
  BY <1>1, <1>3 DEF HeapInv

LEMMA HeapInit == SocketInit => HeapInv
<1> SUFFICES ASSUME SocketInit PROVE HeapInv
  OBVIOUS
<1>1. slaves \in [1..2 -> Ids]
  <2>1. PICK id \in Ids, other \in Ids : id # other
    BY DEF SocketInit, InProcess
  <2> DEFINE w == [i \in 1..2 |-> IF i = 1 THEN id ELSE other]
  <2>2. w \in [1..2 -> Ids] /\ w[1] # w[2]
    BY <2>1
  <2>3. \E both \in [1..2 -> Ids] : both[1] # both[2]
    BY <2>2
  <2>4. slaves = CHOOSE both \in [1..2 -> Ids] : both[1] # both[2]
    BY DEF SocketInit
  <2> QED
    BY <2>3, <2>4, Zenon
<1>2. slaves \in Seq(Ids)
  BY <1>1, FunctionIsSeq
<1> DEFINE one == Start(NewSlave(1))
           two == Start(NewSlave(2))
<1>3. one \in Slaves /\ RegistersFresh(one) /\ two \in Slaves /\ RegistersFresh(two)
  <2>1. 1 \in Addresses /\ 2 \in Addresses
    BY DEF SocketInit, InProcess
  <2> QED
    BY <2>1, StartedSlave
<1>4. heap = [id \in Ids |-> IF id = slaves[1] THEN one ELSE two]
  BY DEF SocketInit
<1> HIDE DEF one, two
<1>5. heap \in [Ids -> Slaves] /\ \A id \in Ids : RegistersFresh(heap[id])
  BY <1>3, <1>4
<1> QED
  BY <1>2, <1>5 DEF HeapInv


LEMMA SimInit == SocketInit => SimInv
<1> SUFFICES ASSUME SocketInit PROVE SimInv
  OBVIOUS
<1>1. HeapInv
  BY HeapInit
<1>2. /\ frame = <<>> /\ answers = <<>> /\ at = "idle" /\ target = Nobody
  BY DEF SocketInit
<1>3. FrameInv
  <2>1. <<>> \in Seq(Datagrams) /\ <<>> \in Seq({})
    OBVIOUS
  <2> QED
    BY <1>2, <2>1 DEF FrameInv
<1>4. TargetInv
  BY <1>2 DEF TargetInv
<1> QED
  BY <1>1, <1>3, <1>4 DEF SimInv

(* The datagram that is executed next is one the master wrote.             *)
LEMMA NextDatagram ==
  ASSUME FrameInv, Unanswered
  PROVE  Datagram \in Datagrams
<1>1. PICK S : answers \in Seq(S)
  BY DEF FrameInv
<1>2. Len(answers) \in Nat /\ frame \in Seq(Datagrams) /\ Len(frame) \in Nat
  BY <1>1 DEF FrameInv
<1>3. Len(answers) + 1 \in 1..Len(frame)
  BY <1>2 DEF Unanswered
<1> QED
  BY <1>2, <1>3 DEF Datagram

(* What a datagram of one call does: it is answered, only AL_CONTROL by    *)
(* station address names a slave, and one slave is written or none.        *)
LEMMA ExecuteEffect ==
  ASSUME SimInv, Execute
  PROVE  /\ \E e : answers' = Append(answers, e)
         /\ UNCHANGED <<at, frame, slaves>>
         /\ HeapInv'
         /\ Datagram.cmd = "FPWR" =>
              /\ target' = Reached(Datagram.adp)
              /\ \A id \in Ids : /\ heap'[id].online = heap[id].online
                                 /\ heap'[id].address = heap[id].address
         /\ Datagram.cmd = "FPRD" =>
              /\ target' = target
              /\ answers' = Append(answers, [wkc  |-> wkc',
                              data |-> IF ReadFromSlave(Datagram.adp).ok
                                       THEN ReadFromSlave(Datagram.adp).value ELSE Kept])
<1> DEFINE dg == Datagram
<1>1. HeapInv /\ FrameInv /\ Unanswered /\ UNCHANGED <<at, frame>> /\ ExecuteOther
  BY DEF SimInv, Execute, Unexecuted, Unanswered
<1>2. dg \in Datagrams
  BY <1>1, NextDatagram
<1>3. /\ heap \in [Ids -> Slaves] /\ slaves \in Seq(Ids) /\ DOMAIN slaves = 1..Len(slaves)
      /\ \A i \in DOMAIN slaves : slaves[i] \in Ids
      /\ \A id \in Ids : heap[id] \in Slaves /\ RegistersFresh(heap[id])
  BY <1>1 DEF HeapInv
<1>4. ASSUME UNCHANGED <<heap, slaves>> PROVE HeapInv'
  BY <1>1, <1>4 DEF HeapInv
<1>5. CASE dg.cmd = "FPWR"
  <2>1. /\ StationAlControl(dg.adp, dg.ctrl) /\ Answer(Kept) /\ target' = Reached(dg.adp)
    BY <1>1, <1>5 DEF ExecuteOther
  <2>2. dg.ctrl \in AlControlWords
    BY <1>2, <1>5, DatagramFields
  <2>3. slaves' = slaves
    BY <2>1 DEF StationAlControl, registryVars
  <2> HIDE DEF dg
  <2>4. HeapInv' /\ \A id \in Ids : /\ heap'[id].online = heap[id].online
                                    /\ heap'[id].address = heap[id].address
    <3>1. CASE Bearers(dg.adp) = {}
      <4>1. heap' = heap
        BY <2>1, <3>1 DEF StationAlControl
      <4> QED
        BY <1>4, <2>3, <4>1
    <3>2. CASE Bearers(dg.adp) # {}
      <4> DEFINE id == Bearer(dg.adp)
                 v  == WriteAlControl(heap[id], dg.ctrl)
      <4>1. heap' = [heap EXCEPT ![id] = v]
        BY <2>1, <3>2 DEF StationAlControl
      <4>2. id \in Ids
        BY <1>1, <3>2, FirstBearer DEF Bearer
      <4> HIDE DEF id
      <4>3. /\ v \in Slaves /\ RegistersFresh(v)
            /\ v.online = heap[id].online /\ v.address = heap[id].address
        BY <1>3, <2>2, <4>2, CallsOnSlave
      <4> HIDE DEF v
      <4>4. HeapInv'
        BY <1>1, <2>3, <4>1, <4>2, <4>3, OneSlaveWritten
      <4> QED
        BY <1>3, <4>1, <4>2, <4>3, <4>4
    <3> QED
      BY <3>1, <3>2
  <2> QED
    BY <1>1, <1>5, <2>1, <2>3, <2>4 DEF Answer, dg
<1>6. CASE dg.cmd = "APWR"
  <2>1. IndexStationAddress(dg.adp, dg.address) /\ Answer(Kept)
    BY <1>1, <1>6 DEF ExecuteOther
  <2>2. dg.address \in Addresses
    BY <1>2, <1>6, DatagramFields
  <2>3. slaves' = slaves
    BY <2>1 DEF IndexStationAddress, registryVars
  <2>4. HeapInv'
    <3> DEFINE i == Position(dg.adp) + 1
    <3>1. CASE ~IndexReachable(i)
      <4>1. heap' = heap
        BY <2>1, <3>1 DEF IndexStationAddress
      <4> QED
        BY <1>4, <2>3, <4>1
    <3>2. CASE IndexReachable(i)
      <4> DEFINE id == slaves[i]
                 v  == WriteStationAddress(heap[id], dg.address)
      <4>1. heap' = [heap EXCEPT ![id] = v]
        BY <2>1, <3>2 DEF IndexStationAddress
      <4>2. id \in Ids
        BY <1>3, <3>2 DEF IndexReachable
      <4> HIDE DEF id
      <4>3. v \in Slaves /\ RegistersFresh(v)
        BY <1>3, <2>2, <4>2, CallsOnSlave
      <4> HIDE DEF v
      <4> QED
        BY <1>1, <2>3, <4>1, <4>2, <4>3, OneSlaveWritten
    <3> QED
      BY <3>1, <3>2
  <2> QED
    BY <1>1, <1>6, <2>1, <2>3, <2>4 DEF Answer
<1>7. CASE dg.cmd = "FPRD"
  <2>1. /\ StationRead(dg.adp) /\ target' = target
        /\ Answer(IF ReadFromSlave(dg.adp).ok
                  THEN ReadFromSlave(dg.adp).value ELSE Kept)
    BY <1>1, <1>7 DEF ExecuteOther
  <2>2. heap' = heap /\ slaves' = slaves
    BY <2>1 DEF StationRead, registryVars
  <2>3. HeapInv'
    BY <1>4, <2>2
  <2> QED
    BY <1>1, <1>7, <2>1, <2>2, <2>3 DEF Answer
<1>8. CASE dg.cmd \notin {"FPWR", "APWR", "FPRD"}
  <2>1. heap' = heap /\ slaves' = slaves
    BY <1>1, <1>8 DEF ExecuteOther, BroadcastRead, AcknowledgeOnly, IndexRead,
                      ReadLogical, WriteLogical, registryVars
  <2>2. \E e : answers' = Append(answers, e)
    BY <1>1, <1>8 DEF ExecuteOther, Answer
  <2>3. HeapInv'
    BY <1>4, <2>1
  <2> QED
    BY <1>1, <1>8, <2>1, <2>2, <2>3
<1> QED
  BY <1>5, <1>6, <1>7, <1>8


(* A sequence that has been appended to.                                   *)
LEMMA Longer ==
  ASSUME NEW S, NEW seq \in Seq(S), NEW e
  PROVE  /\ \E T : Append(seq, e) \in Seq(T)
         /\ Len(Append(seq, e)) = Len(seq) + 1 /\ Len(seq) \in Nat
         /\ Append(seq, e)[Len(seq) + 1] = e
         /\ Append(seq, e) # <<>>
<1>1. seq \in Seq(S \union {e}) /\ e \in S \union {e}
  BY SeqMonotonic
<1>2. /\ Append(seq, e) \in Seq(S \union {e})
      /\ Len(Append(seq, e)) = Len(seq) + 1
      /\ Append(seq, e)[Len(seq) + 1] = e
  BY <1>1, AppendProperties
<1>3. Len(seq) \in Nat
  OBVIOUS
<1>4. Append(seq, e) # <<>>
  BY <1>2, <1>3
<1> QED
  BY <1>2, <1>3, <1>4

(* The steps that leave the slaves as they are, and those that write one.  *)
LEMMA HeapStep == SimInv /\ [SocketNext]_allVars => HeapInv'
<1> SUFFICES ASSUME SimInv, [SocketNext]_allVars PROVE HeapInv'
  OBVIOUS
<1>0. /\ HeapInv /\ FrameInv
      /\ \A id \in Ids : heap[id] \in Slaves /\ RegistersFresh(heap[id])
  BY DEF SimInv, HeapInv
<1>1. ASSUME heap' = heap, slaves' = slaves PROVE HeapInv'
  BY <1>0, <1>1 DEF HeapInv
<1>2. CASE Execute
  BY <1>2, ExecuteEffect
<1>3. CASE BroadcastOne
  <2>1. slaves' = slaves
    BY <1>3 DEF BroadcastOne, registryVars
  <2>2. CASE ~IndexReachable(next)
    <3>1. heap' = heap
      BY <1>3, <2>2 DEF BroadcastOne
    <3> QED
      BY <1>1, <2>1, <3>1
  <2>3. CASE IndexReachable(next)
    <3> DEFINE id == slaves[next]
               v  == WriteAlControl(heap[id], Datagram.ctrl)
    <3>1. heap' = [heap EXCEPT ![id] = v]
      BY <1>3, <2>3 DEF BroadcastOne
    <3>2. id \in Ids
      BY <1>0, <2>3 DEF IndexReachable, HeapInv
    <3>3. Unanswered /\ Broadcast
      BY <1>0, <1>3 DEF BroadcastOne, FrameInv
    <3>4. Datagram \in Datagrams /\ Datagram.cmd = "BWR"
      BY <1>0, <3>3, NextDatagram DEF Broadcast
    <3>5. Datagram.ctrl \in AlControlWords
      BY <3>4, DatagramFields
    <3> HIDE DEF id
    <3>6. v \in Slaves /\ RegistersFresh(v)
      BY <1>0, <3>2, <3>5, CallsOnSlave
    <3> HIDE DEF v
    <3> QED
      BY <1>0, <2>1, <3>1, <3>2, <3>6, OneSlaveWritten
  <2> QED
    BY <2>2, <2>3
<1>4. ASSUME NEW id \in Ids, NEW on \in OnlineValues, Switch(id, on) PROVE HeapInv'
  <2> DEFINE v == SetOnline(heap[id], on)
  <2>1. heap' = [heap EXCEPT ![id] = v] /\ slaves' = slaves
    BY <1>4 DEF Switch, SwitchOnline, registryVars
  <2>2. on \in BOOLEAN
    BY Bounds
  <2>3. v \in Slaves /\ RegistersFresh(v)
    BY <1>0, <2>2, CallsOnSlave
  <2> HIDE DEF v
  <2> QED
    BY <1>0, <2>1, <2>3, OneSlaveWritten
<1>5. CASE Periodic
  <2>1. /\ heap' = [id \in Ids |-> IF id \in Listed(slaves) /\ heap[id].online
                                   THEN Routine(heap[id]) ELSE heap[id]]
        /\ slaves' = slaves
    BY <1>5 DEF Periodic, RunOnce
  <2>2. \A id \in Ids : Routine(heap[id]) \in Slaves /\ RegistersFresh(Routine(heap[id]))
    BY <1>0, CallsOnSlave
  <2>3. heap' \in [Ids -> Slaves] /\ \A id \in Ids : RegistersFresh(heap'[id])
    BY <1>0, <2>1, <2>2
  <2> QED
    BY <1>0, <2>1, <2>3 DEF HeapInv
<1>6. CASE \E f \in Frames : WriteBegin(f)
  BY <1>1, <1>6 DEF WriteBegin, vars
<1>7. CASE ReadBegin \/ ReceiveFrame \/ BroadcastBegin \/ SendPasses
  BY <1>1, <1>7 DEF ReadBegin, ReceiveFrame, BroadcastBegin, SendPasses, vars
<1>8. CASE SendFails \/ SendFrame
  BY <1>1, <1>8 DEF SendFails, SendFrame, FrameDone, vars
<1>9. CASE BroadcastEnd
  BY <1>1, <1>9 DEF BroadcastEnd, registryVars
<1>10. CASE \E up \in BOOLEAN : SetLinkUp(up)
  BY <1>1, <1>10 DEF SetLinkUp, vars
<1>11. CASE \E ms \in Latencies : SetLatencyMs(ms)
  BY <1>1, <1>11 DEF SetLatencyMs, vars
<1>12. CASE Tick
  BY <1>1, <1>12 DEF Tick, vars
<1>13. CASE UNCHANGED allVars
  BY <1>1, <1>13 DEF allVars, vars
<1> QED
  BY <1>2, <1>3, <1>4, <1>5, <1>6, <1>7, <1>8, <1>9, <1>10, <1>11, <1>12, <1>13
  DEF SocketNext, Calling

(* Where the thread is tells what has been answered.                       *)
LEMMA FrameStep == SimInv /\ [SocketNext]_allVars => FrameInv'
<1> SUFFICES ASSUME SimInv, [SocketNext]_allVars PROVE FrameInv'
  OBVIOUS
<1>0. FrameInv
  BY DEF SimInv
<1>1. ASSUME UNCHANGED <<at, frame, answers, target>> PROVE FrameInv'
  BY <1>0, <1>1 DEF FrameInv, Unanswered, Broadcast, Datagram
<1>2. PICK S : answers \in Seq(S)
  BY <1>0 DEF FrameInv
<1>3. ASSUME NEW e, answers' = Append(answers, e), at' = "execute", frame' = frame
      PROVE  FrameInv'
  <2>1. answers' # <<>> /\ \E T : answers' \in Seq(T)
    BY <1>2, <1>3, Longer
  <2> QED
    BY <1>0, <1>3, <2>1 DEF FrameInv
<1>4. ASSUME at' = "idle", frame' = <<>>, answers' = <<>>, target' = Nobody
      PROVE  FrameInv'
  <2>1. <<>> \in Seq(Datagrams) /\ <<>> \in Seq({})
    OBVIOUS
  <2> QED
    BY <1>4, <2>1 DEF FrameInv
<1>5. ASSUME NEW f \in Frames, WriteBegin(f) PROVE FrameInv'
  <2>1. /\ at = "idle" /\ at' = "execute" /\ frame' = f
        /\ answers' = answers /\ target' = target
    BY <1>5 DEF WriteBegin
  <2>2. f \in Seq(Datagrams)
    BY FramesAssumption
  <2> QED
    BY <1>0, <2>1, <2>2 DEF FrameInv
<1>6. CASE ReadBegin
  <2>1. /\ at = "idle" /\ at' = "take"
        /\ frame' = frame /\ answers' = answers /\ target' = target
    BY <1>6 DEF ReadBegin, writeVars
  <2> QED
    BY <1>0, <2>1 DEF FrameInv
<1>7. CASE ReceiveFrame
  <2>1. /\ at = "take" /\ at' = "idle"
        /\ frame' = frame /\ answers' = answers /\ target' = target
    BY <1>7 DEF ReceiveFrame, writeVars
  <2> QED
    BY <1>0, <2>1 DEF FrameInv
<1>8. CASE Execute
  <2>1. at' = "execute" /\ frame' = frame /\ \E e : answers' = Append(answers, e)
    BY <1>8, ExecuteEffect DEF Execute, Unexecuted
  <2> QED
    BY <1>3, <2>1
<1>9. CASE BroadcastBegin
  <2>1. /\ at' = "broadcast" /\ target' = Nobody /\ frame' = frame /\ answers' = answers
        /\ Unanswered /\ Broadcast
    BY <1>9 DEF BroadcastBegin, Unexecuted, Unanswered
  <2> QED
    BY <1>0, <2>1 DEF FrameInv, Unanswered, Broadcast, Datagram
<1>10. CASE BroadcastOne
  BY <1>1, <1>10 DEF BroadcastOne
<1>11. CASE BroadcastEnd
  <2>1. at' = "execute" /\ frame' = frame /\ \E e : answers' = Append(answers, e)
    BY <1>11 DEF BroadcastEnd, Answer
  <2> QED
    BY <1>3, <2>1
<1>12. CASE SendFails
  BY <1>4, <1>12 DEF SendFails, FrameDone
<1>13. CASE SendFrame
  BY <1>4, <1>13 DEF SendFrame, FrameDone
<1>14. CASE SendPasses
  <2>1. at' = "send" /\ frame' = frame /\ answers' = answers /\ target' = target
    BY <1>14 DEF SendPasses, writeVars
  <2> QED
    BY <1>0, <2>1 DEF FrameInv
<1>15. ASSUME NEW id \in Ids, NEW on \in OnlineValues, Switch(id, on) PROVE FrameInv'
  <2>1. /\ at' = at /\ frame' = frame /\ answers' = answers
        /\ target' = target \/ target' = Nobody
    BY <1>15 DEF Switch
  <2> QED
    BY <1>0, <2>1 DEF FrameInv, Unanswered, Broadcast, Datagram
<1>16. CASE Periodic
  BY <1>1, <1>16 DEF Periodic, socketVars, writeVars
<1>17. CASE \E up \in BOOLEAN : SetLinkUp(up)
  BY <1>1, <1>17 DEF SetLinkUp, writeVars
<1>18. CASE \E ms \in Latencies : SetLatencyMs(ms)
  BY <1>1, <1>18 DEF SetLatencyMs, writeVars
<1>19. CASE Tick
  BY <1>1, <1>19 DEF Tick, writeVars
<1>20. CASE UNCHANGED allVars
  BY <1>1, <1>20 DEF allVars, socketVars, writeVars
<1> QED
  BY <1>5, <1>6, <1>7, <1>8, <1>9, <1>10, <1>11, <1>12, <1>13, <1>14, <1>15, <1>16,
     <1>17, <1>18, <1>19, <1>20
  DEF SocketNext, Calling


(* Nothing that happens between two datagrams takes the address from the   *)
(* slave that was written, but a switch of a slave that bears it.          *)
LEMMA TargetStep == SimInv /\ [SocketNext]_allVars => TargetInv'
<1> SUFFICES ASSUME SimInv, [SocketNext]_allVars PROVE TargetInv'
  OBVIOUS
<1>0. /\ HeapInv /\ FrameInv /\ TargetInv
      /\ \A id \in Ids : heap[id] \in Slaves /\ RegistersFresh(heap[id])
      /\ \A i \in DOMAIN slaves : slaves[i] \in Ids
  BY DEF SimInv, HeapInv
<1>1. ASSUME target' = Nobody PROVE TargetInv'
  BY <1>1 DEF TargetInv, Nobody
<1>2. ASSUME heap' = heap, slaves' = slaves, UNCHANGED <<frame, answers, target>>
      PROVE  TargetInv'
  BY <1>0, <1>2 DEF TargetInv, Bearers, Nobody
<1>3. CASE Execute
  <2>1. PICK S : answers \in Seq(S)
    BY <1>0 DEF FrameInv
  <2>2. PICK e : answers' = Append(answers, e)
    BY <1>3, ExecuteEffect
  <2>3. Len(answers') = Len(answers) + 1
    BY <2>1, <2>2, Longer
  <2>4. frame' = frame /\ slaves' = slaves
    BY <1>3, ExecuteEffect
  <2>5. frame'[Len(answers')] = Datagram
    BY <2>3, <2>4 DEF Datagram
  <2>6. CASE Datagram.cmd # "FPWR"
    BY <2>5, <2>6 DEF TargetInv
  <2>7. CASE Datagram.cmd = "FPWR"
    <3> DEFINE a == Datagram.adp
    <3>1. /\ target' = Reached(a)
          /\ \A id \in Ids : /\ heap'[id].online = heap[id].online
                             /\ heap'[id].address = heap[id].address
      BY <1>3, <2>7, ExecuteEffect
    <3>2. {i \in DOMAIN slaves' : heap'[slaves'[i]].online /\ heap'[slaves'[i]].address = a}
            = Bearers(a)
      BY <1>0, <2>4, <3>1 DEF Bearers
    <3>3. frame'[Len(answers')].adp = a
      BY <2>5
    <3> HIDE DEF a
    <3>4. CASE Bearers(a) = {}
      <4>1. target' = Nobody
        BY <3>1, <3>4 DEF Reached
      <4> QED
        BY <1>1, <4>1
    <3>5. CASE Bearers(a) # {}
      <4>1. target' = slaves'[First(Bearers(a))]
        BY <2>4, <3>1, <3>5 DEF Reached
      <4> QED
        BY <3>2, <3>3, <3>5, <4>1 DEF TargetInv, Bearers
    <3> QED
      BY <3>4, <3>5
  <2> QED
    BY <2>6, <2>7
<1>4. ASSUME NEW id \in Ids, NEW on \in OnlineValues, Switch(id, on) PROVE TargetInv'
  <2> SUFFICES ASSUME target' # Nobody, frame'[Len(answers')].cmd = "FPWR"
               PROVE  TargetInv'
    BY DEF TargetInv, Nobody
  <2> DEFINE a == frame[Len(answers)].adp
             v == SetOnline(heap[id], on)
  <2>1. /\ heap' = [heap EXCEPT ![id] = v] /\ slaves' = slaves
        /\ frame' = frame /\ answers' = answers
        /\ target' = IF target # Nobody /\ heap[id].address = heap[target].address
                     THEN Nobody ELSE target
    BY <1>4 DEF Switch, SwitchOnline, registryVars
  <2>2. target # Nobody /\ target' = target /\ heap[id].address # heap[target].address
    BY <2>1
  <2>3. Bearers(a) # {} /\ target = slaves[First(Bearers(a))]
    BY <1>0, <2>1, <2>2 DEF TargetInv
  <2>4. heap[target].address = a
    <3> HIDE DEF a
    <3> QED
      BY <1>0, <2>3, FirstBearer
  <2>5. v.address = heap[id].address
    <3>1. on \in BOOLEAN
      BY Bounds
    <3> QED
      BY <1>0, <3>1, CallsOnSlave
  <2> HIDE DEF v, a
  <2>6. {i \in DOMAIN slaves' : heap'[slaves'[i]].online /\ heap'[slaves'[i]].address = a}
          = Bearers(a)
    <3>1. heap'[id] = v /\ \A other \in Ids : other # id => heap'[other] = heap[other]
      BY <1>0, <2>1 DEF HeapInv
    <3> QED
      BY <1>0, <2>1, <2>2, <2>4, <2>5, <3>1 DEF Bearers
  <2>7. frame'[Len(answers')].adp = a
    BY <2>1 DEF a
  <2> QED
    BY <2>1, <2>2, <2>3, <2>6, <2>7 DEF TargetInv, Bearers
<1>5. CASE Periodic
  <2>1. /\ heap' = [id \in Ids |-> IF id \in Listed(slaves) /\ heap[id].online
                                   THEN Routine(heap[id]) ELSE heap[id]]
        /\ slaves' = slaves /\ frame' = frame /\ answers' = answers /\ target' = target
    BY <1>5 DEF Periodic, RunOnce, socketVars, writeVars
  <2>2. \A id \in Ids : /\ Routine(heap[id]).online = heap[id].online
                        /\ Routine(heap[id]).address = heap[id].address
    BY <1>0, CallsOnSlave
  <2>3. \A id \in Ids : /\ heap'[id].online = heap[id].online
                        /\ heap'[id].address = heap[id].address
    BY <2>1, <2>2
  <2> DEFINE a == frame[Len(answers)].adp
  <2>4. {i \in DOMAIN slaves' : heap'[slaves'[i]].online /\ heap'[slaves'[i]].address = a}
          = Bearers(a)
    BY <1>0, <2>1, <2>3 DEF Bearers
  <2> QED
    BY <1>0, <2>1, <2>4 DEF TargetInv, Bearers, Nobody
<1>6. CASE \E f \in Frames : WriteBegin(f)
  <2>1. at = "idle" /\ target' = target
    BY <1>6 DEF WriteBegin
  <2> QED
    BY <1>0, <1>1, <2>1 DEF FrameInv
<1>7. CASE ReadBegin \/ ReceiveFrame \/ SendPasses
  BY <1>2, <1>7 DEF ReadBegin, ReceiveFrame, SendPasses, vars, writeVars
<1>8. CASE SendFails \/ SendFrame
  BY <1>1, <1>8 DEF SendFails, SendFrame, FrameDone
<1>9. CASE BroadcastBegin
  BY <1>1, <1>9 DEF BroadcastBegin
<1>10. CASE BroadcastOne \/ BroadcastEnd
  <2>1. at = "broadcast" /\ target' = target
    BY <1>10 DEF BroadcastOne, BroadcastEnd
  <2> QED
    BY <1>0, <1>1, <2>1 DEF FrameInv
<1>11. CASE \E up \in BOOLEAN : SetLinkUp(up)
  BY <1>2, <1>11 DEF SetLinkUp, vars, writeVars
<1>12. CASE \E ms \in Latencies : SetLatencyMs(ms)
  BY <1>2, <1>12 DEF SetLatencyMs, vars, writeVars
<1>13. CASE Tick
  BY <1>2, <1>13 DEF Tick, vars, writeVars
<1>14. CASE UNCHANGED allVars
  BY <1>2, <1>14 DEF allVars, vars, socketVars, writeVars
<1> QED
  BY <1>3, <1>4, <1>5, <1>6, <1>7, <1>8, <1>9, <1>10, <1>11, <1>12, <1>13, <1>14
  DEF SocketNext, Calling

(* Wherever the thread is, the registers are fresh and the slave that took *)
(* the last write still answers first to its address.                      *)
THEOREM SimInvariant == SocketSpec => []SimInv
<1>1. SimInv /\ [SocketNext]_allVars => SimInv'
  BY HeapStep, FrameStep, TargetStep DEF SimInv
<1> QED
  BY <1>1, SimInit, PTL DEF SocketSpec

(* A frame that writes AL_CONTROL of a slave and then reads AL_STATUS of   *)
(* the same address sees what its write led to, whatever the program does  *)
(* in between but switch a slave of that address.                          *)
THEOREM FrameSeesItsWrite == SocketSpec => FrameReadsOwnWrite
<1> DEFINE Own ==
      Len(answers') = Len(answers) + 1
      /\ Datagram.cmd = "FPRD" /\ target # Nobody
      /\ frame[Len(answers)].cmd = "FPWR" /\ frame[Len(answers)].adp = Datagram.adp
      => answers'[Len(answers')].data = [state |-> heap[target].al,
                                         error |-> heap[target].ackReq]
<1>1. ASSUME SimInv, [SocketNext]_allVars PROVE Own
  <2> SUFFICES ASSUME Len(answers') = Len(answers) + 1, Datagram.cmd = "FPRD",
                      target # Nobody, frame[Len(answers)].cmd = "FPWR",
                      frame[Len(answers)].adp = Datagram.adp
               PROVE  answers'[Len(answers')].data = [state |-> heap[target].al,
                                                      error |-> heap[target].ackReq]
    OBVIOUS
  <2>0. HeapInv /\ FrameInv /\ TargetInv
    BY <1>1 DEF SimInv
  <2>1. PICK S : answers \in Seq(S)
    BY <2>0 DEF FrameInv
  <2>2. Len(answers) \in Nat /\ answers' # answers
    BY <2>1
  <2>3. Execute
    <3>1. at # "broadcast" /\ answers # <<>>
      BY <2>0 DEF FrameInv
    <3>2. ~(SendFails \/ SendFrame)
      <4>1. Len(answers') # 0
        BY <2>2
      <4> QED
        BY <4>1 DEF SendFails, SendFrame, FrameDone
    <3> QED
      BY <1>1, <2>2, <3>1, <3>2
      DEF SocketNext, Calling, WriteBegin, ReadBegin, ReceiveFrame, BroadcastBegin,
          BroadcastOne, BroadcastEnd, SendPasses, SetLinkUp, SetLatencyMs, Switch,
          Periodic, Tick, allVars, socketVars, writeVars
  <2> DEFINE a == Datagram.adp
             r == [wkc |-> wkc', data |-> IF ReadFromSlave(a).ok
                                          THEN ReadFromSlave(a).value ELSE Kept]
  <2>4. answers' = Append(answers, r)
    BY <1>1, <2>3, ExecuteEffect
  <2>5. Bearers(a) # {} /\ target = slaves[First(Bearers(a))]
    BY <2>0 DEF TargetInv
  <2>6. r.data = heap[target].regAl
    BY <2>5 DEF ReadFromSlave
  <2>7. answers'[Len(answers')] = r
    <3> HIDE DEF r
    <3> QED
      BY <2>1, <2>4, Longer
  <2>8. target \in Ids
    <3> HIDE DEF a
    <3> QED
      BY <2>0, <2>5, FirstBearer
  <2>9. heap[target].regAl = [state |-> heap[target].al, error |-> heap[target].ackReq]
    BY <2>0, <2>8 DEF HeapInv, RegistersFresh
  <2> QED
    BY <2>6, <2>7, <2>9
<1>2. SimInv /\ [SocketNext]_allVars => Own
  BY <1>1
<1> QED
  BY <1>2, SimInvariant, PTL DEF SocketSpec, FrameReadsOwnWrite

=============================================================================
