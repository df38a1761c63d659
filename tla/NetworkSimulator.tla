--------------------------- MODULE NetworkSimulator ---------------------------
(***************************************************************************)
(* The registry of simulated slaves, the logical memory and the input      *)
(* mappings of class NetworkSimulator (core/simulation/                    *)
(* network_simulator.cpp), with the datagrams that SlavesEndpoint and      *)
(* SimSocket turn into calls of it.  Every method holds mutex_ from its    *)
(* first access to its last, so a method call is one action; a broadcast   *)
(* is several calls, and all of them come from the one thread that         *)
(* processes the frame.                                                    *)
(*                                                                         *)
(* Slaves are shared objects: the registry and the program own them, an    *)
(* input mapping only observes them.  An identity stands for an object; it *)
(* may be used for a new object once nothing refers to it.                 *)
(***************************************************************************)
EXTENDS SlaveOps, Sequences, FiniteSets

CONSTANTS
  Ids,           \* identities of slave objects
  MaxSlaves,     \* bound: length of the registry
  MaxMaps,       \* bound: length of input_maps_
  LogicalSize,   \* bytes of logical memory: 16384 in the code
  Bytes,         \* values of a byte of inputs or of logical memory
  InputBytes,    \* bytes of a device's input bitfield: 4 in the code
  Widths,        \* width_bytes of an input mapping
  ControlWords,  \* values written to AL_CONTROL
  OnlineValues,  \* arguments of setOnline; {} where nothing calls it
  OwnMappings,   \* whether devices map their inputs themselves; {FALSE}: none
  SdoRequests,   \* requests written to a mailbox
  MailboxReads,  \* station addresses of the mailboxes that are read
  Dispatcher,    \* "SlavesEndpoint" or "SimSocket": whose switch serves the datagrams
  Positions      \* auto-increment addresses of the datagrams, 16 bits

AutoIncrementAddresses == 0..65535

ASSUME NetworkSimulatorAssumption ==
  /\ MaxSlaves \in Nat /\ MaxMaps \in Nat /\ LogicalSize \in Nat
  /\ 0 \in Bytes /\ Bytes \subseteq Nat
  /\ InputBytes \in Nat \ {0}
  /\ Widths \subseteq 1..InputBytes
  /\ ControlWords \subseteq AlControlWords
  /\ OnlineValues \subseteq BOOLEAN
  /\ OwnMappings \subseteq BOOLEAN
  /\ SdoRequests \subseteq Requests
  /\ MailboxReads \subseteq Addresses
  /\ Dispatcher \in {"SlavesEndpoint", "SimSocket"}
  /\ Positions \subseteq AutoIncrementAddresses
  /\ IsFiniteSet(Addresses)
  /\ Addresses = 0..Cardinality(Addresses) - 1
  /\ 0 \in Addresses

VARIABLES
  heap,       \* the slave objects
  inputs,     \* readDigitalInputsBitfield of each, byte by byte, or NoInputs
  dictionary, \* history: what the object dictionary of each last made of its flag
  slaves,     \* slaves_
  held,       \* objects the program holds a shared_ptr to
  count,      \* virtualSlaveCount_
  maps,       \* input_maps_
  logical,    \* logical_
  wkc         \* working counter of the last datagram

registryVars == <<slaves, held, count, maps>>
deviceVars == <<inputs, dictionary>>
vars == <<heap, deviceVars, slaves, held, count, maps, logical, wkc>>

Cells    == 0..LogicalSize - 1
Offsets  == 0..InputBytes - 1
NoInputs == [i \in Offsets |-> -1]   \* VirtualSlave: no digital inputs
Inputs   == [Offsets -> Bytes] \union {NoInputs}
Decisions == {"untouched", "mapped", "unmapped"}
InputMaps == [slave : Ids, address : Cells, width : Widths]

Listed(seq) == {seq[i] : i \in DOMAIN seq}
Alive       == Listed(slaves) \union held
Mapped      == {maps[k].slave : k \in DOMAIN maps}
Fresh       == Ids \ (Alive \union Mapped)

TypeOK ==
  /\ heap \in [Ids -> Slaves]
  /\ inputs \in [Ids -> Inputs]
  /\ dictionary \in [Ids -> Decisions]
  /\ slaves \in Seq(Ids) /\ Len(slaves) <= MaxSlaves
  /\ held \subseteq Ids
  /\ count \in 0..MaxSlaves
  /\ maps \in Seq(InputMaps) /\ Len(maps) <= MaxMaps
  /\ logical \in [Cells -> Bytes]
  /\ wkc \in 0..MaxSlaves + 1

Init ==
  /\ heap = [id \in Ids |-> NewSlave(0)]
  /\ inputs = [id \in Ids |-> NoInputs]
  /\ dictionary = [id \in Ids |-> "untouched"]
  /\ slaves = <<>> /\ held = {} /\ count = 0 /\ maps = <<>>
  /\ logical = [x \in Cells |-> 0]
  /\ wkc = 0

-----------------------------------------------------------------------------
(* The registry.                                                           *)

(* The program constructs a device with digital inputs and keeps it.  The  *)
(* classes of a-slaves map their inputs themselves (own), the others leave *)
(* the flag down until applyDefaultTxPdoMapping is called.                 *)
Construct(id, a, own) ==
  /\ id \in Fresh
  /\ heap' = [heap EXCEPT ![id] = SetInputPDOMapped(NewSlave(a), own)]
  /\ inputs' = [inputs EXCEPT ![id] = [i \in Offsets |-> 0]]
  /\ dictionary' = [dictionary EXCEPT ![id] = IF own THEN "mapped" ELSE "untouched"]
  /\ held' = held \union {id}
  /\ UNCHANGED <<slaves, count, maps, logical, wkc>>

ApplyDefaultTxPdoMapping(id) ==
  /\ id \in Alive
  /\ inputs[id] # NoInputs
  /\ heap' = [heap EXCEPT ![id] = SetInputPDOMapped(@, TRUE)]
  /\ dictionary' = [dictionary EXCEPT ![id] = "mapped"]
  /\ UNCHANGED <<inputs, registryVars, logical, wkc>>

Release(id) ==
  /\ id \in held
  /\ held' = held \ {id}
  /\ UNCHANGED <<heap, deviceVars, slaves, count, maps, logical, wkc>>

(* addVirtualSlave.  The program adds an object once.                      *)
AddVirtualSlave(id) ==
  /\ id \in held \ Listed(slaves)
  /\ Len(slaves) < MaxSlaves
  /\ slaves' = Append(slaves, id)
  /\ count' = Len(slaves')
  /\ UNCHANGED <<heap, deviceVars, held, maps, logical, wkc>>

(* setVirtualSlaveCount: stubs are appended, numbered on from the last     *)
(* slave, or the registry is cut from the back.                            *)
NextAddressMutant(i) ==           \* without the cast to 16 bits
  IF slaves = <<>> THEN i ELSE heap[slaves[Len(slaves)]].address + i - Len(slaves)

NextAddress(i) ==
  IF slaves = <<>>
  THEN i % Cardinality(Addresses)
  ELSE (heap[slaves[Len(slaves)]].address + i - Len(slaves)) % Cardinality(Addresses)

Grow(n) ==
  \E stubs \in [Len(slaves) + 1..n -> Fresh] :
    /\ \A i, j \in DOMAIN stubs : stubs[i] = stubs[j] => i = j
    /\ slaves' = [i \in 1..n |-> IF i \in DOMAIN stubs THEN stubs[i] ELSE slaves[i]]
    /\ heap' = [id \in Ids |-> IF \E i \in DOMAIN stubs : stubs[i] = id
                               THEN NewSlave(NextAddress(CHOOSE i \in DOMAIN stubs : stubs[i] = id))
                               ELSE heap[id]]
    /\ inputs' = [id \in Ids |-> IF \E i \in DOMAIN stubs : stubs[i] = id
                                 THEN NoInputs ELSE inputs[id]]
    /\ dictionary' = [id \in Ids |-> IF \E i \in DOMAIN stubs : stubs[i] = id
                                     THEN "untouched" ELSE dictionary[id]]

Shrink(n) ==
  /\ slaves' = SubSeq(slaves, 1, n)
  /\ UNCHANGED <<heap, deviceVars>>

SetVirtualSlaveCount(n) ==
  /\ IF Len(slaves) < n THEN Grow(n) ELSE Shrink(n)
  /\ count' = Len(slaves')
  /\ UNCHANGED <<held, maps, logical, wkc>>

ClearSlavesMutant ==              \* the count is forgotten
  /\ slaves' = <<>>
  /\ UNCHANGED <<heap, deviceVars, held, count, maps, logical, wkc>>

ClearSlaves ==
  /\ slaves' = <<>>
  /\ count' = 0
  /\ UNCHANGED <<heap, deviceVars, held, maps, logical, wkc>>

StartAllSlaves ==
  /\ heap' = [id \in Ids |-> IF id \in Listed(slaves) THEN Start(heap[id]) ELSE heap[id]]
  /\ UNCHANGED <<deviceVars, registryVars, logical, wkc>>

(* The device's own side: its power, and its inputs.                       *)
SwitchOnline(id, on) ==
  /\ id \in Alive
  /\ heap' = [heap EXCEPT ![id] = SetOnline(@, on)]
  /\ UNCHANGED <<deviceVars, registryVars, logical, wkc>>

SetInput(id, i, b) ==
  /\ id \in Alive
  /\ inputs[id] # NoInputs
  /\ inputs' = [inputs EXCEPT ![id][i] = b]
  /\ UNCHANGED <<heap, dictionary, registryVars, logical, wkc>>

-----------------------------------------------------------------------------
(* Input mappings and logical memory.                                      *)

MapDigitalInputs(id, x, w) ==
  /\ id \in Alive
  /\ Len(maps) < MaxMaps
  /\ maps' = Append(maps, [slave |-> id, address |-> x, width |-> w])
  /\ heap' = [heap EXCEPT ![id] = SetInputPDOMapped(@, TRUE)]
  /\ UNCHANGED <<deviceVars, slaves, held, count, logical, wkc>>

ClearInputMappingsMutant ==       \* the slaves keep their flag
  /\ maps' = <<>>
  /\ UNCHANGED <<heap, deviceVars, slaves, held, count, logical, wkc>>

ClearInputMappings ==
  /\ maps' = <<>>
  /\ heap' = [id \in Ids |-> IF id \in Mapped \cap Alive
                             THEN SetInputPDOMapped(heap[id], FALSE)
                             ELSE heap[id]]
  /\ UNCHANGED <<deviceVars, slaves, held, count, logical, wkc>>

(* The mappings that write cell x in one pass, of which the last one wins. *)
Writers(x) ==
  { k \in DOMAIN maps :
      /\ maps[k].slave \in Alive
      /\ inputs[maps[k].slave] # NoInputs
      /\ maps[k].address <= x /\ x < maps[k].address + maps[k].width }

LastWriterMutant(x) == CHOOSE k \in Writers(x) : \A j \in Writers(x) : k <= j

LastWriter(x) == CHOOSE k \in Writers(x) : \A j \in Writers(x) : j <= k

(* The mappings of slaves that are gone are erased: the positions of the   *)
(* others, in their order.                                                 *)
Remaining ==
  LET live == {k \in DOMAIN maps : maps[k].slave \in Alive} IN
  { kept \in UNION {[1..n -> live] : n \in 0..Len(maps)} :
      /\ \A i, j \in DOMAIN kept : i < j => kept[i] < kept[j]
      /\ \A k \in live : \E i \in DOMAIN kept : kept[i] = k }

RunOnce ==
  /\ heap' = [id \in Ids |-> IF id \in Listed(slaves) /\ heap[id].online
                             THEN Routine(heap[id]) ELSE heap[id]]
  /\ logical' = [x \in Cells |->
                  IF Writers(x) = {}
                  THEN logical[x]
                  ELSE LET k == LastWriter(x)
                       IN  inputs[maps[k].slave][x - maps[k].address]]
  /\ \E kept \in Remaining : maps' = [i \in DOMAIN kept |-> maps[kept[i]]]
  /\ UNCHANGED <<deviceVars, slaves, held, count, wkc>>

-----------------------------------------------------------------------------
(* Datagrams.                                                              *)

OnlineSlaveCount ==
  Cardinality({i \in DOMAIN slaves : heap[slaves[i]].online})
    + (IF count > Len(slaves) THEN count - Len(slaves) ELSE 0)

(* getSlaveByStationAddressNoLock: the first online match.                 *)
Bearers(a) == {i \in DOMAIN slaves : heap[slaves[i]].online /\ heap[slaves[i]].address = a}
First(positions) == CHOOSE i \in positions : \A j \in positions : i <= j

Bool2Wkc(b) == IF b THEN 1 ELSE 0

Zeros == [state |-> "NONE", error |-> FALSE]   \* AL_STATUS of a slave only counted

(* BRD.  The datagram reads nothing, it only counts; the endpoint counts   *)
(* one slave where there is none.                                          *)
CountOrOne ==
  IF OnlineSlaveCount = 0 /\ Dispatcher = "SlavesEndpoint" THEN 1 ELSE OnlineSlaveCount

BroadcastRead ==
  /\ wkc' = CountOrOne
  /\ UNCHANGED <<heap, deviceVars, registryVars, logical>>

(* The commands that address nobody: NOP, ARMW with FRMW, and all others.  *)
AcknowledgeOnly(cmd) ==
  /\ wkc' = CASE Dispatcher = "SlavesEndpoint" /\ cmd = "NOP"  -> 0
              [] Dispatcher = "SlavesEndpoint" /\ cmd = "FRMW" -> CountOrOne
              [] OTHER -> Bool2Wkc(OnlineSlaveCount > 0)
  /\ UNCHANGED <<heap, deviceVars, registryVars, logical>>

(* BWR, BRW: writeToSlaveByIndex for the indices below onlineSlaveCount.   *)
BroadcastTargetsMutant == { i \in 1..OnlineSlaveCount - 1 : heap[slaves[i]].online }

BroadcastTargets == { i \in 1..OnlineSlaveCount : i <= Len(slaves) /\ heap[slaves[i]].online }

BroadcastAlControl(ctrl) ==
  LET reached == {slaves[i] : i \in BroadcastTargets} IN
  /\ heap' = [id \in Ids |-> IF id \in reached THEN WriteAlControl(heap[id], ctrl) ELSE heap[id]]
  /\ wkc' = Cardinality(BroadcastTargets)
  /\ UNCHANGED <<deviceVars, registryVars, logical>>

(* FPWR and FPRW: writeToSlave, to which the slave bearing the address     *)
(* answers, or a slave that is only counted.                               *)
StationAnswers(a) == Bearers(a) # {} \/ (slaves = <<>> /\ a >= 1 /\ a <= count)
Bearer(a) == slaves[First(Bearers(a))]

StationAlControl(a, ctrl) ==
  /\ heap' = IF Bearers(a) # {}
             THEN [heap EXCEPT ![Bearer(a)] = WriteAlControl(@, ctrl)]
             ELSE heap
  /\ wkc' = Bool2Wkc(StationAnswers(a))
  /\ UNCHANGED <<deviceVars, registryVars, logical>>

(* The mailbox of a slave.  onSdoDownload of a device with inputs decides  *)
(* anew, from objects that module El1258 has, whether they are mapped.     *)
Decides(id, req) == inputs[id] # NoInputs /\ req.service = "DOWNLOAD"

StationMailboxWrite(a, req) ==
  /\ IF Bearers(a) # {}
     THEN \E v \in Values, m \in BOOLEAN :
            LET id == Bearer(a) IN
            /\ ~Decides(id, req) => m = heap[id].mapped
            /\ heap' = [heap EXCEPT ![id] = HandleMailboxWrite(@, req, v, m)]
            /\ dictionary' = IF Decides(id, req)
                             THEN [dictionary EXCEPT ![id] = IF m THEN "mapped" ELSE "unmapped"]
                             ELSE dictionary
     ELSE UNCHANGED <<heap, dictionary>>
  /\ wkc' = Bool2Wkc(StationAnswers(a))
  /\ UNCHANGED <<inputs, registryVars, logical>>

StationMailboxRead(a) ==
  /\ heap' = IF Bearers(a) # {}
             THEN [heap EXCEPT ![Bearer(a)] = ReadMailbox(@)]
             ELSE heap
  /\ wkc' = Bool2Wkc(StationAnswers(a))
  /\ UNCHANGED <<deviceVars, registryVars, logical>>

(* readFromSlave of AL_STATUS: the register as the slave last refreshed    *)
(* it, zeros for a slave that is only counted, or a refusal.               *)
ReadFromSlave(a) ==
  CASE Bearers(a) # {} -> [ok |-> TRUE, value |-> heap[slaves[First(Bearers(a))]].regAl]
    [] Bearers(a) = {} /\ slaves = <<>> /\ a >= 1 /\ a <= count -> [ok |-> TRUE, value |-> Zeros]
    [] OTHER -> [ok |-> FALSE, value |-> Zeros]

(* FPRD of AL_STATUS.                                                      *)
StationRead(a) ==
  /\ wkc' = Bool2Wkc(ReadFromSlave(a).ok)
  /\ UNCHANGED <<heap, deviceVars, registryVars, logical>>

(* The index behind an auto-increment address: 0, 0xFFFF, 0xFFFE, ... for  *)
(* the slaves in their order; an address below 0x8000 is the index itself. *)
Position(adp) == IF adp >= 32768 THEN 65536 - adp ELSE adp

IndexReachableMutant(i) == i \in DOMAIN slaves

IndexReachable(i) == i \in DOMAIN slaves /\ heap[slaves[i]].online

(* APWR and APRW of the station address: writeToSlaveByIndex.              *)
IndexStationAddress(adp, a) ==
  LET i == Position(adp) + 1 IN
  /\ IF IndexReachable(i)
     THEN heap' = [heap EXCEPT ![slaves[i]] = WriteStationAddress(@, a)]
     ELSE UNCHANGED heap
  /\ wkc' = Bool2Wkc(IndexReachable(i))
  /\ UNCHANGED <<deviceVars, registryVars, logical>>

(* readFromSlaveByIndex of AL_STATUS, for APRD.                            *)
ReadFromSlaveByIndex(i) ==
  IF IndexReachable(i)
  THEN [ok |-> TRUE, value |-> heap[slaves[i]].regAl]
  ELSE [ok |-> FALSE, value |-> Zeros]

IndexRead(adp) ==
  /\ wkc' = Bool2Wkc(ReadFromSlaveByIndex(Position(adp) + 1).ok)
  /\ UNCHANGED <<heap, deviceVars, registryVars, logical>>

(* LWR and LRW of len bytes.                                               *)
WriteLogical(x, len, b) ==
  /\ IF x + len <= LogicalSize
     THEN logical' = [y \in Cells |-> IF y \in x..x + len - 1 THEN b ELSE logical[y]]
     ELSE UNCHANGED logical
  /\ wkc' = Bool2Wkc(x + len <= LogicalSize)
  /\ UNCHANGED <<heap, deviceVars, registryVars>>

(* LRD of len bytes: what it finds is logical[x] and the bytes behind.     *)
ReadLogical(x, len) ==
  /\ wkc' = Bool2Wkc(x + len <= LogicalSize)
  /\ UNCHANGED <<heap, deviceVars, registryVars, logical>>

-----------------------------------------------------------------------------
DatagramNext ==
  \/ BroadcastRead
  \/ \E cmd \in {"NOP", "FRMW", "OTHER"} : AcknowledgeOnly(cmd)
  \/ \E ctrl \in ControlWords : BroadcastAlControl(ctrl)
  \/ \E a \in Addresses : StationRead(a)
  \/ \E a \in Addresses, ctrl \in ControlWords : StationAlControl(a, ctrl)
  \/ \E a \in Addresses, req \in SdoRequests : StationMailboxWrite(a, req)
  \/ \E a \in MailboxReads : StationMailboxRead(a)
  \/ \E adp \in Positions : IndexRead(adp)
  \/ \E adp \in Positions, a \in Addresses : IndexStationAddress(adp, a)
  \/ \E x \in Cells, len \in Widths : ReadLogical(x, len)
  \/ \E x \in Cells, len \in Widths, b \in Bytes : WriteLogical(x, len, b)

ProgramNext ==
  \/ \E id \in Ids, a \in Addresses, own \in OwnMappings : Construct(id, a, own)
  \/ \E id \in Ids : Release(id) \/ AddVirtualSlave(id)
  \/ \E id \in Ids : TRUE \in OwnMappings /\ ApplyDefaultTxPdoMapping(id)
  \/ \E n \in 0..MaxSlaves : SetVirtualSlaveCount(n)
  \/ ClearSlaves
  \/ StartAllSlaves
  \/ \E id \in Ids, on \in OnlineValues : SwitchOnline(id, on)
  \/ \E id \in Ids, i \in Offsets, b \in Bytes : SetInput(id, i, b)
  \/ \E id \in Ids, x \in Cells, w \in Widths : MapDigitalInputs(id, x, w)
  \/ ClearInputMappings
  \/ RunOnce

Next == DatagramNext \/ ProgramNext

Spec == Init /\ [][Next]_vars

(* SlavesEndpoint calls runOnce after every frame, and the run loop of a    *)
(* connected MasterController sends a frame in every cycle.                *)
PeriodicSpec == Spec /\ WF_vars(RunOnce)

-----------------------------------------------------------------------------
(* Invariants.                                                             *)

(* virtualSlaveCount_ never exceeds the registry, whichever of the four    *)
(* methods last changed it, so the branches of writeToSlave, readFromSlave *)
(* and onlineSlaveCount that answer for slaves that are only counted       *)
(* answer for none.                                                        *)
CountIsRegistry == count = Len(slaves)

(* A slave whose flag says that its inputs are mapped has a mapping of one *)
(* kind or the other: an input mapping names it, or the last decision of   *)
(* its own object dictionary was that they are.  Until the dictionary has  *)
(* decided anything the flag is exactly the input mapping: mapping twice   *)
(* and clearing once, or releasing and replacing a slave between two calls *)
(* of runOnce, leaves no flag behind and drops none.                       *)
MappedHasSource ==
  \A id \in Alive :
    /\ heap[id].mapped => id \in Mapped \/ dictionary[id] = "mapped"
    /\ dictionary[id] = "untouched" => (heap[id].mapped <=> id \in Mapped)

-----------------------------------------------------------------------------
(* Action properties.                                                      *)

(* No datagram changes a slave that is off or not in the registry, however *)
(* it is addressed.                                                        *)
OfflineUntouched ==
  [][DatagramNext =>
       \A id \in Ids : ~(id \in Listed(slaves) /\ heap[id].online) => heap'[id] = heap[id]]_vars

(* While no slave of the registry is off, a broadcast writes every one of  *)
(* them, whatever was added, cut and released before.                      *)
BroadcastReachesAll ==
  [][\A ctrl \in ControlWords :
       BroadcastAlControl(ctrl) /\ (\A id \in Listed(slaves) : heap[id].online) =>
         \A id \in Listed(slaves) : heap'[id].alControl = ctrl]_vars

(* The comment on the broadcast in SimSocket: it is applied to all online  *)
(* slaves.  The loop bounds the index by the number of online slaves.      *)
BroadcastReachesOnline ==
  [][\A ctrl \in ControlWords : BroadcastAlControl(ctrl) =>
       \A i \in DOMAIN slaves :
         heap[slaves[i]].online => heap'[slaves[i]].alControl = ctrl]_vars

-----------------------------------------------------------------------------
(* Liveness.                                                               *)

(* Cell x is mapped on byte i of the inputs of id, and no mapping that was *)
(* made later writes it.                                                   *)
HasInputs(id) == id \in Alive /\ inputs[id] # NoInputs

LastMapping(id, i, x) ==
  \E k \in DOMAIN maps :
    /\ maps[k].slave = id /\ HasInputs(id)
    /\ maps[k].address + i = x /\ i < maps[k].width
    /\ \A j \in DOMAIN maps :
         j > k /\ x \in maps[j].address..maps[j].address + maps[j].width - 1
           => ~HasInputs(maps[j].slave)

(* An input that stays as it is, on a mapping that stays, is found in      *)
(* logical memory again and again, although a master may overwrite the     *)
(* cell with LWR in between and earlier mappings overlap it.               *)
InputsReachLogical ==
  \A id \in Ids, i \in Offsets, x \in Cells, b \in Bytes :
    <>[](LastMapping(id, i, x) /\ inputs[id][i] = b) => []<>(logical[x] = b)
=============================================================================
