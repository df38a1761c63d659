----------------------------- MODULE El1258Proofs -----------------------------
(***************************************************************************)
(* What holds of both EL1258 classes for any number of channels, any       *)
(* debounce times and any downloads.  The dictionary and the inputs do not *)
(* meet, so the invariant is proved in two halves: DictInv says what the   *)
(* mapping flag follows from, InputInv how old a level is and that a       *)
(* reading of the library's device shows the level behind its filter.      *)
(***************************************************************************)
EXTENDS El1258, SlaveOpsProofs

LEMMA Bounds ==
  /\ ChannelCount \in Nat /\ ChannelCount >= 2 /\ ChannelCount <= 255
  /\ MaxAssign \in Nat \ {0} /\ MaxAge \in Nat /\ Filter \in Nat
  /\ CountValues \subseteq Nat /\ DebounceTimes \subseteq Ages
  /\ Masks \subseteq SUBSET Channels /\ Watched \subseteq Channels /\ Wired \subseteq Channels
  /\ ControlWords \subseteq AlControlWords
  /\ 1 \in Addresses
BY El1258Assumption DEF Ages, Channels

-----------------------------------------------------------------------------
(* The invariants.                                                         *)

DictTyped ==
  /\ slave \in Slaves
  /\ mapCount \in 0..(IF device = "library" THEN ChannelCount ELSE 255)
  /\ assignCount \in 0..(IF device = "library" THEN MaxAssign ELSE 255)
  /\ assignedAt \subseteq 1..MaxAssign
  /\ listed \in BOOLEAN /\ flagBy \in {"dictionary", "simulator"}

(* The flag of a slave that is mapped goes back to an entry of 0x1C13, or  *)
(* to a mapping the simulator has not dropped; in the library it is        *)
(* exactly what the two objects say when a download wrote it last.         *)
DictInv ==
  /\ device \in {"library", "subs"}
  /\ DictTyped
  /\ slave.mapped => IF flagBy = "dictionary" THEN assignedAt # {} ELSE listed
  /\ device = "library" /\ flagBy = "dictionary" =>
       (slave.mapped <=> mapCount > 0 /\ Assigned(assignCount, assignedAt))

InputTyped ==
  /\ debounce \in DebounceTimes \union {0} /\ invert \subseteq Channels
  /\ reading \in [Watched -> {None, <<TRUE>>, <<FALSE>>}]
  /\ power \in BOOLEAN /\ button \in BOOLEAN
  /\ raw \in [Channels -> BOOLEAN] /\ shown \in [Channels -> BOOLEAN]
  /\ since \in [Channels -> Ages] /\ steady \in [Channels -> Ages]
  /\ settling \in [Channels -> BOOLEAN]

(* The code's clock of a channel tells how long its level has lasted, and  *)
(* while the filter is on the last reading is the level behind it.         *)
InputInv ==
  /\ device \in {"library", "subs"}
  /\ InputTyped
  /\ since = steady
  /\ \A c \in Watched : device = "library" /\ debounce # 0 /\ reading[c] # None
       => reading[c] = <<shown[c] # (c \in invert)>>

-----------------------------------------------------------------------------
(* The dictionary.                                                         *)

LEMMA MappingSet ==
  ASSUME NEW s \in Slaves, NEW m \in BOOLEAN
  PROVE  LET t == SetInputPDOMapped(s, m) IN
         t \in Slaves /\ t.al = s.al /\ t.mapped = m
<1>1. SetInputPDOMapped(s, m) \in Slaves /\ SetInputPDOMapped(s, m).al = s.al
  BY MinorMethods DEF Untouched
<1>2. SetInputPDOMapped(s, m).mapped = m
  BY SMT DEF SetInputPDOMapped, Slaves
<1> QED
  BY <1>1, <1>2

LEMMA RecomputeFacts ==
  ASSUME slave \in Slaves, NEW maps, NEW count, NEW positions,
         Recompute(maps, count, positions)
  PROVE  /\ slave' \in Slaves /\ slave'.al = slave.al /\ flagBy' = "dictionary"
         /\ slave'.mapped <=> maps > 0 /\ Assigned(count, positions)
<1> DEFINE m == maps > 0 /\ Assigned(count, positions)
<1>1. m \in BOOLEAN
  BY DEF Assigned
<1>2. slave' = SetInputPDOMapped(slave, m) /\ flagBy' = "dictionary"
  BY DEF Recompute
<1> HIDE DEF m
<1>3. SetInputPDOMapped(slave, m) \in Slaves /\ SetInputPDOMapped(slave, m).al = slave.al
      /\ SetInputPDOMapped(slave, m).mapped = m
  BY <1>1, MappingSet
<1> QED
  BY <1>2, <1>3 DEF m

LEMMA ByteRange ==
  ASSUME NEW value \in CountValues
  PROVE  /\ Byte(value) \in 0..255
         /\ \A most \in Nat : AtMost(Byte(value), most) \in 0..most
<1>1. value \in Nat
  BY Bounds
<1>2. Byte(value) \in 0..255
  BY <1>1 DEF Byte
<1> QED
  BY <1>2 DEF AtMost

(* What a download or a write of AL_CONTROL makes of the dictionary.       *)
DictEffect ==
  /\ device' = device
  /\ DictInv'
  /\ slave.al \in {"INIT", "PRE_OP"} /\ slave'.al \in {"SAFE_OP", "OPERATIONAL"}
       => slave.mapped

(* A step that recomputes the flag of the library's device.                *)
LEMMA Recomputed ==
  ASSUME DictInv, device = "library", device' = device, listed' = listed,
         mapCount' \in 0..ChannelCount, assignCount' \in 0..MaxAssign,
         assignedAt' \subseteq 1..MaxAssign,
         Recompute(mapCount', assignCount', assignedAt')
  PROVE  DictEffect
<1>1. /\ slave' \in Slaves /\ slave'.al = slave.al /\ flagBy' = "dictionary"
      /\ slave'.mapped <=> mapCount' > 0 /\ Assigned(assignCount', assignedAt')
  BY RecomputeFacts DEF DictInv, DictTyped
<1>2. slave'.mapped => assignedAt' # {}
  BY <1>1 DEF Assigned
<1>3. DictTyped'
  BY <1>1 DEF DictInv, DictTyped
<1>4. Assigned(assignCount, assignedAt)' = Assigned(assignCount', assignedAt')
  BY DEF Assigned
<1> QED
  BY <1>1, <1>2, <1>3, <1>4 DEF DictEffect, DictInv

(* A step of the class of a-slaves, where the flag only needs its entry or *)
(* the simulator's mapping.                                                *)
LEMMA Rewritten ==
  ASSUME DictInv, device = "subs", device' = device, listed' = listed,
         mapCount' \in 0..255, assignCount' \in 0..255, assignedAt' \subseteq 1..MaxAssign,
         slave' \in Slaves, slave'.al = slave.al, flagBy' \in {"dictionary", "simulator"},
         slave'.mapped => IF flagBy' = "dictionary" THEN assignedAt' # {} ELSE listed'
  PROVE  DictEffect
<1>1. DictTyped'
  BY DEF DictInv, DictTyped
<1> QED
  BY <1>1 DEF DictEffect, DictInv

LEMMA MapCountEffect ==
  ASSUME DictInv, NEW value \in CountValues, DownloadMapCount(value)
  PROVE  DictEffect
<1>1. UNCHANGED <<device, assignCount, assignedAt, listed>>
  BY DEF DownloadMapCount
<1>2. CASE device = "library"
  <2>1. mapCount' = AtMost(Byte(value), ChannelCount)
        /\ Recompute(mapCount', assignCount, assignedAt)
    BY <1>2 DEF DownloadMapCount
  <2>2. mapCount' \in 0..ChannelCount
    BY <2>1, ByteRange, Bounds
  <2>3. assignCount \in 0..MaxAssign /\ assignedAt \subseteq 1..MaxAssign
    BY <1>2 DEF DictInv, DictTyped
  <2> QED
    BY <1>1, <1>2, <2>1, <2>2, <2>3, Recomputed
<1>3. CASE device = "subs"
  <2>1. mapCount' = Byte(value) /\ slave' = slave /\ flagBy' = flagBy
    BY <1>3 DEF DownloadMapCount
  <2>2. mapCount' \in 0..255
    BY <2>1, ByteRange
  <2>3. assignCount \in 0..255 /\ assignedAt \subseteq 1..MaxAssign /\ slave \in Slaves
        /\ flagBy \in {"dictionary", "simulator"}
        /\ (slave.mapped => IF flagBy = "dictionary" THEN assignedAt # {} ELSE listed)
    BY <1>3 DEF DictInv, DictTyped
  <2> QED
    BY <1>1, <1>3, <2>1, <2>2, <2>3, Rewritten
<1> QED
  BY <1>2, <1>3 DEF DictInv

LEMMA AssignCountEffect ==
  ASSUME DictInv, NEW value \in CountValues, DownloadAssignCount(value)
  PROVE  DictEffect
<1>1. UNCHANGED <<device, mapCount, listed>>
  BY DEF DownloadAssignCount
<1>2. CASE device = "library"
  <2>1. assignCount' = AtMost(Byte(value), MaxAssign)
        /\ assignedAt' = assignedAt \cap 1..assignCount'
        /\ Recompute(mapCount, assignCount', assignedAt')
    BY <1>2 DEF DownloadAssignCount
  <2>2. assignCount' \in 0..MaxAssign
    BY <2>1, ByteRange, Bounds
  <2>3. mapCount \in 0..ChannelCount /\ assignedAt \subseteq 1..MaxAssign
    BY <1>2 DEF DictInv, DictTyped
  <2>4. assignedAt' \subseteq 1..MaxAssign
    BY <2>1, <2>3
  <2> QED
    BY <1>1, <1>2, <2>1, <2>2, <2>3, <2>4, Recomputed
<1>3. CASE device = "subs"
  <2>1. assignCount' = Byte(value) /\ assignedAt' = assignedAt
        /\ slave' = slave /\ flagBy' = flagBy
    BY <1>3 DEF DownloadAssignCount
  <2>2. assignCount' \in 0..255
    BY <2>1, ByteRange
  <2>3. mapCount \in 0..255 /\ assignedAt \subseteq 1..MaxAssign /\ slave \in Slaves
        /\ flagBy \in {"dictionary", "simulator"}
        /\ (slave.mapped => IF flagBy = "dictionary" THEN assignedAt # {} ELSE listed)
    BY <1>3 DEF DictInv, DictTyped
  <2> QED
    BY <1>1, <1>3, <2>1, <2>2, <2>3, Rewritten
<1> QED
  BY <1>2, <1>3 DEF DictInv

LEMMA AssignEffect ==
  ASSUME DictInv, NEW i \in 1..MaxAssign, NEW txPdo \in BOOLEAN, DownloadAssign(i, txPdo)
  PROVE  DictEffect
<1>1. UNCHANGED <<device, mapCount, assignCount, listed>>
  BY DEF DownloadAssign
<1>2. CASE device = "library"
  <2>1. assignedAt' = (assignedAt \ {i}) \union (IF txPdo THEN {i} ELSE {})
        /\ Recompute(mapCount, assignCount, assignedAt')
    BY <1>2 DEF DownloadAssign
  <2>2. mapCount \in 0..ChannelCount /\ assignCount \in 0..MaxAssign
        /\ assignedAt \subseteq 1..MaxAssign
    BY <1>2 DEF DictInv, DictTyped
  <2>3. assignedAt' \subseteq 1..MaxAssign
    BY <2>1, <2>2
  <2> QED
    BY <1>1, <1>2, <2>1, <2>2, <2>3, Recomputed
<1>3. CASE device = "subs"
  <2> DEFINE m == txPdo /\ mapCount > 0
  <2>1. /\ assignedAt' = (IF txPdo THEN {1} ELSE {}) /\ flagBy' = "dictionary"
        /\ slave' = SetInputPDOMapped(slave, m)
    BY <1>3 DEF DownloadAssign
  <2>2. m \in BOOLEAN /\ (m => txPdo)
    OBVIOUS
  <2> HIDE DEF m
  <2>3. mapCount \in 0..255 /\ assignCount \in 0..255 /\ slave \in Slaves
    BY <1>3 DEF DictInv, DictTyped
  <2>4. slave' \in Slaves /\ slave'.al = slave.al /\ slave'.mapped = m
    BY <2>1, <2>2, <2>3, MappingSet
  <2>5. slave'.mapped => assignedAt' # {}
    BY <2>1, <2>2, <2>4
  <2>6. assignedAt' \subseteq 1..MaxAssign
    BY <2>1, Bounds
  <2> QED
    BY <1>1, <1>3, <2>1, <2>3, <2>4, <2>5, <2>6, Rewritten
<1> QED
  BY <1>2, <1>3 DEF DictInv

LEMMA SettingEffect ==
  ASSUME DictInv, Setting
  PROVE  DictEffect
<1>1. UNCHANGED <<device, mapCount, assignCount, assignedAt, listed>>
  BY DEF Setting
<1>2. CASE device = "library"
  <2>1. Recompute(mapCount, assignCount, assignedAt)
    BY <1>2 DEF Setting
  <2>2. mapCount \in 0..ChannelCount /\ assignCount \in 0..MaxAssign
        /\ assignedAt \subseteq 1..MaxAssign
    BY <1>2 DEF DictInv, DictTyped
  <2> QED
    BY <1>1, <1>2, <2>1, <2>2, Recomputed
<1>3. CASE device = "subs"
  <2>1. slave' = slave /\ flagBy' = flagBy
    BY <1>3 DEF Setting
  <2>2. mapCount \in 0..255 /\ assignCount \in 0..255 /\ assignedAt \subseteq 1..MaxAssign
        /\ slave \in Slaves /\ flagBy \in {"dictionary", "simulator"}
        /\ (slave.mapped => IF flagBy = "dictionary" THEN assignedAt # {} ELSE listed)
    BY <1>3 DEF DictInv, DictTyped
  <2> QED
    BY <1>1, <1>3, <2>1, <2>2, Rewritten
<1> QED
  BY <1>2, <1>3 DEF DictInv

LEMMA DefaultEffect ==
  ASSUME DictInv, ApplyDefaultTxPdoMapping
  PROVE  DictEffect
<1>1. /\ device' = device /\ assignCount' = 1 /\ listed' = listed /\ flagBy' = "dictionary"
      /\ mapCount' = (IF device = "library" THEN 1 ELSE ChannelCount)
      /\ assignedAt' = assignedAt \union {1}
      /\ slave' = SetInputPDOMapped(slave, TRUE)
  BY DEF ApplyDefaultTxPdoMapping
<1>2. device \in {"library", "subs"} /\ slave \in Slaves /\ assignedAt \subseteq 1..MaxAssign
  BY DEF DictInv, DictTyped
<1>3. slave' \in Slaves /\ slave'.al = slave.al /\ slave'.mapped = TRUE
  BY <1>1, <1>2, MappingSet
<1>4. assignedAt' \subseteq 1..MaxAssign /\ 1 \in assignedAt' /\ assignedAt' # {}
  BY <1>1, <1>2, Bounds
<1>5. /\ mapCount' \in 0..(IF device' = "library" THEN ChannelCount ELSE 255)
      /\ assignCount' \in 0..(IF device' = "library" THEN MaxAssign ELSE 255)
  BY <1>1, Bounds
<1>6. DictTyped'
  BY <1>1, <1>3, <1>4, <1>5 DEF DictInv, DictTyped
<1>7. Assigned(assignCount', assignedAt')
  BY <1>1, <1>4 DEF Assigned
<1>8. mapCount' > 0
  BY <1>1, Bounds
<1>9. Assigned(assignCount, assignedAt)' = Assigned(assignCount', assignedAt')
  BY DEF Assigned
<1> QED
  BY <1>1, <1>2, <1>3, <1>4, <1>6, <1>7, <1>8, <1>9 DEF DictEffect, DictInv

LEMMA MapEntryEffect ==
  ASSUME DictInv, DownloadMapEntry
  PROVE  DictEffect
<1>1. /\ UNCHANGED <<device, mapCount, assignCount, assignedAt, listed>>
      /\ device = "library" /\ Recompute(mapCount, assignCount, assignedAt)
  BY DEF DownloadMapEntry
<1>2. mapCount \in 0..ChannelCount /\ assignCount \in 0..MaxAssign
      /\ assignedAt \subseteq 1..MaxAssign
  BY <1>1 DEF DictInv, DictTyped
<1> QED
  BY <1>1, <1>2, Recomputed

(* The simulator writes the flag together with its own list.               *)
LEMMA SimulatorEffect ==
  ASSUME DictInv, MapDigitalInputs \/ ClearInputMappings
  PROVE  DictEffect
<1>1. PICK m \in BOOLEAN :
        /\ UNCHANGED <<device, mapCount, assignCount, assignedAt>>
        /\ slave' = SetInputPDOMapped(slave, m)
        /\ listed' = m /\ flagBy' = "simulator"
  BY DEF MapDigitalInputs, ClearInputMappings
<1>2. slave' \in Slaves /\ slave'.al = slave.al /\ slave'.mapped = m
  BY <1>1, MappingSet DEF DictInv, DictTyped
<1>3. DictTyped'
  BY <1>1, <1>2 DEF DictInv, DictTyped
<1> QED
  BY <1>1, <1>2, <1>3 DEF DictEffect, DictInv

LEMMA AlControlEffect ==
  ASSUME DictInv, NEW ctrl \in ControlWords, AlControl(ctrl)
  PROVE  DictEffect
<1>1. UNCHANGED <<device, mapCount, assignCount, assignedAt, listed, flagBy>>
      /\ slave' = WriteAlControl(slave, ctrl)
  BY DEF AlControl, mapVars
<1>2. slave \in Slaves /\ ctrl \in AlControlWords
  BY Bounds DEF DictInv, DictTyped
<1>3. slave' \in Slaves /\ slave'.mapped = slave.mapped
  BY <1>1, <1>2, WriteAlControlFacts
<1>4. slave.al \in {"INIT", "PRE_OP"} /\ slave'.al \in {"SAFE_OP", "OPERATIONAL"}
        => slave.mapped
  BY <1>1, <1>2, ClimbNeedsMapping
<1>5. DictTyped'
  BY <1>1, <1>3 DEF DictInv, DictTyped
<1>6. Assigned(assignCount, assignedAt)' = Assigned(assignCount, assignedAt)
  BY <1>1 DEF Assigned
<1> QED
  BY <1>1, <1>3, <1>4, <1>5, <1>6 DEF DictEffect, DictInv

(* Any step.                                                               *)
LEMMA DictStep ==
  ASSUME DictInv, [Next]_vars
  PROVE  DictEffect
<1>1. CASE DictionaryNext
  BY <1>1, MapCountEffect, MapEntryEffect, AssignCountEffect, AssignEffect, SettingEffect,
     DefaultEffect, SimulatorEffect, AlControlEffect DEF DictionaryNext, DownloadDebounce, DownloadInvert
<1>2. CASE InputNext \/ UNCHANGED vars
  <2>1. UNCHANGED <<device, dictVars>>
    BY <1>2 DEF InputNext, SetPower, SetPowerButton, SetInput, SetChannelState, ReadChannel,
                ReadAggregate, Filtered, Tick, vars
  <2>2. UNCHANGED <<device, slave, mapCount, assignCount, assignedAt, listed, flagBy>>
    BY <2>1 DEF dictVars, mapVars
  <2> QED
    BY <2>2 DEF DictEffect, DictInv, DictTyped, Assigned
<1> QED
  BY <1>1, <1>2 DEF Next

LEMMA DictStart == Init => DictInv
<1> SUFFICES ASSUME Init PROVE DictInv
  OBVIOUS
<1> DEFINE m == device = "subs"
<1>1. NewSlave(1) \in Slaves /\ m \in BOOLEAN
  BY Bounds, NewSlaveFacts
<1>2. slave = SetInputPDOMapped(NewSlave(1), m)
  BY DEF Init
<1> HIDE DEF m
<1>3. slave \in Slaves /\ slave.mapped = m
  BY <1>1, <1>2, MappingSet
<1>4. /\ device \in {"library", "subs"}
      /\ mapCount = (IF device = "subs" THEN ChannelCount ELSE 0)
      /\ assignCount = (IF device = "subs" THEN 1 ELSE 0)
      /\ assignedAt = (IF device = "subs" THEN {1} ELSE {})
      /\ listed = FALSE /\ flagBy = "dictionary"
  BY DEF Init
<1>5. DictTyped
  <2>1. /\ mapCount \in Nat /\ assignCount \in Nat
        /\ assignedAt \subseteq 1..MaxAssign
    BY <1>4, Bounds
  <2>2. listed \in BOOLEAN /\ flagBy \in {"dictionary", "simulator"}
    BY <1>4, Zenon
  <2> QED
    BY <1>3, <1>4, <2>1, <2>2, Bounds DEF DictTyped
<1>6. CASE device = "subs"
  BY <1>3, <1>4, <1>5, <1>6 DEF DictInv
<1>7. CASE device = "library"
  <2>1. mapCount = 0
    BY <1>4, <1>7
  <2>2. ~m
    BY <1>7 DEF m
  <2>3. ~slave.mapped
    BY <1>3, <2>2
  <2> QED
    BY <1>4, <1>5, <2>1, <2>3 DEF DictInv
<1> QED
  BY <1>4, <1>6, <1>7

LEMMA DictInvariant == Spec => []DictInv
<1>1. DictInv /\ [Next]_vars => DictInv'
  BY DictStep DEF DictEffect
<1> QED
  BY <1>1, DictStart, PTL DEF Spec

(* The comment of onSdoDownload holds of the library's device whenever a   *)
(* download wrote the flag last, after any downloads and any calls of the  *)
(* simulator: it is mapped exactly when 0x1A00 has entries and stands in   *)
(* one of the positions of 0x1C13 that count, as both objects read back.   *)
THEOREM MappedExactly == Spec => []MappedIffAssigned
<1>1. DictInv => MappedIffAssigned
  <2> SUFFICES ASSUME DictInv, device = "library", flagBy = "dictionary"
               PROVE  slave.mapped <=> /\ Upload("TXPDO", 0)[1] > 0
                                       /\ \E i \in 1..Upload("ASSIGN", 0)[1] :
                                            Upload("ASSIGN", i)[1]
    BY DEF MappedIffAssigned
  <2>1. Upload("TXPDO", 0)[1] = mapCount
    BY DEF Upload, UploadLibrary, Identification
  <2>2. Upload("ASSIGN", 0)[1] = assignCount
    BY DEF Upload, UploadLibrary, Identification
  <2>3. assignCount \in 0..MaxAssign /\ assignedAt \subseteq 1..MaxAssign
        /\ MaxAssign \in Nat
    BY Bounds DEF DictInv, DictTyped
  <2>4. \A i \in 1..assignCount : Upload("ASSIGN", i)[1] = (i \in assignedAt)
    <3> TAKE i \in 1..assignCount
    <3>1. i \in 1..MaxAssign /\ i # 0
      BY <2>3
    <3>2. Upload("ASSIGN", i) = <<i \in assignedAt>>
      BY <3>1 DEF Upload, UploadLibrary, Identification
    <3> QED
      BY <3>2
  <2>5. Assigned(assignCount, assignedAt) <=> \E i \in 1..assignCount : i \in assignedAt
    BY <2>3 DEF Assigned
  <2>6. (\E i \in 1..assignCount : Upload("ASSIGN", i)[1])
          <=> \E i \in 1..assignCount : i \in assignedAt
    BY <2>4
  <2>7. slave.mapped <=> mapCount > 0 /\ Assigned(assignCount, assignedAt)
    BY DEF DictInv
  <2> QED
    BY <2>1, <2>2, <2>5, <2>6, <2>7
<1> QED
  BY <1>1, DictInvariant, PTL

(* Neither class lets a master climb to SAFE_OP while no entry of 0x1C13   *)
(* holds 0x1A00 and no mapping of the simulator names the device, whatever *)
(* downloads and calls came before.                                        *)
THEOREM ClimbIsMapped == Spec => SafeOpNeedsMapping
<1>1. DictInv /\ [Next]_vars =>
        [slave.al \in {"INIT", "PRE_OP"} /\ slave'.al \in {"SAFE_OP", "OPERATIONAL"}
           => assignedAt # {} \/ listed]_vars
  <2> SUFFICES ASSUME DictInv, [Next]_vars,
                      slave.al \in {"INIT", "PRE_OP"}, slave'.al \in {"SAFE_OP", "OPERATIONAL"}
               PROVE  assignedAt # {} \/ listed
    OBVIOUS
  <2>1. slave.mapped
    BY DictStep DEF DictEffect
  <2> QED
    BY <2>1 DEF DictInv
<1> QED
  BY <1>1, DictInvariant, PTL DEF Spec, SafeOpNeedsMapping

-----------------------------------------------------------------------------
(* The inputs.                                                             *)

(* A level that changes behind the filter is the level of the input, and   *)
(* has been for the debounce time.                                         *)
NoBounce ==
  \A c \in Channels : shown'[c] # shown[c] =>
    /\ shown'[c] = raw'[c]
    /\ steady'[c] >= (IF device = "library" THEN debounce ELSE Filter)

(* A reading that differs from the one before shows the input.             *)
ReadsInput ==
  \A c \in Watched :
    device = "library" /\ None \notin {reading[c], reading'[c]} /\ reading'[c] # reading[c]
      => reading'[c] = <<raw[c] # (c \in invert)>>

InputEffect == InputInv' /\ NoBounce /\ ReadsInput

LEMMA InputFacts ==
  ASSUME InputInv
  PROVE  /\ device \in {"library", "subs"}
         /\ debounce \in DebounceTimes \union {0} /\ invert \subseteq Channels
         /\ reading \in [Watched -> {None, <<TRUE>>, <<FALSE>>}]
         /\ power \in BOOLEAN /\ button \in BOOLEAN
         /\ raw \in [Channels -> BOOLEAN] /\ shown \in [Channels -> BOOLEAN]
         /\ since \in [Channels -> Ages] /\ steady \in [Channels -> Ages]
         /\ settling \in [Channels -> BOOLEAN]
         /\ since = steady
BY DEF InputInv, InputTyped

(* The steps that leave the level behind the filter and the readings.      *)
LEMMA LevelsKept ==
  ASSUME InputInv, UNCHANGED <<device, debounce, invert, reading, shown>>,
         power' \in BOOLEAN, button' \in BOOLEAN, raw' \in [Channels -> BOOLEAN],
         since' \in [Channels -> Ages], since' = steady', settling' \in [Channels -> BOOLEAN]
  PROVE  InputEffect
<1>1. InputTyped'
  BY InputFacts DEF InputTyped, None
<1>2. InputInv'
  BY <1>1 DEF InputInv, None
<1>3. NoBounce /\ ReadsInput
  BY DEF NoBounce, ReadsInput
<1> QED
  BY <1>2, <1>3 DEF InputEffect

LEMMA RawSet ==
  ASSUME InputInv, NEW level \in [Channels -> BOOLEAN], SetRawInput(level)
  PROVE  /\ raw' \in [Channels -> BOOLEAN]
         /\ since' \in [Channels -> Ages] /\ since' = steady'
<1>1. raw' = level
      /\ steady' = [c \in Channels |-> IF level[c] # raw[c] THEN 0 ELSE steady[c]]
      /\ since' = [c \in Channels |-> IF level[c] # raw[c] THEN 0 ELSE since[c]]
  BY DEF SetRawInput, Drive
<1>2. since = steady /\ since \in [Channels -> Ages] /\ 0 \in Ages
  BY InputFacts, Bounds DEF Ages
<1> QED
  BY <1>1, <1>2

LEMMA DriveEffect ==
  ASSUME InputInv,
         \/ \E v \in BOOLEAN : SetPower(v) \/ SetPowerButton(v)
         \/ \E c \in Channels, v \in BOOLEAN : SetInput(c, v)
  PROVE  InputEffect
<1>0. raw \in [Channels -> BOOLEAN] /\ button \in BOOLEAN /\ power \in BOOLEAN
      /\ settling \in [Channels -> BOOLEAN]
  BY InputFacts
<1>1. ASSUME NEW v \in BOOLEAN, SetPower(v)
      PROVE  InputEffect
  <2> DEFINE level == [raw EXCEPT ![0] = button, ![1] = v]
  <2>1. level \in [Channels -> BOOLEAN]
    BY <1>0 DEF Channels
  <2>2. SetRawInput(level) /\ power' = v
        /\ UNCHANGED <<device, debounce, invert, reading, button, shown, settling>>
    BY <1>1 DEF SetPower, readVars
  <2> HIDE DEF level
  <2> QED
    BY <1>0, <2>1, <2>2, RawSet, LevelsKept
<1>2. ASSUME NEW v \in BOOLEAN, SetPowerButton(v)
      PROVE  InputEffect
  <2> DEFINE level == [raw EXCEPT ![0] = v]
  <2>1. level \in [Channels -> BOOLEAN]
    BY <1>0 DEF Channels
  <2>2. SetRawInput(level) /\ button' = v
        /\ UNCHANGED <<device, debounce, invert, reading, power, shown, settling>>
    BY <1>2 DEF SetPowerButton, readVars
  <2> HIDE DEF level
  <2> QED
    BY <1>0, <2>1, <2>2, RawSet, LevelsKept
<1>3. ASSUME NEW c \in Channels, NEW v \in BOOLEAN, SetInput(c, v)
      PROVE  InputEffect
  <2> DEFINE level == [raw EXCEPT ![c] = v]
  <2>1. level \in [Channels -> BOOLEAN]
    BY <1>0
  <2>2. SetRawInput(level) /\ power' \in BOOLEAN
        /\ UNCHANGED <<device, debounce, invert, reading, button, shown, settling>>
    BY <1>0, <1>3 DEF SetInput, readVars
  <2> HIDE DEF level
  <2> QED
    BY <1>0, <2>1, <2>2, RawSet, LevelsKept
<1> QED
  BY <1>1, <1>2, <1>3

LEMMA TickEffect ==
  ASSUME InputInv, Tick
  PROVE  InputEffect
<1>1. since' = Later(since) /\ steady' = Later(steady)
      /\ UNCHANGED <<device, debounce, invert, reading, power, button, raw, shown, settling>>
  BY DEF Tick, readVars
<1>2. since = steady /\ since \in [Channels -> Ages]
  BY InputFacts
<1>3. Later(since) \in [Channels -> Ages]
  <2>1. \A n \in Ages : AtMost(n + 1, MaxAge) \in Ages
    BY Bounds DEF AtMost, Ages
  <2> QED
    BY <1>2, <2>1 DEF Later
<1> QED
  BY <1>1, <1>2, <1>3, InputFacts, LevelsKept

(* A download of the debounce time or of the mask forgets the readings.    *)
LEMMA ForgetEffect ==
  ASSUME InputInv, reading' = [c \in Watched |-> None],
         debounce' \in DebounceTimes \union {0}, invert' \subseteq Channels,
         UNCHANGED <<device, power, button, raw, shown, since, settling, steady>>
  PROVE  InputEffect
<1>1. InputTyped'
  BY InputFacts DEF InputTyped, None
<1>2. \A c \in Watched : reading'[c] = None
  OBVIOUS
<1>3. InputInv'
  BY <1>1, <1>2, InputFacts DEF InputInv, None
<1>4. NoBounce /\ ReadsInput
  BY <1>2 DEF NoBounce, ReadsInput
<1> QED
  BY <1>3, <1>4 DEF InputEffect

LEMMA DictionaryEffect ==
  ASSUME InputInv, DictionaryNext
  PROVE  InputEffect
<1>1. \/ UNCHANGED <<device, readVars, inputVars>>
      \/ \E ms \in DebounceTimes : debounce' = ms /\ Setting /\ UNCHANGED invert
      \/ \E mask \in Masks : invert' = mask /\ Setting /\ UNCHANGED debounce
  BY DEF DictionaryNext, DownloadMapCount, DownloadMapEntry, DownloadAssignCount,
         DownloadAssign, DownloadDebounce, DownloadInvert, ApplyDefaultTxPdoMapping,
         MapDigitalInputs, ClearInputMappings, AlControl
<1>2. CASE UNCHANGED <<device, readVars, inputVars>>
  <2>1. UNCHANGED <<device, debounce, invert, reading, power, button, raw, shown, since,
                    settling, steady>>
    BY <1>2 DEF readVars, inputVars
  <2> QED
    BY <2>1, InputFacts, LevelsKept
<1>3. CASE Setting /\ debounce' \in DebounceTimes \union {0} /\ invert' \subseteq Channels
  <2>1. reading' = [c \in Watched |-> None]
        /\ UNCHANGED <<device, power, button, raw, shown, since, settling, steady>>
    BY <1>3 DEF Setting, inputVars
  <2> QED
    BY <1>3, <2>1, ForgetEffect
<1>4. debounce \in DebounceTimes \union {0} /\ invert \subseteq Channels
      /\ \A mask \in Masks : mask \subseteq Channels
  BY InputFacts, Bounds
<1> QED
  BY <1>1, <1>2, <1>3, <1>4

(* Reading lets a level through the filter only when it is due, and what   *)
(* is read of a channel is the input or the level let through before.      *)
LEMMA FilteredFacts ==
  ASSUME InputInv, NEW cs \in SUBSET Channels, Filtered(cs)
  PROVE  /\ shown' \in [Channels -> BOOLEAN]
         /\ \A c \in Channels : shown'[c] # shown[c] =>
              device = "library" /\ shown'[c] = raw[c] /\ since[c] >= debounce
         /\ UNCHANGED <<device, debounce, invert, power, button, raw, since, settling, steady>>
<1>1. shown' = [c \in Channels |-> IF device = "library" /\ c \in cs
                                      /\ (debounce # 0 /\ since[c] >= debounce)
                                   THEN raw[c] ELSE shown[c]]
      /\ UNCHANGED <<device, debounce, invert, power, button, raw, since, settling, steady>>
  BY DEF Filtered, Settled
<1> QED
  BY <1>1, InputFacts

LEMMA ReadingMoves ==
  ASSUME InputInv, NEW cs \in SUBSET Channels, Filtered(cs),
         NEW c \in Watched, device = "library", reading'[c] = <<Bit(c)'>>
  PROVE  /\ reading'[c] \in {<<TRUE>>, <<FALSE>>}
         /\ debounce # 0 => reading'[c] = <<shown'[c] # (c \in invert)>>
         /\ reading[c] # None /\ reading'[c] # reading[c]
              => reading'[c] = <<raw[c] # (c \in invert)>>
<1>1. c \in Channels /\ raw \in [Channels -> BOOLEAN]
  BY Bounds, InputFacts
<1>2. /\ shown' \in [Channels -> BOOLEAN]
      /\ shown'[c] # shown[c] => shown'[c] = raw[c]
      /\ UNCHANGED <<device, debounce, invert, raw>>
  BY <1>1, FilteredFacts
<1>3. Bit(c)' = ((IF debounce = 0 THEN raw[c] ELSE shown'[c]) # (c \in invert))
  BY <1>2 DEF Bit
<1>4. Bit(c)' \in BOOLEAN
  BY <1>3
<1>5. CASE debounce = 0
  <2>1. Bit(c)' = (raw[c] # (c \in invert))
    BY <1>3, <1>5
  <2> QED
    BY <1>4, <1>5, <2>1
<1>6. CASE debounce # 0
  <2>1. Bit(c)' = (shown'[c] # (c \in invert))
    BY <1>3, <1>6
  <2>2. CASE shown'[c] # shown[c]
    <3>1. Bit(c)' = (raw[c] # (c \in invert))
      BY <1>2, <2>1, <2>2
    <3> QED
      BY <1>4, <2>1, <3>1
  <2>3. CASE shown'[c] = shown[c]
    <3>1. reading[c] # None => reading[c] = <<shown[c] # (c \in invert)>>
      BY <1>6 DEF InputInv
    <3> QED
      BY <1>4, <2>1, <2>3, <3>1
  <2> QED
    BY <2>2, <2>3
<1> QED
  BY <1>5, <1>6

(* A step that reads the channels of cs.                                   *)
LEMMA ReadEffect ==
  ASSUME InputInv, NEW cs \in SUBSET Channels, Filtered(cs),
         reading' \in [Watched -> {None, <<TRUE>>, <<FALSE>>}],
         \A c \in Watched : device = "library" =>
           IF c \in cs THEN reading'[c] = <<Bit(c)'>>
           ELSE reading'[c] = reading[c]
  PROVE  InputEffect
<1>1. /\ shown' \in [Channels -> BOOLEAN]
      /\ \A c \in Channels : shown'[c] # shown[c] =>
           device = "library" /\ shown'[c] = raw[c] /\ since[c] >= debounce
      /\ UNCHANGED <<device, debounce, invert, power, button, raw, since, settling, steady>>
  BY FilteredFacts
<1>2. NoBounce
  BY <1>1, InputFacts DEF NoBounce
<1>3. ReadsInput
  <2> SUFFICES ASSUME NEW c \in Watched, device = "library",
                      reading[c] # None, reading'[c] # reading[c]
               PROVE  reading'[c] = <<raw[c] # (c \in invert)>>
    BY DEF ReadsInput
  <2>1. c \in cs
    OBVIOUS
  <2> QED
    BY <2>1, ReadingMoves
<1>4. \A c \in Watched : device = "library" /\ debounce # 0 /\ reading'[c] # None
        => reading'[c] = <<shown'[c] # (c \in invert)>>
  <2> SUFFICES ASSUME NEW c \in Watched, device = "library", debounce # 0, reading'[c] # None
               PROVE  reading'[c] = <<shown'[c] # (c \in invert)>>
    OBVIOUS
  <2>1. CASE c \in cs
    BY <2>1, ReadingMoves
  <2>2. CASE c \notin cs
    <3>1. reading'[c] = reading[c]
      BY <2>2
    <3>2. shown'[c] = shown[c]
      BY <2>2, Bounds, InputFacts DEF Filtered
    <3>3. reading[c] = <<shown[c] # (c \in invert)>>
      BY <3>1 DEF InputInv
    <3> QED
      BY <3>1, <3>2, <3>3
  <2> QED
    BY <2>1, <2>2
<1>5. InputTyped'
  BY <1>1, InputFacts DEF InputTyped, None
<1>6. InputInv'
  BY <1>1, <1>4, <1>5, InputFacts DEF InputInv, None
<1> QED
  BY <1>2, <1>3, <1>6 DEF InputEffect

LEMMA BitTyped == \A c \in Channels : Bit(c) \in BOOLEAN
BY DEF Bit

LEMMA ReadChannelEffect ==
  ASSUME InputInv, NEW c \in Channels, ReadChannel(c)
  PROVE  InputEffect
<1>1. device = "library" /\ Filtered({c})
      /\ reading' = [w \in Watched |-> IF w = c THEN Upload("INPUT", c + 1)' ELSE reading[w]]
  BY DEF ReadChannel
<1>2. device' = device
  BY <1>1 DEF Filtered
<1>3. Upload("INPUT", c + 1)' = <<Bit(c)'>>
  <2>1. c + 1 \in 1..ChannelCount /\ (c + 1) - 1 = c
    BY Bounds DEF Channels
  <2>2. Upload("INPUT", c + 1)' = <<Bit((c + 1) - 1)'>>
    BY <1>1, <1>2, <2>1 DEF Upload, UploadLibrary, Identification
  <2> QED
    BY <2>1, <2>2
<1>4. Bit(c)' \in BOOLEAN
  BY DEF Bit
<1>5. reading' \in [Watched -> {None, <<TRUE>>, <<FALSE>>}]
  BY <1>1, <1>3, <1>4, InputFacts
<1>6. \A w \in Watched :
        IF w \in {c} THEN reading'[w] = <<Bit(w)'>> ELSE reading'[w] = reading[w]
  BY <1>1, <1>3
<1> QED
  BY <1>1, <1>5, <1>6, ReadEffect

LEMMA ReadAggregateEffect ==
  ASSUME InputInv, ReadAggregate
  PROVE  InputEffect
<1>1. Filtered(Channels)
      /\ reading' = [w \in Watched |-> <<Upload("AGGREGATE", 0)'[1][w]>>]
  BY DEF ReadAggregate
<1>2. Upload("AGGREGATE", 0)' = <<[c \in Channels |-> Bit(c)']>>
  <2>1. CASE device' = "library"
    BY <2>1 DEF Upload, UploadLibrary, Identification
  <2>2. CASE device' # "library"
    BY <2>2 DEF Upload, UploadSubs, Identification, Errors
  <2> QED
    BY <2>1, <2>2
<1>3. \A w \in Watched : Upload("AGGREGATE", 0)'[1][w] = Bit(w)' /\ Bit(w)' \in BOOLEAN
  BY <1>2, Bounds DEF Bit
<1>4. \A w \in Watched : reading'[w] = <<Bit(w)'>>
  BY <1>1, <1>3
<1>5. reading' \in [Watched -> {None, <<TRUE>>, <<FALSE>>}]
  BY <1>1, <1>3
<1>6. \A w \in Watched : w \in Channels
  BY Bounds
<1> QED
  BY <1>1, <1>4, <1>5, <1>6, ReadEffect

(* setChannelState of a-slaves takes the level over only when the clock of *)
(* an unchanged level has reached the filter time.                         *)
LEMMA ChannelStateEffect ==
  ASSUME InputInv, NEW c \in Channels, NEW v \in BOOLEAN, SetChannelState(c, v)
  PROVE  InputEffect
<1> DEFINE changed == raw[c] # v
           elapsed == IF changed THEN 0 ELSE since[c]
           active  == changed \/ settling[c]
           level   == [raw EXCEPT ![c] = v]
<1>1. /\ device = "subs" /\ Drive(level)
      /\ since' = [since EXCEPT ![c] = elapsed]
      /\ settling' = [settling EXCEPT ![c] = active /\ elapsed < Filter]
      /\ shown' = [shown EXCEPT ![c] = IF active /\ elapsed >= Filter THEN v ELSE shown[c]]
      /\ UNCHANGED <<device, debounce, invert, reading, power, button>>
  BY DEF SetChannelState, readVars
<1>2. /\ raw \in [Channels -> BOOLEAN] /\ shown \in [Channels -> BOOLEAN]
      /\ settling \in [Channels -> BOOLEAN] /\ since \in [Channels -> Ages]
      /\ steady = since /\ 0 \in Ages
  BY InputFacts, Bounds DEF Ages
<1>3. raw' = level
      /\ steady' = [x \in Channels |-> IF level[x] # raw[x] THEN 0 ELSE steady[x]]
  BY <1>1 DEF Drive
<1>4. elapsed \in Ages /\ active \in BOOLEAN
  BY <1>2
<1>5. steady' = since'
  <2>1. \A x \in Channels : level[x] # raw[x] <=> x = c /\ changed
    BY <1>2
  <2>2. \A x \in Channels : steady'[x] = since'[x]
    BY <1>1, <1>2, <1>3, <2>1
  <2>3. since' = [x \in Channels |-> since'[x]]
    BY <1>1, <1>2
  <2> QED
    BY <1>3, <2>2, <2>3
<1>6. steady'[c] = elapsed /\ raw'[c] = v
  BY <1>1, <1>2, <1>3, <1>5
<1> HIDE DEF changed, elapsed, active
<1>7. /\ raw' \in [Channels -> BOOLEAN] /\ since' \in [Channels -> Ages]
      /\ settling' \in [Channels -> BOOLEAN] /\ shown' \in [Channels -> BOOLEAN]
  BY <1>1, <1>2, <1>3, <1>4
<1> HIDE DEF level
<1>8. InputTyped'
  BY <1>1, <1>5, <1>7, InputFacts DEF InputTyped, None
<1>9. InputInv'
  BY <1>1, <1>5, <1>8 DEF InputInv, None
<1>10. NoBounce
  <2> SUFFICES ASSUME NEW x \in Channels, shown'[x] # shown[x]
               PROVE  shown'[x] = raw'[x] /\ steady'[x] >= Filter
    BY <1>1 DEF NoBounce
  <2>1. x = c /\ elapsed >= Filter /\ shown'[c] = v
    BY <1>1, <1>2
  <2> QED
    BY <1>6, <2>1
<1>11. ReadsInput
  BY <1>1 DEF ReadsInput
<1> QED
  BY <1>9, <1>10, <1>11 DEF InputEffect

(* Any step.                                                               *)
LEMMA InputStep ==
  ASSUME InputInv, [Next]_vars
  PROVE  InputEffect
<1>1. CASE DictionaryNext
  BY <1>1, DictionaryEffect
<1>2. CASE InputNext
  BY <1>2, Bounds, DriveEffect, ChannelStateEffect, ReadChannelEffect, ReadAggregateEffect,
     TickEffect DEF InputNext
<1>3. CASE UNCHANGED vars
  <2>1. UNCHANGED <<device, debounce, invert, reading, power, button, raw, shown, since,
                    settling, steady>>
    BY <1>3 DEF vars, readVars, inputVars
  <2> QED
    BY <2>1, InputFacts, LevelsKept
<1> QED
  BY <1>1, <1>2, <1>3 DEF Next

LEMMA InputStart == Init => InputInv
<1> SUFFICES ASSUME Init PROVE InputInv
  OBVIOUS
<1>1. /\ device \in {"library", "subs"}
      /\ debounce = 0 /\ invert = {} /\ reading = [c \in Watched |-> None]
      /\ power = FALSE /\ button = FALSE
      /\ raw = [c \in Channels |-> FALSE] /\ shown = raw
      /\ since = [c \in Channels |-> 0] /\ steady = since
      /\ settling = [c \in Channels |-> FALSE]
  BY DEF Init
<1>2. 0 \in Ages
  BY Bounds DEF Ages
<1>3. InputTyped
  BY <1>1, <1>2 DEF InputTyped
<1> QED
  BY <1>1, <1>3 DEF InputInv

LEMMA InputInvariant == Spec => []InputInv
<1>1. InputInv /\ [Next]_vars => InputInv'
  BY InputStep DEF InputEffect
<1> QED
  BY <1>1, InputStart, PTL DEF Spec

(* Every variable of both devices keeps its type.                          *)
THEOREM TerminalTyped == Spec => []TypeOK
<1>1. DictInv /\ InputInv => TypeOK
  BY DEF DictInv, DictTyped, InputInv, InputTyped, TypeOK
<1> QED
  BY <1>1, DictInvariant, InputInvariant, PTL

(* No bounce passes the filter of either device: effectiveBit_ and         *)
(* setChannelState take a level over only after it has lasted.             *)
THEOREM BounceIsFiltered == Spec => NoBounceShown
<1>1. InputInv /\ [Next]_vars =>
        [\A c \in Channels : shown'[c] # shown[c] =>
           /\ shown'[c] = raw'[c]
           /\ steady'[c] >= (IF device = "library" THEN debounce ELSE Filter)]_vars
  BY InputStep DEF InputEffect, NoBounce
<1> QED
  BY <1>1, InputInvariant, PTL DEF Spec, NoBounceShown

(* A reading of the library's device that differs from the one before      *)
(* shows the input as it is.                                               *)
THEOREM ReadingsFollowInput == Spec => ReadingMovesToInput
<1>1. InputInv /\ [Next]_vars =>
        [\A c \in Watched :
           device = "library" /\ None \notin {reading[c], reading'[c]} /\ reading'[c] # reading[c]
             => reading'[c] = <<raw[c] # (c \in invert)>>]_vars
  BY InputStep DEF InputEffect, ReadsInput
<1> QED
  BY <1>1, InputInvariant, PTL DEF Spec, ReadingMovesToInput

===============================================================================
