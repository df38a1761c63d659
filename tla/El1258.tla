-------------------------------- MODULE El1258 --------------------------------
(***************************************************************************)
(* The EL1258 digital input terminal, of which the repository has two      *)
(* classes: EL1258Slave of the library (simulation/slaves/el1258.h) and    *)
(* El1258Slave of a-slaves (apps/slaves/sim/el1258_subs.h).  Both derive   *)
(* from VirtualSlave; device says which of the two a behaviour is about.   *)
(*                                                                         *)
(* Modelled are the SDO objects that decide whether the inputs are mapped, *)
(* and with it whether the slave enters SAFE_OP, and the filter between    *)
(* the input pins and what is read of them.  The identity objects are      *)
(* constants; the mapping entries are left out, no condition reads them.   *)
(* The simulator the device is registered with writes the same flag when   *)
(* it maps inputs or drops its mappings, and neither writer asks the other.*)
(***************************************************************************)
EXTENDS SlaveOps, FiniteSets

CONSTANTS
  ChannelCount,     \* CHANNEL_COUNT: 8 in the code, at least the two used here
  MaxAssign,        \* assign_entries_ of the library: 4 in the code
  Filter,           \* DEBOUNCE_FILTER_MS: 3 in the code
  MaxAge,           \* bound: milliseconds counted since a change
  CountValues,      \* values downloaded to the subindices 0
  DebounceTimes,    \* values downloaded to 0x8001
  Masks,            \* values downloaded to 0x8000, as sets of channels
  Watched,          \* channels whose readings are remembered
  Wired,            \* channels whose input is set by its number
  ControlWords      \* values written to AL_CONTROL

ASSUME El1258Assumption ==
  /\ ChannelCount \in 2..255 /\ MaxAssign \in Nat \ {0}
  /\ MaxAge \in Nat /\ Filter \in 1..MaxAge
  /\ CountValues \subseteq Nat
  /\ DebounceTimes \subseteq 0..MaxAge
  /\ Masks \subseteq SUBSET {0, 1} /\ Watched \subseteq {0, 1} /\ Wired \subseteq {0, 1}
  /\ ControlWords \subseteq AlControlWords
  /\ 1 \in Addresses

VARIABLES
  device,       \* the class: library or subs
  slave,        \* the VirtualSlave it derives from
  mapCount,     \* txpdo_count_, map_count_
  assignCount,  \* assign_count_
  assignedAt,   \* positions of 0x1C13 that hold 0x1A00; assigned_ is 1 \in it
  listed,       \* input_maps_ of the simulator names the device
  flagBy,       \* history: the last writer of input_pdo_mapped_
  debounce,     \* debounce_ms_, which the class of a-slaves does not use
  invert,       \* invert_mask_
  power,        \* power_
  button,       \* power_button_
  raw,          \* raw_di_, raw_state of the filters
  shown,        \* eff_di_, channels_: the level behind the filter
  since,        \* now - last_change_, now - debounce_start
  settling,     \* debounce_active
  steady,       \* history: how long the raw level has been what it is
  reading       \* history: the bit last read, None before and after downloads

mapVars  == <<listed, flagBy>>
dictVars == <<slave, mapCount, assignCount, assignedAt, mapVars>>
inputVars == <<power, button, raw, shown, since, settling, steady>>
readVars == <<debounce, invert, reading>>
vars == <<device, dictVars, readVars, inputVars>>

None == <<>>

Channels == {0, 1}      \* DI0 is the power button, DI1 the power
Ages     == 0..MaxAge

TypeOK ==
  /\ device \in {"library", "subs"}
  /\ slave \in Slaves
  /\ mapCount \in 0..(IF device = "library" THEN ChannelCount ELSE 255)
  /\ assignCount \in 0..(IF device = "library" THEN MaxAssign ELSE 255)
  /\ assignedAt \subseteq 1..MaxAssign
  /\ listed \in BOOLEAN /\ flagBy \in {"dictionary", "simulator"}
  /\ debounce \in DebounceTimes \union {0} /\ invert \subseteq Channels
  /\ reading \in [Watched -> {None, <<TRUE>>, <<FALSE>>}]
  /\ power \in BOOLEAN /\ button \in BOOLEAN
  /\ raw \in [Channels -> BOOLEAN] /\ shown \in [Channels -> BOOLEAN]
  /\ since \in [Channels -> Ages] /\ steady \in [Channels -> Ages]
  /\ settling \in [Channels -> BOOLEAN]

(* The library constructs its device without a mapping, a-slaves with the   *)
(* default one.                                                            *)
Init ==
  /\ device \in {"library", "subs"}
  /\ slave = SetInputPDOMapped(NewSlave(1), device = "subs")
  /\ mapCount = (IF device = "subs" THEN ChannelCount ELSE 0)
  /\ assignCount = (IF device = "subs" THEN 1 ELSE 0)
  /\ assignedAt = (IF device = "subs" THEN {1} ELSE {})
  /\ listed = FALSE /\ flagBy = "dictionary"
  /\ debounce = 0 /\ invert = {} /\ reading = [c \in Watched |-> None]
  /\ power = FALSE /\ button = FALSE
  /\ raw = [c \in Channels |-> FALSE] /\ shown = raw
  /\ since = [c \in Channels |-> 0] /\ steady = since
  /\ settling = [c \in Channels |-> FALSE]

-----------------------------------------------------------------------------
(* The object dictionary: onSdoDownload, called by the mailbox handler.    *)

Byte(value) == value % 256
AtMost(n, most) == IF n > most THEN most ELSE n

(* The tail of the library's onSdoDownload.                                *)
Assigned(count, positions) == \E i \in positions : i <= count

RecomputeMutant(maps, count, positions) ==  \* entries beyond the count count
  /\ slave' = SetInputPDOMapped(slave, maps > 0 /\ positions # {})
  /\ flagBy' = "dictionary"

Recompute(maps, count, positions) ==
  /\ slave' = SetInputPDOMapped(slave, maps > 0 /\ Assigned(count, positions))
  /\ flagBy' = "dictionary"

(* 0x1A00:0.  In the class of a-slaves the objects 0x1A00 to 0x1A1C share  *)
(* one count, and the flag stays as the last assignment left it.           *)
DownloadMapCount(value) ==
  /\ IF device = "library"
     THEN /\ mapCount' = AtMost(Byte(value), ChannelCount)
          /\ Recompute(mapCount', assignCount, assignedAt)
     ELSE /\ mapCount' = Byte(value)
          /\ UNCHANGED <<slave, flagBy>>
  /\ UNCHANGED <<device, assignCount, assignedAt, listed, readVars, inputVars>>

(* 0x1A00:1 and on.  The entry is left out, the flag computed anew.        *)
DownloadMapEntry ==
  /\ device = "library"
  /\ Recompute(mapCount, assignCount, assignedAt)
  /\ UNCHANGED <<device, mapCount, assignCount, assignedAt, listed, readVars, inputVars>>

(* 0x1C13:0.  The library clears the entries beyond the count.             *)
DownloadAssignCountMutant(value) ==  \* the count is taken as it comes
  /\ assignCount' = Byte(value)
  /\ assignedAt' = assignedAt \cap 1..assignCount'
  /\ Recompute(mapCount, assignCount', assignedAt')
  /\ UNCHANGED <<device, mapCount, listed, readVars, inputVars>>

DownloadAssignCount(value) ==
  /\ IF device = "library"
     THEN /\ assignCount' = AtMost(Byte(value), MaxAssign)
          /\ assignedAt' = assignedAt \cap 1..assignCount'
          /\ Recompute(mapCount, assignCount', assignedAt')
     ELSE /\ assignCount' = Byte(value)
          /\ UNCHANGED <<assignedAt, slave, flagBy>>
  /\ UNCHANGED <<device, mapCount, listed, readVars, inputVars>>

(* 0x1C13:i, with the value 0x1A00 or another one.                          *)
DownloadAssignMutant(i, txPdo) ==    \* the flag of a-slaves is only ever set
  /\ IF device = "library"
     THEN /\ assignedAt' = (assignedAt \ {i}) \union (IF txPdo THEN {i} ELSE {})
          /\ Recompute(mapCount, assignCount, assignedAt')
     ELSE /\ i = 1
          /\ assignedAt' = (IF txPdo THEN {1} ELSE {})
          /\ slave' = IF txPdo /\ mapCount > 0 THEN SetInputPDOMapped(slave, TRUE) ELSE slave
          /\ flagBy' = "dictionary"
  /\ UNCHANGED <<device, mapCount, assignCount, listed, readVars, inputVars>>

DownloadAssign(i, txPdo) ==
  /\ IF device = "library"
     THEN /\ assignedAt' = (assignedAt \ {i}) \union (IF txPdo THEN {i} ELSE {})
          /\ Recompute(mapCount, assignCount, assignedAt')
     ELSE /\ i = 1
          /\ assignedAt' = (IF txPdo THEN {1} ELSE {})
          /\ slave' = SetInputPDOMapped(slave, txPdo /\ mapCount > 0)
          /\ flagBy' = "dictionary"
  /\ UNCHANGED <<device, mapCount, assignCount, listed, readVars, inputVars>>

(* 0x8001 and 0x8000.                                                       *)
Setting ==
  /\ reading' = [c \in Watched |-> None]
  /\ IF device = "library"
     THEN Recompute(mapCount, assignCount, assignedAt)
     ELSE UNCHANGED <<slave, flagBy>>
  /\ UNCHANGED <<device, mapCount, assignCount, assignedAt, listed, inputVars>>

DownloadDebounce(ms) == debounce' = ms /\ Setting /\ UNCHANGED invert
DownloadInvert(mask) == invert' = mask /\ Setting /\ UNCHANGED debounce

ApplyDefaultTxPdoMapping ==
  /\ mapCount' = (IF device = "library" THEN 1 ELSE ChannelCount)
  /\ assignCount' = 1
  /\ assignedAt' = assignedAt \union {1}
  /\ slave' = SetInputPDOMapped(slave, TRUE) /\ flagBy' = "dictionary"
  /\ UNCHANGED <<device, listed, readVars, inputVars>>

(* The simulator: its mapping sets the flag over whatever the dictionary   *)
(* says, and dropping its mappings clears it.                              *)
MapDigitalInputs ==
  /\ slave' = SetInputPDOMapped(slave, TRUE)
  /\ listed' = TRUE /\ flagBy' = "simulator"
  /\ UNCHANGED <<device, mapCount, assignCount, assignedAt, readVars, inputVars>>

ClearInputMappings ==
  /\ listed
  /\ slave' = SetInputPDOMapped(slave, FALSE)
  /\ listed' = FALSE /\ flagBy' = "simulator"
  /\ UNCHANGED <<device, mapCount, assignCount, assignedAt, readVars, inputVars>>

AlControl(ctrl) ==
  /\ slave' = WriteAlControl(slave, ctrl)
  /\ UNCHANGED <<device, mapCount, assignCount, assignedAt, mapVars, readVars, inputVars>>

-----------------------------------------------------------------------------
(* The inputs.                                                             *)

(* setRawInput_ for the channels of a set; the history follows the levels, *)
(* not the code.                                                           *)
Drive(level) ==
  /\ raw' = level
  /\ steady' = [c \in Channels |-> IF level[c] # raw[c] THEN 0 ELSE steady[c]]

SetRawInputMutant(level) ==          \* every call restarts the time
  /\ Drive(level)
  /\ since' = [c \in Channels |-> 0]

SetRawInputStale(level) ==           \* no call restarts the time
  /\ Drive(level)
  /\ UNCHANGED since

SetRawInput(level) ==
  /\ Drive(level)
  /\ since' = [c \in Channels |-> IF level[c] # raw[c] THEN 0 ELSE since[c]]

(* setPower derives both inputs anew, the button from the member, which    *)
(* setInput does not write.                                                *)
SetPower(on) ==
  /\ device = "library"
  /\ power' = on
  /\ SetRawInput([raw EXCEPT ![0] = button, ![1] = on])
  /\ UNCHANGED <<device, dictVars, readVars, button, shown, settling>>

SetPowerButton(pressed) ==
  /\ device = "library"
  /\ button' = pressed
  /\ SetRawInput([raw EXCEPT ![0] = pressed])
  /\ UNCHANGED <<device, dictVars, readVars, power, shown, settling>>

SetInput(c, v) ==
  /\ device = "library"
  /\ power' = IF c = 1 THEN v ELSE power
  /\ SetRawInput([raw EXCEPT ![c] = v])
  /\ UNCHANGED <<device, dictVars, readVars, button, shown, settling>>

(* A bit as it is read.  The library's effectiveBit_ looks past the filter *)
(* while the debounce time is 0, and leaves the level behind it alone.     *)
Bit(c) ==
  (IF device = "library" /\ debounce = 0 THEN raw[c] ELSE shown[c]) # (c \in invert)

(* onSdoUpload: the answer, or None when the object is not known.          *)
Identification == {"DEVICE_TYPE", "DEVICE_NAME", "HARDWARE_VERSION", "SOFTWARE_VERSION"}
Errors         == {"ERROR_REGISTER", "MANUFACTURER_STATUS", "ERROR_HISTORY"}

UploadLibrary(index, sub) ==
  CASE index \in Identification /\ sub = 0               -> <<index>>
    [] index = "INPUT" /\ sub \in 1..ChannelCount        -> <<Bit(sub - 1)>>
    [] index = "AGGREGATE" /\ sub = 0                    -> <<[c \in Channels |-> Bit(c)]>>
    [] index = "INVERT" /\ sub = 0                       -> <<invert>>
    [] index = "DEBOUNCE" /\ sub = 0                     -> <<debounce>>
    [] index = "TXPDO" /\ sub = 0                        -> <<mapCount>>
    [] index = "ASSIGN" /\ sub = 0                       -> <<assignCount>>
    [] index = "ASSIGN" /\ sub \in 1..MaxAssign          -> <<sub \in assignedAt>>
    [] OTHER                                             -> None

UploadSubs(index, sub) ==
  CASE index \in Identification                          -> <<index>>
    [] index = "IDENTITY" /\ sub \in 0..4                -> <<sub>>
    [] index \in {"INPUT", "STATUS"} /\ sub = 0          -> <<ChannelCount>>
    [] index \in {"INPUT", "STATUS"}
         /\ sub \in 1..ChannelCount                      -> <<shown[sub - 1]>>
    [] index = "AGGREGATE"                               -> <<[c \in Channels |-> Bit(c)]>>
    [] index = "INVERT"                                  -> <<invert>>
    [] index = "DEBOUNCE"                                -> <<debounce>>
    [] index \in Errors /\ (index # "ERROR_HISTORY" \/ sub = 0)  -> <<0>>
    [] OTHER                                             -> None

Upload(index, sub) ==
  IF device = "library" THEN UploadLibrary(index, sub) ELSE UploadSubs(index, sub)

(* effectiveBit_ of each channel of cs: reading is what moves the level    *)
(* through the filter of the library's device.                             *)
Settled(c) == debounce # 0 /\ since[c] >= debounce

FilteredMutant(cs) ==               \* the level is stored inverted as it is read
  /\ shown' = [c \in Channels |-> IF device = "library" /\ c \in cs /\ Settled(c)
                                  THEN raw[c] # (c \in invert) ELSE shown[c]]
  /\ UNCHANGED <<device, dictVars, debounce, invert, power, button, raw, since, settling, steady>>

Filtered(cs) ==
  /\ shown' = [c \in Channels |-> IF device = "library" /\ c \in cs /\ Settled(c)
                                  THEN raw[c] ELSE shown[c]]
  /\ UNCHANGED <<device, dictVars, debounce, invert, power, button, raw, since, settling, steady>>

(* input and the upload of 0x6000:c+1.  In a-slaves that object is not      *)
(* inverted, and reading it changes nothing.                               *)
ReadChannel(c) ==
  /\ device = "library"
  /\ Filtered({c})
  /\ reading' = [w \in Watched |-> IF w = c THEN Upload("INPUT", c + 1)' ELSE reading[w]]

(* readDigitalInputsBitfield and the upload of 0x6002.                     *)
ReadAggregate ==
  /\ Filtered(Channels)
  /\ reading' = [w \in Watched |-> <<Upload("AGGREGATE", 0)'[1][w]>>]

(* setChannelState of the class of a-slaves: the time is looked at only    *)
(* when the caller sets the channel again.                                 *)
SetChannelState(c, v) ==
  /\ device = "subs"
  /\ LET changed == raw[c] # v
         elapsed == IF changed THEN 0 ELSE since[c]
         active  == changed \/ settling[c]
     IN  /\ Drive([raw EXCEPT ![c] = v])
         /\ since' = [since EXCEPT ![c] = elapsed]
         /\ settling' = [settling EXCEPT ![c] = active /\ elapsed < Filter]
         /\ shown' = [shown EXCEPT ![c] = IF active /\ elapsed >= Filter THEN v ELSE @]
  /\ UNCHANGED <<device, dictVars, readVars, power, button>>

(* A millisecond passes.                                                   *)
Later(age) == [c \in Channels |-> AtMost(age[c] + 1, MaxAge)]

Tick ==
  /\ since' = Later(since) /\ steady' = Later(steady)
  /\ UNCHANGED <<device, dictVars, readVars, power, button, raw, shown, settling>>

-----------------------------------------------------------------------------
DictionaryNext ==
  \/ \E value \in CountValues : DownloadMapCount(value) \/ DownloadAssignCount(value)
  \/ DownloadMapEntry
  \/ \E i \in 1..MaxAssign, txPdo \in BOOLEAN : DownloadAssign(i, txPdo)
  \/ \E ms \in DebounceTimes : DownloadDebounce(ms)
  \/ \E mask \in Masks : DownloadInvert(mask)
  \/ ApplyDefaultTxPdoMapping
  \/ MapDigitalInputs \/ ClearInputMappings
  \/ \E ctrl \in ControlWords : AlControl(ctrl)

InputNext ==
  \/ \E v \in BOOLEAN : SetPower(v) \/ SetPowerButton(v)
  \/ \E c \in Wired, v \in BOOLEAN : SetInput(c, v) \/ SetChannelState(c, v)
  \/ \E c \in Channels : ReadChannel(c)
  \/ ReadAggregate
  \/ Tick

Next == DictionaryNext \/ InputNext

Spec == Init /\ [][Next]_vars

(* Time passes, and runOnce reads the bitfield of a mapped device in every *)
(* pass.                                                                   *)
FairSpec == Spec /\ WF_vars(Tick) /\ WF_vars(ReadAggregate)

-----------------------------------------------------------------------------
(* Properties.                                                             *)

(* The comment in the library's onSdoDownload: the mapping is valid when   *)
(* 0x1A00 is assigned and has entries.  The flag says so after downloads   *)
(* in any order, and a master that reads the objects back learns whether   *)
(* it may climb, until the simulator writes the flag; the next download of *)
(* any object makes it true again.  The class of a-slaves keeps the flag   *)
(* when a later download clears or sets the count of 0x1A00, and answers   *)
(* neither object.                                                         *)
MappedIffAssigned ==
  device = "library" /\ flagBy = "dictionary" =>
    (slave.mapped <=> /\ Upload("TXPDO", 0)[1] > 0
                      /\ \E i \in 1..Upload("ASSIGN", 0)[1] : Upload("ASSIGN", i)[1])

(* Whatever the order of downloads and of the simulator's calls, neither   *)
(* class climbs to SAFE_OP without a mapping of either kind: 0x1A00 is     *)
(* assigned, or an input mapping of the simulator names the device.        *)
SafeOpNeedsMapping ==
  [][slave.al \in {"INIT", "PRE_OP"} /\ slave'.al \in {"SAFE_OP", "OPERATIONAL"}
       => assignedAt # {} \/ listed]_vars

(* A level passes the filter only after the input has held it for the      *)
(* whole debounce time: a bounce is never seen, however reads, changes of  *)
(* the input and of the debounce time interleave.                          *)
NoBounceShown ==
  [][\A c \in Channels : shown'[c] # shown[c] =>
       /\ shown'[c] = raw'[c]
       /\ steady'[c] >= (IF device = "library" THEN debounce ELSE Filter)]_vars

(* Two readings of the library's device differ only when the later one     *)
(* shows the input as it is, inverted as the mask says, however changes of *)
(* the input and readings of single channels and of all come in between.   *)
(* A change of the mask or of the debounce time starts anew: the level     *)
(* behind the filter is not kept up while the time is 0, so the readings   *)
(* around a download to 0x8001 may fall back.                              *)
ReadingMovesToInput ==
  [][\A c \in Watched :
       device = "library" /\ None \notin {reading[c], reading'[c]} /\ reading'[c] # reading[c]
         => reading'[c] = <<raw[c] # (c \in invert)>>]_vars

(* A level that stays on an input of the library's device passes the       *)
(* filter although the program goes on setting it.                         *)
SteadyInputShown ==
  \A c \in Channels, v \in BOOLEAN :
    <>[](device = "library" /\ raw[c] = v /\ debounce # 0) => <>[](shown[c] = v)
=============================================================================
