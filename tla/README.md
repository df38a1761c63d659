# Formal models of ethercat-simulator

TLA+ modules for the EtherCAT simulator in this repository, the TLC runs that
check them on small instances, and TLAPS proofs of their main invariants.
`PROJECT.json` maps every definition to the source lines it translates.

## The system

Two processes talk EtherCAT over a stream socket. `a-slaves` owns simulated
slaves; `a-master` drives them with the vendored KickCAT library. The
simulator core can also be linked into one process, behind `SimSocket`.

| part | state | operations | interacts with |
|---|---|---|---|
| `VirtualSlave` | AL state, error flag and code, PDO mapping flag, mailbox reply, EEPROM address, register file | register reads and writes, `routine`, setters | called by the simulator under its mutex |
| `NetworkSimulator` | registry, count, input mappings, logical memory, frame queue | registry changes, `runOnce`, addressed reads and writes | called by both dispatchers and the program |
| datagram dispatch (`SlavesEndpoint::processFrame_`, `SimSocket::write`) | none | one simulator call, or a loop of them, per datagram | frames in, simulator calls out |
| stream transport (`MasterSocket`, `handleClient_`) | bytes in flight, position in read and write | length-prefixed frames, receive timeouts, stop polls | KickCAT above, dispatch below |
| `SlavesController` and `SlavesEndpoint::run` | two threads, stop flags, sockets, `SlavesModel` | `start`, `stop`, accept, serve one client | owner thread, clients |
| `MasterController` and `main` | KickCAT bus and its list of slaves, `MasterModel`, cyclic thread | `scan`, `initPreop`, `requestOperational`, SDO, `start`, `stop`, automatic sequence | KickCAT, TUI |
| EL1258 devices (one class in the library, one in `a-slaves`) | SDO dictionary, input levels and their filter | downloads, setters, reads | hooks of the mailbox handler; set the mapping flag |
| framework: `BaseApplication`, `BaseController`, `BaseModel` | phase and terminal, worker thread and stop flag, data, observers | `run`, `start`, `stop`, `updateData`, `setData`, `snapshot`, `addObserver` | derived applications; none in the repository |
| logger, DDS type, GUIs | see *Not modelled* | | |

What is hard: the AL loop with its five exits, each of which must leave flag,
code and registers in agreement; registry positions used as if all slaves were
on; weakly referenced mappings; a mapping flag with two writers; datagrams of one frame that lock one by one
while the link goes down; a byte stream under receive timeouts; three
threads stopping one another; a cyclic thread that publishes a snapshot
after it has released the lock; and observers called under one lock with data
that another lock guards, any of which may throw. The list with source lines is in
`PROJECT.json`, `hazards`.

What makes each part correct:

- slave: error flag, error code and the registers the slave last wrote agree; a climb stops at the
  highest state the mapping allows; acknowledgements lower nothing; a repeated
  control word does no more than one; a waiting reply answers the last request;
- simulator: the count follows the registry; datagrams touch only slaves that
  are on; a broadcast reaches all of those; a mapping flag has an input mapping or
  the device's own dictionary behind it; inputs arrive in logical memory, those of
  the last mapping where two overlap;
- frame queue: what was reported as sent arrives, once and in order; a frame that
  writes and then reads sees its own write;
- transport: frames stay whole, in order, executed once; reads and sessions end;
- EL1258: the mapping flag follows the dictionary while the simulator leaves it
  alone; SAFE_OP needs a mapping of one kind or the other; a bounce is never shown, a
  steady level is; readings move only towards the input;
- framework: observers end up with the data of the model unless an earlier one threw;
  `stop` returns; the terminal is restored unless an exception goes past `run`, and
  no worker survives the controller;
- a-slaves: what is shown exists; `stop` returns and leaves no thread; no client
  stays in the backlog of a socket nobody accepts from;
- a-master: success reports are true; displayed rows catch up and never run
  ahead; the automatic sequence reaches OPERATIONAL.

## Modules

| module | models | notes |
|---|---|---|
| `SlaveOps` | methods of `VirtualSlave` | a slave is a record, a method an operator on it; used by four modules |
| `AlStateMachine` | what a slave promises about its AL state | abstract, no loop, no registers |
| `VirtualSlave` | one slave, its master and its program | one action per method call; refines `AlStateMachine` |
| `NetworkSimulator` | registry, mappings, logical memory, datagrams | heap of slave objects with ownership |
| `SimSocket` | `SimSocket::write` and `read`, `sendFrame`, `receiveFrame`, link and latency | extends `NetworkSimulator`: the datagrams are its actions, step by step |
| `El1258` | both device classes | uses `SlaveOps` for the slave they derive from |
| `FrameChannel` | what the transport promises | abstract |
| `BusTransport` | `MasterSocket` against `handleClient_` | stream in pieces; refines `FrameChannel` |
| `SlavesServer` | `SlavesController`, `SlavesEndpoint::run`, clients | one action per step between shared accesses |
| `MasterController` | the controller, its thread, `runAutoSequence` | composed with `SlaveOps`; KickCAT external |
| `Framework` | `BaseApplication`, `BaseController`, `BaseModel`, observers | two threads, two mutexes |
| `SlaveOpsProofs` | lemmas about the operators of `SlaveOps` | extended by the proofs of the modules that use them |
| `VirtualSlaveProofs`, `NetworkSimulatorProofs`, `El1258Proofs`, `BusTransportProofs`, `SlavesServerProofs`, `MasterControllerProofs`, `FrameworkProofs` | theorems | see *Proofs*; those of `SimSocket` are in `NetworkSimulatorProofs` |
| `MC...` | constants and symmetry for TLC | |

### How state and actions correspond to the code

*SlaveOps, VirtualSlave.* Field names follow the members (`al` is `al_state_`,
`ackReq` is `ack_requested_`). Of the register file only AL_STATUS,
AL_STATUS_CODE, DL_STATUS and the status byte of SM1 are kept, each as a field
beside the member it copies, because the code refreshes copies separately. `write`
copies a datagram over any register before it looks at what it is: `StatusWrite` is
such a datagram over AL_STATUS, AL_STATUS_CODE or DL_STATUS, `Sm1Write` one over
SM1, and `overwritten` (history) holds the status registers the slave has not set
since. A write is of one whole register here; the code takes any range. The
`while` of `handleAlControlWrite_` is three applications of `Turn`: no climb
needs more (lemma `LoopEnds` of the proofs). Derived classes choose the value of
an upload and may change the mapping flag on a download; both are
nondeterministic. SDO contents are an object, a session count and an answer.

*NetworkSimulator.* An identity in `Ids` is a heap object. The registry and the
program (`held`) own it, `maps` observes it, as `shared_ptr` and `weak_ptr` do;
an identity nobody refers to may be allocated again. The mapping flag of a slave is
written by `mapDigitalInputs` and `clearInputMappings`, and by the device's own
dictionary: in the constructor of the class of `a-slaves` (`Construct` with `own`),
in `applyDefaultTxPdoMapping`, and by a download through the mailbox, whose decision
is left open here (`Decides`; `El1258` computes it). `dictionary` is history: what
the dictionary made of the flag last. A method holds `mutex_`
throughout, so it is one action. Broadcasts are several calls, all from the
thread that handles the frame, and are one action too. `IndexStationAddress`,
`StationAlControl`, `StationMailboxWrite` and `StationMailboxRead` stand for the APxx
and FPxx datagrams that change state, `StationRead` and `IndexRead` for their reads of AL_STATUS.
`Dispatcher` says whose `switch` counts the answers: the two differ in BRD, NOP,
ARMW and FRMW. Auto-increment addresses keep their 16 bits (`Position`).

*SimSocket.* Each call of the simulator is a step, and so is each test of the
link, which no mutex guards; the program switches link, latency and slaves and
calls `runOnce` in between. A broadcast is one step per slave, over the bound read at its start. A
frame in the queue is the number of the write that queued it and the time left
until `ready_at`; `accepted`, `received` and `target` are history.

*El1258.* `device`, fixed at the start, says which class a behaviour is about; the
two share names of state but not code, so most actions have a branch for each.
`listed` says that an input mapping of the simulator names the device and `flagBy`
who wrote the mapping flag last (history). `assignedAt` holds the positions of 0x1C13 that contain 0x1A00, the only value a
condition asks for. Time is the age of the last change of a channel, counted to
`MaxAge`, from which on every test of the code has its final outcome.
`ReadChannel` and `ReadAggregate` are actions because `effectiveBit_` moves the
level through the filter when it is called; `Upload` is `onSdoUpload` of both
classes, and the properties look at the device through it. `steady` and `reading`
are history: how long the level has been what it is, and what was read last.

*BusTransport.* A frame is two prefix pieces and `Body` body pieces; `Receive`
takes any number of them, as `recv` may, and may time out whenever nothing has
arrived, between answers or within one. The endpoint's 200 ms polls are guards
on the stop flag. `cut` is a history variable: the number of answers handed out
before the first timeout within an answer. The refinement mapping shows
`FrameChannel` the answers up to there, because the code promises no more.

*SlavesServer.* Program counters for the owner, `run_` and the server thread.
Each step that another thread can see is an action of its own: the model shows the
controller listening (`Show`) before the server thread exists (`Spawn`), and at the
end the join, the display and the status are three; `run` closes the client's
descriptor, closes the listening socket and tells the model in three. Reading `stop_`
and setting the endpoint's flag are one (`Watch`), since `stop_` stays set until the
worker is joined. A client accepted while stop is requested keeps an open
descriptor nobody serves: that is in the model (`Check`), and what `stop` is shown to
leave behind is no thread and no display, not no descriptor.

*MasterController.* `bus_mutex_` covers a whole call, so a call is one action;
the cyclic thread reads under the mutex (`Cycle`) and publishes later (`Push`).
KickCAT is modelled by its effect: `detectSlaves` makes a fresh list,
`requestState` broadcasts with the acknowledge bit, `waitForState` returns when
all are there. The SDO calls are `SdoUpload` and `SdoDownload`: a download may
change the mapping flag of the device behind it. With `Faults` any exchange may fail, having taken effect or not,
and any slave's state may remain unread.

*Framework.* What derived classes and observers do in the virtual functions is
left open: they return, throw or call when they like. A phase may throw a
`std::exception`, which `run` catches (`PhaseThrows`), or anything else, which goes past
it with the terminal as it is (`PhaseEscapes`, remembered in `escaped`); a worker that
throws ends the process (`RunThrows`); an observer that throws ends the loop over the
observers and the update (`ObserverThrows`), and those it passed over are in `skipped`
until they are told again. Two things are asked of them: `run` of a controller asks
`shouldStop` between two calls, and an observer calls nothing of the model but
`snapshot`, since one that adds an observer waits for itself. The data is a pair that is
written and read one half at a time, because observers read it without its mutex.

## Runs

| run | question | bounds |
|---|---|---|
| `AlControl` | AL control paths, flags, registers, repeated words, replies against requests; does the loop implement `AlStateMachine` | 12 control words (one for each outcome of `decodeControlState_`, with and without acknowledgement), every setter, 3 requests with 2 session counts, one value written over each status register |
| `Registry` | count, ownership, datagrams to absent slaves, broadcasts | 2 objects, registry of 2, power switched at will, mailboxes read |
| `BroadcastOffline` (violated) | does a broadcast reach those that are on when one is off | the same |
| `InputMappings` | do inputs arrive, is there a mapping behind every flag | 2 objects with and without a mapping of their own, registry of 1, 2 mappings on one cell, 2 values, downloads |
| `El1258` | flag against dictionary, SAFE_OP, filter, readings | 2 channels, one of them driven, 1 position of 0x1C13, counts beyond it and wrapping, debounce 0 or 2 ms, DI1 inverted or not, an input mapping made and cleared |
| `SimSocket` | order and loss in the frame queue, atomicity of a frame | 2 slaves, 3 frames of two to four datagrams, 2 of them queued, latency 0 or 1 |
| `Transport` | frames whole, refinement; do reads and sessions end | 4 frames, the last refused for its length, window 2 |
| `TornRead` (violated) | boundaries under timeouts within an answer | 3 frames |
| `Server` | threads, model, stop, clients in the backlog | 2 clients |
| `Master` | automatic sequence and keys | 2 slaves, 5 attempts, no failures, SDO calls |
| `MasterFaults` | rows under any failure | 2 slaves, keys without SDO downloads |
| `Framework` | observers against data, ends of the application, stop | 2 threads, 2 observers, 2 values for each half |

What they show. `AlControl`: on each of the exits of `handleAlControlWrite_`
flag and code agree and the registers show them whatever was written over them
before, an acknowledgement lowers nobody, an error stays
until it is acknowledged or cured, a master that repeats a word it is not sure of
does no harm, state, error and code are those the abstract machine allows, and
whatever is sent over an unread reply, the reply read belongs to the last request.
`Registry` and `InputMappings`: `virtualSlaveCount_` and logical memory follow what
they are derived from, and no mapping flag is left up by a mapping that is gone.
`El1258`: what a download makes of the mapping flag of the library's device is what
its objects read back, after downloads in any order, neither class
enters SAFE_OP without a mapping, and reading channel by channel or all at once gives no
value the input did not have. `SimSocket`: no frame is lost, doubled or
overtaken although link and latency change outside the mutex, and the
program between two datagrams cannot falsify what a frame reads back.
`Transport`: no frame is skipped, repeated or torn before the first torn read, and
no read or session hangs even after one. `Server`: after any order of stop, connects
and ends of sessions no thread is left, nothing is shown as running, and a client
that connected has had the session, been reset, or been accepted while stop was on
its way. `Master`, `MasterFaults`: a stale
snapshot hides the first scan at most, and never shows a slave above the state it
is in. `Framework`: handing observers the member and not the argument is what
keeps two overlapping updates from being told in the wrong order at last, and
releasing the data's mutex before the observers run is what keeps `stop` from
waiting for ever, also when an observer throws.

The exact values are in the `.cfg` files. Why they are enough: the slave's
behaviour depends on the acknowledge bit of a control word and on the state its low
four bits are decoded to, and one word stands for those decoded alike; the registry
properties need one slave in front of or behind the one concerned; two mappings
are the least that overlap; two clients are one served and one
waiting; a window of two frames is the least with an answer outstanding behind
another, and two queued frames the least of which one may overtake; two slaves
are the least of which one can be read and one not; the frames of `SimSocket`
are a control word that is refused halfway with a read behind it, a renumbering
that gives two slaves one address, and a broadcast. `MasterFaults` leaves out
downloads, which change the mapping flag only; `Master` has them. Slave
identities and nodes are symmetric, and symmetry is used in the runs without
liveness. `CHECK_DEADLOCK FALSE` stands where the modelled process may end (the
master exits, the frames of the bound are used up, the cyclic thread leaves, the
application is destroyed).

Fairness: `El1258` assumes that time passes and the inputs are read, which
`runOnce` does for a mapped device. `InputMappings` assumes that `runOnce` is called again and again,
which the endpoint does after every frame and the cyclic thread sends one in
each cycle; `SimSocket` that the master's thread runs and goes on reading, as
KickCAT does until its answer or its timeout, and that time passes, while the link
stays up only where the property says so; `Transport`, `Server`, `Master` and
`Framework` assume that a thread
which can run takes its next step; in `Framework` a worker that is asked to stop
makes no further calls. No client, user, owner or failure is
required to act. In particular `WaitingClientServed` does not need fairness of
a failing `accept`, and a session may last for ever unless stop or its client
ends it.

## Disagreements found

Two runs are expected to be violated; each property is a statement of a comment
that the code does not keep. They are listed with both places in `PROJECT.json`,
`findings`: broadcasts with a slave off, and frame boundaries after a timeout within
an answer.

Three comments say less or more than the code does and have no run.
`slaves_controller.cpp:36` says that the endpoint returns only when stopping, while
`SlavesEndpoint::run` returns when its one session ends or the socket cannot be
bound; in `SlavesServer`, `server` is then `done` while `listening` is shown.
`network_simulator.h:26` and `network_simulator.cpp:68` call the latency not enforced
and not used; `sendFrame` and `receiveFrame` do enforce it, and `SimSocket` models
that.

`observable.h:62-70` swallows the exceptions of observers "to prevent one bad observer
from breaking others". No file includes it; the `Observable` that `BaseModel` derives
from is the one in `base_model.h`, which does the opposite: an observer that throws
leaves those behind it untold and ends the update of a caller whose data is already
stored. `ToldCurrent` therefore excepts the observers that were passed over.

The mapping flag of a slave has two writers that do not know of one another. A
download of any object of the library's EL1258, its debounce time for one, drops the
flag that `mapDigitalInputs` raised unless the dictionary has a mapping too, and `clearInputMappings` drops the one the dictionary raised, the default
mapping of the devices of `a-slaves` included. So a mapped device may have its flag
down; `MappedHasSource` and `SafeOpNeedsMapping` say that the reverse does not
happen, and `MappedIffAssigned` is stated while a download wrote the flag last.

Some properties hold under a condition only. `NothingLeftBehind` needs that no
exception went past `run`: it catches `std::exception` only, and the destructor of
`BaseApplication` does not restore the terminal. `AlRegistersFresh` excepts a register
while what a datagram wrote over it stands there: a master that reads AL_STATUS then
reads its own value. `PreopOkIsTrue` needs every exchange
to succeed: with `Faults` the refresh keeps states it could not read and
`initPreop` takes them for confirmation; that a status "preop ok" may then rest on an
old value is not excluded by any property. Nothing promises that a slave leaves
BOOT: `setALState` may put it there, and no control word of a master gets it out
again, since every target lies above it and `nextStateUp_` names no step up from BOOT
that `isTransitionAllowed_` accepts; `AlStateMachine` says the same. A
waiting reply is always announced in the status of SM1, but the converse fails:
`enterInit_` drops the reply and leaves the status set. After a debounce time is
set on a device of the library that had none, readings may fall back to the level
behind the filter, which was not kept up: `ReadingMovesToInput` starts anew there.
`MappedIffAssigned` holds
for the library's EL1258; the one of `a-slaves` looks at the count of 0x1A00 only
when 0x1C13:1 is written, so a count downloaded later changes nothing.

## Proofs

Each theorem holds for every value of the constants that the module's named
`ASSUME` admits; TLC evaluates the same assumptions in the runs. They are
bounds on types (what an address, a control word, a mapping is) and say nothing of
how many slaves, frames, clients, observers or attempts there are. The one that may
look strong is in `NetworkSimulator`: the addresses are `0..n-1` for some `n`, as
the 16-bit addresses of the code are, because a default address is taken modulo
their number. What `SimSocket` asks of the constants of `NetworkSimulator` (two slave
objects, an address 2, its own switch) is a conjunct of its initial states, so the
theorems about the registry do not depend on it. Every inductive invariant was checked by TLC before it was proved.

`SlaveOpsProofs` says of each method what it returns and leaves alone. The loop of
`handleAlControlWrite_` goes by a lemma on one `Turn`, which lets the registers be
stale in the middle of a climb and finds them fresh on refusal. `ThreeTurnsSuffice`
says that three turns reach where a fourth would not move, so that unrolling the
`while` of the code three times leaves nothing out. `Outcome` is the state reached as a
function of state, request and mapping flag, and the lemmas `AckRaises` (a
word with the acknowledge bit lowers nobody), `ClimbNeedsMapping` (SAFE_OP is not
reached without a mapping) and `WriteSettles` (a word leaves the slave where the
same word asks for nothing more) follow from its table.

`VirtualSlaveProofs`: `SlaveInv`, the conjunction of the four invariants, is
inductive. `ErrorFlagHasCode` and `AlRegistersFresh` are needed together (the latter for the
registers not in `overwritten`; that a path of the code takes a register out of it is
what has to be shown): the
success path of an AL request clears flag and code and then copies, the error
path copies inside `signalError_`, and the early returns copy what the
acknowledgement has cleared. From it follow the action properties
(`AckNeverLowers`, `ErrorLatched`), `RetryIsHarmless`, and the refinement of
`AlStateMachine`: an AL_CONTROL write is a request of the abstract machine whatever
exit of the handler it takes, and a mailbox, EEPROM or register access is a
stuttering step.

`NetworkSimulatorProofs`: types, `CountIsRegistry` and `MappedHasSource` are inductive
together (`RegistryInv`). `MappedHasSource` is the hard one, because a clear, a
release of the last reference, a cut of the registry, a download and the erasures of
`runOnce` each change who is alive, who is listed, what the dictionary decided and
the flags, in different orders. `OfflineUntouched` follows datagram by datagram. `BroadcastReachesAll` needs
`CountIsRegistry` and an argument of its own: the loop of a broadcast is bounded by
the number of slaves online, and its positions are those from 1 to that bound, so
with nobody off it meets every slave once.

`NetworkSimulatorProofs`, `SimSocket`: `QueueInv` says that the frames in the queue carry the numbers
behind those already read, one after the other; a latency changes only what a frame
waits for. `SimInv` is about the frame under way, in three parts that need one
another: the registers of every slave are fresh (`HeapInv`), the place of the thread
tells what has been answered (`FrameInv`), and the slave that took the last
AL_CONTROL still answers first to its address (`TargetInv`). The last is where the
interleavings are: it needs that neither `runOnce` nor a write of AL_CONTROL changes
an address or a switch (lemma `AddressKept`, through the loop of the handler), and
that a switch of another slave does not make it the first bearer.

`El1258Proofs`: the dictionary and the inputs do not meet, so there are two
invariants. `DictInv` adds to the flag of the library's device that in either
class a mapped slave has an entry of 0x1C13 when a download wrote its flag last and
an input mapping when the simulator did, which gives `SafeOpNeedsMapping`;
`MappedIffAssigned` is then read off the uploads. `InputInv` says that the code's
clock of a channel tells how long its level has lasted, and that while the filter
is on the last reading is the level behind it. The second part is why a download of
the debounce time has to forget the readings.

`BusTransportProofs`: `Aligned` says that what the master has taken of the current
answer, what is on its way and what the endpoint writes next are consecutive pieces
of consecutive answers. It holds until a receive times out within an answer, and
only together with `InOrder` (requests) and `Answered` (an answer is not
ahead of its execution). With it a completed prefix is the prefix of the next answer
and its body that answer's body, which is what the refinement of `FrameChannel`
asks for. After the first torn read the refinement mapping shows no further answers
and only the execution order is claimed.

`SlavesServerProofs`: `ServerInv` relates the places of the threads to one another (a
server thread exists exactly while the worker is between spawning and joining it),
which `StoppedIsQuiet` alone does not say.

`MasterControllerProofs`: `MasterInv` says of all three lists of cached states, the
bus's, the cyclic thread's snapshot and the rows on display, that none shows a slave
further up than it is; `RowsNeverAhead` alone is not inductive, since the rows come
from the other two. It rests on `AckRaises`, and holds whatever exchange fails.
`SecondScanPasses` and `PreopOkIsTrue` have the hypothesis `~Faults`, the one under
which the run checks them: with failures the second is false (see *Disagreements
found*) and the first depends on which scan fails. `ScanInv` follows the one
empty snapshot that may be on its way when the first scan ends.

`FrameworkProofs`: `FrameworkInv` derives from the places of the two threads who
holds which mutex, what each observer knows, will yet be told or missed, and who owes
the terminal back. `ToldCurrent` needs the middle part: an observer that was told
something old is always ahead of a thread that will tell it again, or has been passed
over by an exception since.

What stays with TLC. The liveness properties (`InputsReachLogical`,
`SteadyInputShown`, `ReadReturns`, `SessionEnds`, both `StopReturns`,
`WaitingClientServed`, `RowsCatchUp`, `AutoSequenceSucceeds`, `SentArrives`): the
prover has no rule for fairness. Every other property of the passing runs has a
theorem. The two violated properties have counterexamples and nothing to prove.

## Not modelled, and why

Byte layouts (mailbox headers, SII contents, frame headers): no property
distinguishes them. Registers that a datagram may write and that nothing reads
back to decide anything; writes that cover a part of a register or several of them.
The writes over the status registers are in `VirtualSlave` only: `NetworkSimulator`
and `SimSocket` compose the slave with the datagrams of AL_CONTROL, station address,
mailbox and logical memory, and `MasterController` with what KickCAT sends, which does
not write them. KickCAT, a vendored binary with headers: modelled by what
it is called for, as external definitions. Endpoint parser: a function of strings
whose outcomes are the branches of `Bind`. Socket factory: called by neither
application. `subs_endpoint.cpp`: a near copy of `slaves_endpoint.cpp` that no target
compiles. `observable.h`: a second `Observable` nothing includes (see *Disagreements found*); `removeObserver` of
`base_model.h` compares `std::function`s and cannot be instantiated. The stop flag
of `BaseApplication`, its signal handlers and `sleepFor`: only derived classes would
read it, and there are none. Logger, DDS type, terminal and desktop interfaces,
scripts: no state that the rest of the system depends on; the keys that call the
controller are `Key` of `MasterController`.

## Plan

1. (done) slave, registry, devices, transport, server, master.
2. (done) frame queue and frames step by step, uploads and readings of the EL1258,
   SDO calls of the master, the framework.
3. (done) inductive invariants, action properties and both refinements of every
   module.
4. The types and the exact count of the registry for `SimSocket` as well, whose
   broadcast writes one slave per step and is therefore no step of
   `NetworkSimulator`; and that a broadcast stepped so, while nobody is switched,
   leaves what the single step of `BroadcastAlControl` leaves.
