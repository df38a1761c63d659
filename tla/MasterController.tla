--------------------------- MODULE MasterController ---------------------------
(***************************************************************************)
(* The a-master process: MasterController (apps/master/logic/              *)
(* master_controller.cpp), its cyclic thread run_, the model both threads  *)
(* write, and the automatic sequence of main (apps/master/app/main.cpp),   *)
(* driving slaves that follow SlaveOps.  bus_mutex_ is held for the whole  *)
(* of a call and for the whole bus access of a cycle, so each of them is   *)
(* one action; what happens outside the mutex, the cyclic thread's writes  *)
(* to the model, is a step of its own.                                     *)
(*                                                                         *)
(* KickCAT's Bus is external: detectSlaves fills its list of slaves,       *)
(* requestState broadcasts the state with the acknowledge bit, and         *)
(* waitForState reads AL_STATUS of every slave until all are there or the  *)
(* time is over.  With Faults any exchange may fail: its effect on the     *)
(* slaves may have happened, and what was read of them is lost for any.    *)
(***************************************************************************)
EXTENDS SlaveOps, Sequences

CONSTANTS
  Nodes,      \* the slaves behind the endpoint
  Faults,     \* whether exchanges may fail
  AutoSteps,  \* the automatic sequence: <<"scan", "preop", "op">> or <<>> (--no-auto)
  Tries,      \* attempts of one of its steps: 5 in the code
  Mappings    \* what SDO downloads of a user leave of a slave's mapping flag

ASSUME MasterAssumption ==
  /\ Nodes # {} /\ Faults \in BOOLEAN /\ Tries \in Nat \ {0}
  /\ AutoSteps \in {<<>>, <<"scan", "preop", "op">>}
  /\ Mappings \subseteq BOOLEAN
  /\ 1 \in Addresses

VARIABLES
  slaves,       \* the slaves themselves
  busMade,      \* bus_ is set; it is never reset
  known,        \* al_status in bus_->slaves(), Empty before a detection
  detected, preop, operational, status, rows,   \* MasterModel
  worker,       \* run_: where it is
  pending,      \* rows: its snapshot, taken under the mutex
  stop,         \* stop_
  auto          \* the automatic sequence: step, tries used, act or look

modelVars == <<detected, preop, operational, status, rows>>
vars == <<slaves, busMade, known, modelVars, worker, pending, stop, auto>>

Empty  == <<>>
Known  == [Nodes -> AlStates \union {"INVALID"}]
Views  == Known \union {Empty}

Statuses == {"", "ready", "scan ok", "scan err", "preop ok", "preop err", "op ok", "op err"}

TypeOK ==
  /\ slaves \in [Nodes -> Slaves]
  /\ busMade \in BOOLEAN /\ stop \in BOOLEAN
  /\ known \in Views /\ rows \in Views /\ pending \in Views
  /\ detected \in BOOLEAN /\ preop \in BOOLEAN /\ operational \in BOOLEAN
  /\ status \in Statuses
  /\ worker \in {"none", "begin", "loop", "push", "done"}
  /\ auto \in [step : 1..Len(AutoSteps) + 1, tries : 0..Tries, look : BOOLEAN]

(* A slave of the a-slaves process has its default PDO mapping.            *)
Init ==
  /\ slaves = [n \in Nodes |-> SetInputPDOMapped(NewSlave(1), TRUE)]
  /\ busMade = FALSE /\ known = Empty
  /\ detected = FALSE /\ preop = FALSE /\ operational = FALSE
  /\ status = "" /\ rows = Empty
  /\ worker = "none" /\ pending = Empty /\ stop = FALSE
  /\ auto = [step |-> 1, tries |-> 0, look |-> FALSE]

-----------------------------------------------------------------------------
(* KickCAT's Bus, on the slaves s and the list k.                          *)

ControlWord == [INIT |-> 17, PRE_OP |-> 18, SAFE_OP |-> 20, OPERATIONAL |-> 24]

Broadcast(s, target) == [n \in Nodes |-> WriteAlControl(s[n], ControlWord[target])]

StatesOfMutant(s) ==              \* the last slave is left out
  [n \in Nodes \ {CHOOSE last \in Nodes : TRUE} |-> s[n].al]

StatesOf(s) == [n \in Nodes |-> s[n].al]
Undefined   == [n \in Nodes |-> "INVALID"]
AllIn(k, target) == k # Empty /\ \A n \in Nodes : k[n] = target

(* Lists in which each slave was read, or was not.                         *)
Mixes(k, s) == {q \in Known : \A n \in Nodes : q[n] \in {k[n], s[n].al}}

(* refreshSlaveAlStatusUnlocked_ keeps the cached value on any failure.    *)
Refreshed(k, s) == IF Faults THEN Mixes(k, s) ELSE {StatesOf(s)}

(* requestState and waitForState: the slaves and the list afterwards, and  *)
(* whether no exception left them.                                         *)
Exchange(s, k, target) ==
  LET t == Broadcast(s, target) IN
  {[slaves |-> t, known |-> StatesOf(t), done |-> AllIn(StatesOf(t), target)]}
  \union
  (IF Faults
   THEN UNION {{[slaves |-> u, known |-> q, done |-> FALSE] : q \in Mixes(k, u)} : u \in {s, t}}
   ELSE {})

(* init: a new detection, INIT, then PRE_OP.                               *)
BusInit(s, k) ==
  (UNION { IF e.done THEN Exchange(e.slaves, e.known, "PRE_OP") ELSE {e}
             : e \in Exchange(s, Undefined, "INIT") })
  \union
  (IF Faults THEN {[slaves |-> s, known |-> k, done |-> FALSE]} ELSE {})

-----------------------------------------------------------------------------
(* The controller.                                                         *)

(* requestAndWaitStateUnlocked_: nothing is sent when the list already     *)
(* shows the target; an exception is overruled by the list, refreshed as   *)
(* far as the slaves could be read.                                        *)
Reach(s, k, target) ==
  IF AllIn(k, target)
  THEN {[slaves |-> s, known |-> k, done |-> TRUE]}
  ELSE UNION { { [slaves |-> e.slaves, known |-> q, done |-> AllIn(q, target)]
                   : q \in Refreshed(e.known, e.slaves) }
                 : e \in Exchange(s, k, target) }

(* detectSlavesWithRetries_ when wanted: the list it leaves, Empty when no *)
(* slave answers.                                                          *)
Lists(wanted) ==
  {IF wanted THEN Undefined ELSE known}
  \union (IF Faults /\ wanted THEN {Empty} ELSE {})

(* A call fails before it changes a slave: ensureBus_ throws, or a         *)
(* detection does when wanted, after attempts that found none or all.      *)
CallThrows(error, wanted) ==
  /\ Faults
  /\ status' = error
  /\ \/ busMade' \in {busMade, TRUE} /\ UNCHANGED <<known, detected>>
     \/ wanted /\ busMade' = TRUE
        /\ \/ known' = Empty /\ detected' = FALSE
           \/ known' = Undefined /\ detected' = TRUE
  /\ UNCHANGED <<slaves, preop, operational, rows>>

ScanMutant ==                     \* the rows are left to the cyclic thread
  \E list \in Lists(TRUE) :
    /\ busMade' = TRUE
    /\ detected' = (list # Empty)
    /\ known' \in Refreshed(list, slaves)
    /\ status' = "scan ok"
    /\ UNCHANGED <<slaves, preop, operational, rows>>

Scan ==
  \/ CallThrows("scan err", TRUE)
  \/ \E list \in Lists(TRUE) :
       /\ busMade' = TRUE
       /\ detected' = (list # Empty)
       /\ IF list = Empty
          THEN known' = Empty /\ status' = "scan err"
          ELSE known' \in Refreshed(list, slaves) /\ status' = "scan ok"
       /\ rows' = known'
       /\ UNCHANGED <<slaves, preop, operational>>

(* initPreop behind the detection: bus.init, then INIT and PRE_OP by hand  *)
(* unless PRE_OP is confirmed.                                             *)
AttemptsMutant(k) ==              \* an exception of bus.init is no failure
  { [slaves |-> e.slaves, known |-> e.known, done |-> TRUE] : e \in BusInit(slaves, k) }

Attempts(k) ==
  UNION { LET confirmed == e.done /\ AllIn(e.known, "PRE_OP") IN
          IF confirmed
          THEN {[slaves |-> e.slaves, known |-> e.known, done |-> TRUE]}
          ELSE UNION { Reach(i.slaves, i.known, "PRE_OP")
                         : i \in Reach(e.slaves, e.known, "INIT") }
            : e \in BusInit(slaves, k) }

InitPreop ==
  \/ CallThrows("preop err", known = Empty)
  \/ \E list \in Lists(known = Empty) :
       /\ busMade' = TRUE
       /\ detected' = IF known = Empty THEN list # Empty ELSE detected
       /\ IF list = Empty
          THEN /\ known' = Empty /\ preop' = FALSE
               /\ UNCHANGED slaves
          ELSE \E a \in Attempts(list) :
                 /\ slaves' = a.slaves
                 /\ known' \in Refreshed(a.known, a.slaves)
                 /\ preop' = (a.done \/ AllIn(known', "PRE_OP"))
       /\ rows' = known'
       /\ status' = IF preop' THEN "preop ok" ELSE "preop err"
       /\ UNCHANGED operational

RequestOperationalMutant ==       \* success is not recorded in the model
  \E e \in Exchange(slaves, known, "OPERATIONAL") :
    /\ slaves' = e.slaves /\ known' = e.known
    /\ status' = IF e.done THEN "op ok" ELSE "op err"
    /\ rows' = IF e.done THEN known' ELSE rows
    /\ UNCHANGED <<busMade, detected, preop, operational>>

RequestOperational ==
  \/ CallThrows("op err", known = Empty)
  \/ \E list \in Lists(known = Empty) :
       /\ busMade' = TRUE
       /\ detected' = IF known = Empty THEN list # Empty ELSE detected
       /\ IF list = Empty
          THEN /\ known' = Empty /\ status' = "op err"
               /\ UNCHANGED <<slaves, operational, rows>>
          ELSE \E e \in Exchange(slaves, list, "OPERATIONAL") :
                 /\ slaves' = e.slaves
                 /\ IF e.done
                    THEN /\ known' \in Refreshed(e.known, e.slaves)
                         /\ rows' = known'
                         /\ operational' = TRUE /\ status' = "op ok"
                    ELSE /\ known' = e.known /\ status' = "op err"
                         /\ UNCHANGED <<operational, rows>>
       /\ UNCHANGED preop

(* sdoUpload and sdoDownload.  The mailbox is VirtualSlave's subject; what *)
(* matters here is that a download may give or take the mapping of the     *)
(* slave addressed, also when its answer is lost.  A row of the display    *)
(* that the list of slaves does not have is refused.  The result goes to   *)
(* fields of the model that are only displayed.                            *)
SdoUpload ==
  /\ busMade' \in IF Faults THEN {busMade, TRUE} ELSE {TRUE}
  /\ UNCHANGED <<slaves, known, modelVars>>

SdoDownload(n, m) ==
  /\ busMade' = TRUE /\ known # Empty
  /\ slaves' = [slaves EXCEPT ![n] = SetInputPDOMapped(@, m)]
  /\ UNCHANGED <<known, modelVars>>

-----------------------------------------------------------------------------
(* The cyclic thread.                                                      *)

Ready ==
  /\ worker = "begin"
  /\ worker' = "loop" /\ status' = "ready"
  /\ UNCHANGED <<slaves, busMade, known, detected, preop, operational, rows, pending, stop, auto>>

(* One turn under the mutex; an exception is ignored.                      *)
CycleMutant ==                    \* the first snapshot is kept
  /\ worker = "loop" /\ ~stop
  /\ worker' = "push" /\ busMade' = TRUE
  /\ pending' = IF pending = Empty THEN known ELSE pending
  /\ UNCHANGED <<slaves, known, modelVars, stop, auto>>

Cycle ==
  /\ worker = "loop" /\ ~stop
  /\ \/ worker' = "push" /\ pending' = known /\ busMade' = TRUE
     \/ Faults /\ busMade' \in {busMade, TRUE} /\ UNCHANGED <<worker, pending>>
  /\ UNCHANGED <<slaves, known, modelVars, stop, auto>>

Push ==
  /\ worker = "push"
  /\ worker' = "loop" /\ rows' = pending
  /\ UNCHANGED <<slaves, busMade, known, detected, preop, operational, status, pending, stop, auto>>

Leave ==
  /\ worker = "loop" /\ stop
  /\ worker' = "done"
  /\ UNCHANGED <<slaves, busMade, known, modelVars, pending, stop, auto>>

-----------------------------------------------------------------------------
(* The main thread: start, the automatic sequence or the keys of the       *)
(* TUI, stop.                                                              *)

AutoDone == auto.step > Len(AutoSteps) \/ auto.tries = Tries

Launch ==
  /\ worker = "none" /\ ~stop
  /\ worker' = "begin"
  /\ UNCHANGED <<slaves, busMade, known, modelVars, pending, stop, auto>>

Act ==
  /\ worker # "none" /\ ~AutoDone /\ ~auto.look
  /\ CASE AutoSteps[auto.step] = "scan"  -> Scan
       [] AutoSteps[auto.step] = "preop" -> InitPreop
       [] AutoSteps[auto.step] = "op"    -> RequestOperational
  /\ auto' = [auto EXCEPT !.look = TRUE]
  /\ UNCHANGED <<worker, pending, stop>>

(* The predicate of the step, on a snapshot of the model.                  *)
Achieved ==
  [ scan |-> detected /\ rows # Empty, preop |-> preop, op |-> operational ]

Look ==
  /\ auto.look
  /\ auto' = IF Achieved[AutoSteps[auto.step]]
             THEN [step |-> auto.step + 1, tries |-> 0, look |-> FALSE]
             ELSE [auto EXCEPT !.tries = @ + 1, !.look = FALSE]
  /\ UNCHANGED <<slaves, busMade, known, modelVars, worker, pending, stop>>

Key ==
  /\ worker # "none" /\ AutoDone /\ ~stop
  /\ \/ Scan \/ InitPreop \/ RequestOperational
     \/ SdoUpload \/ \E n \in Nodes, m \in Mappings : SdoDownload(n, m)
  /\ UNCHANGED <<worker, pending, stop, auto>>

Stop ==
  /\ worker # "none" /\ AutoDone /\ ~stop
  /\ stop' = TRUE
  /\ UNCHANGED <<slaves, busMade, known, modelVars, worker, pending, auto>>

-----------------------------------------------------------------------------
WorkerNext == Ready \/ Cycle \/ Push \/ Leave
MainNext   == Launch \/ Act \/ Look \/ Key \/ Stop

Next == WorkerNext \/ MainNext

Spec == Init /\ [][Next]_vars

(* The cyclic thread runs, and the automatic sequence does not pause for   *)
(* ever; a user need not press a key.                                      *)
FairSpec == Spec /\ WF_vars(WorkerNext) /\ WF_vars(Launch \/ Act \/ Look)

-----------------------------------------------------------------------------
(* Properties.                                                             *)

(* When initPreop reports success every slave is in PRE_OP.  The claim is  *)
(* made of a list of cached states, some of them read before the call, and *)
(* holds only while every exchange succeeds: with Faults the refresh keeps *)
(* the states it could not read, and initPreop takes them for confirmation.*)
PreopOkIsTrue ==
  [][InitPreop /\ status' = "preop ok" => \A n \in Nodes : slaves'[n].al = "PRE_OP"]_vars

(* A stale snapshot of the cyclic thread can hide the result of the first  *)
(* scan, and of no other: the second attempt always passes.                *)
SecondScanPasses == AutoSteps # <<>> /\ auto.step = 1 => auto.tries <= 1

(* The rows never show a slave further up than it is, however old the      *)
(* snapshot they come from and whatever could not be read: no request of   *)
(* the controller lowers a slave, because all of them carry the            *)
(* acknowledge bit.                                                        *)
RowsNeverAhead ==
  rows # Empty => \A n \in Nodes : Rank(rows[n]) <= Rank(slaves[n].al)

(* The rows on display catch up with the list of slaves again and again,   *)
(* although the cyclic thread writes them outside the mutex.               *)
RowsCatchUp == []<>(rows = known \/ stop)

(* The automatic sequence takes fresh slaves to OPERATIONAL.               *)
AutoSequenceSucceeds ==
  <>(auto.step > Len(AutoSteps) /\ \A n \in Nodes : slaves[n].al = "OPERATIONAL")
=============================================================================
