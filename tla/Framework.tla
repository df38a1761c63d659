------------------------------- MODULE Framework -------------------------------
(***************************************************************************)
(* The base classes of core/framework: BaseApplication, whose main thread  *)
(* owns a BaseController, whose worker thread shares with it a BaseModel   *)
(* and the observers of that model.                                        *)
(*                                                                         *)
(* What derived classes do in the virtual functions is open: between two   *)
(* calls they may call anything, return, or throw, and so may an observer. *)
(* Two things are asked of them: run asks shouldStop between two calls,    *)
(* and an observer calls nothing of the model but snapshot.  (The mutex of *)
(* the observers is held around an observer; one that registers another    *)
(* would wait for itself.)                                                 *)
(*                                                                         *)
(* updateData notifies with a reference to data_ after its mutex is        *)
(* released.  Data is a pair and is read and written one half at a time,   *)
(* so that an observer may see half of the update of the other thread.     *)
(***************************************************************************)
EXTENDS Naturals

CONSTANTS
  Values,      \* what a half of the data may be; 0 at first
  MaxObservers \* bound: observers that may be added

ASSUME FrameworkAssumption == 0 \in Values /\ MaxObservers \in Nat

VARIABLES
  app,         \* where BaseApplication::run is
  terminal,    \* the settings of the terminal: raw or as they were
  active,      \* terminal_active_
  worker,      \* the worker thread: none (not joinable), running, or returned
  stop,        \* stop_flag_ of the controller
  data,        \* data_
  modelLock,   \* holder of BaseModel::mutex_, or Free
  obsLock,     \* holder of Observable::mutex_, or Free
  observers,   \* observers_: how many, an observer being its position
  pc,          \* where each thread is within a call
  call,        \* the call of the model it makes: operation and argument
  at,          \* the observer it is notifying
  half,        \* the half of the data it has read
  told,        \* history: what each observer was told last
  silent,      \* history: the data was set without notification
  skipped,     \* history: observers passed over since they were told last
  escaped      \* history: an exception has left BaseApplication::run

appVars   == <<app, terminal, active, escaped>>
lockVars  == <<modelLock, obsLock>>
localVars == <<call, at, half>>
histVars  == <<told, silent, skipped>>
vars == <<appVars, worker, stop, data, lockVars, observers, pc, localVars, histVars>>

Threads == {"main", "worker"}
Free    == "free"
Never   == <<>>
Idle    == [op |-> "none", value |-> 0, within |-> FALSE]

(* The locals of thread t when its call is over, kept at one value.        *)
Forget(t) ==
  /\ call' = [call EXCEPT ![t] = Idle]
  /\ at' = [at EXCEPT ![t] = 0] /\ half' = [half EXCEPT ![t] = 0]

Init ==
  /\ app = "start" /\ terminal = "saved" /\ active = FALSE
  /\ worker = "none" /\ stop = FALSE
  /\ data = <<0, 0>> /\ modelLock = Free /\ obsLock = Free /\ observers = 0
  /\ pc = [t \in Threads |-> "idle"]
  /\ call = [t \in Threads |-> Idle] /\ at = [t \in Threads |-> 0]
  /\ half = [t \in Threads |-> 0]
  /\ told = [o \in 1..MaxObservers |-> Never] /\ silent = FALSE
  /\ skipped = {} /\ escaped = FALSE

Goto(t, place) == pc' = [pc EXCEPT ![t] = place]

-----------------------------------------------------------------------------
(* BaseApplication::run.  Its main thread is between two calls whenever a  *)
(* virtual function returns or throws.                                     *)

SetupTerminal ==
  /\ app = "start"
  /\ app' = "initialize"
  /\ \/ terminal' = "raw" /\ active' = TRUE
     \/ UNCHANGED <<terminal, active>>           \* no terminal, or it refuses
  /\ UNCHANGED escaped
  /\ UNCHANGED <<worker, stop, data, lockVars, observers, pc, localVars, histVars>>

CleanupTerminal ==
  /\ terminal' = IF active THEN "saved" ELSE terminal
  /\ active' = FALSE

InVirtual == app \in {"initialize", "loop", "cleanup"} /\ pc["main"] = "idle"

(* initialize, runMainLoop and cleanup return.                             *)
PhaseReturns ==
  /\ InVirtual
  /\ \/ app = "initialize" /\ app' = "loop" /\ UNCHANGED <<terminal, active>>
     \/ app = "initialize" /\ app' = "ended" /\ CleanupTerminal
     \/ app = "loop" /\ app' = "cleanup" /\ UNCHANGED <<terminal, active>>
     \/ app = "cleanup" /\ app' = "ended" /\ CleanupTerminal
  /\ UNCHANGED escaped
  /\ UNCHANGED <<worker, stop, data, lockVars, observers, pc, localVars, histVars>>

(* One of them throws a std::exception.                                    *)
PhaseThrowsMutant ==                        \* only the normal end restores
  /\ InVirtual
  /\ app' = "ended" /\ UNCHANGED <<terminal, active, escaped>>
  /\ UNCHANGED <<worker, stop, data, lockVars, observers, pc, localVars, histVars>>

PhaseThrows ==
  /\ InVirtual
  /\ app' = "ended" /\ CleanupTerminal /\ UNCHANGED escaped
  /\ UNCHANGED <<worker, stop, data, lockVars, observers, pc, localVars, histVars>>

(* One of them throws something else, which run does not catch: its caller *)
(* meets the exception, and nothing restores the terminal.                 *)
PhaseEscapes ==
  /\ InVirtual
  /\ app' = "ended" /\ escaped' = TRUE /\ UNCHANGED <<terminal, active>>
  /\ UNCHANGED <<worker, stop, data, lockVars, observers, pc, localVars, histVars>>

-----------------------------------------------------------------------------
(* BaseController, called by the main thread.                              *)

Start ==
  /\ InVirtual /\ worker = "none"           \* else it returns at once
  /\ stop' = FALSE
  /\ worker' \in {"running", "none"}        \* none: the thread is refused
  /\ UNCHANGED <<appVars, data, lockVars, observers, pc, localVars, histVars>>

(* stop, and the destructor that calls it after run has returned.          *)
Stop ==
  /\ InVirtual \/ (app = "ended" /\ pc["main"] = "idle")
  /\ app' = IF app = "ended" THEN "destroyed" ELSE app
  /\ stop' = TRUE
  /\ Goto("main", IF worker = "none" THEN "idle" ELSE "join")
  /\ UNCHANGED <<terminal, active, escaped, worker, data, lockVars, observers, localVars, histVars>>

Join ==
  /\ app # "terminated"
  /\ pc["main"] = "join" /\ worker = "returned"
  /\ worker' = "none" /\ Goto("main", "idle")
  /\ UNCHANGED <<appVars, stop, data, lockVars, observers, localVars, histVars>>

(* run returns: because it was asked to, or for reasons of its own.        *)
RunReturns ==
  /\ worker = "running" /\ pc["worker"] = "idle"
  /\ worker' = "returned"
  /\ UNCHANGED <<appVars, stop, data, lockVars, observers, pc, localVars, histVars>>

(* run throws, out of the function of its thread: std::terminate ends the  *)
(* process, the main thread with it.                                       *)
RunThrows ==
  /\ worker = "running" /\ pc["worker"] = "idle"
  /\ app' = "terminated"
  /\ UNCHANGED <<terminal, active, escaped, worker, stop, data, lockVars, observers, pc, localVars,
                 histVars>>

-----------------------------------------------------------------------------
(* BaseModel, called by both threads.                                      *)

(* The main thread calls from runMainLoop; a call from initialize or from  *)
(* cleanup would meet the same worker, not yet started or still there.     *)
MayCall(t) ==
  IF t = "main" THEN InVirtual /\ app = "loop"
  ELSE worker = "running" /\ ~stop /\ pc["worker"] = "idle"

Call(t, op, v) ==
  /\ MayCall(t)
  /\ call' = [call EXCEPT ![t] = [op |-> op, value |-> v, within |-> FALSE]]
  /\ Goto(t, "lock")
  /\ UNCHANGED <<appVars, worker, stop, data, lockVars, observers, at, half, histVars>>

LockModel(t) ==
  /\ pc[t] = "lock" /\ modelLock = Free
  /\ modelLock' = t /\ Goto(t, "first")
  /\ UNCHANGED <<appVars, worker, stop, data, obsLock, observers, localVars, histVars>>

(* The two halves of data_ are assigned, or copied for a snapshot.         *)
FirstHalf(t) ==
  /\ pc[t] = "first" /\ Goto(t, "second")
  /\ data' = IF call[t].op = "snapshot" THEN data ELSE [data EXCEPT ![1] = call[t].value]
  /\ UNCHANGED <<appVars, worker, stop, lockVars, observers, localVars, histVars>>

Assigned(t) ==
  IF call[t].op = "snapshot"
  THEN UNCHANGED <<data, silent>>
  ELSE data' = [data EXCEPT ![2] = call[t].value] /\ silent' = (call[t].op = "set")

(* The call is over, or goes on to the observers, or back to the one that  *)
(* asked for the snapshot.                                                 *)
Released(t) ==
  CASE call[t].within         -> Goto(t, "next") /\ UNCHANGED localVars
    [] call[t].op = "update"  -> Goto(t, "notify") /\ UNCHANGED localVars
    [] OTHER                  -> Goto(t, "idle") /\ Forget(t)

SecondHalfMutant(t) ==              \* the update keeps the mutex while it notifies
  /\ pc[t] = "second"
  /\ modelLock' = IF call[t].op = "update" THEN t ELSE Free
  /\ Assigned(t) /\ Released(t)
  /\ UNCHANGED <<appVars, worker, stop, obsLock, observers, told, skipped>>

SecondHalf(t) ==
  /\ pc[t] = "second"
  /\ modelLock' = Free
  /\ Assigned(t) /\ Released(t)
  /\ UNCHANGED <<appVars, worker, stop, obsLock, observers, told, skipped>>

(* notifyObservers: the mutex, then the observers in their order.          *)
Notify(t) ==
  /\ pc[t] = "notify" /\ obsLock = Free
  /\ IF observers = 0
     THEN Goto(t, "idle") /\ Forget(t) /\ UNCHANGED obsLock
     ELSE /\ Goto(t, "tell") /\ obsLock' = t
          /\ at' = [at EXCEPT ![t] = 1] /\ UNCHANGED <<call, half>>
  /\ UNCHANGED <<appVars, worker, stop, data, modelLock, observers, histVars>>

Tell(t) ==
  /\ pc[t] = "tell" /\ Goto(t, "told")
  /\ half' = [half EXCEPT ![t] = data[1]]
  /\ UNCHANGED <<appVars, worker, stop, data, lockVars, observers, call, at, histVars>>

(* The observer has read the rest, and may go on to call snapshot.         *)
Asks(t) ==
  \/ Goto(t, "next") /\ UNCHANGED call
  \/ Goto(t, "lock") /\ call' = [call EXCEPT ![t] = [@ EXCEPT !.op = "snapshot", !.within = TRUE]]

ToldMutant(t) ==                    \* observers are handed the argument of the call
  /\ pc[t] = "told" /\ Asks(t)
  /\ told' = [told EXCEPT ![at[t]] = <<call[t].value, call[t].value>>]
  /\ half' = [half EXCEPT ![t] = 0] /\ skipped' = skipped \ {at[t]}
  /\ UNCHANGED <<appVars, worker, stop, data, lockVars, observers, at, silent>>

Told(t) ==
  /\ pc[t] = "told" /\ Asks(t)
  /\ told' = [told EXCEPT ![at[t]] = <<half[t], data[2]>>]
  /\ half' = [half EXCEPT ![t] = 0] /\ skipped' = skipped \ {at[t]}
  /\ UNCHANGED <<appVars, worker, stop, data, lockVars, observers, at, silent>>

NextObserver(t) ==
  /\ pc[t] = "next"
  /\ IF at[t] = observers
     THEN obsLock' = Free /\ Goto(t, "idle") /\ Forget(t)
     ELSE /\ Goto(t, "tell") /\ at' = [at EXCEPT ![t] = @ + 1]
          /\ call' = [call EXCEPT ![t].op = "update", ![t].within = FALSE]
          /\ UNCHANGED <<obsLock, half>>
  /\ UNCHANGED <<appVars, worker, stop, data, modelLock, observers, histVars>>

(* An observer throws, before it has read the data to the end or after.    *)
(* The exception ends the loop and updateData, giving up the mutex; the    *)
(* caller may catch it and go on, and the observers behind hear nothing.   *)
ObserverThrows(t) ==
  /\ pc[t] \in {"told", "next"}
  /\ obsLock' = Free /\ Goto(t, "idle") /\ Forget(t)
  /\ skipped' = skipped \union {o \in at[t]..observers : o = at[t] => pc[t] = "told"}
  /\ UNCHANGED <<appVars, worker, stop, data, modelLock, observers, told, silent>>

(* addObserver; it waits for a notification under way.                     *)
AddObserver ==
  /\ MayCall("main") /\ obsLock = Free /\ observers < MaxObservers
  /\ observers' = observers + 1
  /\ UNCHANGED <<appVars, worker, stop, data, lockVars, pc, localVars, histVars>>

-----------------------------------------------------------------------------
Calls(t) ==
  \/ \E v \in Values : Call(t, "update", v) \/ Call(t, "set", v)
  \/ Call(t, "snapshot", 0)

Steps(t) ==
  \/ LockModel(t) \/ FirstHalf(t) \/ SecondHalf(t)
  \/ Notify(t) \/ Tell(t) \/ Told(t) \/ NextObserver(t) \/ ObserverThrows(t)

MainNext ==
  /\ app # "terminated"
  /\ \/ SetupTerminal \/ PhaseReturns \/ PhaseThrows \/ PhaseEscapes
     \/ Start \/ Stop \/ Join
     \/ Calls("main") \/ Steps("main")
     \/ AddObserver

WorkerNext ==
  /\ app # "terminated"
  /\ RunReturns \/ RunThrows \/ Calls("worker") \/ Steps("worker")

Next == MainNext \/ WorkerNext

Spec == Init /\ [][Next]_vars

(* The worker runs, and the main thread joins it when it can.              *)
FairSpec == Spec /\ WF_vars(WorkerNext) /\ WF_vars(Join)

-----------------------------------------------------------------------------
(* Properties.                                                             *)

(* When neither thread is in a call, every observer that was ever told     *)
(* something was last told the data the model holds, whichever of two      *)
(* overlapping updates stored last and whichever notified last, unless the *)
(* last notification that was to reach it was cut short by an observer     *)
(* that threw.  The reference to data_ is what this rests on: with the     *)
(* argument of updateData the older update could be told after the newer.  *)
ToldCurrent ==
  (\A t \in Threads : pc[t] = "idle") /\ ~silent
    => \A o \in 1..observers : told[o] \in {Never, data} \/ o \in skipped

(* stop, from the main thread or from the destructor, returns, whatever    *)
(* the worker is doing when the flag is set: updating, notifying, or in an *)
(* observer that asks for a snapshot while the observers' mutex is held;   *)
(* or else the worker's run throws, and the process is over.               *)
StopReturns == pc["main"] = "join" ~> pc["main"] = "idle" \/ app = "terminated"

(* When run ends, returning or by a std::exception, the terminal is as it  *)
(* was, and when the controller is gone no worker is left to use it.  Run  *)
(* catches no other exception: then the terminal may stay raw.             *)
NothingLeftBehind ==
  /\ app \in {"ended", "destroyed"} /\ ~escaped => terminal = "saved"
  /\ app = "destroyed" /\ pc["main"] = "idle" => worker = "none"
=============================================================================
