--------------------------- MODULE FrameworkProofs ---------------------------
(***************************************************************************)
(* Proofs about Framework, for any number of observers and any data: the   *)
(* mutual exclusion of the two mutexes, what the observers know once both  *)
(* threads are out of their calls, and what is left when run has ended, in *)
(* runs in which observers, virtual functions and the worker may throw.    *)
(***************************************************************************)
EXTENDS Framework, TLAPS

Data   == [1..2 -> Values]
Places == {"idle", "join", "lock", "first", "second", "notify", "tell", "told", "next"}
Ops    == {"none", "update", "set", "snapshot"}
CallRecords == [op : Ops, value : Values, within : BOOLEAN]

TypeOK ==
  /\ app \in {"start", "initialize", "loop", "cleanup", "ended", "destroyed", "terminated"}
  /\ terminal \in {"saved", "raw"} /\ active \in BOOLEAN
  /\ worker \in {"none", "running", "returned"} /\ stop \in BOOLEAN
  /\ data \in Data
  /\ modelLock \in Threads \union {Free} /\ obsLock \in Threads \union {Free}
  /\ observers \in 0..MaxObservers
  /\ pc \in [Threads -> Places]
  /\ call \in [Threads -> CallRecords]
  /\ at \in [Threads -> 0..MaxObservers] /\ half \in [Threads -> Values]
  /\ told \in [1..MaxObservers -> Data \union {Never}]
  /\ silent \in BOOLEAN /\ skipped \subseteq 1..MaxObservers /\ escaped \in BOOLEAN

-----------------------------------------------------------------------------
(* The inductive invariant.                                                *)

(* In the middle of a notification: with an observer, or in the snapshot   *)
(* that the observer has asked for.                                        *)
Inside(t) == pc[t] \in {"lock", "first", "second"}
Notifying(t) == pc[t] \in {"tell", "told", "next"} \/ (Inside(t) /\ call[t].within)

(* Who holds which mutex follows from where the threads are, and so does   *)
(* the kind of the call.                                                   *)
LocksHeld(t) ==
  /\ modelLock = t <=> pc[t] \in {"first", "second"}
  /\ obsLock = t <=> Notifying(t)
  /\ Notifying(t) => at[t] \in 1..observers
  /\ pc[t] \in {"notify", "tell", "told"} => ~call[t].within
  /\ pc[t] = "notify" => call[t].op = "update"
  /\ Inside(t) /\ call[t].within => call[t].op = "snapshot"
  /\ Inside(t) => call[t].op # "none"

LocksInv == \A t \in Threads : LocksHeld(t)

(* A thread that will yet tell every observer, or will have set the data   *)
(* without telling any.                                                    *)
TellsAll(t) ==
  \/ pc[t] = "second" /\ call[t].op # "snapshot"
  \/ pc[t] = "notify"

(* A thread that will yet tell observer o.                                 *)
Tells(t, o) ==
  \/ TellsAll(t)
  \/ pc[t] \in {"tell", "told"} /\ at[t] <= o
  \/ pc[t] = "next" /\ at[t] < o
  \/ Inside(t) /\ call[t].within /\ at[t] < o

(* An observer that was last told something else than the model holds is   *)
(* still to be told, unless one before it threw, and one that is being     *)
(* told with an outdated half will be told again.                          *)
Reported ==
  /\ \A o \in 1..observers : \/ told[o] \in {Never, data} \/ silent \/ o \in skipped
                             \/ \E t \in Threads : Tells(t, o)
  /\ \A t \in Threads : pc[t] = "told" =>
       half[t] = data[1] \/ silent \/ \E u \in Threads : TellsAll(u)
  /\ \A o \in 1..MaxObservers : o > observers => told[o] = Never

(* The terminal is raw only while run owes it back, or an exception has    *)
(* gone past run, and after the end the main thread makes no call but stop.*)
Restored ==
  /\ ~active => terminal = "saved"
  /\ app \in {"start", "ended", "destroyed"} => ~active \/ escaped
  /\ app \in {"ended", "destroyed"} => pc["main"] \in {"idle", "join"}
  /\ app = "destroyed" /\ pc["main"] = "idle" => worker = "none"

FrameworkInv == TypeOK /\ LocksInv /\ Reported /\ Restored

(* The locals of a call.                                                   *)
LEMMA IdleTyped == Idle \in CallRecords
BY FrameworkAssumption DEF Idle, CallRecords, Ops

LEMMA ForgetTyped ==
  ASSUME TypeOK, NEW t \in Threads, Forget(t)
  PROVE  /\ call' \in [Threads -> CallRecords]
         /\ at' \in [Threads -> 0..MaxObservers] /\ half' \in [Threads -> Values]
         /\ call'[t] = Idle
         /\ \A u \in Threads \ {t} : call'[u] = call[u] /\ at'[u] = at[u] /\ half'[u] = half[u]
<1>1. 0 \in 0..MaxObservers /\ 0 \in Values
  BY FrameworkAssumption
<1> QED
  BY <1>1, IdleTyped DEF TypeOK, Forget

(* A call that goes on to, or back from, the snapshot of an observer.      *)
LEMMA TurnedTyped ==
  ASSUME TypeOK, NEW t \in Threads, NEW op \in Ops, NEW within \in BOOLEAN,
         call' = [call EXCEPT ![t] = [@ EXCEPT !.op = op, !.within = within]]
  PROVE  /\ call' \in [Threads -> CallRecords]
         /\ call'[t].op = op /\ call'[t].within = within /\ call'[t].value = call[t].value
         /\ \A u \in Threads \ {t} : call'[u] = call[u]
<1> DEFINE r == [call[t] EXCEPT !.op = op, !.within = within]
<1>1. call \in [Threads -> CallRecords] /\ call[t] \in CallRecords
  BY DEF TypeOK
<1>2. r \in CallRecords
  BY <1>1, Zenon DEF CallRecords
<1>3. r.op = op /\ r.within = within /\ r.value = call[t].value
  BY <1>1, SMT DEF CallRecords
<1>4. call' = [call EXCEPT ![t] = r]
  OBVIOUS
<1> HIDE DEF r
<1> QED
  BY <1>1, <1>2, <1>3, <1>4

LEMMA InvInit == Init => FrameworkInv
<1> SUFFICES ASSUME Init PROVE FrameworkInv
  OBVIOUS
<1> USE DEF Init, Threads, Free
<1>1. TypeOK
  <2>1. Idle \in CallRecords /\ <<0, 0>> \in Data /\ 0 \in 0..MaxObservers
    BY IdleTyped, FrameworkAssumption DEF Data
  <2> QED
    BY <2>1, FrameworkAssumption DEF TypeOK, Places
<1>2. LocksInv
  BY DEF LocksInv, LocksHeld, Notifying, Inside
<1>3. Reported
  BY FrameworkAssumption DEF Reported
<1>4. Restored
  BY DEF Restored
<1> QED
  BY <1>1, <1>2, <1>3, <1>4 DEF FrameworkInv

(* The parts of a step, each named once.                                   *)
LEMMA NextCases ==
  ASSUME Next, NEW G,
         SetupTerminal => G, PhaseReturns => G, PhaseThrows => G, PhaseEscapes => G,
         Start => G, Stop => G, Join => G, RunReturns => G, RunThrows => G, AddObserver => G,
         \A t \in Threads, op \in Ops \ {"none"}, v \in Values : Call(t, op, v) => G,
         \A t \in Threads :
           /\ LockModel(t) => G
           /\ FirstHalf(t) => G
           /\ SecondHalf(t) => G
           /\ Notify(t) => G
           /\ Tell(t) => G
           /\ Told(t) => G
           /\ NextObserver(t) => G
           /\ ObserverThrows(t) => G
  PROVE  G
<1>1. "main" \in Threads /\ "worker" \in Threads /\ 0 \in Values
      /\ "update" \in Ops /\ "set" \in Ops /\ "snapshot" \in Ops
  BY FrameworkAssumption DEF Threads, Ops
<1>2. ASSUME NEW t \in Threads, Calls(t) PROVE G
  BY <1>1, <1>2 DEF Calls
<1>3. ASSUME NEW t \in Threads, Steps(t) PROVE G
  BY <1>3 DEF Steps
<1> QED
  BY <1>1, <1>2, <1>3 DEF Next, MainNext, WorkerNext

LEMMA TypeStep == TypeOK /\ LocksInv /\ [Next]_vars => TypeOK'
<1> SUFFICES ASSUME TypeOK, LocksInv, [Next]_vars PROVE TypeOK'
  OBVIOUS
<1> USE DEF TypeOK, lockVars, localVars, histVars, appVars
<1>1. ASSUME SetupTerminal PROVE TypeOK'
  BY <1>1 DEF SetupTerminal
<1>2. ASSUME PhaseReturns PROVE TypeOK'
  BY <1>2 DEF PhaseReturns, CleanupTerminal
<1>3. ASSUME PhaseThrows PROVE TypeOK'
  BY <1>3 DEF PhaseThrows, CleanupTerminal
<1>4. ASSUME Start \/ PhaseEscapes PROVE TypeOK'
  BY <1>4 DEF Start, PhaseEscapes
<1>5. ASSUME Stop PROVE TypeOK'
  BY <1>5 DEF Stop, Goto, Places
<1>6. ASSUME Join PROVE TypeOK'
  BY <1>6 DEF Join, Goto, Places
<1>7. ASSUME RunReturns \/ RunThrows PROVE TypeOK'
  BY <1>7 DEF RunReturns, RunThrows
<1>8. ASSUME AddObserver PROVE TypeOK'
  BY <1>8, FrameworkAssumption DEF AddObserver
<1>9. ASSUME NEW t \in Threads, NEW op \in Ops, NEW v \in Values, Call(t, op, v)
      PROVE  TypeOK'
  BY <1>9 DEF Call, Goto, Places, CallRecords
<1>10. ASSUME NEW t \in Threads
       PROVE  /\ LockModel(t) => TypeOK'
              /\ FirstHalf(t) => TypeOK'
              /\ SecondHalf(t) => TypeOK'
              /\ Notify(t) => TypeOK'
              /\ Tell(t) => TypeOK'
              /\ Told(t) => TypeOK'
              /\ NextObserver(t) => TypeOK'
              /\ ObserverThrows(t) => TypeOK'
  <2>0. /\ call[t] \in CallRecords /\ call[t].value \in Values
        /\ data[1] \in Values /\ data[2] \in Values
    BY DEF CallRecords, Data
  <2>1. ASSUME LockModel(t) PROVE TypeOK'
    BY <2>1 DEF LockModel, Goto, Places
  <2>2. ASSUME FirstHalf(t) PROVE TypeOK'
    BY <2>0, <2>2 DEF FirstHalf, Goto, Places, Data
  <2>3. ASSUME SecondHalf(t) PROVE TypeOK'
    <3>1. data' \in Data /\ silent' \in BOOLEAN
      BY <2>0, <2>3 DEF SecondHalf, Assigned, Data
    <3>2. pc' \in [Threads -> Places]
      BY <2>3 DEF SecondHalf, Released, Goto, Places
    <3>3. \/ UNCHANGED localVars
          \/ Forget(t)
      BY <2>3 DEF SecondHalf, Released
    <3>4. /\ call' \in [Threads -> CallRecords]
          /\ at' \in [Threads -> 0..MaxObservers] /\ half' \in [Threads -> Values]
      BY <3>3, ForgetTyped
    <3> QED
      BY <2>3, <3>1, <3>2, <3>4 DEF SecondHalf
  <2>4. ASSUME Notify(t) PROVE TypeOK'
    <3>1. CASE observers = 0
      BY <2>4, <3>1, ForgetTyped DEF Notify, Goto, Places
    <3>2. CASE observers # 0
      <4>1. 1 \in 0..MaxObservers
        BY <3>2, FrameworkAssumption
      <4> QED
        BY <2>4, <3>2, <4>1, ZenonT(60) DEF Notify, Goto, Places
    <3> QED
      BY <3>1, <3>2
  <2>5. ASSUME Tell(t) PROVE TypeOK'
    BY <2>0, <2>5 DEF Tell, Goto, Places
  <2>6. ASSUME Told(t) PROVE TypeOK'
    <3>1. call' \in [Threads -> CallRecords] /\ pc' \in [Threads -> Places]
      BY <2>6, TurnedTyped DEF Told, Asks, Goto, Places, Ops
    <3>2. <<half[t], data[2]>> \in Data /\ 0 \in Values
      BY <2>0, FrameworkAssumption DEF Data
    <3> QED
      BY <2>6, <3>1, <3>2, ZenonT(60) DEF Told
  <2>7. ASSUME NextObserver(t) PROVE TypeOK'
    <3>1. CASE at[t] = observers
      BY <2>7, <3>1, ForgetTyped, ZenonT(60) DEF NextObserver, Goto, Places
    <3>2. CASE at[t] # observers
      <4>1. at[t] \in 1..observers
        BY <2>7 DEF NextObserver, LocksInv, LocksHeld, Notifying
      <4>2. at[t] + 1 \in 0..MaxObservers
        BY <3>2, <4>1, FrameworkAssumption
      <4>3. call' = [call EXCEPT ![t] = [@ EXCEPT !.op = "update", !.within = FALSE]]
        BY <2>7, <3>2 DEF NextObserver
      <4>4. call' \in [Threads -> CallRecords]
        BY <4>3, TurnedTyped DEF Ops
      <4> QED
        BY <2>7, <3>2, <4>2, <4>4, ZenonT(60) DEF NextObserver, Goto, Places
    <3> QED
      BY <3>1, <3>2
  <2>8. ASSUME ObserverThrows(t) PROVE TypeOK'
    <3>1. /\ call' \in [Threads -> CallRecords]
          /\ at' \in [Threads -> 0..MaxObservers] /\ half' \in [Threads -> Values]
      BY <2>8, ForgetTyped DEF ObserverThrows
    <3>2. skipped' \subseteq 1..MaxObservers
      <4>1. at[t] \in 1..observers
        BY <2>8 DEF ObserverThrows, LocksInv, LocksHeld, Notifying
      <4>2. at[t]..observers \subseteq 1..MaxObservers
        BY <4>1, FrameworkAssumption
      <4> QED
        BY <2>8, <4>2 DEF ObserverThrows
    <3>3. pc' \in [Threads -> Places] /\ obsLock' \in Threads \union {Free}
      BY <2>8 DEF ObserverThrows, Goto, Places
    <3> QED
      BY <2>8, <3>1, <3>2, <3>3 DEF ObserverThrows
  <2> QED
    BY <2>1, <2>2, <2>3, <2>4, <2>5, <2>6, <2>7, <2>8
<1>11. ASSUME UNCHANGED vars PROVE TypeOK'
  BY <1>11 DEF vars
<1> QED
  BY <1>1, <1>2, <1>3, <1>4, <1>5, <1>6, <1>7, <1>8, <1>9, <1>10, <1>11, NextCases

LEMMA LocksStep == TypeOK /\ LocksInv /\ [Next]_vars => LocksInv'
<1> SUFFICES ASSUME TypeOK, LocksInv, [Next]_vars, NEW u \in Threads
             PROVE  LocksHeld(u)'
  BY DEF LocksInv
<1> USE DEF LocksHeld, Notifying, Inside
<1>0. /\ pc \in [Threads -> Places] /\ call \in [Threads -> CallRecords]
      /\ at \in [Threads -> 0..MaxObservers] /\ half \in [Threads -> Values]
      /\ observers \in 0..MaxObservers
      /\ LocksHeld(u) /\ Free \notin Threads /\ "main" \in Threads
  BY DEF TypeOK, LocksInv, Threads, Free
<1>1. ASSUME SetupTerminal \/ PhaseReturns \/ PhaseThrows \/ PhaseEscapes \/ Start
             \/ RunReturns \/ RunThrows
      PROVE  LocksHeld(u)'
  BY <1>0, <1>1 DEF SetupTerminal, PhaseReturns, PhaseThrows, PhaseEscapes, Start, RunReturns,
                    RunThrows, lockVars, localVars
<1>2. ASSUME Stop \/ Join PROVE LocksHeld(u)'
  BY <1>0, <1>2 DEF Stop, Join, InVirtual, Goto, lockVars, localVars
<1>3. ASSUME AddObserver PROVE LocksHeld(u)'
  <2>1. /\ modelLock' = modelLock /\ obsLock' = obsLock /\ pc' = pc
        /\ call' = call /\ at' = at
    BY <1>3 DEF AddObserver, lockVars, localVars
  <2>2. obsLock # u
    BY <1>0, <1>3 DEF AddObserver
  <2> QED
    BY <1>0, <2>1, <2>2
<1>4. ASSUME NEW t \in Threads, NEW op \in Ops \ {"none"}, NEW v \in Values, Call(t, op, v)
      PROVE  LocksHeld(u)'
  <2>1. pc[t] = "idle"
    BY <1>4 DEF Call, MayCall, InVirtual, Threads
  <2>2. call'[u] = IF u = t THEN [op |-> op, value |-> v, within |-> FALSE] ELSE call[u]
    BY <1>0, <1>4 DEF Call
  <2>3. u = t => call'[u].within = FALSE /\ call'[u].op = op
    BY <2>2
  <2> QED
    BY <1>0, <1>4, <2>1, <2>2, <2>3 DEF Call, Goto, lockVars
<1>5. ASSUME NEW t \in Threads, LockModel(t) PROVE LocksHeld(u)'
  BY <1>0, <1>5 DEF LockModel, Goto, localVars
<1>6. ASSUME NEW t \in Threads, FirstHalf(t) PROVE LocksHeld(u)'
  BY <1>0, <1>6 DEF FirstHalf, Goto, lockVars, localVars
<1>7. ASSUME NEW t \in Threads, SecondHalf(t) PROVE LocksHeld(u)'
  <2>1. LocksHeld(t)
    BY DEF LocksInv
  <2>2. CASE u # t
    <3>1. call'[u] = call[u] /\ at'[u] = at[u] /\ pc'[u] = pc[u]
      BY <1>0, <1>7, <2>2, ForgetTyped DEF SecondHalf, Released, Goto, localVars
    <3> QED
      BY <1>0, <1>7, <2>1, <2>2, <3>1 DEF SecondHalf
  <2>3. CASE u = t
    <3>1. CASE call[t].within
      BY <1>0, <1>7, <2>1, <2>3, <3>1 DEF SecondHalf, Released, Goto, localVars
    <3>2. CASE ~call[t].within /\ call[t].op = "update"
      BY <1>0, <1>7, <2>1, <2>3, <3>2 DEF SecondHalf, Released, Goto, localVars
    <3>3. CASE ~call[t].within /\ call[t].op # "update"
      <4>1. call'[t] = Idle /\ pc'[t] = "idle"
        BY <1>0, <1>7, <3>3, ForgetTyped DEF SecondHalf, Released, Goto
      <4> QED
        BY <1>0, <1>7, <2>1, <2>3, <3>3, <4>1 DEF SecondHalf
    <3> QED
      BY <3>1, <3>2, <3>3
  <2> QED
    BY <2>2, <2>3
<1>8. ASSUME NEW t \in Threads, Notify(t) PROVE LocksHeld(u)'
  <2>1. LocksHeld(t)
    BY DEF LocksInv
  <2>2. CASE observers = 0
    <3>1. /\ call'[t] = Idle /\ pc'[t] = "idle" /\ obsLock' = obsLock
          /\ u # t => call'[u] = call[u] /\ at'[u] = at[u] /\ pc'[u] = pc[u]
      BY <1>0, <1>8, <2>2, ForgetTyped DEF Notify, Goto
    <3> QED
      BY <1>0, <1>8, <2>1, <2>2, <3>1 DEF Notify
  <2>3. CASE observers # 0
    <3>1. 1 \in 1..observers
      BY <1>0, <2>3, FrameworkAssumption
    <3> QED
      BY <1>0, <1>8, <2>1, <2>3, <3>1 DEF Notify, Goto
  <2> QED
    BY <2>2, <2>3
<1>9. ASSUME NEW t \in Threads, Tell(t) PROVE LocksHeld(u)'
  BY <1>0, <1>9 DEF Tell, Goto, lockVars
<1>10. ASSUME NEW t \in Threads, Told(t) PROVE LocksHeld(u)'
  <2>1. LocksHeld(t)
    BY DEF LocksInv
  <2>2. CASE Goto(t, "next") /\ UNCHANGED call
    BY <1>0, <1>10, <2>2, <2>1 DEF Told, Goto, lockVars
  <2>3. CASE Goto(t, "lock") /\ ~(Goto(t, "next") /\ UNCHANGED call)
    <3>1. /\ call'[t].op = "snapshot" /\ call'[t].within = TRUE
          /\ u # t => call'[u] = call[u]
      BY <1>10, <2>3, TurnedTyped DEF Told, Asks, Ops
    <3> QED
      BY <1>0, <1>10, <2>1, <2>3, <3>1, SMTT(30) DEF Told, Goto, lockVars
  <2> QED
    BY <1>10, <2>2, <2>3 DEF Told, Asks
<1>11. ASSUME NEW t \in Threads, NextObserver(t) PROVE LocksHeld(u)'
  <2>1. LocksHeld(t)
    BY DEF LocksInv
  <2>2. CASE at[t] = observers
    <3>1. /\ call'[t] = Idle /\ pc'[t] = "idle" /\ obsLock' = Free
          /\ u # t => call'[u] = call[u] /\ at'[u] = at[u] /\ pc'[u] = pc[u]
      BY <1>0, <1>11, <2>2, ForgetTyped DEF NextObserver, Goto
    <3> QED
      BY <1>0, <1>11, <2>1, <2>2, <3>1 DEF NextObserver
  <2>3. CASE at[t] # observers
    <3>1. call' = [call EXCEPT ![t] = [@ EXCEPT !.op = "update", !.within = FALSE]]
      BY <1>11, <2>3 DEF NextObserver
    <3>2. /\ call'[t].op = "update" /\ call'[t].within = FALSE
          /\ u # t => call'[u] = call[u]
      BY <3>1, TurnedTyped DEF Ops
    <3>3. at[t] + 1 \in 1..observers
      BY <1>0, <1>11, <2>1, <2>3, FrameworkAssumption DEF NextObserver
    <3> QED
      BY <1>0, <1>11, <2>1, <2>3, <3>2, <3>3 DEF NextObserver, Goto
  <2> QED
    BY <2>2, <2>3
<1>12. ASSUME NEW t \in Threads, ObserverThrows(t) PROVE LocksHeld(u)'
  <2>1. LocksHeld(t)
    BY DEF LocksInv
  <2>2. /\ call'[t] = Idle /\ pc'[t] = "idle" /\ obsLock' = Free
        /\ u # t => call'[u] = call[u] /\ at'[u] = at[u] /\ pc'[u] = pc[u]
    BY <1>0, <1>12, ForgetTyped DEF ObserverThrows, Goto
  <2> QED
    BY <1>0, <1>12, <2>1, <2>2 DEF ObserverThrows
<1>13. ASSUME UNCHANGED vars PROVE LocksHeld(u)'
  <2>1. /\ modelLock' = modelLock /\ obsLock' = obsLock /\ observers' = observers
        /\ pc' = pc /\ call' = call /\ at' = at
    BY <1>13 DEF vars, lockVars, localVars
  <2> QED
    BY <1>0, <2>1
<1> HIDE DEF LocksHeld, Notifying, Inside
<1>14. CASE Next
  <2>1. \A t \in Threads, op \in Ops \ {"none"}, v \in Values :
          Call(t, op, v) => LocksHeld(u)'
    BY <1>4
  <2>2. \A t \in Threads :
          /\ LockModel(t) => LocksHeld(u)'
          /\ FirstHalf(t) => LocksHeld(u)'
          /\ SecondHalf(t) => LocksHeld(u)'
          /\ Notify(t) => LocksHeld(u)'
          /\ Tell(t) => LocksHeld(u)'
          /\ Told(t) => LocksHeld(u)'
          /\ NextObserver(t) => LocksHeld(u)'
          /\ ObserverThrows(t) => LocksHeld(u)'
    BY <1>5, <1>6, <1>7, <1>8, <1>9, <1>10, <1>11, <1>12
  <2> QED
    BY <1>1, <1>2, <1>3, <1>14, <2>1, <2>2, NextCases
<1> QED
  BY <1>13, <1>14

(* What is still to be told stays to be told when the data does not change *)
(* and no thread steps past an observer.                                   *)
LEMMA Steady ==
  ASSUME Reported, UNCHANGED <<told, data, silent, skipped, observers>>,
         \A t \in Threads, o \in 1..observers : Tells(t, o) => Tells(t, o)',
         \A t \in Threads : TellsAll(t) => TellsAll(t)',
         \A t \in Threads : pc'[t] = "told" => pc[t] = "told" /\ half'[t] = half[t]
  PROVE  Reported'
<1>1. ASSUME NEW o \in 1..observers
      PROVE  \/ told'[o] \in {Never, data'} \/ silent' \/ o \in skipped'
             \/ \E t \in Threads : Tells(t, o)'
  BY DEF Reported
<1>2. ASSUME NEW t \in Threads, pc'[t] = "told"
      PROVE  half'[t] = data'[1] \/ silent' \/ \E u \in Threads : TellsAll(u)'
  BY <1>2 DEF Reported
<1>3. \A o \in 1..MaxObservers : o > observers' => told'[o] = Never
  BY DEF Reported
<1> QED
  BY <1>1, <1>2, <1>3 DEF Reported

(* Nobody reads half of the data for an observer while the mutex of the    *)
(* observers is free, and only its holder does otherwise.                  *)
LEMMA OneNotifies ==
  ASSUME LocksInv, NEW t \in Threads, NEW u \in Threads, u # t,
         obsLock \in {Free, t}
  PROVE  ~Notifying(u)
<1>1. LocksHeld(u) /\ u # Free
  BY DEF LocksInv, Threads, Free
<1> QED
  BY <1>1 DEF LocksHeld

LEMMA ReportedStep == TypeOK /\ LocksInv /\ Reported /\ [Next]_vars => Reported'
<1> SUFFICES ASSUME TypeOK, LocksInv, Reported, [Next]_vars PROVE Reported'
  OBVIOUS
<1> USE DEF Tells, TellsAll, Inside
<1>0. /\ pc \in [Threads -> Places] /\ call \in [Threads -> CallRecords]
      /\ at \in [Threads -> 0..MaxObservers] /\ half \in [Threads -> Values]
      /\ observers \in 0..MaxObservers /\ "main" \in Threads
  BY DEF TypeOK, Threads
<1>1. ASSUME SetupTerminal \/ PhaseReturns \/ PhaseThrows \/ PhaseEscapes \/ Start
             \/ RunReturns \/ RunThrows
      PROVE  Reported'
  <2>1. UNCHANGED <<told, data, silent, skipped, observers, pc, call, at, half>>
    BY <1>1 DEF SetupTerminal, PhaseReturns, PhaseThrows, PhaseEscapes, Start, RunReturns, RunThrows,
                localVars, histVars
  <2> QED
    BY <2>1, Steady
<1>2. ASSUME Stop \/ Join PROVE Reported'
  <2>1. /\ UNCHANGED <<told, data, silent, skipped, observers, call, at, half>>
        /\ pc["main"] \in {"idle", "join"} /\ pc'["main"] \in {"idle", "join"}
        /\ \A u \in Threads \ {"main"} : pc'[u] = pc[u]
    BY <1>0, <1>2 DEF Stop, Join, InVirtual, Goto, localVars, histVars
  <2> QED
    BY <1>0, <2>1, Steady
<1>3. ASSUME AddObserver PROVE Reported'
  <2>1. /\ UNCHANGED <<told, data, silent, skipped, pc, call, at, half>>
        /\ observers' = observers + 1 /\ observers < MaxObservers
    BY <1>3 DEF AddObserver, localVars, histVars
  <2>2. ASSUME NEW o \in 1..observers', o \notin 1..observers PROVE told'[o] = Never
    <3>1. o \in 1..MaxObservers /\ o > observers
      BY <1>0, <2>1, <2>2, FrameworkAssumption
    <3> QED
      BY <2>1, <3>1 DEF Reported
  <2>3. ASSUME NEW o \in 1..observers
        PROVE  \/ told'[o] \in {Never, data'} \/ silent' \/ o \in skipped'
             \/ \E t \in Threads : Tells(t, o)'
    BY <2>1 DEF Reported
  <2>4. ASSUME NEW t \in Threads, pc'[t] = "told"
        PROVE  half'[t] = data'[1] \/ silent' \/ \E u \in Threads : TellsAll(u)'
    BY <2>1, <2>4 DEF Reported
  <2>5. ASSUME NEW o \in 1..MaxObservers, o > observers' PROVE told'[o] = Never
    <3>1. o > observers
      BY <1>0, <2>1, <2>5, FrameworkAssumption
    <3> QED
      BY <2>1, <3>1 DEF Reported
  <2> HIDE DEF Tells, TellsAll
  <2> QED
    BY <2>2, <2>3, <2>4, <2>5 DEF Reported
<1>4. ASSUME NEW t \in Threads, NEW op \in Ops \ {"none"}, NEW v \in Values, Call(t, op, v)
      PROVE  Reported'
  <2>1. /\ UNCHANGED <<told, data, silent, skipped, observers, at, half>>
        /\ pc[t] = "idle" /\ pc'[t] = "lock"
        /\ \A u \in Threads \ {t} : pc'[u] = pc[u] /\ call'[u] = call[u]
    BY <1>0, <1>4 DEF Call, MayCall, InVirtual, Threads, Goto, histVars
  <2> QED
    BY <1>0, <2>1, Steady
<1>5. ASSUME NEW t \in Threads, LockModel(t) PROVE Reported'
  <2>1. /\ UNCHANGED <<told, data, silent, skipped, observers, call, at, half>>
        /\ pc[t] = "lock" /\ pc'[t] = "first"
        /\ \A u \in Threads \ {t} : pc'[u] = pc[u]
    BY <1>0, <1>5 DEF LockModel, Goto, localVars, histVars
  <2> QED
    BY <1>0, <2>1, Steady
<1>6. ASSUME NEW t \in Threads, FirstHalf(t) PROVE Reported'
  <2>1. /\ UNCHANGED <<told, silent, skipped, observers, call, at, half>>
        /\ pc[t] = "first" /\ pc'[t] = "second"
        /\ \A u \in Threads \ {t} : pc'[u] = pc[u]
    BY <1>0, <1>6 DEF FirstHalf, Goto, localVars, histVars
  <2>2. CASE call[t].op = "snapshot"
    <3>1. data' = data
      BY <1>6, <2>2 DEF FirstHalf
    <3> QED
      BY <1>0, <2>1, <2>2, <3>1, Steady
  <2>3. CASE call[t].op # "snapshot"
    BY <2>1, <2>3 DEF Reported
  <2> QED
    BY <2>2, <2>3
<1>7. ASSUME NEW t \in Threads, SecondHalf(t) PROVE Reported'
  <2>1. /\ UNCHANGED <<told, skipped, observers>> /\ pc[t] = "second" /\ LocksHeld(t)
        /\ \A u \in Threads \ {t} :
             pc'[u] = pc[u] /\ call'[u] = call[u] /\ at'[u] = at[u] /\ half'[u] = half[u]
    BY <1>0, <1>7, ForgetTyped DEF SecondHalf, Released, Goto, localVars, LocksInv
  <2>2. CASE call[t].op = "snapshot"
    <3>1. UNCHANGED <<data, silent>>
      BY <1>7, <2>2 DEF SecondHalf, Assigned
    <3>2. CASE call[t].within
      <4>1. pc'[t] = "next" /\ UNCHANGED <<call, at, half>>
        BY <1>0, <1>7, <2>2, <3>2 DEF SecondHalf, Released, Goto, localVars
      <4>2. \A u \in Threads : TellsAll(u) => TellsAll(u)'
        BY <2>1, <2>2, <4>1
      <4>3. \A u \in Threads, o \in 1..observers : Tells(u, o) => Tells(u, o)'
        BY <2>1, <2>2, <4>1
      <4>4. \A u \in Threads : pc'[u] = "told" => pc[u] = "told" /\ half'[u] = half[u]
        BY <2>1, <4>1
      <4> HIDE DEF Tells, TellsAll
      <4> QED
        BY <2>1, <3>1, <4>2, <4>3, <4>4, Steady
    <3>3. CASE ~call[t].within
      <4>1. pc'[t] = "idle"
        BY <1>0, <1>7, <2>2, <3>3 DEF SecondHalf, Released, Goto
      <4> QED
        BY <1>0, <2>1, <2>2, <3>1, <3>3, <4>1, Steady
    <3> QED
      BY <3>2, <3>3
  <2>3. CASE call[t].op = "update"
    <3>1. pc'[t] = "notify"
      BY <1>0, <1>7, <2>1, <2>3 DEF SecondHalf, Released, Goto, LocksHeld
    <3> QED
      BY <2>1, <3>1 DEF Reported
  <2>4. CASE call[t].op = "set"
    <3>1. silent'
      BY <1>7, <2>4 DEF SecondHalf, Assigned
    <3> QED
      BY <2>1, <3>1 DEF Reported
  <2> QED
    BY <1>0, <2>1, <2>2, <2>3, <2>4 DEF CallRecords, Ops, LocksHeld
<1>8. ASSUME NEW t \in Threads, Notify(t) PROVE Reported'
  <2>1. /\ UNCHANGED <<told, data, silent, skipped, observers>> /\ pc[t] = "notify" /\ obsLock = Free
    BY <1>8 DEF Notify, histVars
  <2>2. \A u \in Threads \ {t} :
          pc'[u] = pc[u] /\ call'[u] = call[u] /\ at'[u] = at[u] /\ half'[u] = half[u]
    BY <1>0, <1>8, ForgetTyped DEF Notify, Goto
  <2>3. \A u \in Threads : pc'[u] # "told"
    <3>1. pc'[t] \in {"idle", "tell"}
      BY <1>0, <1>8 DEF Notify, Goto
    <3>2. \A u \in Threads \ {t} : pc[u] # "told"
      BY <2>1, OneNotifies DEF Notifying
    <3> QED
      BY <2>2, <3>1, <3>2
  <2>4. ASSUME NEW o \in 1..observers PROVE Tells(t, o)'
    <3>1. observers # 0
      BY <1>0
    <3>2. pc'[t] = "tell" /\ at'[t] = 1
      BY <1>0, <1>8, <3>1 DEF Notify, Goto
    <3> QED
      BY <3>2
  <2> HIDE DEF Tells, TellsAll
  <2> QED
    BY <2>1, <2>3, <2>4 DEF Reported
<1>9. ASSUME NEW t \in Threads, Tell(t) PROVE Reported'
  <2>1. /\ UNCHANGED <<told, data, silent, skipped, observers, call, at>>
        /\ pc[t] = "tell" /\ pc'[t] = "told" /\ half'[t] = data[1]
        /\ \A u \in Threads \ {t} : pc'[u] = pc[u] /\ half'[u] = half[u]
    BY <1>0, <1>9 DEF Tell, Goto, histVars
  <2>2. \A u \in Threads : TellsAll(u) => TellsAll(u)'
    BY <2>1
  <2>3. \A u \in Threads, o \in 1..observers : Tells(u, o) => Tells(u, o)'
    BY <2>1
  <2> HIDE DEF Tells, TellsAll
  <2>4. ASSUME NEW o \in 1..observers
        PROVE  \/ told'[o] \in {Never, data'} \/ silent' \/ o \in skipped'
               \/ \E u \in Threads : Tells(u, o)'
    BY <2>1, <2>3 DEF Reported
  <2>5. ASSUME NEW u \in Threads, pc'[u] = "told"
        PROVE  half'[u] = data'[1] \/ silent' \/ \E w \in Threads : TellsAll(w)'
    BY <2>1, <2>2, <2>5 DEF Reported
  <2> QED
    BY <2>1, <2>4, <2>5 DEF Reported
<1>10. ASSUME NEW t \in Threads, Told(t) PROVE Reported'
  <2>1. /\ UNCHANGED <<data, silent, observers, at>> /\ pc[t] = "told"
        /\ told' = [told EXCEPT ![at[t]] = <<half[t], data[2]>>]
        /\ skipped' = skipped \ {at[t]}
    BY <1>10 DEF Told
  <2>2. LocksHeld(t) /\ obsLock = t /\ at[t] \in 1..observers /\ at[t] \in 1..MaxObservers
    BY <1>0, <2>1, FrameworkAssumption, SMTT(30) DEF LocksInv, LocksHeld, Notifying
  <2>3. /\ pc'[t] \in {"next", "lock"}
        /\ pc'[t] = "lock" => call'[t].within /\ call'[t].op = "snapshot"
    BY <1>0, <1>10, TurnedTyped, ZenonT(60) DEF Told, Asks, Goto, Ops
  <2>4. \A u \in Threads \ {t} : pc'[u] = pc[u] /\ call'[u] = call[u] /\ pc'[u] # "told"
    <3>1. \A u \in Threads \ {t} : pc[u] # "told"
      BY <2>2, OneNotifies DEF Notifying
    <3>2. \A u \in Threads \ {t} : pc'[u] = pc[u]
      BY <1>0, <1>10 DEF Told, Asks, Goto
    <3>3. \A u \in Threads \ {t} : call'[u] = call[u]
      BY <1>0, <1>10, TurnedTyped DEF Told, Asks, Ops
    <3> QED
      BY <3>1, <3>2, <3>3
  <2>5. \A u \in Threads : TellsAll(u) => TellsAll(u)'
    BY <2>1, <2>4
  <2>6. \A u \in Threads, o \in 1..observers \ {at[t]} : Tells(u, o) => Tells(u, o)'
    <3>1. ASSUME NEW u \in Threads \ {t}, NEW o \in 1..observers, Tells(u, o) PROVE Tells(u, o)'
      BY <2>1, <2>4, <3>1
    <3>2. ASSUME NEW o \in 1..observers \ {at[t]}, Tells(t, o) PROVE Tells(t, o)'
      <4>1. at[t] < o
        BY <1>0, <2>1, <2>2, <3>2
      <4> QED
        BY <2>1, <2>3, <4>1
    <3> HIDE DEF Tells
    <3> QED
      BY <3>1, <3>2
  <2> HIDE DEF Tells, TellsAll
  <2>7. ASSUME NEW o \in 1..observers \ {at[t]}
        PROVE  \/ told'[o] \in {Never, data'} \/ silent' \/ o \in skipped'
               \/ \E u \in Threads : Tells(u, o)'
    <3>1. told'[o] = told[o]
      BY <2>1, <2>2, <2>7 DEF TypeOK
    <3> QED
      BY <2>1, <2>6, <3>1 DEF Reported
  <2>8. told'[at[t]] = data \/ silent \/ \E u \in Threads : Tells(u, at[t])'
    <3>1. CASE half[t] = data[1]
      <4>1. told'[at[t]] = <<data[1], data[2]>>
        BY <2>1, <2>2, <3>1 DEF TypeOK
      <4>2. data = <<data[1], data[2]>>
        BY DEF TypeOK, Data
      <4> QED
        BY <4>1, <4>2
    <3>2. CASE \E u \in Threads : TellsAll(u)
      BY <2>5, <3>2 DEF Tells
    <3> QED
      BY <2>1, <3>1, <3>2 DEF Reported
  <2>9. \A o \in 1..MaxObservers : o > observers' => told'[o] = Never
    BY <1>0, <2>1, <2>2, FrameworkAssumption DEF TypeOK, Reported
  <2> QED
    BY <2>1, <2>3, <2>4, <2>7, <2>8, <2>9 DEF Reported
<1>11. ASSUME NEW t \in Threads, NextObserver(t) PROVE Reported'
  <2>1. /\ UNCHANGED <<told, data, silent, skipped, observers>> /\ pc[t] = "next"
    BY <1>11 DEF NextObserver, histVars
  <2>2. \A u \in Threads \ {t} :
          pc'[u] = pc[u] /\ call'[u] = call[u] /\ at'[u] = at[u] /\ half'[u] = half[u]
    <3>1. CASE at[t] = observers
      BY <1>0, <1>11, <3>1, ForgetTyped DEF NextObserver, Goto
    <3>2. CASE at[t] # observers
      BY <1>0, <1>11, <3>2 DEF NextObserver, Goto
    <3> QED
      BY <3>1, <3>2
  <2>3. CASE at[t] = observers
    <3>1. pc'[t] = "idle"
      BY <1>0, <1>11, <2>3 DEF NextObserver, Goto
    <3> QED
      BY <1>0, <2>1, <2>2, <2>3, <3>1, Steady
  <2>4. CASE at[t] # observers
    <3>1. pc'[t] = "tell" /\ at'[t] = at[t] + 1
      BY <1>0, <1>11, <2>4 DEF NextObserver, Goto
    <3>2. \A o \in 1..observers : Tells(t, o) => Tells(t, o)'
      BY <1>0, <2>1, <3>1
    <3>3. \A u \in Threads \ {t}, o \in 1..observers : Tells(u, o) => Tells(u, o)'
      BY <2>1, <2>2
    <3>4. \A u \in Threads : TellsAll(u) => TellsAll(u)'
      BY <2>1, <2>2
    <3> HIDE DEF Tells, TellsAll
    <3> QED
      BY <2>1, <2>2, <3>1, <3>2, <3>3, <3>4, Steady
  <2> QED
    BY <2>3, <2>4
<1>12. ASSUME NEW t \in Threads, ObserverThrows(t) PROVE Reported'
  <2>1. /\ UNCHANGED <<told, data, silent, observers>> /\ pc[t] \in {"told", "next"}
        /\ skipped' = skipped \union {o \in at[t]..observers : o = at[t] => pc[t] = "told"}
    BY <1>12 DEF ObserverThrows
  <2>2. pc'[t] = "idle" /\ at[t] \in 1..observers
    BY <1>0, <1>12, SMTT(30) DEF ObserverThrows, Goto, LocksInv, LocksHeld, Notifying
  <2>3. \A u \in Threads \ {t} :
          pc'[u] = pc[u] /\ call'[u] = call[u] /\ at'[u] = at[u] /\ half'[u] = half[u]
    BY <1>0, <1>12, ForgetTyped DEF ObserverThrows, Goto
  <2>4. \A u \in Threads : TellsAll(u) => TellsAll(u)'
    BY <2>1, <2>3
  <2>5. \A u \in Threads \ {t}, o \in 1..observers : Tells(u, o) => Tells(u, o)'
    BY <2>3
  <2>6. \A o \in 1..observers : Tells(t, o) => o \in skipped'
    <3>1. ASSUME NEW o \in 1..observers, Tells(t, o) PROVE o \in skipped'
      <4>1. o \in at[t]..observers /\ (o = at[t] => pc[t] = "told")
        BY <1>0, <2>1, <2>2, <3>1
      <4> QED
        BY <2>1, <4>1
    <3> QED
      BY <3>1
  <2> HIDE DEF Tells, TellsAll
  <2>7. ASSUME NEW o \in 1..observers
        PROVE  \/ told'[o] \in {Never, data'} \/ silent' \/ o \in skipped'
               \/ \E u \in Threads : Tells(u, o)'
    BY <2>1, <2>5, <2>6 DEF Reported
  <2>8. ASSUME NEW u \in Threads, pc'[u] = "told"
        PROVE  half'[u] = data'[1] \/ silent' \/ \E w \in Threads : TellsAll(w)'
    <3>1. u # t /\ pc[u] = "told" /\ half'[u] = half[u]
      BY <2>2, <2>3, <2>8
    <3> QED
      BY <2>1, <2>4, <3>1 DEF Reported
  <2> QED
    BY <2>1, <2>7, <2>8 DEF Reported
<1>13. ASSUME UNCHANGED vars PROVE Reported'
  <2>1. UNCHANGED <<told, data, silent, skipped, observers, pc, call, at, half>>
    BY <1>13 DEF vars, localVars, histVars
  <2> QED
    BY <2>1, Steady
<1> HIDE DEF Tells, TellsAll, Inside
<1>14. CASE Next
  <2>1. \A t \in Threads, op \in Ops \ {"none"}, v \in Values : Call(t, op, v) => Reported'
    BY <1>4
  <2>2. \A t \in Threads :
          /\ LockModel(t) => Reported'
          /\ FirstHalf(t) => Reported'
          /\ SecondHalf(t) => Reported'
          /\ Notify(t) => Reported'
          /\ Tell(t) => Reported'
          /\ Told(t) => Reported'
          /\ NextObserver(t) => Reported'
          /\ ObserverThrows(t) => Reported'
    BY <1>5, <1>6, <1>7, <1>8, <1>9, <1>10, <1>11, <1>12
  <2> QED
    BY <1>1, <1>2, <1>3, <1>14, <2>1, <2>2, NextCases
<1> QED
  BY <1>13, <1>14

LEMMA RestoredStep == TypeOK /\ Restored /\ [Next]_vars => Restored'
<1> SUFFICES ASSUME TypeOK, Restored, [Next]_vars PROVE Restored'
  OBVIOUS
<1> USE DEF Restored
<1>0. pc \in [Threads -> Places] /\ "main" \in Threads
  BY DEF TypeOK, Threads
<1>1. ASSUME SetupTerminal \/ PhaseReturns \/ PhaseThrows \/ PhaseEscapes PROVE Restored'
  BY <1>1 DEF SetupTerminal, PhaseReturns, PhaseThrows, PhaseEscapes, CleanupTerminal, InVirtual
<1>2. ASSUME Start \/ RunReturns \/ RunThrows PROVE Restored'
  BY <1>2 DEF Start, RunReturns, RunThrows, InVirtual, appVars
<1>3. ASSUME Stop \/ Join PROVE Restored'
  BY <1>0, <1>3 DEF Stop, Join, InVirtual, Goto, appVars
<1>4. ASSUME AddObserver PROVE Restored'
  BY <1>4 DEF AddObserver, appVars

(* A step of the model leaves alone what run and the controller know, and  *)
(* is none of the main thread's when the main thread is out of run.        *)
<1>5. ASSUME UNCHANGED <<appVars, worker>>,
             app \in {"ended", "destroyed"} => pc'["main"] = pc["main"]
      PROVE  Restored'
  BY <1>5 DEF appVars
<1>6. ASSUME NEW t \in Threads, NEW op \in Ops \ {"none"}, NEW v \in Values, Call(t, op, v)
      PROVE  Restored'
  <2>1. app \in {"ended", "destroyed"} => t # "main"
    BY <1>6 DEF Call, MayCall
  <2> QED
    BY <1>0, <1>5, <1>6, <2>1 DEF Call, Goto
<1>7. ASSUME NEW t \in Threads, Steps(t) PROVE Restored'
  <2>1. pc[t] \notin {"idle", "join"}
    BY <1>7 DEF Steps, LockModel, FirstHalf, SecondHalf, Notify, Tell, Told, NextObserver,
                 ObserverThrows
  <2>2. app \in {"ended", "destroyed"} => t # "main"
    BY <2>1
  <2>3. /\ UNCHANGED <<appVars, worker>>
        /\ \A u \in Threads \ {t} : pc'[u] = pc[u]
    BY <1>0, <1>7 DEF Steps, LockModel, FirstHalf, SecondHalf, Released, Notify, Tell, Told, Asks,
                     NextObserver, ObserverThrows, Goto
  <2> QED
    BY <1>0, <1>5, <2>2, <2>3
<1>8. ASSUME UNCHANGED vars PROVE Restored'
  BY <1>5, <1>8 DEF vars
<1> HIDE DEF Restored
<1>9. CASE Next
  <2>1. \A t \in Threads, op \in Ops \ {"none"}, v \in Values : Call(t, op, v) => Restored'
    BY <1>6
  <2>2. \A t \in Threads :
          /\ LockModel(t) => Restored'
          /\ FirstHalf(t) => Restored'
          /\ SecondHalf(t) => Restored'
          /\ Notify(t) => Restored'
          /\ Tell(t) => Restored'
          /\ Told(t) => Restored'
          /\ NextObserver(t) => Restored'
          /\ ObserverThrows(t) => Restored'
    BY <1>7 DEF Steps
  <2> QED
    BY <1>1, <1>2, <1>3, <1>4, <1>9, <2>1, <2>2, NextCases
<1> QED
  BY <1>8, <1>9

-----------------------------------------------------------------------------
(* Theorems.                                                               *)

(* The inductive invariant: which thread holds which mutex follows from    *)
(* where the threads are, the data an observer knows is the model's or     *)
(* will be told, and the terminal is owed back by run.                     *)
THEOREM FrameworkInvariant == Spec => []FrameworkInv
<1>1. FrameworkInv /\ [Next]_vars => FrameworkInv'
  BY TypeStep, LocksStep, ReportedStep, RestoredStep DEF FrameworkInv
<1> QED
  BY <1>1, InvInit, PTL DEF Spec

(* A thread inside updateData, setData or getDataSnapshot is alone there,  *)
(* and so is a thread inside notifyObservers: the two locks of base_model  *)
(* and observer exclude.                                                   *)
THEOREM MutualExclusion ==
  Spec => [](\A t, u \in Threads : t # u =>
               /\ ~(pc[t] \in {"first", "second"} /\ pc[u] \in {"first", "second"})
               /\ ~(Notifying(t) /\ Notifying(u)))
<1>1. FrameworkInv =>
        \A t, u \in Threads : t # u =>
          /\ ~(pc[t] \in {"first", "second"} /\ pc[u] \in {"first", "second"})
          /\ ~(Notifying(t) /\ Notifying(u))
  <2> SUFFICES ASSUME FrameworkInv, NEW t \in Threads, NEW u \in Threads, t # u
               PROVE  /\ ~(pc[t] \in {"first", "second"} /\ pc[u] \in {"first", "second"})
                      /\ ~(Notifying(t) /\ Notifying(u))
    OBVIOUS
  <2>1. LocksHeld(t) /\ LocksHeld(u)
    BY DEF FrameworkInv, LocksInv
  <2> QED
    BY <2>1 DEF LocksHeld
<1> QED
  BY <1>1, FrameworkInvariant, PTL

(* ToldCurrent, of any number of observers and any data: the update that   *)
(* stores last is told last or told by the other's notification, because   *)
(* an observer reads the model's data and not the argument of the call.    *)
(* The only observers left with old data are those a notification did not  *)
(* come to, because one before them threw.                                 *)
THEOREM ToldCurrentHolds == Spec => []ToldCurrent
<1>1. FrameworkInv => ToldCurrent
  <2> SUFFICES ASSUME FrameworkInv, \A t \in Threads : pc[t] = "idle", ~silent,
                      NEW o \in 1..observers
               PROVE  told[o] \in {Never, data} \/ o \in skipped
    BY DEF ToldCurrent
  <2>1. \A t \in Threads : ~Tells(t, o)
    BY DEF Tells, TellsAll, Inside
  <2> QED
    BY <2>1 DEF FrameworkInv, Reported
<1> QED
  BY <1>1, FrameworkInvariant, PTL

(* NothingLeftBehind: run gives the terminal back when it returns or       *)
(* catches what was thrown, after any sequence of calls and in any phase,  *)
(* and the destructor leaves no worker, whatever ended run.                *)
THEOREM NothingLeftBehindHolds == Spec => []NothingLeftBehind
<1>1. FrameworkInv => NothingLeftBehind
  BY DEF FrameworkInv, Restored, NothingLeftBehind
<1> QED
  BY <1>1, FrameworkInvariant, PTL
=============================================================================
