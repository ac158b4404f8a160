------------------------- MODULE PoolRegistryProofs -------------------------
(***************************************************************************)
(* Theorems about PoolRegistry and the MaintenanceScheduler under it, for  *)
(* every set of pools, callers, targets and every interval.                *)
(***************************************************************************)
EXTENDS PoolRegistry, WellFoundedInduction, TLAPS

USE SchedulerAssumption

Working == worker \in {"loop", "scan", "asleep", "pass"}
Starting == {c \in Callers : apc[c] \in {"notifyStart", "start"}}

\* A caller inside a constructor has a pool of its own, which is held, and on the
\* list from add()'s critical section on; nothing is listed before it is made.
MakerInv ==
  /\ \A c \in Callers : apc[c] = "out" <=> making[c] = None
  /\ \A c \in Callers : making[c] # None => owner[making[c]] = "held"
  /\ \A c, d \in Callers : making[c] # None /\ making[c] = making[d] => c = d
  /\ \A c \in Callers :
       apc[c] \in {"notify", "notifyStart", "start", "assign"} => making[c] \in listed
  /\ \A p \in listed : owner[p] # "unborn"

\* `running` says that a worker works or is being started, and a list that is not
\* empty needs one; whoever moves a new thread into `worker` has it working.
WorkerInv ==
  /\ ~stop => (running <=> (Working \/ Starting # {}))
  /\ ~stop /\ listed # {} => running
  /\ stop => \A c \in Callers : apc[c] \notin {"notifyStart", "start", "assign"}
  /\ \A c \in Callers : apc[c] = "assign" => Working
  /\ OneStarter
  /\ worker # "pass" => due = {}

\* The registry's mutex, and a table whose pools stay as they are published.
TableInv ==
  /\ \A c \in Callers : want[c] # NoWant =>
       rlock = c /\ making[c] # None /\ target[making[c]] # None
  /\ \A k \in Keys : table[k] # None =>
       /\ owner[table[k]] = "held" /\ target[table[k]] # None
       /\ \A c \in Callers : making[c] # table[k]
  /\ \A c \in Callers : lease[c] # None => lease[c].pool = table[KeyOf[lease[c].s]]

Inv == TypeOK /\ MakerInv /\ WorkerInv /\ SleepsInTime /\ TableInv
-----------------------------------------------------------------------------
(* Steps as the scheduler sees them *)

\* emplace() took the new pool, or its key was taken and the pool goes.
Finishes(c) ==
  /\ apc[c] = "back"
  /\ \/ UNCHANGED <<owner, left>>
     \/ /\ owner' = [owner EXCEPT ![making[c]] = "dropped"]
        /\ left' = [left EXCEPT ![making[c]] = 0]
  /\ apc' = [apc EXCEPT ![c] = "out"] /\ making' = [making EXCEPT ![c] = None]
  /\ UNCHANGED <<listed, due, running, stop, worker, sleep, handle, leaving>>

CallerSteps(c) ==
  AddNotifies(c) \/ AddStarts(c) \/ AddAssigns(c) \/ CreateReturns(c) \/ Finishes(c)

SchedNext ==
  \/ \E c \in Callers : CallerSteps(c) \/ \E p \in Pools : Create(c, p)
  \/ \E p \in Pools : Drop(p)
  \/ Loop \/ Scan \/ TimesOut \/ PassEnds \/ WakesSpuriously \/ Tick
  \/ Leave \/ LeaveNotifies \/ LeaveJoins
  \/ UNCHANGED schedVars

\* Every step of the registry is one of the scheduler's or leaves it alone.
LEMMA SchedSteps == [Next]_vars => SchedNext
  <1> SUFFICES ASSUME [Next]_vars PROVE SchedNext
    OBVIOUS
  <1>1. ASSUME NEW c \in Callers, CallerStep(c) PROVE SchedNext
    <2>1. CASE AddStep(c) \/ OwnReturns(c)
      BY <2>1, Zenon DEF AddStep, OwnReturns, SchedNext, CallerSteps
    <2>2. CASE Publish(c)
      <3>1. Finishes(c)
        BY <2>2 DEF Publish, Finishes
      <3> QED BY <3>1, Zenon DEF SchedNext, CallerSteps
    <2> QED BY <1>1, <2>1, <2>2, Zenon DEF CallerStep
  <1>2. ASSUME NEW c \in Callers, Call(c) PROVE SchedNext
    <2>1. UNCHANGED schedVars \/ \E p \in Pools : Create(c, p)
      BY <1>2, Zenon DEF Call, AcquireFound, AcquireMakes, Configure, schedVars
    <2> QED BY <2>1, Zenon DEF SchedNext
  <1>3. ASSUME NEW c \in Callers, NEW p \in Pools, MakeOwn(c, p) PROVE SchedNext
    BY <1>3, Zenon DEF MakeOwn, SchedNext
  <1>4. ASSUME NEW p \in Pools, DropOwn(p) PROVE SchedNext
    BY <1>4, Zenon DEF DropOwn, SchedNext
  <1>5. CASE WorkerStep \/ WakesSpuriously \/ Tick \/ Leave \/ LeaveStep
    BY <1>5, Zenon DEF WorkerStep, LeaveStep, SchedNext
  <1>6. CASE UNCHANGED vars
    BY <1>6 DEF vars, schedVars, SchedNext
  <1> QED BY <1>1, <1>2, <1>3, <1>4, <1>5, <1>6, Zenon DEF Next

\* Pools still held have an earliest time.
LEMMA EarliestBounds ==
  ASSUME SchedTypeOK
  PROVE  Earliest \in Nat /\ \A p \in Held : Earliest <= left[p]
  <1>1. CASE Held = {}
    BY <1>1 DEF Earliest
  <1>2. CASE Held # {}
    <2> DEFINE T == {left[p] : p \in Held}
    <2>1. T \subseteq Nat /\ T # {}
      BY <1>2 DEF Held, SchedTypeOK
    <2>2. \E x \in T : \A y \in T : ~(<<y, x>> \in OpToRel(<, Nat))
      BY <2>1, NatLessThanWellFounded, WFMin, Zenon
    <2>3. PICK x \in T : \A y \in T : ~(<<y, x>> \in OpToRel(<, Nat))
      BY <2>2, Zenon
    <2>4. \A y \in T : x <= y
      <3> SUFFICES ASSUME NEW y \in T, y < x PROVE FALSE
        BY <2>1
      <3>1. <<y, x>> \in Nat \X Nat /\ <<y, x>>[1] < <<y, x>>[2]
        BY <2>1
      <3>2. <<y, x>> \in OpToRel(<, Nat)
        BY <3>1, Zenon DEF OpToRel
      <3> QED BY <2>3, <3>2, Zenon
    <2>5. Min(T) \in T /\ \A y \in T : Min(T) <= y
      BY <2>4 DEF Min
    <2> QED BY <1>2, <2>1, <2>5 DEF Earliest
  <1> QED BY <1>1, <1>2
-----------------------------------------------------------------------------
(* The invariant holds at first, and every step keeps it *)

LEMMA InitInv == Init => Inv
  <1> SUFFICES ASSUME Init PROVE Inv
    OBVIOUS
  <1> USE DEF Init, SchedInit
  <1>1. TypeOK
    <2>1. running \in BOOLEAN /\ stop \in BOOLEAN /\ handle \in BOOLEAN
      BY Zenon
    <2>2. left \in [Pools -> Nat] /\ \A p \in Pools : left[p] <= Interval[p]
      <3>1. \A p \in Pools : left[p] = 0 /\ Interval[p] \in Nat
        OBVIOUS
      <3> QED BY <3>1
    <2>3. SchedTypeOK
      BY <2>1, <2>2 DEF SchedTypeOK
    <2> QED BY <2>3 DEF TypeOK
  <1>2. MakerInv
    BY DEF MakerInv
  <1>3. WorkerInv
    <2>1. ~Working /\ Starting = {}
      BY DEF Working, Starting
    <2> QED BY <2>1 DEF WorkerInv, OneStarter
  <1>4. SleepsInTime
    BY DEF SleepsInTime
  <1>5. TableInv
    BY DEF TableInv
  <1> QED BY <1>1, <1>2, <1>3, <1>4, <1>5 DEF Inv

LEMMA SchedTypeStep == SchedTypeOK /\ MakerInv /\ SchedNext => SchedTypeOK'
  <1> SUFFICES ASSUME SchedTypeOK, MakerInv, SchedNext PROVE SchedTypeOK'
    OBVIOUS
  <1> USE DEF SchedTypeOK
  <1>1. ASSUME NEW c \in Callers, NEW p \in Pools, Create(c, p) PROVE SchedTypeOK'
    <2>1. CASE Interval[p] = 0
      BY <1>1, <2>1 DEF Create
    <2>2. CASE Interval[p] # 0
      <3>1. running' \in BOOLEAN
        BY <1>1, <2>2, Zenon DEF Create
      <3>2. apc' \in [Callers -> {"out", "notify", "notifyStart", "start", "assign", "back"}]
        BY <1>1, <2>2 DEF Create
      <3> QED BY <1>1, <2>2, <3>1, <3>2 DEF Create
    <2> QED BY <2>1, <2>2
  <1>2. ASSUME NEW c \in Callers, AddNotifies(c) PROVE SchedTypeOK'
    BY <1>2 DEF AddNotifies, Notify
  <1>3. ASSUME NEW c \in Callers, AddStarts(c) \/ AddAssigns(c) \/ CreateReturns(c)
        PROVE  SchedTypeOK'
    BY <1>3, Zenon DEF AddStarts, AddAssigns, CreateReturns
  <1>4. ASSUME NEW c \in Callers, Finishes(c) PROVE SchedTypeOK'
    <2>1. making[c] \in Pools
      BY <1>4 DEF Finishes, MakerInv
    <2> QED BY <1>4, <2>1 DEF Finishes
  <1>5. ASSUME NEW p \in Pools, Drop(p) PROVE SchedTypeOK'
    BY <1>5 DEF Drop
  <1>6. CASE Loop
    BY <1>6, Zenon DEF Loop, Sweep, Held
  <1>7. CASE Scan
    BY <1>7, EarliestBounds DEF Scan, Held
  <1>8. CASE TimesOut \/ WakesSpuriously
    BY <1>8 DEF TimesOut, WakesSpuriously
  <1>9. CASE PassEnds
    <2>1. running' \in BOOLEAN
      BY <1>9, Zenon DEF PassEnds, Sweep
    <2>2. left' \in [Pools -> Nat] /\ \A p \in Pools : left'[p] <= Interval[p]
      BY <1>9 DEF PassEnds
    <2>3. listed' \in SUBSET Pools /\ due' \in SUBSET Pools
             /\ worker' \in {"none", "loop", "scan", "asleep", "pass", "ended"}
      BY <1>9 DEF PassEnds, Sweep, Held
    <2> QED BY <1>9, <2>1, <2>2, <2>3 DEF PassEnds
  <1>10. CASE Tick
    <2>1. \A n \in Nat : Down(n) \in Nat /\ Down(n) <= n
      BY DEF Down
    <2> QED BY <1>10, <2>1 DEF Tick
  <1>11. CASE Leave \/ LeaveNotifies \/ LeaveJoins
    <2>1. stop' \in BOOLEAN /\ handle' \in BOOLEAN
      BY <1>11, Zenon DEF Leave, LeaveNotifies, LeaveJoins
    <2>2. leaving' \in {"no", "notify", "join", "done"}
      BY <1>11 DEF Leave, LeaveNotifies, LeaveJoins
    <2>3. UNCHANGED <<worker, sleep>> \/ (worker' = "loop" /\ sleep' = 0)
      BY <1>11, Zenon DEF Leave, LeaveNotifies, LeaveJoins, Notify
    <2>4. UNCHANGED <<owner, listed, left, due, running, apc, making>>
      BY <1>11, Zenon DEF Leave, LeaveNotifies, LeaveJoins
    <2> QED BY <2>1, <2>2, <2>3, <2>4
  <1>12. CASE UNCHANGED schedVars
    BY <1>12 DEF schedVars
  <1> QED BY <1>1, <1>2, <1>3, <1>4, <1>5, <1>6, <1>7, <1>8, <1>9, <1>10, <1>11, <1>12, Zenon
          DEF SchedNext, CallerSteps

LEMMA MakerStep == SchedTypeOK /\ MakerInv /\ SchedNext => MakerInv'
  <1> SUFFICES ASSUME SchedTypeOK, MakerInv, SchedNext PROVE MakerInv'
    OBVIOUS
  <1> USE DEF SchedTypeOK, MakerInv
  <1>1. ASSUME NEW c \in Callers, NEW p \in Pools, Create(c, p) PROVE MakerInv'
    BY <1>1 DEF Create
  <1>2. ASSUME NEW c \in Callers, AddNotifies(c) PROVE MakerInv'
    BY <1>2 DEF AddNotifies, Notify
  <1>3. ASSUME NEW c \in Callers, AddStarts(c) \/ AddAssigns(c) \/ CreateReturns(c)
        PROVE  MakerInv'
    BY <1>3 DEF AddStarts, AddAssigns, CreateReturns
  <1>4. ASSUME NEW c \in Callers, Finishes(c) PROVE MakerInv'
    BY <1>4 DEF Finishes
  <1>5. ASSUME NEW p \in Pools, Drop(p) PROVE MakerInv'
    BY <1>5 DEF Drop
  <1>6. CASE Loop
    BY <1>6 DEF Loop, Sweep, Held
  <1>7. CASE PassEnds
    BY <1>7 DEF PassEnds, Sweep, Held
  <1>8. CASE UNCHANGED <<owner, listed, apc, making>>
    BY <1>8
  <1>9. CASE Scan \/ TimesOut \/ WakesSpuriously \/ Tick
             \/ Leave \/ LeaveNotifies \/ LeaveJoins \/ UNCHANGED schedVars
    BY <1>8, <1>9, Zenon DEF Scan, TimesOut, WakesSpuriously, Tick, Leave, LeaveNotifies,
       LeaveJoins, schedVars
  <1> QED BY <1>1, <1>2, <1>3, <1>4, <1>5, <1>6, <1>7, <1>9, Zenon DEF SchedNext, CallerSteps

LEMMA WorkerInvStep == SchedTypeOK /\ MakerInv /\ WorkerInv /\ SchedNext => WorkerInv'
  <1> SUFFICES ASSUME SchedTypeOK, MakerInv, WorkerInv, SchedNext PROVE WorkerInv'
    OBVIOUS
  <1> USE DEF SchedTypeOK, WorkerInv, OneStarter, Working, Starting
  <1>1. ASSUME NEW c \in Callers, NEW p \in Pools, Create(c, p) PROVE WorkerInv'
    <2>1. CASE Interval[p] = 0
      BY <1>1, <2>1 DEF Create
    <2>2. CASE Interval[p] # 0 /\ ~running /\ ~stop
      <3>1. ~Working /\ Starting = {}
        BY <2>2
      <3>2. \A d \in Callers : apc[d] \notin {"notifyStart", "start", "assign"}
        BY <3>1
      <3>3. /\ apc' = [apc EXCEPT ![c] = "notifyStart"] /\ running'
            /\ UNCHANGED <<stop, worker, due, handle>>
        BY <1>1, <2>2, Zenon DEF Create
      <3>4. c \in Starting'
        BY <3>3
      <3>5. worker \in {"none", "ended"}
        BY <3>1
      <3>6. \A d \in Callers : apc'[d] # "assign"
                /\ (apc'[d] \in {"notifyStart", "start"} => d = c)
        BY <3>2, <3>3
      <3>7. OneStarter'
        BY <3>3, <3>5, <3>6
      <3> QED BY <2>2, <3>3, <3>4, <3>6, <3>7
    <2>3. CASE Interval[p] # 0 /\ (running \/ stop)
      <3>1. /\ apc' = [apc EXCEPT ![c] = "notify"] /\ apc[c] = "out"
            /\ (~stop => running') /\ UNCHANGED <<stop, worker, due, handle>>
        BY <1>1, <2>3 DEF Create
      <3>2. Starting' = Starting
        BY <3>1
      <3> QED BY <2>3, <3>1, <3>2
    <2> QED BY <2>1, <2>2, <2>3
  <1>2. ASSUME NEW c \in Callers, AddNotifies(c) PROVE WorkerInv'
    <2>1. /\ Working' = Working /\ Starting' = Starting
          /\ worker' = worker \/ (worker = "asleep" /\ worker' = "loop")
      BY <1>2 DEF AddNotifies, Notify
    <2> QED BY <1>2, <2>1 DEF AddNotifies
  <1>3. ASSUME NEW c \in Callers, AddStarts(c) PROVE WorkerInv'
    <2>1. ~stop /\ running /\ worker \in {"none", "ended"}
      BY <1>3 DEF AddStarts
    <2> QED BY <1>3, <2>1 DEF AddStarts
  <1>4. ASSUME NEW c \in Callers, AddAssigns(c) PROVE WorkerInv'
    <2>1. Starting' = Starting /\ \A d \in Callers : apc'[d] # "assign"
      BY <1>4 DEF AddAssigns
    <2> QED BY <1>4, <2>1 DEF AddAssigns
  <1>5. ASSUME NEW c \in Callers, CreateReturns(c) \/ Finishes(c) PROVE WorkerInv'
    <2>1. /\ apc[c] = "back" /\ apc' = [apc EXCEPT ![c] = "out"]
          /\ UNCHANGED <<listed, due, running, stop, worker, handle>>
      BY <1>5 DEF CreateReturns, Finishes
    <2>2. Starting' = Starting
      BY <2>1
    <2> QED BY <2>1, <2>2
  <1>6. CASE Loop \/ PassEnds
    <2>1. Sweep /\ worker \in {"loop", "pass"} /\ UNCHANGED <<stop, handle, apc>>
      BY <1>6 DEF Loop, PassEnds
    <2>2. Starting = {} /\ Starting' = {}
      BY <2>1
    <2>3. CASE stop
      BY <2>1, <2>2, <2>3 DEF Sweep
    <2>4. CASE ~stop /\ Held = {}
      <3>1. \A c \in Callers : apc[c] # "assign"
        BY <2>4 DEF MakerInv, Held
      <3> QED BY <2>1, <2>2, <2>4, <3>1 DEF Sweep
    <2>5. CASE ~stop /\ Held # {}
      BY <2>1, <2>2, <2>5 DEF Sweep
    <2> QED BY <2>3, <2>4, <2>5
  <1>7. CASE Scan
    BY <1>7 DEF Scan
  <1>8. CASE TimesOut \/ WakesSpuriously
    BY <1>8 DEF TimesOut, WakesSpuriously
  <1>9. CASE Leave
    BY <1>9 DEF Leave
  <1>10. CASE LeaveNotifies
    BY <1>10 DEF LeaveNotifies, Notify
  <1>11. CASE LeaveJoins
    BY <1>11 DEF LeaveJoins
  <1>12. CASE UNCHANGED <<listed, due, running, stop, worker, handle, apc>>
    BY <1>12
  <1>13. ASSUME NEW p \in Pools, Drop(p) PROVE WorkerInv'
    BY <1>12, <1>13 DEF Drop
  <1>14. CASE Tick \/ UNCHANGED schedVars
    BY <1>12, <1>14 DEF Tick, schedVars
  <1> QED BY <1>1, <1>2, <1>3, <1>4, <1>5, <1>6, <1>7, <1>8, <1>9, <1>10, <1>11, <1>13, <1>14,
          Zenon DEF SchedNext, CallerSteps

LEMMA SleepStep ==
  SchedTypeOK /\ MakerInv /\ WorkerInv /\ SleepsInTime /\ SchedNext => SleepsInTime'
  <1> SUFFICES ASSUME SchedTypeOK, MakerInv, WorkerInv, SleepsInTime, SchedNext,
                      worker' = "asleep", NEW q \in listed', Live(q)',
                      \A c \in Callers : apc'[c] \notin {"notify", "notifyStart"}
               PROVE  sleep' <= left'[q]
    BY Zenon DEF SleepsInTime
  <1> DEFINE Quiet == \A c \in Callers : apc[c] \notin {"notify", "notifyStart"}
  <1>1. ASSUME worker = "asleep", Quiet, q \in listed, owner[q] = "held"
        PROVE  sleep <= left[q]
    BY <1>1, Zenon DEF SleepsInTime, Live
  <1>2. due = {} \/ worker = "pass"
    BY DEF WorkerInv
  <1>3. ASSUME NEW c \in Callers, NEW p \in Pools, Create(c, p) PROVE sleep' <= left'[q]
    <2>1. Interval[p] = 0
      BY <1>3 DEF Create, SchedTypeOK
    <2>2. UNCHANGED <<worker, sleep, left, listed, due>> /\ q # p
      BY <1>3, <2>1 DEF Create, MakerInv
    <2>3. Quiet /\ owner'[q] = owner[q]
      BY <1>3, <2>1, <2>2 DEF Create, SchedTypeOK
    <2>4. owner[q] = "held"
      BY <1>2, <2>2, <2>3 DEF Live
    <2> QED BY <1>1, <2>2, <2>3, <2>4
  <1>4. ASSUME NEW c \in Callers, AddNotifies(c) \/ AddStarts(c) PROVE FALSE
    BY <1>4 DEF AddNotifies, AddStarts, Notify
  <1>5. ASSUME NEW c \in Callers, AddAssigns(c) \/ CreateReturns(c) PROVE sleep' <= left'[q]
    <2>1. Quiet /\ UNCHANGED <<worker, sleep, left, listed, due, owner>>
      BY <1>5 DEF AddAssigns, CreateReturns, SchedTypeOK
    <2> QED BY <1>1, <1>2, <2>1 DEF Live
  <1>6. ASSUME NEW c \in Callers, Finishes(c) PROVE sleep' <= left'[q]
    <2>1. Quiet /\ UNCHANGED <<worker, sleep, listed, due>>
      BY <1>6 DEF Finishes, SchedTypeOK
    <2>2. owner'[q] = "held"
      BY <1>2, <2>1 DEF Live
    <2>3. owner[q] = "held" /\ left'[q] = left[q]
      BY <1>6, <2>1, <2>2 DEF Finishes, SchedTypeOK
    <2> QED BY <1>1, <2>1, <2>3
  <1>7. ASSUME NEW p \in Pools, Drop(p) PROVE sleep' <= left'[q]
    <2>1. Quiet /\ UNCHANGED <<worker, sleep, listed, due>>
      BY <1>7 DEF Drop
    <2>2. owner'[q] = "held"
      BY <1>2, <2>1 DEF Live
    <2>3. owner[q] = "held" /\ left'[q] = left[q]
      BY <1>7, <2>1, <2>2 DEF Drop, SchedTypeOK
    <2> QED BY <1>1, <2>1, <2>3
  <1>8. CASE Loop \/ PassEnds \/ TimesOut \/ WakesSpuriously
    BY <1>8 DEF Loop, PassEnds, Sweep, TimesOut, WakesSpuriously
  <1>9. CASE Scan
    <2>1. sleep' = Earliest /\ UNCHANGED <<left, listed, owner, due>> /\ worker = "scan"
      BY <1>9 DEF Scan
    <2>2. q \in Held
      BY <1>2, <2>1 DEF Live, Held
    <2> QED BY <2>1, <2>2, EarliestBounds
  <1>10. CASE Tick
    <2>1. Quiet /\ UNCHANGED <<worker, listed, due, owner>>
      BY <1>10 DEF Tick
    <2>2. owner[q] = "held" /\ q \in Pools
      BY <1>2, <2>1 DEF Live, SchedTypeOK
    <2>3. sleep <= left[q] /\ left[q] < Forever /\ sleep \in Nat /\ left[q] \in Nat
      BY <1>1, <2>1, <2>2 DEF SchedTypeOK
    <2>4. sleep' = Down(sleep) /\ left'[q] = Down(left[q])
      BY <1>10, <2>2 DEF Tick
    <2> QED BY <2>3, <2>4 DEF Down
  <1>11. CASE LeaveNotifies
    BY <1>11 DEF LeaveNotifies, Notify
  <1>12. CASE Leave \/ LeaveJoins \/ UNCHANGED schedVars
    <2>1. Quiet /\ UNCHANGED <<worker, sleep, left, listed, due, owner>>
      BY <1>12 DEF Leave, LeaveJoins, schedVars
    <2> QED BY <1>1, <1>2, <2>1 DEF Live
  <1> QED BY <1>3, <1>4, <1>5, <1>6, <1>7, <1>8, <1>9, <1>10, <1>11, <1>12, Zenon
          DEF SchedNext, CallerSteps
-----------------------------------------------------------------------------
(* The registry's table *)

LEMMA KeysOfTargets == \A s \in Targets : KeyOf[s] \in Keys
  BY Zenon DEF Keys

\* What emplace() leaves under the key of a caller that publishes.
LEMMA PublishKeeps ==
  ASSUME TypeOK, MakerInv, TableInv, NEW c \in Callers, Publish(c)
  PROVE  TypeOK' /\ TableInv'
  <1> DEFINE s == want[c].s
             p == making[c]
             kept == table[KeyOf[s]]
             now == IF kept = None THEN p ELSE kept
  <1>1. s \in Targets /\ want[c] # NoWant /\ KeyOf[s] \in Keys
    BY KeysOfTargets DEF Publish, TypeOK, NoWant
  <1>2. rlock = c /\ p \in Pools /\ target[p] # None /\ owner[p] = "held"
    BY <1>1 DEF TableInv, MakerInv, TypeOK, SchedTypeOK
  <1>3. \A d \in Callers \ {c} : want[d] = NoWant /\ making[d] # p
    BY <1>2 DEF TableInv, MakerInv
  <1>4. \A k \in Keys : table[k] # p
    BY <1>2 DEF TableInv
  <1>5. now \in Pools /\ (kept # None => now = kept)
    BY <1>1, <1>2 DEF TypeOK
  <1>6. /\ table' = [table EXCEPT ![KeyOf[s]] = now]
        /\ lease' = lease \/ lease' = [lease EXCEPT ![c] = [s |-> s, pool |-> now]]
        /\ rlock' = None /\ want' = [want EXCEPT ![c] = NoWant]
        /\ making' = [making EXCEPT ![c] = None] /\ UNCHANGED target
    BY Zenon DEF Publish
  <1>7. \/ kept = None /\ owner' = owner
        \/ kept # None /\ owner' = [owner EXCEPT ![p] = "dropped"]
    BY Zenon DEF Publish
  <1>8. SchedTypeOK'
    <2>1. Finishes(c)
      BY Zenon DEF Publish, Finishes
    <2> QED BY <2>1, SchedTypeStep, Zenon DEF SchedNext, CallerSteps, TypeOK
  <1>9. TypeOK'
    <2>1. lease' \in [Callers -> {None} \cup [s : Targets, pool : Pools]]
      BY <1>1, <1>5, <1>6 DEF TypeOK
    <2>2. want' \in [Callers -> {NoWant} \cup [call : {"acquire", "configure"}, s : Targets]]
      BY <1>6, Zenon DEF TypeOK
    <2>3. table' \in [Keys -> Pools \cup {None}] /\ rlock' \in Callers \cup {None}
      BY <1>5, <1>6, Zenon DEF TypeOK
    <2> QED BY <1>6, <1>8, <2>1, <2>2, <2>3 DEF TypeOK
  <1>10. \A d \in Callers : want'[d] = NoWant
    BY <1>3, <1>6 DEF TypeOK
  <1>11. ASSUME NEW k \in Keys, table'[k] # None
         PROVE  /\ owner'[table'[k]] = "held" /\ target'[table'[k]] # None
                /\ \A d \in Callers : making'[d] # table'[k]
    <2>1. CASE table'[k] = p
      <3>1. kept = None
        BY <1>1, <1>4, <1>5, <1>6, <2>1 DEF TypeOK
      <3>2. \A d \in Callers : making'[d] # p
        BY <1>2, <1>3, <1>6 DEF TypeOK, SchedTypeOK
      <3> QED BY <1>2, <1>6, <1>7, <2>1, <3>1, <3>2
    <2>2. CASE table'[k] # p
      <3>1. table'[k] = table[k] /\ table[k] \in Pools
        BY <1>1, <1>6, <1>11, <2>2 DEF TypeOK
      <3>2. owner'[table[k]] = owner[table[k]]
        BY <1>7, <2>2, <3>1 DEF TypeOK, SchedTypeOK
      <3>3. \A d \in Callers : making'[d] \in {None, making[d]}
        BY <1>6 DEF TypeOK, SchedTypeOK
      <3>4. \A d \in Callers : making'[d] # table[k]
        BY <1>11, <3>1, <3>3 DEF TableInv
      <3> QED BY <1>6, <1>11, <3>1, <3>2, <3>4 DEF TableInv
    <2> QED BY <2>1, <2>2
  <1>12. ASSUME NEW d \in Callers, lease'[d] # None
         PROVE  lease'[d].pool = table'[KeyOf[lease'[d].s]]
    <2>1. CASE lease'[d] = [s |-> s, pool |-> now]
      BY <1>1, <1>6, <2>1 DEF TypeOK
    <2>2. CASE lease'[d] = lease[d]
      <3>1. lease[d].s \in Targets /\ lease[d].pool \in Pools
        BY <1>12, <2>2 DEF TypeOK
      <3>2. lease[d].pool = table[KeyOf[lease[d].s]] /\ KeyOf[lease[d].s] \in Keys
        BY <1>12, <2>2, <3>1, KeysOfTargets DEF TableInv
      <3>3. table'[KeyOf[lease[d].s]] = table[KeyOf[lease[d].s]]
        BY <1>1, <1>5, <1>6, <3>1, <3>2 DEF TypeOK
      <3> QED BY <2>2, <3>2, <3>3
    <2> QED BY <1>6, <2>1, <2>2 DEF TypeOK
  <1> QED BY <1>9, <1>10, <1>11, <1>12, Zenon DEF TableInv

\* A pool that is being made is new: no key has it.
LEMMA CreateKeeps ==
  ASSUME TypeOK, MakerInv, TableInv, NEW c \in Callers, NEW p \in Pools, Create(c, p)
  PROVE  /\ SchedTypeOK'
         /\ \A k \in Keys : table[k] # None =>
              /\ table[k] # p /\ owner'[table[k]] = "held"
              /\ \A d \in Callers : making'[d] # table[k]
         /\ making' = [making EXCEPT ![c] = p]
  <1>1. SchedTypeOK'
    BY SchedTypeStep, Zenon DEF SchedNext, TypeOK
  <1>2. /\ owner[p] = "unborn" /\ owner' = [owner EXCEPT ![p] = "held"]
        /\ making' = [making EXCEPT ![c] = p]
    BY Zenon DEF Create
  <1>3. \A k \in Keys : table[k] # None => table[k] # p
    BY <1>2 DEF TableInv
  <1>4. \A k \in Keys : table[k] # None => owner'[table[k]] = "held"
    BY <1>2, <1>3 DEF TableInv, TypeOK, SchedTypeOK
  <1>5. \A k \in Keys : table[k] # None => \A d \in Callers : making'[d] # table[k]
    BY <1>2, <1>3 DEF TableInv, TypeOK, SchedTypeOK
  <1> QED BY <1>1, <1>2, <1>3, <1>4, <1>5, Zenon

LEMMA TableStep == TypeOK /\ MakerInv /\ TableInv /\ [Next]_vars => TypeOK' /\ TableInv'
  <1> SUFFICES ASSUME TypeOK, MakerInv, TableInv, [Next]_vars PROVE TypeOK' /\ TableInv'
    OBVIOUS
  <1>1. SchedTypeOK'
    BY SchedSteps, SchedTypeStep, Zenon DEF TypeOK
  <1>2. CASE UNCHANGED <<owner, making, rlock, table, target, want, lease>>
    BY <1>1, <1>2 DEF TypeOK, TableInv
  <1>3. ASSUME NEW c \in Callers, AddStep(c), UNCHANGED regVars PROVE TypeOK' /\ TableInv'
    BY <1>2, <1>3, Zenon DEF AddStep, AddNotifies, AddStarts, AddAssigns, regVars
  <1>4. ASSUME NEW c \in Callers, OwnReturns(c) PROVE TypeOK' /\ TableInv'
    <2>1. /\ want[c] = NoWant /\ making' = [making EXCEPT ![c] = None]
          /\ UNCHANGED <<owner, rlock, table, target, want, lease>>
      BY <1>4 DEF OwnReturns, CreateReturns, regVars
    <2>2. \A d \in Callers : making'[d] = making[d] \/ (d = c /\ making'[d] = None)
      BY <2>1 DEF TypeOK, SchedTypeOK
    <2> QED BY <1>1, <2>1, <2>2 DEF TypeOK, TableInv
  <1>5. ASSUME NEW c \in Callers, NEW s \in Targets, AcquireFound(c, s)
        PROVE  TypeOK' /\ TableInv'
    <2>1. /\ table[KeyOf[s]] \in Pools /\ KeyOf[s] \in Keys
          /\ lease' = [lease EXCEPT ![c] = [s |-> s, pool |-> table[KeyOf[s]]]]
          /\ UNCHANGED <<owner, making, rlock, table, target, want>>
      BY <1>5, KeysOfTargets DEF AcquireFound, TypeOK, schedVars
    <2>2. TypeOK'
      BY <1>1, <2>1 DEF TypeOK
    <2>3. \A d \in Callers : lease'[d] # None => lease'[d].pool = table[KeyOf[lease'[d].s]]
      BY <2>1 DEF TypeOK, TableInv
    <2> QED BY <2>1, <2>2, <2>3 DEF TableInv
  <1>6. ASSUME NEW c \in Callers, NEW s \in Targets, NEW p \in Pools,
               AcquireMakes(c, s, p) \/ Configure(c, s, p)
        PROVE  TypeOK' /\ TableInv'
    <2>1. /\ Create(c, p) /\ rlock = None /\ rlock' = c
          /\ target' = [target EXCEPT ![p] = s] /\ UNCHANGED <<table, lease>>
          /\ \E w \in [call : {"acquire", "configure"}, s : Targets] :
               want' = [want EXCEPT ![c] = w]
      BY <1>6, Zenon DEF AcquireMakes, Configure
    <2>2. TypeOK'
      BY <1>1, <2>1 DEF TypeOK
    <2>3. making' = [making EXCEPT ![c] = p] /\ s # None
      BY <2>1, CreateKeeps, TargetsAssumption, Zenon
    <2>4. \A d \in Callers : want'[d] # NoWant => d = c
      BY <2>1 DEF TableInv, TypeOK
    <2>5. making'[c] = p /\ target'[p] = s
      BY <2>1, <2>3 DEF TypeOK, SchedTypeOK
    <2>6. \A k \in Keys : table[k] # None => target'[table[k]] = target[table[k]]
      BY <2>1, CreateKeeps DEF TypeOK
    <2>7. ASSUME NEW k \in Keys, table[k] # None
          PROVE  /\ owner'[table[k]] = "held" /\ target'[table[k]] # None
                 /\ \A d \in Callers : making'[d] # table[k]
      BY <2>1, <2>6, <2>7, CreateKeeps, Zenon DEF TableInv
    <2> QED BY <2>1, <2>2, <2>3, <2>4, <2>5, <2>7 DEF TableInv
  <1>7. ASSUME NEW c \in Callers, NEW p \in Pools, MakeOwn(c, p) PROVE TypeOK' /\ TableInv'
    <2>1. Create(c, p) /\ want[c] = NoWant /\ UNCHANGED <<rlock, table, target, want, lease>>
      BY <1>7 DEF MakeOwn, Free, regVars
    <2>2. TypeOK'
      BY <1>1, <2>1 DEF TypeOK
    <2>3. \A d \in Callers : want[d] # NoWant => making'[d] = making[d]
      <3>1. making' = [making EXCEPT ![c] = p]
        BY <2>1, CreateKeeps, Zenon
      <3>2. making \in [Callers -> Pools \cup {None}]
        BY Zenon DEF TypeOK, SchedTypeOK
      <3> QED BY <2>1, <3>1, <3>2
    <2>4. ASSUME NEW k \in Keys, table[k] # None
          PROVE  /\ owner'[table[k]] = "held"
                 /\ \A d \in Callers : making'[d] # table[k]
      BY <2>1, <2>4, CreateKeeps, Zenon
    <2> QED BY <2>1, <2>2, <2>3, <2>4 DEF TableInv
  <1>8. ASSUME NEW p \in Pools, DropOwn(p) PROVE TypeOK' /\ TableInv'
    <2>1. /\ target[p] = None /\ owner' = [owner EXCEPT ![p] = "dropped"]
          /\ UNCHANGED <<making, rlock, table, target, want, lease>>
      BY <1>8 DEF DropOwn, Drop, regVars
    <2>2. \A k \in Keys : table[k] # None => owner'[table[k]] = owner[table[k]]
      BY <2>1 DEF TableInv, TypeOK, SchedTypeOK
    <2> QED BY <1>1, <2>1, <2>2 DEF TypeOK, TableInv
  <1>9. CASE (WorkerStep \/ WakesSpuriously \/ Tick \/ Leave \/ LeaveStep) /\ UNCHANGED regVars
    <2>1. UNCHANGED <<owner, making>>
      BY <1>9, Zenon DEF WorkerStep, Loop, Scan, TimesOut, PassEnds, WakesSpuriously, Tick,
         Leave, LeaveStep, LeaveNotifies, LeaveJoins
    <2> QED BY <1>2, <1>9, <2>1 DEF regVars
  <1>10. CASE UNCHANGED vars
    BY <1>2, <1>10 DEF vars
  <1> QED BY <1>3, <1>4, <1>5, <1>6, <1>7, <1>8, <1>9, <1>10, PublishKeeps, Zenon
          DEF Next, CallerStep, Call
-----------------------------------------------------------------------------
LEMMA InvStep == Inv /\ [Next]_vars => Inv'
  <1> SUFFICES ASSUME Inv, [Next]_vars PROVE Inv'
    OBVIOUS
  <1>1. SchedNext /\ SchedTypeOK
    BY SchedSteps, Zenon DEF Inv, TypeOK
  <1> QED BY <1>1, MakerStep, WorkerInvStep, SleepStep, TableStep, Zenon DEF Inv

LEMMA Invariance == Spec => []Inv
  BY InitInv, InvStep, PTL DEF Spec

\* However add(), the end of the worker and the end of the process interleave,
\* a pool with a heartbeat has a worker or one caller starting it, and one caller
\* at a time joins and replaces the thread (pool.cpp:105-124, 134-137).
THEOREM OneTendsThemAll == Spec => []OneTender
  <1>1. Inv => OneTender
    <2> SUFFICES ASSUME Inv PROVE OneTender
      OBVIOUS
    <2>1. OneStarter
      BY Zenon DEF Inv, WorkerInv
    <2>2. ASSUME NEW p \in listed, ~stop
          PROVE  worker \in {"loop", "scan", "asleep", "pass"} \/ Starting # {}
      BY <2>2 DEF Inv, WorkerInv, Working
    <2>3. NobodyUntended
      BY <2>2 DEF NobodyUntended, Starting
    <2> QED BY <2>1, <2>3 DEF OneTender
  <1> QED BY <1>1, Invariance, PTL

\* For every choice of intervals the worker's timed wait ends no later than the
\* first pool's next_tick, or somebody is about to cut it short
\* (pool.cpp:105-117, 146-149).
THEOREM WorkerSleepsInTime == Spec => []SleepsInTime
  <1>1. Inv => SleepsInTime
    BY Zenon DEF Inv
  <1> QED BY <1>1, Invariance, PTL

\* Whatever is configured, raced for or dropped, a lease of the registry is of a
\* pool that was made and that the registry still holds (pool.cpp:387-418).
THEOREM RegistryKeepsLeased == Spec => []LeasesStand
  <1>1. Inv => LeasesStand
    <2> SUFFICES ASSUME Inv PROVE LeasesStand
      OBVIOUS
    <2>1. ASSUME NEW c \in Callers, lease[c] # None PROVE owner[lease[c].pool] = "held"
      <3>1. lease[c].s \in Targets /\ lease[c].pool \in Pools
        BY <2>1 DEF Inv, TypeOK
      <3>2. KeyOf[lease[c].s] \in Keys /\ lease[c].pool = table[KeyOf[lease[c].s]]
        BY <2>1, <3>1, KeysOfTargets DEF Inv, TableInv
      <3> QED BY <3>1, <3>2 DEF Inv, TableInv
    <2> QED BY <2>1 DEF LeasesStand, LeasedPoolsLive, Inv
  <1> QED BY <1>1, Invariance, PTL

\* make_key() gives one key to all that name one place and user in one form.
OneKeyEach ==
  \A s, t \in Targets :
    s.form = t.form /\ s.place = t.place /\ s.user = t.user => KeyOf[s] = KeyOf[t]

\* As far as make_key() tells targets apart by place and user alone, everyone who
\* reaches one place as one user is served by one pool, racing first calls and
\* configure() included (pool.cpp:387-418).
THEOREM OnePoolForAll ==
  ASSUME OneKeyEach
  PROVE  Spec => []SharedByAll
  <1>1. Inv => SharedByAll
    <2> SUFFICES ASSUME Inv, NEW c \in Callers, NEW d \in Callers,
                        lease[c] # None, lease[d] # None,
                        lease[c].s.form = lease[d].s.form,
                        lease[c].s.place = lease[d].s.place,
                        lease[c].s.user = lease[d].s.user
                 PROVE  lease[c].pool = lease[d].pool
      BY Zenon DEF SharedByAll
    <2>1. lease[c].s \in Targets /\ lease[d].s \in Targets
      BY DEF Inv, TypeOK
    <2>2. KeyOf[lease[c].s] = KeyOf[lease[d].s]
      BY <2>1, Zenon DEF OneKeyEach
    <2> QED BY <2>2 DEF Inv, TableInv
  <1> QED BY <1>1, Invariance, PTL
=============================================================================
