------------------------ MODULE MaintenanceScheduler ------------------------
(***************************************************************************)
(* The thread that tends every pool with a heartbeat (struct scheduler in  *)
(* src/pool.cpp): add(), the worker's loop with its timed wait, and the    *)
(* destructor that runs when the process ends.                             *)
(*                                                                         *)
(* The scheduler knows a pool by a weak pointer.  A pool lives while its   *)
(* owner holds it or the worker has it in `due`.  Time is counted in       *)
(* ticks; `left` is what is left of next_tick, `sleep` of the wait.        *)
(***************************************************************************)
EXTENDS Naturals, FiniteSets, FiniteSetsExt

CONSTANTS
  Pools,      \* pools that may come to be
  Callers,    \* threads that create pools
  Interval,   \* heartbeat_interval of each pool in ticks, 0 for none
  Forever,    \* a wait longer than any interval
  None

ASSUME SchedulerAssumption ==
  /\ None \notin Pools \cup Callers
  /\ IsFiniteSet(Pools) /\ IsFiniteSet(Callers) /\ Interval \in [Pools -> Nat]
  /\ Forever \in Nat /\ \A p \in Pools : Interval[p] < Forever

VARIABLES
  owner,    \* "unborn", "held" or "dropped": the pool's strong reference
  listed,   \* scheduler::pools
  left,     \* ticks until next_tick
  due,      \* pools of the pass under way
  running, stop,
  worker,   \* "none", "loop", "scan", "asleep", "pass" or "ended" (joinable);
            \* in "scan" it holds scheduler::mutex between two looks at the list
  sleep,    \* ticks until wait_until() times out
  handle,   \* scheduler::worker is joinable
  apc,      \* a caller in add(): "out", "notify", "notifyStart", "start", "assign", "back"
  making,   \* the pool whose constructor a caller is in
  leaving   \* the destructor: "no", "notify", "join", "done"

schedVars == <<owner, listed, left, due, running, stop, worker, sleep, handle,
               apc, making, leaving>>

\* The scheduler's list and flags; no pool is ever further from its tick than
\* its own interval (pool.cpp:92-103, 163-172).
SchedTypeOK ==
  /\ owner \in [Pools -> {"unborn", "held", "dropped"}]
  /\ listed \in SUBSET Pools /\ due \in SUBSET Pools
  /\ left \in [Pools -> Nat] /\ \A p \in Pools : left[p] <= Interval[p]
  /\ running \in BOOLEAN /\ stop \in BOOLEAN
  /\ worker \in {"none", "loop", "scan", "asleep", "pass", "ended"}
  /\ sleep \in Nat
  /\ handle \in BOOLEAN
  /\ apc \in [Callers -> {"out", "notify", "notifyStart", "start", "assign", "back"}]
  /\ making \in [Callers -> Pools \cup {None}]
  /\ leaving \in {"no", "notify", "join", "done"}

SchedInit ==
  /\ owner = [p \in Pools |-> "unborn"]
  /\ listed = {} /\ due = {} /\ left = [p \in Pools |-> 0]
  /\ running = FALSE /\ stop = FALSE
  /\ worker = "none" /\ sleep = 0 /\ handle = FALSE
  /\ apc = [c \in Callers |-> "out"] /\ making = [c \in Callers |-> None] /\ leaving = "no"

\* cv.notify_all()
Notify ==
  IF worker = "asleep" THEN worker' = "loop" /\ sleep' = 0 ELSE UNCHANGED <<worker, sleep>>

Live(p) == owner[p] = "held" \/ p \in due
-----------------------------------------------------------------------------
(* add() *)

\* Mutant: a worker is started whether one runs or not.
CreateStartsAlways(c, p) ==
  /\ apc[c] = "out" /\ owner[p] = "unborn" /\ leaving # "done"
  /\ owner' = [owner EXCEPT ![p] = "held"] /\ making' = [making EXCEPT ![c] = p]
  /\ IF Interval[p] = 0
     THEN apc' = [apc EXCEPT ![c] = "back"] /\ UNCHANGED <<listed, left, running>>
     ELSE /\ worker # "scan"
          /\ left' = [left EXCEPT ![p] = Interval[p]]
          /\ listed' = listed \cup {p} /\ running' = (running \/ ~stop)
          /\ apc' = [apc EXCEPT ![c] = IF ~stop THEN "notifyStart" ELSE "notify"]
  /\ UNCHANGED <<due, stop, worker, sleep, handle, leaving>>

\* connection_pool's constructor: without a heartbeat there is nothing to add.
Create(c, p) ==
  /\ apc[c] = "out" /\ owner[p] = "unborn"
  /\ leaving # "done"
  /\ owner' = [owner EXCEPT ![p] = "held"] /\ making' = [making EXCEPT ![c] = p]
  /\ IF Interval[p] = 0
     THEN apc' = [apc EXCEPT ![c] = "back"] /\ UNCHANGED <<listed, left, running>>
     ELSE /\ worker # "scan"
          /\ left' = [left EXCEPT ![p] = Interval[p]]
          /\ listed' = listed \cup {p}
          /\ running' = (running \/ ~stop)
          /\ apc' = [apc EXCEPT ![c] = IF ~running /\ ~stop THEN "notifyStart" ELSE "notify"]
  /\ UNCHANGED <<due, stop, worker, sleep, handle, leaving>>

\* Mutant: the sleeping worker is not told of the new pool.
AddSilently(c) ==
  /\ apc[c] \in {"notify", "notifyStart"}
  /\ apc' = [apc EXCEPT ![c] = IF @ = "notify" THEN "back" ELSE "start"]
  /\ UNCHANGED <<owner, listed, left, due, running, stop, worker, sleep, handle, making,
                 leaving>>

\* The lock is released, the worker notified.
AddNotifies(c) ==
  /\ apc[c] \in {"notify", "notifyStart"}
  /\ Notify
  /\ apc' = [apc EXCEPT ![c] = IF @ = "notify" THEN "back" ELSE "start"]
  /\ UNCHANGED <<owner, listed, left, due, running, stop, handle, making, leaving>>

\* The last worker has ended and is joined; a new thread begins to run.
AddStarts(c) ==
  /\ apc[c] = "start" /\ (handle => worker = "ended")
  /\ worker' = "loop" /\ handle' = FALSE
  /\ apc' = [apc EXCEPT ![c] = "assign"]
  /\ UNCHANGED <<owner, listed, left, due, running, stop, sleep, making, leaving>>

\* It is moved into `worker`, without the lock.
AddAssigns(c) ==
  /\ apc[c] = "assign"
  /\ handle' = TRUE
  /\ apc' = [apc EXCEPT ![c] = "back"]
  /\ UNCHANGED <<owner, listed, left, due, running, stop, worker, sleep, making, leaving>>

\* The owner lets go of a pool; nothing tells the scheduler.
Drop(p) ==
  /\ owner[p] = "held" /\ \A c \in Callers : making[c] # p
  /\ owner' = [owner EXCEPT ![p] = "dropped"] /\ left' = [left EXCEPT ![p] = 0]
  /\ UNCHANGED <<listed, due, running, stop, worker, sleep, handle, apc, making, leaving>>
-----------------------------------------------------------------------------
(* run() *)

Held == {p \in listed : owner[p] = "held"}

\* Mutant: an empty list ends the worker and leaves `running` set.
SweepStillRunning ==
  /\ due' = {}
  /\ \/ stop /\ worker' = "ended" /\ UNCHANGED <<listed, running>>
     \/ ~stop /\ Held = {} /\ worker' = "ended" /\ listed' = {} /\ UNCHANGED running
     \/ ~stop /\ Held # {} /\ worker' = "scan" /\ listed' = Held /\ UNCHANGED running

\* The top of the loop: leave when told to, forget the expired pools, leave when
\* none is left.
Sweep ==
  /\ due' = {}
  /\ \/ stop /\ worker' = "ended" /\ UNCHANGED <<listed, running>>
     \/ ~stop /\ Held = {} /\ worker' = "ended" /\ running' = FALSE /\ listed' = {}
     \/ ~stop /\ Held # {} /\ worker' = "scan" /\ listed' = Held /\ UNCHANGED running

Loop ==
  /\ worker = "loop"
  /\ Sweep
  /\ UNCHANGED <<owner, left, stop, sleep, handle, apc, making, leaving>>

\* The earliest next_tick of the pools still held: time_point::max() when the
\* last one went since the sweep.
Earliest == IF Held = {} THEN Forever ELSE Min({left[p] : p \in Held})

\* It lies ahead: wait_until().  Or it has come: the pools due are taken.
Scan ==
  /\ worker = "scan"
  /\ IF Earliest > 0
     THEN worker' = "asleep" /\ sleep' = Earliest /\ UNCHANGED due
     ELSE worker' = "pass" /\ due' = {p \in Held : left[p] = 0} /\ UNCHANGED sleep
  /\ UNCHANGED <<owner, listed, left, running, stop, handle, apc, making, leaving>>

\* wait_until() comes to its time, or ends without cause.
TimesOut ==
  /\ worker = "asleep" /\ sleep = 0
  /\ worker' = "loop"
  /\ UNCHANGED <<owner, listed, left, due, running, stop, sleep, handle, apc, making, leaving>>

WakesSpuriously ==
  /\ worker = "asleep" /\ sleep > 0
  /\ worker' = "loop" /\ sleep' = 0
  /\ UNCHANGED <<owner, listed, left, due, running, stop, handle, apc, making, leaving>>

\* Mutant: what was due is not given a new time.
PassKeepsTick ==
  /\ worker = "pass"
  /\ Sweep
  /\ UNCHANGED <<owner, left, stop, sleep, handle, apc, making, leaving>>

\* Mutant: the clock is read a tick late.
PassEndsLate ==
  /\ worker = "pass"
  /\ left' = [p \in Pools |-> IF p \in due /\ owner[p] = "held" THEN Interval[p] + 1 ELSE left[p]]
  /\ Sweep
  /\ UNCHANGED <<owner, stop, sleep, handle, apc, making, leaving>>

\* run_maintenance() of the due pools is over; they get their next time, and
\* the pass lets go of them.
PassEnds ==
  /\ worker = "pass"
  /\ left' = [p \in Pools |-> IF p \in due /\ owner[p] = "held" THEN Interval[p] ELSE left[p]]
  /\ Sweep
  /\ UNCHANGED <<owner, stop, sleep, handle, apc, making, leaving>>

\* A tick of the clock.
Down(n) == IF n \in {0, Forever} THEN n ELSE n - 1
Tick ==
  /\ left' = [p \in Pools |-> Down(left[p])]
  /\ sleep' = Down(sleep)
  /\ UNCHANGED <<owner, listed, due, running, stop, worker, handle, apc, making, leaving>>
-----------------------------------------------------------------------------
(* ~scheduler() *)

\* The process ends.  (A thread still between the two halves of add() would
\* race with the destructor on `worker`; a process that ends has none.)
Leave ==
  /\ leaving = "no" /\ worker # "scan"
  /\ \A c \in Callers : apc[c] \notin {"notifyStart", "start", "assign"}
  /\ stop' = TRUE /\ leaving' = "notify"
  /\ UNCHANGED <<owner, listed, left, due, running, worker, sleep, handle, apc, making>>

\* Mutant: the destructor joins without a word.
LeaveSilently ==
  /\ leaving = "notify" /\ leaving' = "join"
  /\ UNCHANGED <<owner, listed, left, due, running, stop, worker, sleep, handle, apc, making>>

LeaveNotifies ==
  /\ leaving = "notify"
  /\ Notify
  /\ leaving' = "join"
  /\ UNCHANGED <<owner, listed, left, due, running, stop, handle, apc, making>>

LeaveJoins ==
  /\ leaving = "join" /\ (handle => worker = "ended")
  /\ leaving' = "done" /\ handle' = FALSE
  /\ UNCHANGED <<owner, listed, left, due, running, stop, worker, sleep, apc, making>>

WorkerStep == Loop \/ Scan \/ TimesOut \/ PassEnds
LeaveStep == LeaveNotifies \/ LeaveJoins
AddStep(c) == AddNotifies(c) \/ AddStarts(c) \/ AddAssigns(c)

\* The constructor of a pool that its maker keeps for itself is back.
CreateReturns(c) ==
  /\ apc[c] = "back"
  /\ apc' = [apc EXCEPT ![c] = "out"] /\ making' = [making EXCEPT ![c] = None]
  /\ UNCHANGED <<owner, listed, left, due, running, stop, worker, sleep, handle, leaving>>

-----------------------------------------------------------------------------
\* The worker never sleeps past the time of a pool: one that was added while
\* it slept either woke it or is about to (pool.cpp:105-117, 146-149).
SleepsInTime ==
  worker = "asleep" =>
    \A p \in listed : \/ ~Live(p) \/ sleep <= left[p]
                      \/ \E c \in Callers : apc[c] \in {"notify", "notifyStart"}

\* A pool with a heartbeat is never left without a worker, whichever way the
\* last one ended as it was added (pool.cpp:111-123, 134-137).
NobodyUntended ==
  \A p \in listed :
    Live(p) /\ ~stop =>
      \/ worker \in {"loop", "scan", "asleep", "pass"}
      \/ \E c \in Callers : apc[c] \in {"notifyStart", "start"}

\* Starting a worker takes several steps outside the lock and is nevertheless
\* the work of one caller at a time: nobody joins a worker that goes on working,
\* and no thread is moved over one that is not joined, which would end the
\* program (pool.cpp:111-123).
OneStarter ==
  /\ \A c, d \in Callers :
       {apc[c], apc[d]} \subseteq {"notifyStart", "start", "assign"} => c = d
  /\ \A c \in Callers :
       /\ apc[c] \in {"notifyStart", "start"} => worker \in {"none", "ended"}
       /\ apc[c] = "assign" => ~handle

\* Whoever adds a pool as the worker comes and goes: the pool has a worker or
\* one caller who is starting it (pool.cpp:111-123, 134-137).
OneTender == NobodyUntended /\ OneStarter

\* A pool whose time has come is tended, again and again, until it is dropped
\* or the process ends.
EveryPoolTended ==
  \A p \in {q \in Pools : Interval[q] > 0} :
    (p \in listed /\ left[p] = 0) ~> (left[p] > 0 \/ ~Live(p) \/ stop)

\* The end of the process is not held up by the worker.
SchedulerEnds == stop ~> leaving = "done"

\* The worker tends every pool in time and is out of the way at the end of the
\* process (pool.cpp:127-200).
SchedulerServes == EveryPoolTended /\ SchedulerEnds
=============================================================================
