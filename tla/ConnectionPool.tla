--------------------------- MODULE ConnectionPool ---------------------------
(***************************************************************************)
(* One connection_pool (src/pool.cpp): borrowing threads that acquire and  *)
(* release connections, and the scheduler's thread running maintenance     *)
(* passes over the idle ones.                                              *)
(*                                                                         *)
(* A critical section on the pool's mutex is one step; what the code does  *)
(* off the mutex (connecting, resetting, heartbeats, closing, notifying)   *)
(* is a step of its own.  The idle vector is kept as a set: acquire() may  *)
(* take any idle entry, which covers the back() the code takes, and no     *)
(* property depends on the order.  Time is abstracted to two facts: the    *)
(* deadline of an acquire() has passed (late), an entry has been idle for  *)
(* longer than max_idle_time (aged).                                       *)
(*                                                                         *)
(* acquire() drops an expired entry, unlocks, and goes round its loop      *)
(* without locking again.  The states from "lapsing" on follow that        *)
(* iteration: it reads and writes the pool beside the mutex, and its next  *)
(* lock.unlock() throws because the unique_lock owns nothing.  Beside a    *)
(* concurrent critical section such an iteration is a data race; the model *)
(* keeps its steps whole except for ++created, whose lost update it shows, *)
(* and the properties speak of the pool up to the first such iteration.    *)
(***************************************************************************)
EXTENDS Integers, FiniteSets

CONSTANTS
  Threads,       \* borrowers
  Conns,         \* identities for physical connections
  Size,          \* pool_options::size
  SizeMax,       \* the largest std::size_t
  IdleLimitMet,  \* whether an entry can outlive max_idle_time
  None           \* no connection

ASSUME ThreadsAssumption == IsFiniteSet(Threads) /\ None \notin Threads
ASSUME ConnsAssumption == IsFiniteSet(Conns) /\ None \notin Conns
ASSUME SizeAssumption ==
  /\ Size \in Nat /\ SizeMax \in Nat
  /\ Size < SizeMax /\ Cardinality(Conns) <= SizeMax
ASSUME IdleLimitAssumption == IdleLimitMet \in BOOLEAN

VARIABLES
  created,    \* shared_state::created
  idle,       \* the connections in shared_state::idle
  aged,       \* connections whose released_at is older than max_idle_time
  manual,     \* connections switched to manual commit
  open,       \* connections physically open
  holder,     \* the thread a lease on the connection belongs to
  pc,         \* where each thread is
  cur,        \* the connection a thread's call has in hand
  late,       \* threads whose acquire() deadline has passed
  checking,   \* entries out for a heartbeat: under_maintenance counts them
  evicted,    \* expired entries a pass took out and has not closed yet
  doomed,     \* entries a pass judged dead, closed when it ends
  mpc,        \* where the maintenance pass is
  seen,       \* `created` as an unlocked iteration read it
  lapsed,     \* history: some acquire() has iterated without the mutex
  abandoned   \* the mutex is held by a call that is over

lockedVars == <<created, idle>>
passVars == <<checking, evicted, doomed, mpc>>
lapseVars == <<seen, lapsed, abandoned>>
vars == <<created, idle, aged, manual, open, holder, pc, cur, late, checking,
          evicted, doomed, mpc, seen, lapsed, abandoned>>

PcStates ==
  {"ready", "enter", "waiting", "awake", "connecting", "undo", "resetting",
   "returning", "retiring", "notify", "lapsing", "lapsed", "lapsedClaim",
   "lapsedWait", "lapsedAwake"}

\* Arithmetic of std::size_t.
Plus1(n) == IF n = SizeMax THEN 0 ELSE n + 1
Minus(n, k) == IF n >= k THEN n - k ELSE n - k + SizeMax + 1

Leased == {c \in Conns : holder[c] # None}
\* Threads whose call stands for one slot although no entry or lease does.
Carrying ==
  {t \in Threads : pc[t] \in {"connecting", "undo", "resetting",
                              "returning", "retiring"}}
Waiters == {t \in Threads : pc[t] \in {"waiting", "lapsedWait"}}
Awoken(t) == IF pc[t] = "waiting" THEN "awake" ELSE "lapsedAwake"
\* Mutant: entries out for a heartbeat are not counted.
NotCounted == 0

under_maintenance == Cardinality(checking)
idle_count == Cardinality(idle) + under_maintenance

\* The pool's counters and lists, and what a call may have in hand: `created`
\* stays a std::size_t (pool.cpp:13-30).
TypeOK ==
  /\ created \in 0..SizeMax
  /\ idle \in SUBSET Conns
  /\ aged \in SUBSET Conns
  /\ manual \in SUBSET Conns
  /\ open \in SUBSET Conns
  /\ holder \in [Conns -> Threads \cup {None}]
  /\ pc \in [Threads -> PcStates]
  /\ cur \in [Threads -> Conns \cup {None}]
  /\ late \in SUBSET Threads
  /\ checking \in SUBSET Conns
  /\ evicted \in SUBSET Conns
  /\ doomed \in SUBSET Conns
  /\ mpc \in {"rest", "evict", "beat", "tell"}
  /\ seen \in [Threads -> 0..SizeMax]
  /\ lapsed \in BOOLEAN
  /\ abandoned \in BOOLEAN

Init ==
  /\ created = 0
  /\ idle = {} /\ aged = {} /\ manual = {} /\ open = {}
  /\ holder = [c \in Conns |-> None]
  /\ pc = [t \in Threads |-> "ready"]
  /\ cur = [t \in Threads |-> None]
  /\ late = {}
  /\ checking = {} /\ evicted = {} /\ doomed = {} /\ mpc = "rest"
  /\ seen = [t \in Threads |-> 0]
  /\ lapsed = FALSE /\ abandoned = FALSE

Goto(t, label) == pc' = [pc EXCEPT ![t] = label]
-----------------------------------------------------------------------------
(* acquire() *)

AcquireCall(t) ==
  /\ pc[t] = "ready"
  /\ Goto(t, "enter")
  /\ late' = late \ {t}
  /\ UNCHANGED <<lockedVars, aged, manual, open, holder, cur, passVars, lapseVars>>

\* steady_clock passes the deadline of a call in progress.
DeadlinePasses(t) ==
  /\ pc[t] \in {"enter", "waiting", "awake", "lapsing", "lapsed", "lapsedWait", "lapsedAwake"}
  /\ t \notin late
  /\ late' = late \cup {t}
  /\ UNCHANGED <<lockedVars, aged, manual, open, holder, pc, cur, passVars, lapseVars>>

\* The thread has the mutex at the head of the loop: on entry, or back from
\* wait_until without the exit below.
AtLoopHead(t) ==
  /\ ~abandoned
  /\ \/ pc[t] = "enter"
     \/ pc[t] = "awake" /\ ~(t \in late /\ idle = {})

\* Mutant: the entry is handed out without pop_back().
TakeIdleUnpopped(t, c) ==
  /\ AtLoopHead(t)
  /\ c \in idle \ aged
  /\ holder' = [holder EXCEPT ![c] = t]
  /\ Goto(t, "ready")
  /\ UNCHANGED <<lockedVars, aged, manual, open, cur, late, passVars, lapseVars>>

TakeIdle(t, c) ==
  /\ AtLoopHead(t)
  /\ c \in idle \ aged
  /\ idle' = idle \ {c}
  /\ holder' = [holder EXCEPT ![c] = t]
  /\ Goto(t, "ready")
  /\ UNCHANGED <<created, aged, manual, open, cur, late, passVars, lapseVars>>

DropExpired(t, c) ==
  /\ AtLoopHead(t)
  /\ c \in idle \cap aged
  /\ idle' = idle \ {c}
  /\ aged' = aged \ {c}
  /\ created' = Minus(created, 1)
  /\ cur' = [cur EXCEPT ![t] = c]
  /\ Goto(t, "lapsing")
  /\ lapsed' = TRUE
  /\ UNCHANGED <<manual, open, holder, late, passVars, seen, abandoned>>

ClaimSlot(t) ==
  /\ AtLoopHead(t)
  /\ idle = {} /\ created < Size
  /\ created' = Plus1(created)
  /\ Goto(t, "connecting")
  /\ UNCHANGED <<idle, aged, manual, open, holder, cur, late, passVars, lapseVars>>

BeginWait(t) ==
  /\ AtLoopHead(t)
  /\ idle = {} /\ created >= Size
  /\ Goto(t, "waiting")
  /\ UNCHANGED <<lockedVars, aged, manual, open, holder, cur, late, passVars, lapseVars>>

\* Mutant: wait() in place of wait_until().
WaitEndsNever(t) ==
  /\ t \in Waiters
  /\ UNCHANGED vars

\* The wait ends on its own: the deadline passed, or a spurious wakeup.
WaitEnds(t) ==
  /\ t \in Waiters
  /\ Goto(t, Awoken(t))
  /\ UNCHANGED <<lockedVars, aged, manual, open, holder, cur, late, passVars, lapseVars>>

\* wait_until answers timeout whenever the clock is past the deadline when it
\* returns, notified or not; only an idle entry keeps the call going then.
ThrowTimeout(t) ==
  /\ pc[t] = "awake" /\ ~abandoned
  /\ t \in late /\ idle = {}
  /\ Goto(t, "ready")
  /\ UNCHANGED <<lockedVars, aged, manual, open, holder, cur, late, passVars, lapseVars>>

ConnectSucceeds(t, c) ==
  /\ pc[t] = "connecting"
  /\ c \in Conns \ open
  /\ open' = open \cup {c}
  /\ holder' = [holder EXCEPT ![c] = t]
  /\ Goto(t, "ready")
  /\ UNCHANGED <<lockedVars, aged, manual, cur, late, passVars, lapseVars>>

ConnectFails(t) ==
  /\ pc[t] = "connecting"
  /\ Goto(t, "undo")
  /\ UNCHANGED <<lockedVars, aged, manual, open, holder, cur, late, passVars, lapseVars>>

\* Mutant: the handler of a failed connect does not hand the slot back.
ReturnSlotForgotten(t) ==
  /\ pc[t] = "undo" /\ ~abandoned
  /\ Goto(t, "notify")
  /\ UNCHANGED <<lockedVars, aged, manual, open, holder, cur, late, passVars, lapseVars>>

ReturnSlot(t) ==
  /\ pc[t] = "undo" /\ ~abandoned
  /\ created' = Minus(created, 1)
  /\ Goto(t, "notify")
  /\ UNCHANGED <<idle, aged, manual, open, holder, cur, late, passVars, lapseVars>>

-----------------------------------------------------------------------------
(* acquire() after an expired entry: the same loop, without the mutex *)

\* notify_one() and the entry's destructor, on the way to `continue`.
LapseNotify(t) ==
  /\ pc[t] = "lapsing"
  /\ \/ \E w \in Waiters : pc' = [pc EXCEPT ![t] = "lapsed", ![w] = Awoken(w)]
     \/ Waiters = {} /\ Goto(t, "lapsed")
  /\ open' = open \ {cur[t]}
  /\ manual' = manual \ {cur[t]}
  /\ cur' = [cur EXCEPT ![t] = None]
  /\ UNCHANGED <<lockedVars, aged, holder, late, passVars, lapseVars>>

\* An entry popped by an iteration whose lock.unlock() then throws: a live
\* one is destroyed with its slot still counted, an expired one is not.
LosePopped(c) ==
  /\ c \in idle
  /\ idle' = idle \ {c}
  /\ created' = IF c \in aged THEN Minus(created, 1) ELSE created
  /\ aged' = aged \ {c}
  /\ open' = open \ {c}
  /\ manual' = manual \ {c}

LapsedTake(t, c) ==
  /\ pc[t] = "lapsed"
  /\ LosePopped(c)
  /\ Goto(t, "ready")
  /\ UNCHANGED <<holder, cur, late, passVars, lapseVars>>

LapsedCheck(t) ==
  /\ pc[t] = "lapsed"
  /\ idle = {} /\ created < Size
  /\ seen' = [seen EXCEPT ![t] = created]
  /\ Goto(t, "lapsedClaim")
  /\ UNCHANGED <<lockedVars, aged, manual, open, holder, cur, late, passVars, lapsed, abandoned>>

\* ++created beside the mutex may lose a concurrent update; unlock() throws
\* before the try block that would hand the slot back.
LapsedClaim(t) ==
  /\ pc[t] = "lapsedClaim"
  /\ created' \in {Plus1(created), Plus1(seen[t])}
  /\ seen' = [seen EXCEPT ![t] = 0]
  /\ Goto(t, "ready")
  /\ UNCHANGED <<idle, aged, manual, open, holder, cur, late, passVars, lapsed, abandoned>>

LapsedWait(t) ==
  /\ pc[t] = "lapsed"
  /\ idle = {} /\ created >= Size
  /\ Goto(t, "lapsedWait")
  /\ UNCHANGED <<lockedVars, aged, manual, open, holder, cur, late, passVars, lapseVars>>

\* The wait locked the mutex behind the unique_lock's back.  Every way out of
\* this iteration but another wait throws and leaves the mutex locked.
LapsedWake(t) ==
  /\ pc[t] = "lapsedAwake" /\ ~abandoned
  /\ \/ /\ \E c \in idle : LosePopped(c)
        /\ Goto(t, "ready") /\ abandoned' = TRUE
     \/ /\ idle = {} /\ t \notin late /\ created < Size
        /\ created' = Plus1(created)
        /\ Goto(t, "ready") /\ abandoned' = TRUE
        /\ UNCHANGED <<idle, aged, open, manual>>
     \/ /\ idle = {} /\ t \in late
        /\ Goto(t, "ready") /\ abandoned' = TRUE
        /\ UNCHANGED <<lockedVars, aged, open, manual>>
     \/ /\ idle = {} /\ t \notin late /\ created >= Size
        /\ Goto(t, "lapsedWait")
        /\ UNCHANGED <<lockedVars, aged, open, manual, abandoned>>
  /\ UNCHANGED <<holder, cur, late, passVars, seen, lapsed>>
-----------------------------------------------------------------------------
(* The lease: use by its holder, and release() from ~pooled_connection *)

\* The holder turns autocommit off, or ends its work and turns it on again.
SwitchMode(t, c) ==
  /\ pc[t] = "ready" /\ holder[c] = t
  /\ \/ manual' = manual \cup {c}
     \/ manual' = manual \ {c}
  /\ UNCHANGED <<lockedVars, aged, open, holder, pc, cur, late, passVars, lapseVars>>

ReleaseCall(t, c) ==
  /\ pc[t] = "ready" /\ holder[c] = t
  /\ holder' = [holder EXCEPT ![c] = None]
  /\ cur' = [cur EXCEPT ![t] = c]
  /\ Goto(t, "resetting")
  /\ UNCHANGED <<lockedVars, aged, manual, open, late, passVars, lapseVars>>

\* Mutant: the connection goes back as its last holder left it.
ResetSkipped(t) ==
  /\ pc[t] = "resetting"
  /\ Goto(t, "returning")
  /\ UNCHANGED <<lockedVars, aged, manual, open, holder, cur, late, passVars, lapseVars>>

\* rollback() and set_autocommit(true), off the mutex; either may throw.
Reset(t) ==
  /\ pc[t] = "resetting"
  /\ \/ manual' = manual \ {cur[t]} /\ Goto(t, "returning")
     \/ cur[t] \in manual /\ UNCHANGED manual /\ Goto(t, "retiring")
  /\ UNCHANGED <<lockedVars, aged, open, holder, cur, late, passVars, lapseVars>>

\* Mutant: release() without its notify_one().
ReturnIdleSilently(t) ==
  /\ pc[t] = "returning" /\ ~abandoned
  /\ idle' = idle \cup {cur[t]}
  /\ cur' = [cur EXCEPT ![t] = None]
  /\ Goto(t, "ready")
  /\ UNCHANGED <<created, aged, manual, open, holder, late, passVars, lapseVars>>

ReturnIdle(t) ==
  /\ pc[t] = "returning" /\ ~abandoned
  /\ idle' = idle \cup {cur[t]}
  /\ cur' = [cur EXCEPT ![t] = None]
  /\ Goto(t, "notify")
  /\ UNCHANGED <<created, aged, manual, open, holder, late, passVars, lapseVars>>

Retire(t) ==
  /\ pc[t] = "retiring" /\ ~abandoned
  /\ created' = Minus(created, 1)
  /\ Goto(t, "notify")
  /\ UNCHANGED <<idle, aged, manual, open, holder, cur, late, passVars, lapseVars>>

\* notify_one() after the unlock, then the end of the call, which destroys a
\* connection that was retired.
NotifyOne(t) ==
  /\ pc[t] = "notify"
  /\ \/ \E w \in Waiters : pc' = [pc EXCEPT ![t] = "ready", ![w] = Awoken(w)]
     \/ Waiters = {} /\ Goto(t, "ready")
  /\ open' = open \ {cur[t]}
  /\ manual' = manual \ {cur[t]}
  /\ cur' = [cur EXCEPT ![t] = None]
  /\ UNCHANGED <<lockedVars, aged, holder, late, passVars, lapseVars>>
-----------------------------------------------------------------------------
(* Time, and run_maintenance() on the scheduler's one thread *)

\* An entry the pool holds, idle or out for a heartbeat, outlives the limit.
Age(c) ==
  /\ IdleLimitMet
  /\ c \in (idle \cup checking) \ aged
  /\ aged' = aged \cup {c}
  /\ UNCHANGED <<lockedVars, manual, open, holder, pc, cur, late, passVars, lapseVars>>

PassBegin ==
  /\ mpc = "rest" /\ ~abandoned
  /\ evicted' = idle \cap aged
  /\ created' = Minus(created, Cardinality(idle \cap aged))
  /\ checking' = idle \ aged
  /\ idle' = {}
  /\ aged' = aged \ idle
  /\ mpc' = "evict"
  /\ UNCHANGED <<manual, open, holder, pc, cur, late, doomed, lapseVars>>

\* Mutant: the evicted handles are dropped without a disconnect.
CloseEvictedLeaking ==
  /\ mpc = "evict"
  /\ evicted' = {}
  /\ mpc' = "beat"
  /\ UNCHANGED <<lockedVars, aged, manual, open, holder, pc, cur, late, checking, doomed, lapseVars>>

\* evicted.clear(): the connections close after the unlock.
CloseEvicted ==
  /\ mpc = "evict"
  /\ open' = open \ evicted
  /\ manual' = manual \ evicted
  /\ evicted' = {}
  /\ mpc' = "beat"
  /\ UNCHANGED <<lockedVars, aged, holder, pc, cur, late, checking, doomed, lapseVars>>

\* A heartbeat that answered: the entry is idle again, with its released_at.
VerdictAlive(c) ==
  /\ mpc = "beat" /\ ~abandoned
  /\ c \in checking
  /\ checking' = checking \ {c}
  /\ idle' = idle \cup {c}
  /\ mpc' = "tell"
  /\ UNCHANGED <<created, aged, manual, open, holder, pc, cur, late, evicted, doomed, lapseVars>>

\* A heartbeat that threw: the slot is free now, the connection closes with
\* the pass's vector.
VerdictDead(c) ==
  /\ mpc = "beat" /\ ~abandoned
  /\ c \in checking
  /\ checking' = checking \ {c}
  /\ created' = Minus(created, 1)
  /\ aged' = aged \ {c}
  /\ doomed' = doomed \cup {c}
  /\ mpc' = "tell"
  /\ UNCHANGED <<idle, manual, open, holder, pc, cur, late, evicted, lapseVars>>

NotifyAll ==
  /\ mpc = "tell"
  /\ pc' = [t \in Threads |-> IF t \in Waiters THEN Awoken(t) ELSE pc[t]]
  /\ mpc' = "beat"
  /\ UNCHANGED <<lockedVars, aged, manual, open, holder, cur, late, checking, evicted, doomed, lapseVars>>

PassEnd ==
  /\ mpc = "beat" /\ checking = {}
  /\ open' = open \ doomed
  /\ manual' = manual \ doomed
  /\ doomed' = {}
  /\ mpc' = "rest"
  /\ UNCHANGED <<lockedVars, aged, holder, pc, cur, late, checking, evicted, lapseVars>>
-----------------------------------------------------------------------------
AcquireStep(t) ==
  \/ \E c \in Conns : TakeIdle(t, c) \/ DropExpired(t, c)
  \/ ClaimSlot(t) \/ BeginWait(t) \/ ThrowTimeout(t)

ConnectStep(t) == (\E c \in Conns : ConnectSucceeds(t, c)) \/ ConnectFails(t) \/ ReturnSlot(t)

LapseStep(t) ==
  \/ LapseNotify(t) \/ LapsedCheck(t) \/ LapsedClaim(t) \/ LapsedWait(t) \/ LapsedWake(t)
  \/ \E c \in Conns : LapsedTake(t, c)

ReleaseStep(t) == Reset(t) \/ ReturnIdle(t) \/ Retire(t) \/ NotifyOne(t)

\* What a thread inside a call does next.
CallStep(t) == AcquireStep(t) \/ ConnectStep(t) \/ LapseStep(t) \/ ReleaseStep(t)

\* What its caller decides, and what the clock and the condition variable do.
CallerStep(t) ==
  \/ AcquireCall(t) \/ DeadlinePasses(t) \/ WaitEnds(t)
  \/ \E c \in Conns : SwitchMode(t, c) \/ ReleaseCall(t, c)

PassStep ==
  \/ CloseEvicted \/ NotifyAll \/ PassEnd
  \/ \E c \in Conns : VerdictAlive(c) \/ VerdictDead(c)

Next ==
  \/ \E t \in Threads : CallStep(t) \/ CallerStep(t)
  \/ PassBegin \/ PassStep
  \/ \E c \in Conns : Age(c)

Spec == Init /\ [][Next]_vars

\* A thread inside a call runs on, a deadline comes, a wait past its deadline
\* ends, and a pass that began goes on.  Nothing makes a caller release, and
\* nothing makes a pass begin.
Fairness ==
  /\ \A t \in Threads :
       /\ WF_vars(CallStep(t))
       /\ WF_vars(DeadlinePasses(t))
       /\ WF_vars(t \in late /\ WaitEnds(t))
  /\ WF_vars(PassStep)

FairSpec == Spec /\ Fairness
-----------------------------------------------------------------------------
\* Until an acquire() has iterated without the mutex, `created` counts each
\* idle entry, each entry out for a heartbeat, each lease and each call that
\* carries a slot exactly once, and never passes pool_options::size
\* (pool.cpp:214, 220, 230, 275, 46, 75).
SlotsAccounted ==
  ~lapsed =>
    /\ created = Cardinality(idle \cup checking \cup Leased) + Cardinality(Carrying)
    /\ created <= Size

\* What calls have in hand.
InHand == {cur[t] : t \in Threads} \ {None}

\* A connection is in one place at a time: idle, out for a heartbeat, leased,
\* or in the hands of one call; so no two borrowers ever drive one connection
\* (pool.cpp:207-212, 53-77).
OneOwner ==
  ~lapsed =>
    /\ idle \cap checking = {} /\ (idle \cup checking) \cap Leased = {}
    /\ InHand \cap (idle \cup checking \cup Leased) = {}
    /\ (evicted \cup doomed) \cap (idle \cup checking \cup Leased \cup InHand) = {}
    /\ \A t, u \in Threads : t # u /\ cur[t] # None => cur[t] # cur[u]

\* What the pool can hand out next is open and commits on its own: work a
\* lease left pending was rolled back or its connection retired
\* (pool.cpp:262-276).
CleanIdle ==
  ~lapsed => (idle \cup checking) \cap manual = {} /\ idle \cup checking \subseteq open

\* Every connection still open belongs to someone who will close it or hand
\* it on: none is forgotten while open (pool.cpp:59, 81, 217, 279).
NoForgottenConnection ==
  ~lapsed => open = idle \cup checking \cup Leased \cup InHand \cup evicted \cup doomed

\* A heartbeat does not make idle_count() dip: it drops only when a borrower
\* takes an entry, or an entry expired or was judged dead (pool.cpp:23-25,
\* 55, 70-78).
HeartbeatKeepsCount ==
  [][ idle_count' < idle_count =>
        \/ \E t \in Threads : pc'[t] # pc[t]
        \/ created' < created
        \/ lapsed ]_vars

\* A waiter does not sleep on beside an idle entry: whoever put the entry
\* there still owes a notify, or somebody awake is about to look
\* (pool.cpp:79, 216, 278).
NoSleepBesideIdle ==
  (\E t \in Threads : pc[t] = "waiting") /\ idle # {} /\ ~lapsed =>
    \/ \E t \in Threads : pc[t] \in {"awake", "notify"}
    \/ mpc = "tell"

\* acquire() comes to an end: with a lease or an exception, unless some call
\* has iterated without the mutex (pool.cpp:206-241).
AcquireEnds == \A t \in Threads : pc[t] = "enter" ~> (pc[t] = "ready" \/ lapsed)

\* The slot of an expired entry that acquire() drops is free again:
\* pool.cpp:216 "slot freed; a waiter may create a fresh one".
DroppedSlotIsFree ==
  created = Cardinality(idle \cup checking \cup Leased) + Cardinality(Carrying)
=============================================================================
