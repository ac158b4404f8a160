----------------------------- MODULE WorkerPool -----------------------------
(***************************************************************************)
(* The thread pool behind default_executor(): submit(), the workers' loop, *)
(* growth, the first use that creates the pool, and the destructor that    *)
(* runs when the process ends (src/async/worker_pool.cpp).                 *)
(*                                                                         *)
(* A critical section on the pool's mutex is one step; the notification    *)
(* that follows it is another.  A worker that looks has the predicate of   *)
(* its wait still to evaluate: it is new, was woken, or ended its work.    *)
(***************************************************************************)
EXTENDS Naturals, Sequences, FiniteSets

CONSTANTS
  Works,       \* closures, each handed over once
  Clients,     \* threads outside the pool
  MaxThreads,  \* bound: the largest worker count anybody asks for
  Hardware,    \* hardware_workers()
  None

Slots == 1..MaxThreads
Actors == Clients \cup Slots

ASSUME PoolAssumption ==
  /\ IsFiniteSet(Works) /\ None \notin Works
  /\ IsFiniteSet(Clients) /\ Clients \cap Nat = {}
  /\ MaxThreads \in Nat /\ Hardware \in Slots

VARIABLES
  pool,       \* "none", "up", "stopping", "gone"; "dead": the process was ended
  intended,   \* pool_bootstrap::intended
  asked,      \* history: the count the last default_executor_size() accepted
  worker,     \* what each thread of workers_ does
  doing,      \* the closure it runs
  queue,      \* queue_
  notifying,  \* threads between the unlock and the notify_one of submit()
  leaving,    \* the destructor: "no", "notify", "join"
  accepted,   \* history: closures submit() took
  ran         \* history: closures that ran to their end

vars == <<pool, intended, asked, worker, doing, queue, notifying, leaving,
          accepted, ran>>

States == {"none", "look", "asleep", "running", "exited"}

\* The pool's members, and a worker runs a closure exactly when it has one
\* (worker_pool.hpp, worker_pool.cpp:86-110).
TypeOK ==
  /\ pool \in {"none", "up", "stopping", "gone", "dead"}
  /\ intended \in 0..MaxThreads /\ asked \in 0..MaxThreads
  /\ worker \in [Slots -> States]
  /\ doing \in [Slots -> Works \cup {None}]
  /\ \A i \in Slots : worker[i] = "running" <=> doing[i] # None
  /\ queue \in Seq(Works)
  /\ notifying \in SUBSET Actors
  /\ leaving \in {"no", "notify", "join"}
  /\ accepted \in SUBSET Works /\ ran \in SUBSET Works

Init ==
  /\ pool = "none" /\ intended = 0 /\ asked = 0
  /\ worker = [i \in Slots |-> "none"] /\ doing = [i \in Slots |-> None]
  /\ queue = <<>> /\ notifying = {} /\ leaving = "no"
  /\ accepted = {} /\ ran = {}

Spawned == {i \in Slots : worker[i] # "none"}
\* workers_ filled up to n threads.
Filled(n) == [i \in Slots |-> IF i <= n /\ worker[i] = "none" THEN "look" ELSE worker[i]]

\* Threads that run code of their own and may call into the pool: a client, or
\* a closure on a worker.
MayCall(a) ==
  /\ a \notin notifying
  /\ a \in Slots => worker[a] = "running"
-----------------------------------------------------------------------------
(* The pool comes up and grows *)

\* Mutant: the first use takes no notice of the intended size.
FirstUseByHardware(a) ==
  /\ MayCall(a) /\ pool = "none"
  /\ pool' = "up" /\ worker' = Filled(Hardware)
  /\ UNCHANGED <<intended, asked, doing, queue, notifying, leaving, accepted, ran>>

\* default_executor() before there is a pool.
FirstUse(a) ==
  /\ MayCall(a) /\ pool = "none"
  /\ pool' = "up" /\ worker' = Filled(IF intended > 0 THEN intended ELSE Hardware)
  /\ UNCHANGED <<intended, asked, doing, queue, notifying, leaving, accepted, ran>>

\* The k+1st thread cannot be had.  The constructor's exception destroys
\* workers_, and a thread in it that is not joined ends the process.
FirstUseFails(a) ==
  /\ MayCall(a) /\ pool = "none"
  /\ \E k \in 0..((IF intended > 0 THEN intended ELSE Hardware) - 1) :
       pool' = IF k = 0 THEN "none" ELSE "dead"
  /\ UNCHANGED <<intended, asked, worker, doing, queue, notifying, leaving, accepted, ran>>

\* default_executor_size(n): an intention before the first use, growth after.
SetSize(a, n) ==
  /\ MayCall(a) /\ n > 0
  /\ \/ /\ pool = "none"
        /\ intended' = n /\ UNCHANGED worker
     \/ /\ pool = "up" /\ n >= Cardinality(Spawned)
        /\ worker' = Filled(n) /\ UNCHANGED intended
  /\ asked' = n
  /\ UNCHANGED <<pool, doing, queue, notifying, leaving, accepted, ran>>

\* Growth that stops half-way leaves the threads it got.
GrowFails(a, n) ==
  /\ MayCall(a) /\ pool = "up" /\ n > Cardinality(Spawned)
  /\ \E k \in Cardinality(Spawned)..(n - 1) : worker' = Filled(k)
  /\ UNCHANGED <<pool, intended, asked, doing, queue, notifying, leaving, accepted, ran>>
-----------------------------------------------------------------------------
(* submit() *)

\* Work goes to the back; while the pool shuts down it is refused.
Submit(a, x) ==
  /\ MayCall(a) /\ pool = "up" /\ x \notin accepted
  /\ queue' = Append(queue, x) /\ accepted' = accepted \cup {x}
  /\ notifying' = notifying \cup {a}
  /\ UNCHANGED <<pool, intended, asked, worker, doing, leaving, ran>>

\* Mutant: the notification is forgotten.
NotifyForgotten(a) ==
  /\ a \in notifying
  /\ notifying' = notifying \ {a}
  /\ UNCHANGED <<pool, intended, asked, worker, doing, queue, leaving, accepted, ran>>

\* notify_one(): some sleeper, if there is one.
NotifyOne(a) ==
  /\ a \in notifying
  /\ notifying' = notifying \ {a}
  /\ LET sleepers == {i \in Slots : worker[i] = "asleep"}
     IN  IF sleepers = {} THEN UNCHANGED worker
         ELSE \E i \in sleepers : worker' = [worker EXCEPT ![i] = "look"]
  /\ UNCHANGED <<pool, intended, asked, doing, queue, leaving, accepted, ran>>
-----------------------------------------------------------------------------
(* run() *)

\* Mutant: a worker leaves as soon as the pool stops.
LookLeavesEarly(i) ==
  /\ worker[i] = "look"
  /\ IF pool = "stopping"
     THEN worker' = [worker EXCEPT ![i] = "exited"] /\ UNCHANGED <<doing, queue>>
     ELSE IF queue # <<>>
     THEN /\ worker' = [worker EXCEPT ![i] = "running"]
          /\ doing' = [doing EXCEPT ![i] = Head(queue)] /\ queue' = Tail(queue)
     ELSE worker' = [worker EXCEPT ![i] = "asleep"] /\ UNCHANGED <<doing, queue>>
  /\ UNCHANGED <<pool, intended, asked, notifying, leaving, accepted, ran>>

\* Mutant: a worker that finds the pool stopping and nothing to do goes round.
LookNeverLeaves(i) ==
  /\ worker[i] = "look"
  /\ IF queue # <<>>
     THEN /\ worker' = [worker EXCEPT ![i] = "running"]
          /\ doing' = [doing EXCEPT ![i] = Head(queue)] /\ queue' = Tail(queue)
     ELSE /\ worker' = [worker EXCEPT ![i] = IF pool = "stopping" THEN "look" ELSE "asleep"]
          /\ UNCHANGED <<doing, queue>>
  /\ UNCHANGED <<pool, intended, asked, notifying, leaving, accepted, ran>>

\* The wait's predicate under the lock: take the front, leave, or sleep.
Look(i) ==
  /\ worker[i] = "look"
  /\ IF queue # <<>>
     THEN /\ worker' = [worker EXCEPT ![i] = "running"]
          /\ doing' = [doing EXCEPT ![i] = Head(queue)] /\ queue' = Tail(queue)
     ELSE /\ worker' = [worker EXCEPT ![i] = IF pool = "stopping" THEN "exited" ELSE "asleep"]
          /\ UNCHANGED <<doing, queue>>
  /\ UNCHANGED <<pool, intended, asked, notifying, leaving, accepted, ran>>

\* A condition variable may wake by itself.
WakeSpuriously(i) ==
  /\ worker[i] = "asleep"
  /\ worker' = [worker EXCEPT ![i] = "look"]
  /\ UNCHANGED <<pool, intended, asked, doing, queue, notifying, leaving, accepted, ran>>

\* The closure returns, or throws: the worker goes on either way.
WorkEnds(i) ==
  /\ worker[i] = "running" /\ i \notin notifying
  /\ ran' = ran \cup {doing[i]}
  /\ worker' = [worker EXCEPT ![i] = "look"] /\ doing' = [doing EXCEPT ![i] = None]
  /\ UNCHANGED <<pool, intended, asked, queue, notifying, leaving, accepted>>
-----------------------------------------------------------------------------
(* ~worker_pool() *)

Stop ==
  /\ pool = "up"
  /\ pool' = "stopping" /\ leaving' = "notify"
  /\ UNCHANGED <<intended, asked, worker, doing, queue, notifying, accepted, ran>>

\* Mutant: notify_one() in place of notify_all().
StopNotifiesOne ==
  /\ leaving = "notify"
  /\ leaving' = "join"
  /\ LET sleepers == {i \in Slots : worker[i] = "asleep"}
     IN  IF sleepers = {} THEN UNCHANGED worker
         ELSE \E i \in sleepers : worker' = [worker EXCEPT ![i] = "look"]
  /\ UNCHANGED <<pool, intended, asked, doing, queue, notifying, accepted, ran>>

StopNotifies ==
  /\ leaving = "notify"
  /\ leaving' = "join"
  /\ worker' = [i \in Slots |-> IF worker[i] = "asleep" THEN "look" ELSE worker[i]]
  /\ UNCHANGED <<pool, intended, asked, doing, queue, notifying, accepted, ran>>

\* Every join() came back.
Joined ==
  /\ leaving = "join" /\ pool = "stopping"
  /\ \A i \in Spawned : worker[i] = "exited"
  /\ pool' = "gone"
  /\ UNCHANGED <<intended, asked, worker, doing, queue, notifying, leaving, accepted, ran>>
-----------------------------------------------------------------------------
Grow ==
  \E a \in Actors :
    \/ FirstUse(a) \/ FirstUseFails(a)
    \/ \E n \in 0..MaxThreads : SetSize(a, n) \/ GrowFails(a, n)

WorkerStep(i) == Look(i) \/ WorkEnds(i)

Next ==
  /\ pool # "dead"
  /\ \/ Grow
     \/ \E a \in Actors : NotifyOne(a) \/ \E x \in Works : Submit(a, x)
     \/ \E i \in Slots : WorkerStep(i) \/ WakeSpuriously(i)
     \/ Stop \/ StopNotifies \/ Joined

Spec == Init /\ [][Next]_vars

\* Threads run on and closures end.  Nobody is made to submit or to leave, and
\* nothing wakes by itself in time.
Fairness ==
  /\ \A i \in Slots : WF_vars(WorkerStep(i))
  /\ \A a \in Actors : WF_vars(NotifyOne(a))
  /\ WF_vars(StopNotifies) /\ WF_vars(Joined)

FairSpec == Spec /\ Fairness
-----------------------------------------------------------------------------
\* No worker sleeps on while work waits, unless a notification or a worker on
\* its way is there for each closure: a notify_one() that hits nobody, a work
\* taken by another and a wakeup without cause lose nothing
\* (worker_pool.cpp:57-66, 86-97).
NoSleepBesideWork ==
  (\E i \in Slots : worker[i] = "asleep") =>
    Len(queue) <= Cardinality(notifying) + Cardinality({i \in Slots : worker[i] = "look"})

\* The destructor's notify_all() reaches everybody: nobody sleeps while it
\* joins, or falls asleep behind its back (worker_pool.cpp:46-55).
StopIsHeard == leaving = "join" => \A i \in Slots : worker[i] # "asleep"

\* What submit() took has run before the pool goes (worker_pool.cpp:93-95).
NothingDropped == pool = "gone" => accepted = ran

\* The size named before the first use is the size the pool comes up with, and
\* a size accepted later holds (worker_pool.cpp:16-18, 113-126).
SizeHonoured == pool = "up" => 1..asked \subseteq Spawned

\* Whatever the order of submit(), growth and the destructor: no closure is lost
\* or slept through, no sleeper misses the end, and the pool has the threads it
\* was told to have (worker_pool.cpp:43-126).
PoolSound == NoSleepBesideWork /\ StopIsHeard /\ NothingDropped /\ SizeHonoured

\* Work that was taken runs to its end, whoever stops the pool meanwhile.
EveryWorkRuns == \A x \in Works : x \in accepted ~> x \in ran

\* The destructor comes to its end.
PoolEnds == pool = "stopping" ~> pool = "gone"

\* Closures and the destructor both get what they wait for (worker_pool.cpp:43-110).
PoolServes == EveryWorkRuns /\ PoolEnds
=============================================================================
