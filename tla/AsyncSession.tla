---------------------------- MODULE AsyncSession ----------------------------
(***************************************************************************)
(* One asynchronous session: its operation_queue, the tasks driven through *)
(* it and the threads they run on (include/uniorm/async.hpp,               *)
(* src/async/async.cpp).                                                   *)
(*                                                                         *)
(* A critical section on the queue's mutex is one step.  drain() drops the *)
(* lock around start(): the thread that walks the queue is `drainer`, the  *)
(* operation it popped last is `popped`.  The executor is any the          *)
(* interface allows: submit() may queue the work for a worker, run it on   *)
(* the spot, or refuse it.  User code (a body, a callback, a continuation) *)
(* may drive further operations from inside.                               *)
(*                                                                         *)
(* The call stack of a thread needs no variable: below a walk may lie the  *)
(* operation whose finish() or whose user code began it, above it only     *)
(* `popped`, run on the spot.                                              *)
(***************************************************************************)
EXTENDS Naturals, Sequences, FiniteSets

CONSTANTS
  Ops,         \* tasks of the session
  Callers,     \* threads that use the session
  Workers,     \* threads of the executor
  Owner,       \* the caller whose scope the session lives in
  Limits,      \* values submit_limit() is given
  Modes,       \* drive actions the callers use
  Outcomes,    \* what the executor's submit() may do
  Redrives,    \* whether a task is driven again although it was driven
  Nobody, Nothing

AllOutcomes == {"queue", "inline", "refuse", "nopool"}

ASSUME OpsAssumption == IsFiniteSet(Ops) /\ Nothing \notin Ops
ASSUME ThreadsAssumption ==
  /\ IsFiniteSet(Callers) /\ IsFiniteSet(Workers) /\ Callers \cap Workers = {}
  /\ Owner \in Callers /\ Nobody \notin Callers \cup Workers
ASSUME LimitsAssumption == Limits \subseteq Nat \ {0} /\ Limits # {}
ASSUME ModesAssumption ==
  /\ Modes \subseteq {"blocked", "detached", "awaited"}
  /\ Outcomes \subseteq AllOutcomes
  /\ Redrives \in BOOLEAN

Threads == Callers \cup Workers

VARIABLES
  waiting,    \* operation_queue::waiting_
  in_flight,  \* operation_queue::in_flight_
  draining,   \* operation_queue::draining_
  limit,      \* operation_queue::limit_
  drainer,    \* the thread inside drain() with the lock dropped
  popped,     \* the operation that thread took off the queue last
  current,    \* the operation whose turn it is
  driven,     \* operation_core::driven
  stage,      \* how far each operation has come
  failed,     \* operations with operation_core::failure set
  on,         \* the thread an operation's code runs on
  parked,     \* the operation a caller waits for in block()
  served,     \* history: the order in which turns ended
  idler,      \* the owner in wait_idle(): "no", "asleep", "awake" or "done"
  closed      \* the queue is destroyed

queueVars == <<waiting, in_flight, draining, limit>>
walkVars == <<drainer, popped, current>>
taskVars == <<driven, stage, failed, on, parked>>
endVars == <<idler, closed>>
vars == <<waiting, in_flight, draining, limit, drainer, popped, current,
          driven, stage, failed, on, parked, served, idler, closed>>

Stages ==
  {"new", "queued", "starting", "handed", "running", "over", "finishing",
   "finished", "answered", "lost"}
\* From the pop to the end of finish()'s first lines the turn is taken.
TurnStages == {"starting", "handed", "running", "over"}

\* What the queue and the tasks are made of: the limit is never zero, and a
\* thread is parked on a task at most (async.hpp:85-125, 135-180).
TypeOK ==
  /\ waiting \in Seq(Ops) /\ in_flight \in BOOLEAN /\ draining \in BOOLEAN
  /\ limit \in Limits \cup {1}
  /\ drainer \in Threads \cup {Nobody}
  /\ popped \in Ops \cup {Nothing} /\ current \in Ops \cup {Nothing}
  /\ driven \in [Ops -> {"idle", "blocked", "detached", "awaited"}]
  /\ stage \in [Ops -> Stages]
  /\ failed \in SUBSET Ops
  /\ on \in [Ops -> Threads \cup {Nobody}]
  /\ parked \in [Callers -> Ops \cup {Nothing}]
  /\ served \in Seq(Ops)
  /\ idler \in {"no", "asleep", "awake", "done"} /\ closed \in BOOLEAN

Init ==
  /\ waiting = <<>> /\ in_flight = FALSE /\ draining = FALSE /\ limit \in Limits
  /\ drainer = Nobody /\ popped = Nothing /\ current = Nothing
  /\ driven = [o \in Ops |-> "idle"]
  /\ stage = [o \in Ops |-> "new"]
  /\ failed = {}
  /\ on = [o \in Ops |-> Nobody]
  /\ parked = [c \in Callers |-> Nothing]
  /\ served = <<>>
  /\ idler = "no" /\ closed = FALSE

\* Code of op is what thread t runs now: nothing lies above it on the stack.
OnTop(t, op) == on[op] = t /\ (drainer = t => op = popped)
\* Thread t runs user code, which may drive operations: a caller outside the
\* library, a body (or the callback in it), a continuation being resumed.
RunsUserCode(t) ==
  \/ /\ t \in Callers /\ parked[t] = Nothing /\ drainer # t
     /\ \A op \in Ops : on[op] # t
  \/ \E op \in Ops :
       /\ OnTop(t, op)
       /\ \/ stage[op] = "running"
          \/ stage[op] = "finished" /\ driven[op] = "awaited"
          \/ stage[op] = "finished" /\ driven[op] = "detached" /\ op \in failed

\* The session may still be used: nobody waits for it to go quiet, or this is
\* a body it waits for.
MayUse(t) ==
  /\ RunsUserCode(t)
  /\ idler = "no" \/ \E op \in Ops : OnTop(t, op) /\ stage[op] = "running"

wakeIdler == idler' = IF idler = "asleep" THEN "awake" ELSE idler

\* drain() up to the unlock before start(): pop the front of q, or leave.
Walk(t, q) ==
  IF q = <<>>
  THEN /\ draining' = FALSE /\ in_flight' = FALSE /\ waiting' = q
       /\ drainer' = Nobody /\ popped' = Nothing /\ current' = Nothing
  ELSE /\ draining' = TRUE /\ in_flight' = TRUE /\ waiting' = Tail(q)
       /\ drainer' = t /\ popped' = Head(q) /\ current' = Head(q)
-----------------------------------------------------------------------------
(* Drive actions: park(), detach(), await_suspend() through launch() and push() *)

\* Mutant: the newest request goes first.
DriveInFront(t, op, mode) ==
  /\ MayUse(t)
  /\ driven[op] = "idle" /\ stage[op] = "new"
  /\ mode = "blocked" => t \in Callers /\ \A o \in Ops : on[o] # t
  /\ Len(waiting) + (IF in_flight THEN 1 ELSE 0) < limit
  /\ driven' = [driven EXCEPT ![op] = mode]
  /\ IF in_flight \/ draining
     THEN /\ waiting' = <<op>> \o waiting
          /\ stage' = [stage EXCEPT ![op] = "queued"]
          /\ UNCHANGED <<in_flight, draining, walkVars>>
     ELSE /\ Walk(t, <<op>> \o waiting)
          /\ stage' = [stage EXCEPT ![op] = "starting"]
  /\ parked' = IF mode = "blocked" THEN [parked EXCEPT ![t] = op] ELSE parked
  /\ UNCHANGED <<limit, failed, on, served, endVars>>

\* A task is driven: claim(), then push().  block() parks the thread on the
\* task's semaphore once push() comes back.  (A task whose claim was undone in
\* flight would enter the queue twice; the model stops before that.)
Drive(t, op, mode) ==
  /\ MayUse(t)
  /\ driven[op] = "idle" /\ stage[op] = "new"
  /\ mode = "blocked" => t \in Callers /\ \A o \in Ops : on[o] # t
  /\ Len(waiting) + (IF in_flight THEN 1 ELSE 0) < limit
  /\ driven' = [driven EXCEPT ![op] = mode]
  /\ IF in_flight \/ draining
     THEN /\ waiting' = Append(waiting, op)
          /\ stage' = [stage EXCEPT ![op] = "queued"]
          /\ UNCHANGED <<in_flight, draining, walkVars>>
     ELSE /\ Walk(t, Append(waiting, op))
          /\ stage' = [stage EXCEPT ![op] = "queued", ![Head(Append(waiting, op))] = "starting"]
  /\ parked' = IF mode = "blocked" THEN [parked EXCEPT ![t] = op] ELSE parked
  /\ UNCHANGED <<limit, failed, on, served, endVars>>

\* push() throws submit_overflow: unclaim() leaves the task undriven.  An
\* await keeps the exception in the task as well.
DriveRefused(t, op, mode) ==
  /\ MayUse(t)
  /\ driven[op] = "idle" /\ stage[op] = "new"
  /\ Len(waiting) + (IF in_flight THEN 1 ELSE 0) >= limit
  /\ failed' = IF mode = "awaited" THEN failed \cup {op} ELSE failed
  /\ UNCHANGED <<queueVars, walkVars, driven, stage, on, parked, served, endVars>>

\* A task driven again: claim() throws.  park() and detach() let the exception
\* out; await_suspend() runs unclaim() and puts it into the task first.
DriveAgain(t, op, mode) ==
  /\ Redrives
  /\ MayUse(t)
  /\ driven[op] # "idle" /\ mode = "awaited"
  /\ driven' = [driven EXCEPT ![op] = "idle"]
  /\ failed' = failed \cup {op}
  /\ UNCHANGED <<queueVars, walkVars, stage, on, parked, served, endVars>>

SetLimit(n) ==
  /\ ~closed
  /\ limit' = IF n = 0 THEN 1 ELSE n
  /\ UNCHANGED <<waiting, in_flight, draining, walkVars, taskVars, served, endVars>>
-----------------------------------------------------------------------------
(* drain(): start() with the lock dropped, and the way back *)

\* begin() hands the body to the executor, which keeps it for a worker.
StartQueued(t) ==
  /\ "queue" \in Outcomes
  /\ drainer = t /\ stage[popped] = "starting"
  /\ stage' = [stage EXCEPT ![popped] = "handed"]
  /\ UNCHANGED <<queueVars, walkVars, driven, failed, on, parked, served, endVars>>

\* The executor runs the body on the spot, inside submit().
StartInline(t) ==
  /\ "inline" \in Outcomes
  /\ drainer = t /\ stage[popped] = "starting"
  /\ stage' = [stage EXCEPT ![popped] = "running"]
  /\ on' = [on EXCEPT ![popped] = t]
  /\ UNCHANGED <<queueVars, walkVars, driven, failed, parked, served, endVars>>

\* Mutant: a refused hand-off does not free the slot.
StartRefusedForgotten(t) ==
  /\ "refuse" \in Outcomes
  /\ drainer = t /\ stage[popped] = "starting"
  /\ stage' = [stage EXCEPT ![popped] = "lost"]
  /\ failed' = failed \cup {popped}
  /\ UNCHANGED <<queueVars, walkVars, driven, on, parked, served, endVars>>

\* submit() throws: fail_before_start() goes on from here to finish().
StartRefused(t) ==
  /\ "refuse" \in Outcomes
  /\ drainer = t /\ stage[popped] = "starting"
  /\ stage' = [stage EXCEPT ![popped] = "over"]
  /\ failed' = failed \cup {popped}
  /\ on' = [on EXCEPT ![popped] = t]
  /\ UNCHANGED <<queueVars, walkVars, driven, parked, served, endVars>>

\* default_executor() throws outside begin()'s try block: drain()'s handler
\* frees the slot and walks on.
StartThrows(t) ==
  /\ "nopool" \in Outcomes
  /\ drainer = t /\ stage[popped] = "starting"
  /\ Walk(t, waiting)
  /\ stage' = [o \in Ops |-> IF o = popped THEN "lost"
                             ELSE IF waiting # <<>> /\ o = Head(waiting) THEN "starting"
                             ELSE IF on[o] = t /\ stage[o] = "finishing" /\ waiting = <<>>
                                  THEN "finished" ELSE stage[o]]
  /\ served' = Append(served, popped)
  /\ IF waiting = <<>> THEN wakeIdler ELSE UNCHANGED idler
  /\ UNCHANGED <<limit, driven, failed, on, parked, closed>>

\* Mutant: the walk goes on although the body it started is in flight.
RelockGreedy(t) ==
  /\ drainer = t
  /\ stage[popped] # "starting" /\ on[popped] # t
  /\ Walk(t, waiting)
  /\ stage' = [o \in Ops |-> IF waiting # <<>> /\ o = Head(waiting) THEN "starting"
                             ELSE IF on[o] = t /\ stage[o] = "finishing" /\ waiting = <<>>
                                  THEN "finished" ELSE stage[o]]
  /\ UNCHANGED <<limit, driven, failed, on, parked, served, idler, closed>>

\* Back from start(): the lock again.  A body still in flight ends the walk;
\* its own finish() goes on from there.  The tail of a finish() the walk
\* began in runs under the same lock.
Relock(t) ==
  /\ drainer = t
  /\ stage[popped] # "starting" /\ on[popped] # t
  /\ IF in_flight
     THEN /\ draining' = FALSE /\ drainer' = Nobody /\ popped' = Nothing
          /\ UNCHANGED <<waiting, in_flight, current, idler>>
          /\ stage' = [o \in Ops |-> IF on[o] = t /\ stage[o] = "finishing"
                                     THEN "finished" ELSE stage[o]]
     ELSE /\ Walk(t, waiting)
          /\ stage' = [o \in Ops |-> IF waiting # <<>> /\ o = Head(waiting) THEN "starting"
                                     ELSE IF on[o] = t /\ stage[o] = "finishing" /\ waiting = <<>>
                                          THEN "finished" ELSE stage[o]]
          /\ IF waiting = <<>> /\ \E o \in Ops : on[o] = t /\ stage[o] = "finishing"
             THEN wakeIdler ELSE UNCHANGED idler
  /\ UNCHANGED <<limit, driven, failed, on, parked, served, closed>>
-----------------------------------------------------------------------------
(* The body, finish() and the delivery of the result *)

\* A worker takes a closure out of the executor and resumes the frame.
Run(w, op) ==
  /\ stage[op] = "handed"
  /\ \A o \in Ops : on[o] # w
  /\ drainer # w
  /\ stage' = [stage EXCEPT ![op] = "running"]
  /\ on' = [on EXCEPT ![op] = w]
  /\ UNCHANGED <<queueVars, walkVars, driven, failed, parked, served, endVars>>

\* The synchronous call returned or threw (run_sync, answered).
BodyEnds(t, op) ==
  /\ OnTop(t, op) /\ stage[op] = "running"
  /\ stage' = [stage EXCEPT ![op] = "over"]
  /\ failed' \in {failed, failed \cup {op}}
  /\ UNCHANGED <<queueVars, walkVars, driven, on, parked, served, endVars>>

\* Mutant: finish() frees the slot and takes nothing.
FinishWithoutWalk(t, op) ==
  /\ OnTop(t, op) /\ stage[op] = "over"
  /\ served' = Append(served, op)
  /\ in_flight' = FALSE /\ current' = Nothing
  /\ stage' = [stage EXCEPT ![op] = "finished"]
  /\ IF waiting = <<>> THEN wakeIdler ELSE UNCHANGED idler
  /\ UNCHANGED <<waiting, draining, limit, drainer, popped, driven, failed, on, parked, closed>>

\* Mutant: finish() without its notify_all().
FinishSilent(t, op) ==
  /\ OnTop(t, op) /\ stage[op] = "over"
  /\ served' = Append(served, op)
  /\ IF draining
     THEN /\ in_flight' = FALSE /\ current' = Nothing
          /\ stage' = [stage EXCEPT ![op] = "finished"]
          /\ UNCHANGED <<waiting, draining, drainer, popped>>
     ELSE /\ Walk(t, waiting)
          /\ stage' = IF waiting = <<>> THEN [stage EXCEPT ![op] = "finished"]
                      ELSE [stage EXCEPT ![op] = "finishing", ![Head(waiting)] = "starting"]
  /\ UNCHANGED <<limit, driven, failed, on, parked, endVars>>

\* finish(): the turn is over; take the next one unless a walk is under way.
Finish(t, op) ==
  /\ OnTop(t, op) /\ stage[op] = "over"
  /\ served' = Append(served, op)
  /\ IF draining
     THEN /\ in_flight' = FALSE /\ current' = Nothing
          /\ stage' = [stage EXCEPT ![op] = "finished"]
          /\ IF waiting = <<>> THEN wakeIdler ELSE UNCHANGED idler
          /\ UNCHANGED <<waiting, draining, drainer, popped>>
     ELSE /\ Walk(t, waiting)
          /\ stage' = IF waiting = <<>> THEN [stage EXCEPT ![op] = "finished"]
                      ELSE [stage EXCEPT ![op] = "finishing", ![Head(waiting)] = "starting"]
          /\ IF waiting = <<>> THEN wakeIdler ELSE UNCHANGED idler
  /\ UNCHANGED <<limit, driven, failed, on, parked, closed>>

\* What comes after finish(): the semaphore is released, on_failure called or
\* the continuation resumed; then the thread leaves this operation.
Deliver(t, op) ==
  /\ OnTop(t, op) /\ stage[op] = "finished"
  /\ stage' = [stage EXCEPT ![op] = IF driven[op] = "idle" THEN "lost" ELSE "answered"]
  /\ on' = [on EXCEPT ![op] = Nobody]
  /\ UNCHANGED <<queueVars, walkVars, driven, failed, parked, served, endVars>>

\* block() comes back with take().
Unpark(c) ==
  /\ parked[c] # Nothing
  /\ stage[parked[c]] = "answered" /\ drainer # c
  /\ parked' = [parked EXCEPT ![c] = Nothing]
  /\ UNCHANGED <<queueVars, walkVars, driven, stage, failed, on, served, endVars>>
-----------------------------------------------------------------------------
(* wait_idle() and the end of the session *)

QueueIdle == waiting = <<>> /\ ~in_flight

\* ~orm(): the owner stops using the session and waits for it to go quiet.
BeginWaitIdle ==
  /\ idler = "no"
  /\ parked[Owner] = Nothing /\ drainer # Owner /\ \A o \in Ops : on[o] # Owner
  /\ idler' = IF QueueIdle THEN "done" ELSE "asleep"
  /\ UNCHANGED <<queueVars, walkVars, taskVars, served, closed>>

WakeIdle ==
  /\ idler = "awake"
  /\ idler' = IF QueueIdle THEN "done" ELSE "asleep"
  /\ UNCHANGED <<queueVars, walkVars, taskVars, served, closed>>

\* The members go after the destructor's body.
Close ==
  /\ idler = "done" /\ ~closed
  /\ closed' = TRUE
  /\ UNCHANGED <<queueVars, walkVars, taskVars, served, idler>>
-----------------------------------------------------------------------------
WalkStep(t) ==
  \/ StartQueued(t) \/ StartInline(t) \/ StartRefused(t) \/ StartThrows(t)
  \/ Relock(t)

OpStep(t, op) == BodyEnds(t, op) \/ Finish(t, op) \/ Deliver(t, op)

ThreadStep(t) == WalkStep(t) \/ \E op \in Ops : OpStep(t, op)

WorkerStep == \E w \in Workers, op \in Ops : Run(w, op)

DriveStep ==
  \E t \in Threads, op \in Ops, mode \in Modes :
    Drive(t, op, mode) \/ DriveRefused(t, op, mode) \/ DriveAgain(t, op, mode)

Next ==
  \/ \E t \in Threads : ThreadStep(t)
  \/ WorkerStep \/ DriveStep
  \/ \E c \in Callers : Unpark(c)
  \/ \E n \in Limits \cup {0} : SetLimit(n)
  \/ BeginWaitIdle \/ WakeIdle \/ Close

Spec == Init /\ [][Next]_vars

\* Threads run on, bodies end, the executor gives every closure a worker in
\* the end, and a notified destructor goes on.  Nobody is made to drive a task.
Fairness ==
  /\ \A t \in Threads : WF_vars(ThreadStep(t))
  /\ WF_vars(WorkerStep)
  /\ \A c \in Callers : WF_vars(Unpark(c))
  /\ WF_vars(WakeIdle) /\ WF_vars(Close)

FairSpec == Spec /\ Fairness
-----------------------------------------------------------------------------
\* One operation at a time has the connection: from the pop to the end of its
\* turn no other operation is started, handed over or running, whatever thread
\* walks the queue and wherever the executor runs the work (async.cpp:63-90).
OneAtATime ==
  /\ \A o, p \in Ops : stage[o] \in TurnStages /\ stage[p] \in TurnStages => o = p
  /\ \A o \in Ops : stage[o] \in TurnStages => in_flight /\ current = o

\* No request is left behind: while requests wait, a turn is under way or some
\* thread is walking the queue (async.cpp:42, 50, 84).
NobodyStranded == waiting # <<>> => in_flight \/ draining

\* The destructor never sleeps through the moment the session goes quiet: every
\* way to the last end of a turn notifies it (async.cpp:53, 78).
IdleIsNoticed == idler = "asleep" => ~QueueIdle

\* Neither a request nor the destructor waits for something nobody is going to
\* do (async.cpp:36-90).
NobodyForgotten == NobodyStranded /\ IdleIsNoticed

\* The queue implements the FIFO it is described as: accepted in order, served
\* one by one in that order, at most submit_limit at a time (async.hpp:80-85).
Fifo ==
  INSTANCE SessionFifo WITH turn <- (IF in_flight THEN <<current>> ELSE <<>>) \o waiting
\* What drive actions, drain() and finish() do to the queue is what SessionFifo allows.
FifoSpec == Fifo!SessionSpec

\* Every request the queue accepted is answered (async.cpp:63-90,
\* async.hpp:322-351).
EveryRequestAnswered ==
  \A op \in Ops : stage[op] \in {"queued", "starting"} ~> stage[op] = "answered"

\* A destructor that began to wait comes to its end.
SessionEnds == idler = "asleep" ~> closed

\* async.cpp:157 "Whatever this session handed over finishes before it goes":
\* no thread is inside the queue once it is destroyed.
QueueOutlivesWalk == closed => drainer = Nobody
=============================================================================
