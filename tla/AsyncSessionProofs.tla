------------------------- MODULE AsyncSessionProofs -------------------------
(***************************************************************************)
(* Theorems about AsyncSession, for every set of tasks, callers, workers,  *)
(* submit limits and executor behaviours.                                  *)
(***************************************************************************)
EXTENDS AsyncSession, TLAPS

USE OpsAssumption, ThreadsAssumption, LimitsAssumption, ModesAssumption

\* Facts about sequences the queue is built from.
LEMMA PopFront ==
  ASSUME NEW S, NEW q \in Seq(S), q # <<>>
  PROVE  /\ Head(q) \in S /\ Head(q) = q[1] /\ Tail(q) \in Seq(S)
         /\ Len(q) >= 1 /\ Len(Tail(q)) = Len(q) - 1
         /\ \A i \in 1..Len(Tail(q)) : Tail(q)[i] = q[i + 1]
  OBVIOUS

\* What push_back() makes of a queue.
LEMMA PushBack ==
  ASSUME NEW S, NEW q \in Seq(S), NEW x \in S
  PROVE  /\ Append(q, x) \in Seq(S) /\ Len(Append(q, x)) = Len(q) + 1
         /\ Append(q, x) # <<>>
         /\ \A i \in 1..Len(q) : Append(q, x)[i] = q[i]
         /\ Append(q, x)[Len(q) + 1] = x
         /\ q = <<>> => Head(Append(q, x)) = x /\ Tail(Append(q, x)) = <<>>
  OBVIOUS

\* Who walks the queue and whose turn it is agree with the flags, what waits
\* is queued and waits once, and an operation that had its turn never waits.
QueueInv ==
  /\ draining <=> drainer # Nobody
  /\ drainer # Nobody => popped \in Ops
  /\ in_flight => current \in Ops /\ stage[current] \in TurnStages
  /\ \A o \in Ops : stage[o] \in TurnStages => in_flight /\ current = o
  /\ \A o \in Ops : stage[o] = "starting" => drainer # Nobody /\ popped = o
  /\ \A i \in 1..Len(waiting) : stage[waiting[i]] = "queued"
  /\ \A i, j \in 1..Len(waiting) : waiting[i] = waiting[j] => i = j
  /\ \A i \in 1..Len(served) :
       stage[served[i]] \in {"finishing", "finished", "answered", "lost"}
  /\ NobodyStranded
  /\ IdleIsNoticed

Inv == TypeOK /\ QueueInv

\* A new session satisfies the invariant.
LEMMA InvInit == Init => Inv
  <1> SUFFICES ASSUME Init PROVE Inv
    OBVIOUS
  <1>1. in_flight \in BOOLEAN /\ draining \in BOOLEAN /\ closed \in BOOLEAN
    BY Zenon DEF Init
  <1>2. TypeOK
    BY <1>1 DEF Init, TypeOK, Stages
  <1>3. QueueInv
    BY DEF Init, QueueInv, NobodyStranded, IdleIsNoticed, TurnStages
  <1> QED BY <1>2, <1>3 DEF Inv

\* The outcome of drain() up to its unlock is well typed.
LEMMA WalkTypes ==
  ASSUME NEW t \in Threads, NEW q \in Seq(Ops), Walk(t, q)
  PROVE  /\ waiting' \in Seq(Ops) /\ in_flight' \in BOOLEAN /\ draining' \in BOOLEAN
         /\ drainer' \in Threads \cup {Nobody}
         /\ popped' \in Ops \cup {Nothing} /\ current' \in Ops \cup {Nothing}
  <1>1. CASE q = <<>>
    BY <1>1, Zenon DEF Walk
  <1>2. CASE q # <<>>
    BY <1>2, PopFront DEF Walk
  <1> QED BY <1>1, <1>2

\* Every step of the session keeps the types.
LEMMA TypeStep == Inv /\ [Next]_vars => TypeOK'
  <1> SUFFICES ASSUME TypeOK, QueueInv, [Next]_vars PROVE TypeOK'
    BY DEF Inv
  <1> USE DEF TypeOK, Stages, queueVars, walkVars, taskVars, endVars, wakeIdler
  <1>0. Nobody \notin Threads
    BY DEF Threads
  <1>1. ASSUME NEW t \in Threads, NEW op \in Ops, NEW mode \in Modes, Drive(t, op, mode)
        PROVE  TypeOK'
    <2>1. parked' \in [Callers -> Ops \cup {Nothing}]
      BY <1>1 DEF Drive
    <2>2. driven' \in [Ops -> {"idle", "blocked", "detached", "awaited"}]
      BY <1>1 DEF Drive
    <2>3. CASE in_flight \/ draining
      <3>1. waiting' \in Seq(Ops) /\ stage' \in [Ops -> Stages]
        <4>1. waiting' = Append(waiting, op) /\ stage' = [stage EXCEPT ![op] = "queued"]
          BY <1>1, <2>3, Zenon DEF Drive
        <4> QED BY <4>1, PushBack
      <3>2. UNCHANGED <<in_flight, draining, drainer, popped, current>>
        BY <1>1, <2>3 DEF Drive
      <3> QED BY <1>1, <2>1, <2>2, <3>1, <3>2 DEF Drive
    <2>4. CASE ~(in_flight \/ draining)
      <3>1. Walk(t, Append(waiting, op)) /\ Append(waiting, op) \in Seq(Ops)
        BY <1>1, <2>4, PushBack DEF Drive
      <3>2. stage' \in [Ops -> Stages]
        BY <1>1, <2>4, PushBack DEF Drive
      <3> QED BY <1>1, <2>1, <2>2, <3>1, <3>2, WalkTypes, Zenon DEF Drive
    <2> QED BY <2>3, <2>4
  <1>2. ASSUME NEW t \in Threads, NEW op \in Ops, NEW mode \in Modes,
               DriveRefused(t, op, mode) \/ DriveAgain(t, op, mode)
        PROVE  TypeOK'
    BY <1>2 DEF DriveRefused, DriveAgain
  <1>3. ASSUME NEW n \in Limits \cup {0}, SetLimit(n) PROVE TypeOK'
    BY <1>3 DEF SetLimit
  <1>4. ASSUME NEW t \in Threads, StartQueued(t) \/ StartInline(t) \/ StartRefused(t)
        PROVE  TypeOK'
    BY <1>0, <1>4 DEF StartQueued, StartInline, StartRefused, QueueInv
  <1>5. ASSUME NEW t \in Threads, StartThrows(t) PROVE TypeOK'
    <2>1. Walk(t, waiting)
      BY <1>5 DEF StartThrows
    <2>2. stage' \in [Ops -> Stages]
      BY <1>5 DEF StartThrows
    <2>3. served' \in Seq(Ops)
      <3>1. popped \in Ops
        BY <1>0, <1>5 DEF StartThrows, QueueInv
      <3> QED BY <1>5, <3>1, PushBack DEF StartThrows
    <2>4. idler' \in {"no", "asleep", "awake", "done"}
      BY <1>5 DEF StartThrows
    <2> QED BY <1>5, <2>1, <2>2, <2>3, <2>4, WalkTypes DEF StartThrows
  <1>6. ASSUME NEW t \in Threads, Relock(t) PROVE TypeOK'
    <2>1. stage' \in [Ops -> Stages]
      BY <1>6 DEF Relock
    <2>2. idler' \in {"no", "asleep", "awake", "done"}
      BY <1>6 DEF Relock
    <2>3. CASE in_flight
      BY <1>6, <2>1, <2>2, <2>3, Zenon DEF Relock
    <2>4. CASE ~in_flight
      <3>1. Walk(t, waiting)
        BY <1>6, <2>4 DEF Relock
      <3> QED BY <1>6, <2>1, <2>2, <3>1, WalkTypes DEF Relock
    <2> QED BY <2>3, <2>4
  <1>7. ASSUME NEW w \in Workers, NEW op \in Ops, Run(w, op) PROVE TypeOK'
    BY <1>7 DEF Run, Threads
  <1>8. ASSUME NEW t \in Threads, NEW op \in Ops, BodyEnds(t, op) \/ Deliver(t, op)
        PROVE  TypeOK'
    BY <1>8, Zenon DEF BodyEnds, Deliver
  <1>9. ASSUME NEW t \in Threads, NEW op \in Ops, Finish(t, op) PROVE TypeOK'
    <2>1. served' \in Seq(Ops)
      BY <1>9 DEF Finish
    <2>2. idler' \in {"no", "asleep", "awake", "done"}
      BY <1>9 DEF Finish
    <2>3. stage' \in [Ops -> Stages]
      <3>1. CASE draining
        <4>1. stage' = [stage EXCEPT ![op] = "finished"]
          BY <1>9, <3>1, Zenon DEF Finish
        <4> QED BY <4>1
      <3>2. CASE ~draining /\ waiting = <<>>
        <4>1. stage' = [stage EXCEPT ![op] = "finished"]
          BY <1>9, <3>2, Zenon DEF Finish
        <4> QED BY <4>1
      <3>3. CASE ~draining /\ waiting # <<>>
        <4>1. stage' = [stage EXCEPT ![op] = "finishing", ![Head(waiting)] = "starting"]
          BY <1>9, <3>3, Zenon DEF Finish
        <4>2. Head(waiting) \in Ops
          BY <3>3, PopFront
        <4> QED BY <4>1, <4>2
      <3> QED BY <3>1, <3>2, <3>3
    <2>4. CASE draining
      <3>1. in_flight' \in BOOLEAN
        BY <1>9, <2>4, Zenon DEF Finish
      <3> QED BY <1>9, <2>1, <2>2, <2>3, <2>4, <3>1 DEF Finish
    <2>5. CASE ~draining
      <3>1. Walk(t, waiting)
        BY <1>9, <2>5 DEF Finish
      <3> QED BY <1>9, <2>1, <2>2, <2>3, <3>1, WalkTypes DEF Finish
    <2> QED BY <2>4, <2>5
  <1>10. ASSUME NEW c \in Callers, Unpark(c) PROVE TypeOK'
    BY <1>10 DEF Unpark
  <1>11. CASE BeginWaitIdle \/ WakeIdle
    BY <1>11 DEF BeginWaitIdle, WakeIdle
  <1>12. CASE Close
    <2>1. closed' \in BOOLEAN
      BY <1>12, Zenon DEF Close
    <2> QED BY <1>12, <2>1 DEF Close
  <1>13. CASE UNCHANGED vars
    BY <1>13 DEF vars
  <1> QED
    BY <1>1, <1>2, <1>3, <1>4, <1>5, <1>6, <1>7, <1>8, <1>9, <1>10, <1>11, <1>12, <1>13, Zenon
       DEF Next, ThreadStep, WalkStep, OpStep, WorkerStep, DriveStep

\* Popping the front of the queue under the lock, when nobody has a turn:
\* what drain() leaves behind, with the stages the caller of Walk sets.
LEMMA WalkKeeps ==
  ASSUME TypeOK, QueueInv, NEW t \in Threads, Walk(t, waiting), waiting # <<>>,
         stage' \in [Ops -> Stages],
         stage'[Head(waiting)] = "starting",
         \A o \in Ops : o # Head(waiting) => stage'[o] \notin TurnStages,
         \A o \in Ops : o # Head(waiting) /\ stage[o] = "queued" => stage'[o] = "queued",
         \A i \in 1..Len(served') :
           stage'[served'[i]] \in {"finishing", "finished", "answered", "lost"}
  PROVE  QueueInv'
  <1>0. Nobody \notin Threads
    BY DEF Threads
  <1>1. waiting \in Seq(Ops)
    BY DEF TypeOK
  <1>2. /\ draining' = TRUE /\ in_flight' = TRUE /\ waiting' = Tail(waiting)
        /\ drainer' = t /\ popped' = Head(waiting) /\ current' = Head(waiting)
    BY DEF Walk
  <1>3. Head(waiting) \in Ops /\ Head(waiting) = waiting[1]
    BY <1>1, PopFront
  <1>4. ASSUME NEW i \in 1..Len(waiting')
        PROVE  /\ waiting'[i] = waiting[i + 1] /\ i + 1 \in 1..Len(waiting)
               /\ waiting'[i] \in Ops /\ i \in Nat
    BY <1>1, <1>2, PopFront
  <1>5. ASSUME NEW i \in 1..Len(waiting') PROVE stage'[waiting'[i]] = "queued"
    <2>1. waiting[i + 1] # waiting[1]
      BY <1>1, <1>4, PopFront DEF QueueInv
    <2>2. stage[waiting[i + 1]] = "queued"
      BY <1>4 DEF QueueInv
    <2> QED BY <1>3, <1>4, <2>1, <2>2
  <1>6. ASSUME NEW i \in 1..Len(waiting'), NEW j \in 1..Len(waiting'),
               waiting'[i] = waiting'[j]
        PROVE  i = j
    <2>1. waiting[i + 1] = waiting[j + 1] /\ i \in Nat /\ j \in Nat
      BY <1>4, <1>6
    <2>2. i + 1 = j + 1
      BY <1>4, <2>1 DEF QueueInv
    <2> QED BY <2>1, <2>2
  <1>7. /\ draining' /\ drainer' # Nobody /\ popped' \in Ops
        /\ in_flight' /\ current' \in Ops /\ stage'[current'] \in TurnStages
        /\ \A o \in Ops : stage'[o] \in TurnStages => current' = o /\ popped' = o
        /\ \A i \in 1..Len(waiting') : stage'[waiting'[i]] = "queued"
        /\ \A i, j \in 1..Len(waiting') : waiting'[i] = waiting'[j] => i = j
    BY <1>0, <1>2, <1>3, <1>5, <1>6, Zenon DEF TurnStages
  <1> QED BY <1>7, Zenon DEF QueueInv, NobodyStranded, IdleIsNoticed, QueueIdle, TurnStages

\* A turn that ends is recorded once, with a stage it does not leave again.
LEMMA ServedKeeps ==
  ASSUME TypeOK, QueueInv, NEW op \in Ops, served' = Append(served, op),
         stage'[op] \in {"finishing", "finished", "answered", "lost"},
         \A o \in Ops : stage[o] \in {"finishing", "finished", "answered", "lost"}
                          => stage'[o] \in {"finishing", "finished", "answered", "lost"}
  PROVE  \A i \in 1..Len(served') :
           stage'[served'[i]] \in {"finishing", "finished", "answered", "lost"}
  <1>1. served \in Seq(Ops)
    BY DEF TypeOK
  <1>2. ASSUME NEW i \in 1..Len(served')
        PROVE  stage'[served'[i]] \in {"finishing", "finished", "answered", "lost"}
    <2>1. CASE i \in 1..Len(served)
      BY <1>1, <2>1, PushBack DEF QueueInv
    <2>2. CASE i = Len(served) + 1
      BY <1>1, <2>2, PushBack
    <2> QED BY <1>1, <2>1, <2>2, PushBack
  <1> QED BY <1>2

\* Every step keeps flags, turns and waiting operations in agreement.
LEMMA QueueStep == Inv /\ [Next]_vars => QueueInv'
  <1> SUFFICES ASSUME TypeOK, QueueInv, [Next]_vars PROVE QueueInv'
    BY DEF Inv
  <1>0. Nobody \notin Threads
    BY DEF Threads
  <1>t. waiting \in Seq(Ops) /\ served \in Seq(Ops) /\ stage \in [Ops -> Stages]
    BY DEF TypeOK
  <1>1. ASSUME NEW t \in Threads, NEW op \in Ops, NEW mode \in Modes, Drive(t, op, mode)
        PROVE  QueueInv'
    <2>0. stage[op] = "new" /\ served' = served /\ idler' = idler
      BY <1>1 DEF Drive, endVars
    <2>1. CASE in_flight \/ draining
      <3>1. /\ waiting' = Append(waiting, op) /\ stage' = [stage EXCEPT ![op] = "queued"]
            /\ UNCHANGED <<in_flight, draining, drainer, popped, current>>
        BY <1>1, <2>1, Zenon DEF Drive, walkVars
      <3>2. ASSUME NEW i \in 1..Len(waiting') PROVE stage'[waiting'[i]] = "queued"
        <4>1. CASE i \in 1..Len(waiting)
          BY <1>t, <3>1, <4>1, PushBack DEF QueueInv
        <4>2. CASE i = Len(waiting) + 1
          BY <1>t, <3>1, <4>2, PushBack
        <4> QED BY <1>t, <3>1, <4>1, <4>2, PushBack
      <3>3. ASSUME NEW i \in 1..Len(waiting'), NEW j \in 1..Len(waiting'),
                   waiting'[i] = waiting'[j]
            PROVE  i = j
        <4>1. \A k \in 1..Len(waiting) : waiting'[k] = waiting[k] /\ waiting[k] # op
          BY <1>t, <2>0, <3>1, PushBack DEF QueueInv
        <4>2. waiting'[Len(waiting) + 1] = op /\ Len(waiting') = Len(waiting) + 1
          BY <1>t, <3>1, PushBack
        <4>3. CASE i \in 1..Len(waiting) /\ j \in 1..Len(waiting)
          BY <3>3, <4>1, <4>3 DEF QueueInv
        <4>4. CASE i = Len(waiting) + 1 \/ j = Len(waiting) + 1
          BY <1>t, <3>3, <4>1, <4>2, <4>4
        <4> QED BY <1>t, <4>2, <4>3, <4>4
      <3>4. waiting' # <<>>
        BY <1>t, <3>1, PushBack
      <3>5. /\ \A o \in Ops : stage'[o] \in TurnStages => stage[o] = stage'[o]
            /\ \A o \in Ops : stage[o] \in TurnStages => stage[o] = stage'[o]
        BY <1>t, <2>0, <3>1 DEF TurnStages
      <3>6. \A i \in 1..Len(served') :
              stage'[served'[i]] \in {"finishing", "finished", "answered", "lost"}
        BY <1>t, <2>0, <3>1 DEF QueueInv
      <3> QED BY <2>0, <2>1, <3>1, <3>2, <3>3, <3>4, <3>5, <3>6
              DEF QueueInv, NobodyStranded, IdleIsNoticed, QueueIdle, TurnStages
    <2>2. CASE ~(in_flight \/ draining)
      <3>1. waiting = <<>> /\ drainer = Nobody
        BY <2>2 DEF QueueInv, NobodyStranded
      <3>2. Walk(t, Append(waiting, op))
            /\ stage' = [stage EXCEPT ![op] = "queued", ![Head(Append(waiting, op))] = "starting"]
        BY <1>1, <2>2, Zenon DEF Drive
      <3>3. /\ Append(waiting, op) # <<>> /\ Head(Append(waiting, op)) = op
            /\ Tail(Append(waiting, op)) = <<>>
        BY <1>t, <3>1, PushBack
      <3>4. stage' = [stage EXCEPT ![op] = "starting"]
        BY <1>t, <3>2, <3>3
      <3>5. /\ draining' /\ in_flight' /\ waiting' = <<>> /\ drainer' = t /\ popped' = op
            /\ current' = op
        BY <3>2, <3>3 DEF Walk
      <3>6. \A o \in Ops : stage[o] \notin TurnStages
        BY <2>2 DEF QueueInv
      <3>7. \A i \in 1..Len(served') :
              stage'[served'[i]] \in {"finishing", "finished", "answered", "lost"}
        BY <1>t, <2>0, <3>4 DEF QueueInv
      <3> QED BY <1>0, <1>t, <3>4, <3>5, <3>6, <3>7
              DEF QueueInv, NobodyStranded, IdleIsNoticed, QueueIdle, TurnStages
    <2> QED BY <2>1, <2>2
  <1>2. ASSUME UNCHANGED <<queueVars, walkVars, stage, served, idler>> PROVE QueueInv'
    BY <1>2, Zenon DEF QueueInv, NobodyStranded, IdleIsNoticed, QueueIdle, queueVars, walkVars
  <1>3. ASSUME NEW t \in Threads, NEW op \in Ops, NEW mode \in Modes,
               DriveRefused(t, op, mode) \/ DriveAgain(t, op, mode)
        PROVE  QueueInv'
    BY <1>2, <1>3 DEF DriveRefused, DriveAgain, endVars
  <1>4. ASSUME NEW n \in Limits \cup {0}, SetLimit(n) PROVE QueueInv'
    BY <1>4 DEF SetLimit, QueueInv, NobodyStranded, IdleIsNoticed, QueueIdle, walkVars,
       taskVars, endVars
  <1>5. ASSUME NEW op \in Ops, NEW v, stage[op] \in TurnStages,
               v \in {"handed", "running", "over"},
               stage' = [stage EXCEPT ![op] = v],
               UNCHANGED <<queueVars, walkVars, served, idler>>
        PROVE  QueueInv'
    BY <1>t, <1>5 DEF QueueInv, NobodyStranded, IdleIsNoticed, QueueIdle, queueVars,
       walkVars, TurnStages
  <1>6. ASSUME NEW t \in Threads, StartQueued(t) \/ StartInline(t) \/ StartRefused(t)
        PROVE  QueueInv'
    <2>1. popped \in Ops /\ stage[popped] \in TurnStages
      BY <1>0, <1>6 DEF StartQueued, StartInline, StartRefused, QueueInv, TurnStages
    <2> QED BY <1>5, <1>6, <2>1 DEF StartQueued, StartInline, StartRefused, endVars
  <1>7. ASSUME NEW w \in Workers, NEW op \in Ops, Run(w, op) PROVE QueueInv'
    BY <1>5, <1>7, Zenon DEF Run, endVars, TurnStages
  <1>8. ASSUME NEW t \in Threads, NEW op \in Ops, BodyEnds(t, op) PROVE QueueInv'
    BY <1>5, <1>8, Zenon DEF BodyEnds, endVars, TurnStages
  <1>9. ASSUME NEW t \in Threads, NEW op \in Ops, Deliver(t, op) PROVE QueueInv'
    BY <1>t, <1>9 DEF Deliver, QueueInv, NobodyStranded, IdleIsNoticed, QueueIdle,
       queueVars, walkVars, endVars, TurnStages
  <1>10. ASSUME NEW t \in Threads, StartThrows(t) PROVE QueueInv'
    <2>1. /\ popped \in Ops /\ stage[popped] = "starting" /\ current = popped /\ in_flight
          /\ \A o \in Ops : o # popped => stage[o] \notin TurnStages
      BY <1>0, <1>10, Zenon DEF StartThrows, QueueInv, TurnStages
    <2>2. Walk(t, waiting) /\ served' = Append(served, popped)
          /\ stage' = [o \in Ops |->
                IF o = popped THEN "lost"
                ELSE IF waiting # <<>> /\ o = Head(waiting) THEN "starting"
                ELSE IF on[o] = t /\ stage[o] = "finishing" /\ waiting = <<>>
                     THEN "finished" ELSE stage[o]]
      BY <1>10 DEF StartThrows
    <2>3. CASE waiting = <<>>
      <3>1. idler' # "asleep"
        BY <1>10, <2>3 DEF StartThrows, wakeIdler
      <3>2. /\ ~draining' /\ ~in_flight' /\ waiting' = <<>> /\ drainer' = Nobody
        BY <2>2, <2>3 DEF Walk
      <3>3. \A o \in Ops : stage'[o] \notin TurnStages
        BY <2>1, <2>2, <2>3 DEF TurnStages
      <3>4. /\ stage'[popped] = "lost"
            /\ \A o \in Ops : stage[o] \in {"finishing", "finished", "answered", "lost"}
                          => stage'[o] \in {"finishing", "finished", "answered", "lost"}
        BY <2>1, <2>2, <2>3
      <3>5. \A i \in 1..Len(served') :
              stage'[served'[i]] \in {"finishing", "finished", "answered", "lost"}
        BY <2>1, <2>2, <3>4, ServedKeeps, Zenon
      <3> QED BY <3>1, <3>2, <3>3, <3>5
              DEF QueueInv, NobodyStranded, IdleIsNoticed, QueueIdle, TurnStages
    <2>4. CASE waiting # <<>>
      <3>1. Head(waiting) \in Ops /\ stage[Head(waiting)] = "queued"
        BY <1>t, <2>4, PopFront DEF QueueInv
      <3>2. /\ stage'[Head(waiting)] = "starting" /\ stage'[popped] = "lost"
            /\ \A o \in Ops : o # Head(waiting) => stage'[o] \notin TurnStages
            /\ \A o \in Ops : o # Head(waiting) /\ stage[o] = "queued" => stage'[o] = "queued"
            /\ \A o \in Ops : stage[o] \in {"finishing", "finished", "answered", "lost"}
                          => stage'[o] \in {"finishing", "finished", "answered", "lost"}
            /\ stage' \in [Ops -> Stages]
        BY <1>t, <2>1, <2>2, <2>4, <3>1 DEF TurnStages, Stages
      <3>3. \A i \in 1..Len(served') :
              stage'[served'[i]] \in {"finishing", "finished", "answered", "lost"}
        BY <2>1, <2>2, <3>2, ServedKeeps
      <3> QED BY <2>2, <2>4, <3>2, <3>3, WalkKeeps, Zenon
    <2> QED BY <2>3, <2>4
  <1>11. ASSUME NEW t \in Threads, Relock(t) PROVE QueueInv'
    <2>1. served' = served /\ popped \in Ops /\ stage[popped] # "starting" /\ draining
      BY <1>0, <1>11 DEF Relock, QueueInv
    <2>2. \A o \in Ops : stage[o] # "starting"
      BY <2>1 DEF QueueInv
    <2>3. CASE in_flight
      <3>1. /\ ~draining' /\ drainer' = Nobody /\ UNCHANGED <<waiting, in_flight, current, idler>>
            /\ stage' = [o \in Ops |-> IF on[o] = t /\ stage[o] = "finishing"
                                       THEN "finished" ELSE stage[o]]
        BY <1>11, <2>3, Zenon DEF Relock
      <3> QED BY <1>t, <2>1, <2>2, <2>3, <3>1
              DEF QueueInv, NobodyStranded, IdleIsNoticed, QueueIdle, TurnStages
    <2>4. CASE ~in_flight
      <3>0. \A o \in Ops : stage[o] \notin TurnStages
        BY <2>4 DEF QueueInv
      <3>1. /\ Walk(t, waiting)
            /\ stage' = [o \in Ops |-> IF waiting # <<>> /\ o = Head(waiting) THEN "starting"
                                     ELSE IF on[o] = t /\ stage[o] = "finishing" /\ waiting = <<>>
                                          THEN "finished" ELSE stage[o]]
        BY <1>11, <2>4, Zenon DEF Relock
      <3>2. CASE waiting = <<>>
        <4>1. idler # "asleep" /\ idler' # "asleep"
          BY <1>11, <2>4, <3>2, Zenon DEF Relock, wakeIdler, QueueInv, IdleIsNoticed, QueueIdle
        <4>2. /\ ~draining' /\ ~in_flight' /\ waiting' = <<>> /\ drainer' = Nobody
          BY <3>1, <3>2 DEF Walk
        <4>3. \A o \in Ops : stage'[o] \notin TurnStages
          BY <3>0, <3>1, <3>2 DEF TurnStages
        <4>4. \A i \in 1..Len(served') :
                stage'[served'[i]] \in {"finishing", "finished", "answered", "lost"}
          BY <1>t, <2>1, <3>1, <3>2 DEF QueueInv
        <4> QED BY <4>1, <4>2, <4>3, <4>4
                DEF QueueInv, NobodyStranded, IdleIsNoticed, QueueIdle, TurnStages
      <3>3. CASE waiting # <<>>
        <4>1. Head(waiting) \in Ops /\ stage[Head(waiting)] = "queued"
          BY <1>t, <3>3, PopFront DEF QueueInv
        <4>2. /\ stage'[Head(waiting)] = "starting"
              /\ \A o \in Ops : o # Head(waiting) => stage'[o] = stage[o]
              /\ stage' \in [Ops -> Stages]
          BY <1>t, <3>1, <3>3, <4>1 DEF Stages
        <4>3. \A i \in 1..Len(served') :
                stage'[served'[i]] \in {"finishing", "finished", "answered", "lost"}
          BY <1>t, <2>1, <4>1, <4>2 DEF QueueInv
        <4> QED BY <3>0, <3>1, <3>3, <4>2, <4>3, WalkKeeps, Zenon
      <3> QED BY <3>2, <3>3
    <2> QED BY <2>3, <2>4
  <1>12. ASSUME NEW t \in Threads, NEW op \in Ops, Finish(t, op) PROVE QueueInv'
    <2>1. /\ stage[op] = "over" /\ in_flight /\ current = op
          /\ \A o \in Ops : o # op => stage[o] \notin TurnStages
          /\ served' = Append(served, op)
      BY <1>12 DEF Finish, QueueInv, TurnStages
    <2>2. CASE draining
      <3>1. /\ ~in_flight' /\ stage' = [stage EXCEPT ![op] = "finished"]
            /\ UNCHANGED <<waiting, draining, drainer, popped>>
            /\ IF waiting = <<>> THEN wakeIdler ELSE UNCHANGED idler
        BY <1>12, <2>2 DEF Finish
      <3>2. \A o \in Ops : stage'[o] \notin TurnStages
        BY <1>t, <2>1, <3>1 DEF TurnStages
      <3>3. \A i \in 1..Len(waiting') : stage'[waiting'[i]] = "queued"
        BY <1>t, <2>1, <3>1 DEF QueueInv
      <3>4. \A i \in 1..Len(served') :
              stage'[served'[i]] \in {"finishing", "finished", "answered", "lost"}
        <4>1. /\ stage'[op] = "finished"
              /\ \A o \in Ops : stage[o] \in {"finishing", "finished", "answered", "lost"}
                          => stage'[o] \in {"finishing", "finished", "answered", "lost"}
          BY <1>t, <3>1
        <4> QED BY <2>1, <4>1, ServedKeeps
      <3>5. idler' = "asleep" => waiting' # <<>>
        BY <3>1 DEF wakeIdler
      <3>6. \A i, j \in 1..Len(waiting') : waiting'[i] = waiting'[j] => i = j
        BY <3>1 DEF QueueInv
      <3> QED BY <2>2, <3>1, <3>2, <3>3, <3>4, <3>5, <3>6
              DEF QueueInv, NobodyStranded, IdleIsNoticed, QueueIdle, TurnStages
    <2>3. CASE ~draining /\ waiting = <<>>
      <3>1. /\ Walk(t, waiting) /\ stage' = [stage EXCEPT ![op] = "finished"] /\ wakeIdler
        BY <1>12, <2>3 DEF Finish
      <3>2. /\ ~draining' /\ ~in_flight' /\ waiting' = <<>> /\ drainer' = Nobody
        BY <2>3, <3>1 DEF Walk
      <3>3. \A o \in Ops : stage'[o] \notin TurnStages
        BY <1>t, <2>1, <3>1 DEF TurnStages
      <3>4. \A i \in 1..Len(served') :
              stage'[served'[i]] \in {"finishing", "finished", "answered", "lost"}
        <4>1. /\ stage'[op] = "finished"
              /\ \A o \in Ops : stage[o] \in {"finishing", "finished", "answered", "lost"}
                          => stage'[o] \in {"finishing", "finished", "answered", "lost"}
          BY <1>t, <3>1
        <4> QED BY <2>1, <4>1, ServedKeeps
      <3>5. idler' # "asleep"
        BY <3>1 DEF wakeIdler
      <3> QED BY <3>2, <3>3, <3>4, <3>5
              DEF QueueInv, NobodyStranded, IdleIsNoticed, QueueIdle, TurnStages
    <2>4. CASE ~draining /\ waiting # <<>>
      <3>0. Head(waiting) \in Ops /\ stage[Head(waiting)] = "queued"
        BY <1>t, <2>4, PopFront DEF QueueInv
      <3>1. Walk(t, waiting)
            /\ stage' = [stage EXCEPT ![op] = "finishing", ![Head(waiting)] = "starting"]
        BY <1>12, <2>4 DEF Finish
      <3>2. /\ stage'[Head(waiting)] = "starting" /\ stage'[op] = "finishing"
            /\ \A o \in Ops : o # Head(waiting) => stage'[o] \notin TurnStages
            /\ \A o \in Ops : o # Head(waiting) /\ stage[o] = "queued" => stage'[o] = "queued"
            /\ \A o \in Ops : stage[o] \in {"finishing", "finished", "answered", "lost"}
                          => stage'[o] \in {"finishing", "finished", "answered", "lost"}
            /\ stage' \in [Ops -> Stages]
        BY <1>t, <2>1, <3>0, <3>1 DEF TurnStages, Stages
      <3>3. \A i \in 1..Len(served') :
              stage'[served'[i]] \in {"finishing", "finished", "answered", "lost"}
        BY <2>1, <3>2, ServedKeeps
      <3> QED BY <2>4, <3>1, <3>2, <3>3, WalkKeeps, Zenon
    <2> QED BY <2>2, <2>3, <2>4
  <1>13. ASSUME NEW c \in Callers, Unpark(c) PROVE QueueInv'
    BY <1>2, <1>13 DEF Unpark, endVars
  <1>14. CASE BeginWaitIdle \/ WakeIdle
    BY <1>14 DEF BeginWaitIdle, WakeIdle, QueueInv, NobodyStranded, IdleIsNoticed,
       QueueIdle, queueVars, walkVars, taskVars
  <1>15. CASE Close
    BY <1>2, <1>15 DEF Close, taskVars
  <1>16. CASE UNCHANGED vars
    BY <1>2, <1>16 DEF vars, queueVars, walkVars
  <1> QED
    BY <1>1, <1>3, <1>4, <1>6, <1>7, <1>8, <1>9, <1>10, <1>11, <1>12, <1>13, <1>14, <1>15,
       <1>16 DEF Next, ThreadStep, WalkStep, OpStep, WorkerStep, DriveStep

\* The invariant is inductive.
LEMMA InvAlways == Spec => []Inv
  <1>1. Inv /\ [Next]_vars => Inv'
    BY TypeStep, QueueStep DEF Inv
  <1> QED BY <1>1, InvInit, PTL DEF Spec

\* Type correctness of the session.
THEOREM SessionTypes == Spec => []TypeOK
  <1>1. Inv => TypeOK
    BY DEF Inv
  <1> QED BY <1>1, InvAlways, PTL

\* One operation at a time has the connection.
THEOREM SessionExclusion == Spec => []OneAtATime
  <1>1. Inv => OneAtATime
    BY DEF Inv, QueueInv, OneAtATime
  <1> QED BY <1>1, InvAlways, PTL

\* No request is left waiting with nobody to take it.
THEOREM SessionStrandsNobody == Spec => []NobodyStranded
  <1>1. Inv => NobodyStranded
    BY DEF Inv, QueueInv
  <1> QED BY <1>1, InvAlways, PTL

\* The destructor is told of the moment the session goes quiet.
THEOREM SessionNoticesIdle == Spec => []IdleIsNoticed
  <1>1. Inv => IdleIsNoticed
    BY DEF Inv, QueueInv
  <1> QED BY <1>1, InvAlways, PTL

\* async.cpp:36-90: requests and the destructor alike have somebody to act for them.
THEOREM SessionForgetsNobody == Spec => []NobodyForgotten
  BY SessionStrandsNobody, SessionNoticesIdle, PTL DEF NobodyForgotten

-----------------------------------------------------------------------------
(* The queue implements SessionFifo. *)

\* The operation that has its turn, then those that wait.
Turn == (IF in_flight THEN <<current>> ELSE <<>>) \o waiting

\* Putting an operation in front of a queue, and taking it off again.
LEMMA Cons ==
  ASSUME NEW S, NEW q \in Seq(S), NEW c \in S
  PROVE  /\ <<c>> \o q \in Seq(S) /\ <<c>> \o q # <<>> /\ Len(<<c>> \o q) = Len(q) + 1
         /\ Head(<<c>> \o q) = c /\ Tail(<<c>> \o q) = q
         /\ \A i \in 1..Len(<<c>> \o q) : (<<c>> \o q)[i] = IF i = 1 THEN c ELSE q[i - 1]
  <1>1. <<c>> \o q \in Seq(S) /\ Len(<<c>> \o q) = Len(q) + 1
    OBVIOUS
  <1>2. \A i \in 1..Len(<<c>> \o q) : (<<c>> \o q)[i] = IF i = 1 THEN c ELSE q[i - 1]
    OBVIOUS
  <1>3. Head(<<c>> \o q) = c /\ <<c>> \o q # <<>>
    BY <1>1, <1>2
  <1>4. Tail(<<c>> \o q) = q
    BY <1>1, <1>2
  <1> QED BY <1>1, <1>2, <1>3, <1>4

\* Front and back of a queue do not meet.
LEMMA ConsAppend ==
  ASSUME NEW S, NEW q \in Seq(S), NEW c \in S, NEW x \in S
  PROVE  <<c>> \o Append(q, x) = Append(<<c>> \o q, x)
  OBVIOUS

\* A queue is its front before its rest.
LEMMA ConsPop ==
  ASSUME NEW S, NEW q \in Seq(S), q # <<>>
  PROVE  <<Head(q)>> \o Tail(q) = q
  OBVIOUS

\* Nothing in front of a queue is the queue.
LEMMA NilFront ==
  ASSUME NEW S, NEW q \in Seq(S)
  PROVE  <<>> \o q = q
  OBVIOUS

\* What the walk leaves is the queue it was given: the front has the turn.
LEMMA WalkTurn ==
  ASSUME NEW t \in Threads, NEW q \in Seq(Ops), Walk(t, q)
  PROVE  Turn' = q
  <1>1. CASE q = <<>>
    BY <1>1, NilFront DEF Walk, Turn
  <1>2. CASE q # <<>>
    BY <1>2, ConsPop, Zenon DEF Walk, Turn
  <1> QED BY <1>1, <1>2

\* Of the steps, drive actions append to the turn, ends of turns pop it, and
\* every other step leaves it alone.
LEMMA FifoStep == Inv /\ [Next]_vars => [Fifo!SessionNext]_(Fifo!absVars)
  <1> SUFFICES ASSUME TypeOK, QueueInv, [Next]_vars
               PROVE  Fifo!SessionNext \/ (Turn' = Turn /\ served' = served /\ limit' = limit)
    BY DEF Inv, Fifo!absVars, Turn
  <1>t. /\ waiting \in Seq(Ops) /\ served \in Seq(Ops) /\ stage \in [Ops -> Stages]
        /\ limit \in Nat /\ in_flight \in BOOLEAN
    BY DEF TypeOK
  <1>0. Nobody \notin Threads
    BY DEF Threads
  <1>f. /\ in_flight => current \in Ops /\ Turn = <<current>> \o waiting
        /\ ~in_flight => Turn = waiting
    BY <1>t, NilFront DEF QueueInv, Turn
  <1>same. ASSUME UNCHANGED <<waiting, in_flight, current, served, limit>>
           PROVE  Turn' = Turn /\ served' = served /\ limit' = limit
    BY <1>same DEF Turn
  <1>done. ASSUME NEW op \in Ops, in_flight, current = op, served' = Append(served, op),
                  limit' = limit, Turn' = waiting
           PROVE  Fifo!SessionNext
    <2>1. Turn # <<>> /\ Head(Turn) = op /\ Tail(Turn) = waiting
      BY <1>t, <1>f, <1>done, Cons
    <2>2. Fifo!Complete
      BY <1>done, <2>1 DEF Fifo!Complete, Turn
    <2> QED BY <2>2 DEF Fifo!SessionNext
  <1>1. ASSUME NEW t \in Threads, NEW op \in Ops, NEW mode \in Modes, Drive(t, op, mode)
        PROVE  Fifo!SessionNext
    <2>0. /\ stage[op] = "new" /\ served' = served /\ limit' = limit
          /\ Len(waiting) + (IF in_flight THEN 1 ELSE 0) < limit
      BY <1>1 DEF Drive
    <2>1. Len(Turn) < limit /\ Turn \in Seq(Ops)
      <3>1. CASE in_flight
        <4>1. Len(waiting) + 1 < limit
          BY <2>0, <3>1
        <4>2. Len(Turn) = Len(waiting) + 1 /\ Turn \in Seq(Ops)
          <5>1. current \in Ops /\ Turn = <<current>> \o waiting
            BY <1>f, <3>1
          <5>2. /\ Len(<<current>> \o waiting) = Len(waiting) + 1
                /\ <<current>> \o waiting \in Seq(Ops)
            BY <1>t, <5>1, Cons
          <5> QED BY <5>1, <5>2
        <4> QED BY <4>1, <4>2
      <3>2. CASE ~in_flight
        <4>1. Len(waiting) + 0 < limit
          BY <2>0, <3>2
        <4> QED BY <1>t, <1>f, <3>2, <4>1
      <3> QED BY <3>1, <3>2
    <2>2. ASSUME NEW i \in 1..Len(Turn) PROVE Turn[i] # op
      <3>w. \A k \in 1..Len(waiting) : waiting[k] # op
        BY <2>0 DEF QueueInv
      <3>1. CASE in_flight
        <4>1. current # op
          BY <2>0, <3>1 DEF QueueInv, TurnStages
        <4>2. Turn[i] = (IF i = 1 THEN current ELSE waiting[i - 1]) /\ Len(Turn) = Len(waiting) + 1
          BY <1>t, <1>f, <3>1, Cons
        <4>3. i # 1 => i - 1 \in 1..Len(waiting)
          BY <1>t, <4>2
        <4> QED BY <3>w, <4>1, <4>2, <4>3
      <3>2. CASE ~in_flight
        BY <1>f, <3>w, <3>2
      <3> QED BY <3>1, <3>2
    <2>3. \A i \in 1..Len(served) : served[i] # op
      BY <2>0 DEF QueueInv
    <2>4. Turn' = Append(Turn, op)
      <3>1. CASE in_flight \/ draining
        <4>1. waiting' = Append(waiting, op) /\ in_flight' = in_flight /\ current' = current
          BY <1>1, <3>1, Zenon DEF Drive, walkVars
        <4>2. CASE in_flight
          BY <1>t, <1>f, <4>1, <4>2, ConsAppend DEF Turn
        <4>3. CASE ~in_flight
          BY <1>t, <1>f, <4>1, <4>3, NilFront, PushBack DEF Turn
        <4> QED BY <4>2, <4>3
      <3>2. CASE ~(in_flight \/ draining)
        <4>1. Walk(t, Append(waiting, op)) /\ Turn = waiting
          BY <1>1, <1>f, <3>2, Zenon DEF Drive
        <4> QED BY <1>t, <4>1, PushBack, WalkTurn, Zenon
      <3> QED BY <3>1, <3>2
    <2>5. Fifo!Accept(op)
      BY <2>0, <2>1, <2>2, <2>3, <2>4, Zenon DEF Fifo!Accept, Turn
    <2> QED BY <2>5 DEF Fifo!SessionNext
  <1>2. ASSUME NEW n \in Limits \cup {0}, SetLimit(n) PROVE Fifo!SessionNext
    <2>1. /\ limit' \in Limits \cup {1}
          /\ UNCHANGED <<waiting, in_flight, current, served>>
      BY <1>2 DEF SetLimit, walkVars
    <2>2. Fifo!SetLimit
      BY <2>1 DEF Fifo!SetLimit
    <2> QED BY <2>2 DEF Fifo!SessionNext
  <1>3. ASSUME NEW t \in Threads, StartThrows(t) PROVE Fifo!SessionNext
    <2>1. popped \in Ops /\ current = popped /\ in_flight
      BY <1>0, <1>3, Zenon DEF StartThrows, QueueInv, TurnStages
    <2>2. Walk(t, waiting) /\ served' = Append(served, popped) /\ limit' = limit
      BY <1>3 DEF StartThrows
    <2> QED BY <1>t, <1>done, <2>1, <2>2, WalkTurn
  <1>4. ASSUME NEW t \in Threads, NEW op \in Ops, Finish(t, op) PROVE Fifo!SessionNext
    <2>1. in_flight /\ current = op /\ served' = Append(served, op) /\ limit' = limit
      BY <1>4, Zenon DEF Finish, QueueInv, TurnStages
    <2>2. CASE draining
      <3>1. ~in_flight' /\ waiting' = waiting
        BY <1>4, <2>2 DEF Finish
      <3>2. Turn' = waiting
        BY <1>t, <3>1, NilFront DEF Turn
      <3> QED BY <1>done, <2>1, <3>2
    <2>3. CASE ~draining
      <3>1. Walk(t, waiting)
        BY <1>4, <2>3 DEF Finish
      <3> QED BY <1>t, <1>done, <2>1, <3>1, WalkTurn
    <2> QED BY <2>2, <2>3
  <1>5. ASSUME NEW t \in Threads, Relock(t)
        PROVE  Turn' = Turn /\ served' = served /\ limit' = limit
    <2>1. served' = served /\ limit' = limit
      BY <1>5, Zenon DEF Relock
    <2>2. CASE in_flight
      BY <1>5, <1>same, <2>1, <2>2, Zenon DEF Relock
    <2>3. CASE ~in_flight
      <3>1. Walk(t, waiting)
        BY <1>5, <2>3, Zenon DEF Relock
      <3> QED BY <1>t, <1>f, <2>1, <2>3, <3>1, WalkTurn
    <2> QED BY <2>2, <2>3
  <1>6. ASSUME NEW t \in Threads, NEW op \in Ops, NEW mode,
               DriveRefused(t, op, mode) \/ DriveAgain(t, op, mode)
        PROVE  Turn' = Turn /\ served' = served /\ limit' = limit
    BY <1>6, <1>same DEF DriveRefused, DriveAgain, queueVars, walkVars
  <1>7. ASSUME NEW t \in Threads, StartQueued(t) \/ StartInline(t) \/ StartRefused(t)
        PROVE  Turn' = Turn /\ served' = served /\ limit' = limit
    BY <1>7, <1>same DEF StartQueued, StartInline, StartRefused, queueVars, walkVars
  <1>8. ASSUME NEW t \in Threads, NEW op \in Ops, Run(t, op) \/ BodyEnds(t, op) \/ Deliver(t, op)
        PROVE  Turn' = Turn /\ served' = served /\ limit' = limit
    BY <1>8, <1>same, Zenon DEF Run, BodyEnds, Deliver, queueVars, walkVars
  <1>9. ASSUME NEW c \in Callers, Unpark(c)
        PROVE  Turn' = Turn /\ served' = served /\ limit' = limit
    BY <1>9, <1>same DEF Unpark, queueVars, walkVars
  <1>10. CASE BeginWaitIdle \/ WakeIdle \/ Close \/ UNCHANGED vars
    BY <1>10, <1>same, Zenon DEF BeginWaitIdle, WakeIdle, Close, vars, queueVars, walkVars
  <1> QED
    BY <1>1, <1>2, <1>3, <1>4, <1>5, <1>6, <1>7, <1>8, <1>9, <1>10
       DEF Next, ThreadStep, WalkStep, OpStep, WorkerStep, DriveStep, Threads

\* The operation queue implements the FIFO of its description: accepted in
\* order, served one by one in that order, never more than the limit at once,
\* for every executor the interface allows.
THEOREM SessionImplementsFifo == Spec => FifoSpec
  <1>1. Init => Fifo!SessionInit
    BY NilFront DEF Init, Fifo!SessionInit
  <1> QED BY <1>1, FifoStep, InvAlways, PTL DEF Spec, FifoSpec, Fifo!SessionSpec
=============================================================================
