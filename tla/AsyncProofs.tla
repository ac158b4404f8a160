---------------------------- MODULE AsyncProofs ----------------------------
(***************************************************************************)
(* Theorems about AsyncTransaction, for every executor, every number of    *)
(* transactions and writes and every submit limit, of a session that one   *)
(* chain of calls uses (with two chains OneOnConnection does not hold),    *)
(* and about WorkerPool, for every set of closures and clients and every   *)
(* number of threads.                                                      *)
(***************************************************************************)
EXTENDS AsyncTransaction, WorkerPool, FiniteSetTheorems, TLAPS

\* One chain of calls; Nobody is neither a user nor a worker.
OneChain == /\ \E u \in Users : Users = {u}
            /\ Nobody \notin Users \cup Workers \cup Handles

UsersTyped ==
  /\ user \in [Users -> [at : {"free", "waits", "drops", "rolls", "dying", "closes", "sweeps"},
                         h : Handles \cup {Nobody}]]
  /\ \A u \in Users : user[u].at \in {"drops", "rolls", "dying"} => user[u].h \in Handles

StoreTyped ==
  /\ inner \in [Handles -> [active : BOOLEAN, owns : BOOLEAN]]
  /\ db \in [manual : BOOLEAN, pending : SUBSET Writes, kept : SUBSET Writes]

ChainTypeOK ==
  /\ turns \in Seq(Operations)
  /\ busy \in Workers \cup {Nobody}
  /\ UsersTyped /\ StoreTyped
  /\ door \in BOOLEAN
  /\ handle \in [Handles -> {"unborn", "asked", "held", "gone"}]

\* Whoever reaches the connection past the queue finds it empty, and it stays so.
QuietInv ==
  /\ \A u \in Users : user[u].at \in {"rolls", "dying", "sweeps"} => turns = <<>>
  /\ ~door => turns = <<>>
  /\ turns = <<>> => busy = Nobody

IsWrite(i, x) == turns[i].do = "write" /\ turns[i].arg = x

\* Each write is at one place: queued once, pending, kept or undone.
PlaceInv ==
  /\ db.pending \cap undone = {} /\ db.pending \cap db.kept = {}
  /\ \A i \in 1..Len(turns) : turns[i].do = "write" =>
       /\ turns[i].arg \notin db.pending \cup db.kept \cup undone
       /\ \A j \in 1..Len(turns) : IsWrite(j, turns[i].arg) => i = j

\* The i-th operation is a commit() that will find its transaction active, behind x.
Secures(i, x) ==
  /\ turns[i].do = "commit" /\ inner[turns[i].arg].active
  /\ \A j \in 1..(i - 1) : turns[j].do \in {"commit", "rollback"} => turns[j].arg # turns[i].arg
  /\ x \in db.pending \/ \E j \in 1..(i - 1) : IsWrite(j, x)

\* What is promised is kept, or a queued commit() is going to keep it.
PromiseInv ==
  /\ promised \cap undone = {}
  /\ \A x \in promised : x \in db.kept \/ \E i \in 1..Len(turns) : Secures(i, x)

\* A session that closed its door is being swept or gone, and what is open then is
\* yet to be swept, or the driver refused to close it.
OpenInv ==
  /\ \A h \in Handles : inner[h].active => handle[h] \in {"held", "gone"}
  /\ \A u \in Users : user[u].at = "closes" => session = "going" /\ door
  /\ \A u \in Users : user[u].at = "sweeps" => session = "going" /\ ~door
  /\ \A u \in Users : user[u].at = "dying" => user[u].h \in refused
  /\ ~door => \/ \E u \in Users : user[u].at = "sweeps"
              \/ session = "gone" /\ todo = {}
  /\ session = "gone" => ~door
  /\ ~door => \A h \in Handles : handle[h] = "held" /\ inner[h].active => h \in refused \cup todo

Inv == ChainTypeOK /\ QuietInv /\ PlaceInv /\ PromiseInv /\ OpenInv
-----------------------------------------------------------------------------
(* Operations and the queue *)

LEMMA TurnsPop ==
  ASSUME NEW S, NEW q \in Seq(S), q # <<>>
  PROVE  /\ Head(q) \in S /\ Head(q) = q[1] /\ Tail(q) \in Seq(S)
         /\ Len(q) \in Nat /\ Len(q) >= 1 /\ Len(Tail(q)) = Len(q) - 1
         /\ \A i \in 1..Len(Tail(q)) : Tail(q)[i] = q[i + 1]
  OBVIOUS

LEMMA PushBack ==
  ASSUME NEW S, NEW q \in Seq(S), NEW x \in S
  PROVE  /\ Append(q, x) \in Seq(S) /\ Len(q) \in Nat /\ Len(Append(q, x)) = Len(q) + 1
         /\ Append(q, x) # <<>>
         /\ \A i \in 1..Len(q) : Append(q, x)[i] = q[i]
         /\ Append(q, x)[Len(q) + 1] = x
  OBVIOUS

\* Every operation is of one of the four kinds, about a handle or a write.
LEMMA OperationKinds ==
  ASSUME NEW op \in Operations
  PROVE  /\ op.do \in {"begin", "write", "commit", "rollback"}
         /\ op.do = "write" => op.arg \in Writes
         /\ op.do # "write" => op.arg \in Handles
         /\ op.by \in Users \cup {Nobody}
  BY DEF Operations

\* A new session satisfies the invariant.
LEMMA InvInit == TxInit => Inv
  <1> SUFFICES ASSUME TxInit PROVE Inv
    OBVIOUS
  <1>1. door \in BOOLEAN /\ inner \in [Handles -> [active : BOOLEAN, owns : BOOLEAN]]
        /\ db \in [manual : BOOLEAN, pending : SUBSET Writes, kept : SUBSET Writes]
    BY DEF TxInit
  <1>2. ChainTypeOK
    BY <1>1 DEF TxInit, ChainTypeOK, UsersTyped, StoreTyped, Free
  <1>3. QuietInv /\ PlaceInv /\ PromiseInv /\ OpenInv
    BY DEF TxInit, QuietInv, PlaceInv, PromiseInv, OpenInv, Free
  <1> QED BY <1>2, <1>3 DEF Inv
-----------------------------------------------------------------------------
(* Types *)

\* commit() and rollback() leave records of the right form.
LEMMA EndTypes ==
  ASSUME ChainTypeOK, NEW h \in Handles, commit(h) \/ rollback(h)
  PROVE  StoreTyped'
  <1>1. /\ inner \in [Handles -> [active : BOOLEAN, owns : BOOLEAN]]
        /\ db \in [manual : BOOLEAN, pending : SUBSET Writes, kept : SUBSET Writes]
    BY DEF ChainTypeOK, UsersTyped, StoreTyped
  <1>2. ModeAfter(h) \in BOOLEAN
    BY <1>1 DEF ModeAfter
  <1>3. inner' \in [Handles -> [active : BOOLEAN, owns : BOOLEAN]]
    BY <1>1, Zenon DEF commit, rollback, Closed, Refuses
  <1>4. db' \in [manual : BOOLEAN, pending : SUBSET Writes, kept : SUBSET Writes]
    BY <1>1, <1>2, Zenon DEF commit, rollback
  <1> QED BY <1>3, <1>4 DEF StoreTyped

\* So does the body of every operation.
LEMMA PerformsTypes ==
  ASSUME ChainTypeOK, NEW op \in Operations, Performs(op)
  PROVE  /\ StoreTyped'
         /\ handle' \in [Handles -> {"unborn", "asked", "held", "gone"}]
  <1>1. /\ inner \in [Handles -> [active : BOOLEAN, owns : BOOLEAN]]
        /\ db \in [manual : BOOLEAN, pending : SUBSET Writes, kept : SUBSET Writes]
        /\ handle \in [Handles -> {"unborn", "asked", "held", "gone"}]
    BY DEF ChainTypeOK, UsersTyped, StoreTyped
  <1>2. handle' \in [Handles -> {"unborn", "asked", "held", "gone"}]
    BY <1>1, OperationKinds DEF Performs
  <1>3. CASE op.do = "begin"
    <2>1. (~db.manual) \in BOOLEAN /\ op.arg \in Handles
      BY <1>3, OperationKinds
    <2>2. Opened(op.arg) \/ UNCHANGED <<inner, db>>
      BY <1>3 DEF Performs
    <2>3. CASE Opened(op.arg)
      <3> DEFINE opened == [active |-> TRUE, owns |-> ~db.manual]
      <3>0. opened \in [active : BOOLEAN, owns : BOOLEAN]
        BY <2>1, Zenon
      <3>1. inner' \in [Handles -> [active : BOOLEAN, owns : BOOLEAN]]
        <4> HIDE DEF opened
        <4>1. inner' = [inner EXCEPT ![op.arg] = opened]
          BY <2>3 DEF Opened, opened
        <4> QED BY <1>1, <2>1, <3>0, <4>1
      <3>2. db' \in [manual : BOOLEAN, pending : SUBSET Writes, kept : SUBSET Writes]
        BY <1>1, <2>3, Zenon DEF Opened
      <3> QED BY <1>2, <3>1, <3>2 DEF StoreTyped
    <2> QED BY <1>1, <1>2, <2>2, <2>3 DEF StoreTyped
  <1>4. CASE op.do = "write"
    BY <1>1, <1>2, <1>4, OperationKinds DEF Performs, StoreTyped
  <1>5. CASE op.do \in {"commit", "rollback"}
    <2>1. commit(op.arg) \/ rollback(op.arg)
      BY <1>5 DEF Performs
    <2> QED BY <1>2, <1>5, <2>1, EndTypes, OperationKinds
  <1> QED BY <1>3, <1>4, <1>5, OperationKinds

\* Answering an operation keeps the users well typed and sends nobody to the connection.
LEMMA AnswersTypes ==
  ASSUME ChainTypeOK, NEW op \in Operations, NEW w, Answers(op, w)
  PROVE  /\ UsersTyped'
         /\ \A u \in Users : user'[u] = user[u] \/ user'[u].at = "free"
  <1>1. op.by \in Users \cup {Nobody}
    BY OperationKinds
  <1>2. user' = user \/ (op.by \in Users /\ user' = [user EXCEPT ![op.by] = Free])
    BY <1>1 DEF Answers
  <1>3. CASE user' = user
    BY <1>3 DEF ChainTypeOK, UsersTyped
  <1>4. CASE op.by \in Users /\ user' = [user EXCEPT ![op.by] = Free]
    BY <1>4 DEF Free, ChainTypeOK, UsersTyped
  <1> QED BY <1>2, <1>3, <1>4

\* The end of a handle or of a session moves one user one step.
LEMMA StepTypes ==
  ASSUME ChainTypeOK, NEW u \in Users, NEW h \in Handles \cup {Nobody},
         NEW at \in {"drops", "rolls", "dying", "closes", "sweeps"}, Step(u, at, h),
         at \in {"drops", "rolls", "dying"} => h \in Handles
  PROVE  /\ UsersTyped'
         /\ user'[u].at = at /\ \A v \in Users \ {u} : user'[v] = user[v]
  BY DEF Step, ChainTypeOK, UsersTyped, StoreTyped

LEMMA FreeTypes ==
  ASSUME ChainTypeOK, NEW u \in Users, user' = [user EXCEPT ![u] = Free]
  PROVE  /\ UsersTyped'
         /\ user'[u].at = "free" /\ \A v \in Users \ {u} : user'[v] = user[v]
  BY DEF Free, ChainTypeOK, UsersTyped, StoreTyped

\* Every step keeps the types.
LEMMA ChainTypeStep ==
  ASSUME ChainTypeOK, QuietInv, OneChain, TxNext
  PROVE  ChainTypeOK'
  <1>1. ASSUME NEW u \in Users, NEW op \in Operations, Drive(u, op) PROVE ChainTypeOK'
    <2>1. turns' \in Seq(Operations)
      BY <1>1, PushBack DEF Drive, ChainTypeOK, UsersTyped, StoreTyped
    <2>2. user' = user \/ user' = [user EXCEPT ![u] = [at |-> "waits", h |-> Nobody]]
      BY <1>1 DEF Drive
    <2>3. UsersTyped'
      <3>1. CASE user' = user
        BY <3>1 DEF ChainTypeOK, UsersTyped
      <3>2. CASE user' = [user EXCEPT ![u] = [at |-> "waits", h |-> Nobody]]
        BY <3>2 DEF ChainTypeOK, UsersTyped
      <3> QED BY <2>2, <3>1, <3>2
    <2>4. handle' \in [Handles -> {"unborn", "asked", "held", "gone"}]
      BY <1>1, Zenon DEF Drive, ChainTypeOK, UsersTyped, StoreTyped
    <2> QED BY <1>1, <2>1, <2>3, <2>4 DEF Drive, ChainTypeOK, UsersTyped, StoreTyped
  <1>2. ASSUME NEW w \in Workers, Serve(w) PROVE ChainTypeOK'
    BY <1>2 DEF Serve, ChainTypeOK, UsersTyped, StoreTyped
  <1>3. ASSUME NEW w \in Workers, Served(w) PROVE ChainTypeOK'
    <2>1. turns # <<>>
      BY <1>3 DEF Served, QuietInv, OneChain
    <2>2. turns' \in Seq(Operations) /\ Head(turns) \in Operations
      BY <1>3, <2>1, TurnsPop DEF Served, ChainTypeOK, UsersTyped, StoreTyped
    <2>3. UsersTyped'
      BY <1>3, <2>2, AnswersTypes DEF Served, ChainTypeOK, UsersTyped, StoreTyped
    <2>4. /\ StoreTyped'
          /\ handle' \in [Handles -> {"unborn", "asked", "held", "gone"}]
      BY <1>3, <2>2, PerformsTypes DEF Served
    <2> QED BY <1>3, <2>2, <2>3, <2>4 DEF Served, ChainTypeOK, UsersTyped, StoreTyped
  <1>4. ASSUME NEW u \in Users, ChainEnds(u) PROVE ChainTypeOK'
    BY <1>4 DEF ChainEnds, ChainTypeOK, UsersTyped, StoreTyped
  <1>5. ASSUME NEW u \in Users, NEW h \in Handles, DropHandle(u, h) PROVE ChainTypeOK'
    <2>1. user' = user \/ \E at \in {"drops", "dying"} : Step(u, at, h)
      BY <1>5 DEF DropHandle
    <2>2. UsersTyped'
      BY <2>1, StepTypes DEF ChainTypeOK, UsersTyped, StoreTyped
    <2>3. handle' \in [Handles -> {"unborn", "asked", "held", "gone"}]
      BY <1>5 DEF DropHandle, ChainTypeOK, UsersTyped, StoreTyped
    <2> QED BY <1>5, <2>2, <2>3 DEF DropHandle, ChainTypeOK, UsersTyped, StoreTyped
  <1>6. ASSUME NEW u \in Users, DropsWhenQuiet(u) PROVE ChainTypeOK'
    <2>1. user[u].h \in Handles
      BY <1>6 DEF DropsWhenQuiet, ChainTypeOK, UsersTyped, StoreTyped
    <2> QED BY <1>6, <2>1, StepTypes DEF DropsWhenQuiet, ChainTypeOK, UsersTyped, StoreTyped
  <1>7. ASSUME NEW u \in Users, Rolls(u) \/ Dies(u) PROVE ChainTypeOK'
    <2>1. user[u].h \in Handles /\ rollback(user[u].h)
      BY <1>7 DEF Rolls, Dies, ChainTypeOK, UsersTyped, StoreTyped
    <2>2. Step(u, "dying", user[u].h) \/ user' = [user EXCEPT ![u] = Free]
      BY <1>7 DEF Rolls, Dies
    <2>3. UsersTyped'
      BY <2>1, <2>2, StepTypes, FreeTypes
    <2>4. StoreTyped'
      BY <2>1, EndTypes
    <2>5. handle' \in [Handles -> {"unborn", "asked", "held", "gone"}]
      BY <1>7 DEF Rolls, Dies, ChainTypeOK, UsersTyped, StoreTyped
    <2>6. UNCHANGED <<turns, busy, door>>
      BY <1>7 DEF Rolls, Dies
    <2> QED BY <2>3, <2>4, <2>5, <2>6 DEF ChainTypeOK, UsersTyped, StoreTyped
  <1>8. ASSUME NEW u \in Users, CloseSession(u) \/ ClosesWhenQuiet(u) PROVE ChainTypeOK'
    <2>1. Step(u, "closes", Nobody) \/ Step(u, "sweeps", Nobody)
      BY <1>8 DEF CloseSession, ClosesWhenQuiet
    <2>2. UsersTyped'
      BY <2>1, StepTypes
    <2>3. door' \in BOOLEAN
      BY <1>8, Zenon DEF CloseSession, ClosesWhenQuiet, ChainTypeOK, UsersTyped, StoreTyped
    <2>4. UNCHANGED <<turns, busy, inner, db, handle>>
      BY <1>8 DEF CloseSession, ClosesWhenQuiet
    <2> QED BY <2>2, <2>3, <2>4 DEF ChainTypeOK, UsersTyped, StoreTyped
  <1>9. ASSUME NEW u \in Users, NEW h \in Handles, Sweep(u, h) PROVE ChainTypeOK'
    <2>1. StoreTyped'
      BY <1>9, EndTypes DEF Sweep
    <2> QED BY <1>9, <2>1 DEF Sweep, ChainTypeOK, UsersTyped, StoreTyped
  <1>10. ASSUME NEW u \in Users, SessionGone(u) PROVE ChainTypeOK'
    <2>1. db' \in [manual : BOOLEAN, pending : SUBSET Writes, kept : SUBSET Writes]
      BY <1>10, Zenon DEF SessionGone, ChainTypeOK, UsersTyped, StoreTyped
    <2> QED BY <1>10, <2>1, FreeTypes, Zenon DEF SessionGone, ChainTypeOK, UsersTyped, StoreTyped
  <1> QED BY <1>1, <1>2, <1>3, <1>4, <1>5, <1>6, <1>7, <1>8, <1>9, <1>10 DEF TxNext, Ending
-----------------------------------------------------------------------------
(* The queue stays quiet under whoever goes past it *)

LEMMA QuietStep ==
  ASSUME ChainTypeOK, QuietInv, OneChain, TxNext
  PROVE  QuietInv'
  <1> PICK me \in Users : Users = {me}
    BY DEF OneChain
  <1> Nobody \notin Workers
    BY DEF OneChain
  <1> USE DEF QuietInv
  <1>1. ASSUME NEW u \in Users, NEW op \in Operations, Drive(u, op) PROVE QuietInv'
    <2>1. turns' # <<>> /\ door'
      BY <1>1, PushBack DEF Drive, ChainTypeOK
    <2>2. user'[me].at \in {"free", "waits"}
      BY <1>1 DEF Drive, Free, ChainTypeOK, UsersTyped
    <2> QED BY <2>1, <2>2
  <1>2. ASSUME NEW w \in Workers, Serve(w) PROVE QuietInv'
    BY <1>2 DEF Serve
  <1>3. ASSUME NEW w \in Workers, Served(w) PROVE QuietInv'
    <2>1. turns # <<>> /\ door /\ door' /\ busy' = Nobody
      BY <1>3 DEF Served, ChainTypeOK
    <2>2. Head(turns) \in Operations
      BY <2>1, TurnsPop DEF ChainTypeOK
    <2>3. user'[me] = user[me] \/ user'[me].at = "free"
      BY <1>3, <2>2, AnswersTypes DEF Served
    <2> QED BY <2>1, <2>3
  <1>4. ASSUME NEW u \in Users, ChainEnds(u) PROVE QuietInv'
    BY <1>4 DEF ChainEnds
  <1>5. ASSUME NEW u \in Users, NEW h \in Handles, DropHandle(u, h) PROVE QuietInv'
    <2>1. UNCHANGED <<turns, busy, door>>
      BY <1>5 DEF DropHandle
    <2>2. user' = user \/ Step(u, "drops", h) \/ (Step(u, "dying", h) /\ ~door)
      BY <1>5 DEF DropHandle
    <2> QED BY <2>1, <2>2, StepTypes
  <1>6. ASSUME NEW u \in Users, DropsWhenQuiet(u) PROVE QuietInv'
    BY <1>6 DEF DropsWhenQuiet, Idle
  <1>7. ASSUME NEW u \in Users, Rolls(u) \/ Dies(u) PROVE QuietInv'
    BY <1>7 DEF Rolls, Dies
  <1>8. ASSUME NEW u \in Users, CloseSession(u) PROVE QuietInv'
    <2>1. UNCHANGED <<turns, busy, door>> /\ Step(u, "closes", Nobody)
      BY <1>8 DEF CloseSession
    <2> QED BY <2>1, StepTypes
  <1>9. ASSUME NEW u \in Users, ClosesWhenQuiet(u) PROVE QuietInv'
    BY <1>9 DEF ClosesWhenQuiet, Idle
  <1>10. ASSUME NEW u \in Users, NEW h \in Handles, Sweep(u, h) PROVE QuietInv'
    BY <1>10 DEF Sweep
  <1>11. ASSUME NEW u \in Users, SessionGone(u) PROVE QuietInv'
    BY <1>11 DEF SessionGone
  <1> QED BY <1>1, <1>2, <1>3, <1>4, <1>5, <1>6, <1>7, <1>8, <1>9, <1>10, <1>11 DEF TxNext, Ending
-----------------------------------------------------------------------------
(* What bodies and ends do to writes *)

\* rollback() undoes what is pending, or does nothing to it.
LEMMA RollbackStep ==
  ASSUME ChainTypeOK, NEW h \in Handles, rollback(h)
  PROVE  /\ db'.kept = db.kept
         /\ \/ db'.pending = db.pending /\ undone' = undone
            \/ inner[h].active /\ db'.pending = {} /\ undone' = undone \cup db.pending
         /\ \A g \in Handles \ {h} : inner'[g] = inner[g]
  BY Zenon DEF rollback, Closed, Refuses, ChainTypeOK, StoreTyped

\* commit() keeps what is pending, and it does when the transaction is over with it.
LEMMA CommitStep ==
  ASSUME ChainTypeOK, NEW h \in Handles, commit(h)
  PROVE  /\ undone' = undone
         /\ \/ db'.pending = db.pending /\ db'.kept = db.kept
            \/ db'.pending = {} /\ db'.kept = db.kept \cup db.pending
         /\ \A g \in Handles \ {h} : inner'[g] = inner[g]
         /\ inner[h].active /\ ~inner'[h].active => db'.kept = db.kept \cup db.pending
  BY Zenon DEF commit, Closed, Refuses, ChainTypeOK, StoreTyped

\* What the body of an operation may do to the writes and the promises.
BodyKeeps(op) ==
  /\ promised' \subseteq promised /\ db.kept \subseteq db'.kept
  /\ \A x \in promised' : /\ x \in undone' => x \in undone
                          /\ x \in db.pending => x \in db'.pending \cup db'.kept
  /\ op.do = "write" => op.arg \in db'.pending \cup db'.kept
  /\ op.do = "commit" /\ inner[op.arg].active => \A x \in promised' \cap db.pending : x \in db'.kept
  /\ \A h \in Handles : inner[h].active /\ (op.do \in {"commit", "rollback"} => op.arg # h)
                          => inner'[h].active
  /\ \A x \in db'.pending \cup db'.kept \cup undone' :
       x \in db.pending \cup db.kept \cup undone \/ (op.do = "write" /\ x = op.arg)
  /\ db'.pending \cap undone' = {} /\ db'.pending \cap db'.kept = {}

LEMMA BodyStep ==
  ASSUME ChainTypeOK, NEW op \in Operations, Performs(op),
         db.pending \cap undone = {}, db.pending \cap db.kept = {},
         op.do = "write" => op.arg \notin db.pending \cup db.kept \cup undone
  PROVE  BodyKeeps(op)
  <1>1. CASE op.do = "begin"
    <2>1. op.arg \in Handles /\ promised' = promised /\ undone' = undone
      BY <1>1, OperationKinds DEF Performs
    <2>2. Opened(op.arg) \/ UNCHANGED <<inner, db>>
      BY <1>1 DEF Performs
    <2>3. db'.pending = db.pending /\ db'.kept = db.kept
      BY <2>2 DEF Opened, ChainTypeOK, StoreTyped
    <2>4. \A h \in Handles : inner[h].active => inner'[h].active
      BY <2>1, <2>2 DEF Opened, ChainTypeOK, StoreTyped
    <2> QED BY <1>1, <2>1, <2>3, <2>4 DEF BodyKeeps
  <1>2. CASE op.do = "write"
    <2>1. promised' = promised /\ undone' = undone /\ inner' = inner
      BY <1>2 DEF Performs
    <2>2. \/ db'.pending = db.pending \cup {op.arg} /\ db'.kept = db.kept
          \/ db'.pending = db.pending /\ db'.kept = db.kept \cup {op.arg}
      BY <1>2 DEF Performs, ChainTypeOK, StoreTyped
    <2> QED BY <1>2, <2>1, <2>2 DEF BodyKeeps
  <1>3. CASE op.do = "commit"
    <2>1. op.arg \in Handles /\ commit(op.arg)
      BY <1>3, OperationKinds DEF Performs
    <2>2. /\ promised' \subseteq promised
          /\ inner'[op.arg].active => promised' = promised \ db.pending
      BY <1>3 DEF Performs
    <2> QED BY <1>3, <2>1, <2>2, CommitStep DEF BodyKeeps
  <1>4. CASE op.do = "rollback"
    <2>1. op.arg \in Handles /\ rollback(op.arg)
      BY <1>4, OperationKinds DEF Performs
    <2>2. promised' = IF inner[op.arg].active THEN promised \ db.pending ELSE promised
      BY <1>4 DEF Performs
    <2> QED BY <1>4, <2>1, <2>2, RollbackStep DEF BodyKeeps
  <1> QED BY <1>1, <1>2, <1>3, <1>4, OperationKinds
-----------------------------------------------------------------------------
(* Writes stay at one place, and promises are secured *)

\* The steps that leave the queue, the writes and the promises alone.
LEMMA Still ==
  ASSUME UNCHANGED <<turns, inner, db, promised, undone>>
  PROVE  (PlaceInv => PlaceInv') /\ (PromiseInv => PromiseInv')
  BY DEF PlaceInv, PromiseInv, Secures, IsWrite

\* A rollback past an empty queue undoes nothing that is promised.
LEMMA PastQueue ==
  ASSUME ChainTypeOK, PlaceInv, PromiseInv, turns = <<>>, turns' = turns, promised' = promised,
         db'.kept = db.kept,
         \/ db'.pending = db.pending /\ undone' = undone
         \/ db'.pending = {} /\ undone' = undone \cup db.pending
  PROVE  PlaceInv' /\ PromiseInv'
  <1>1. Len(turns) = 0
    OBVIOUS
  <1>2. promised \subseteq db.kept
    BY <1>1 DEF PromiseInv
  <1> QED BY <1>1, <1>2 DEF PlaceInv, PromiseInv

\* A call that is queued goes behind all others.
LEMMA DriveKeeps ==
  ASSUME ChainTypeOK, PlaceInv, PromiseInv, NEW u \in Users, NEW op \in Operations, Drive(u, op)
  PROVE  PlaceInv' /\ PromiseInv'
  <1>1. /\ turns' = Append(turns, op) /\ UNCHANGED <<inner, db, undone>>
        /\ turns \in Seq(Operations)
    BY DEF Drive, ChainTypeOK
  <1>2. /\ Len(turns) \in Nat /\ Len(turns') = Len(turns) + 1
        /\ \A i \in 1..Len(turns) : turns'[i] = turns[i]
        /\ turns'[Len(turns) + 1] = op
    BY <1>1, PushBack
  <1>3. PlaceInv'
    <2>1. op.do = "write" => /\ op.arg \notin db.pending \cup db.kept \cup undone
                             /\ \A i \in 1..Len(turns) : turns[i].arg # op.arg
      BY <1>1 DEF Drive
    <2> QED BY <1>1, <1>2, <2>1 DEF PlaceInv, IsWrite
  <1>4. ASSUME NEW i \in 1..Len(turns), NEW x, Secures(i, x) PROVE Secures(i, x)'
    BY <1>1, <1>2, <1>4 DEF Secures, IsWrite
  <1>5. CASE ~(op.do = "commit" /\ WillBeActive(op.arg))
    <2>1. promised' = promised
      BY <1>5 DEF Drive
    <2> QED BY <1>1, <1>2, <1>3, <1>4, <2>1 DEF PromiseInv
  <1>6. CASE op.do = "commit" /\ WillBeActive(op.arg)
    <2>1. promised' = promised \cup Covered
      BY <1>6 DEF Drive
    <2> PICK n \in Nat : n = Len(turns)
      BY <1>2
    <2>2. ASSUME NEW x \in Covered PROVE x \notin undone /\ Secures(n + 1, x)'
      <3>1. x \in db.pending \/ \E j \in 1..Len(turns) : IsWrite(j, x)
        BY <1>1 DEF Covered, IsWrite
      <3>2. x \notin undone
        BY <3>1 DEF PlaceInv, IsWrite
      <3>3. inner'[op.arg].active /\ \A j \in 1..Len(turns) : turns'[j].arg # op.arg
        BY <1>1, <1>2, <1>6 DEF WillBeActive
      <3>4. x \in db'.pending \/ \E j \in 1..Len(turns) : IsWrite(j, x)'
        BY <1>1, <1>2, <3>1 DEF IsWrite
      <3>5. (n + 1) - 1 = Len(turns)
        OBVIOUS
      <3> QED BY <1>2, <1>6, <3>2, <3>3, <3>4, <3>5 DEF Secures
    <2>3. n + 1 \in 1..Len(turns')
      BY <1>2
    <2> QED BY <1>1, <1>2, <1>3, <1>4, <2>1, <2>2, <2>3 DEF PromiseInv
  <1> QED BY <1>5, <1>6

\* A body that ends makes place for those behind it.
LEMMA ServedKeeps ==
  ASSUME ChainTypeOK, PlaceInv, PromiseInv, NEW w \in Workers, turns # <<>>, Served(w)
  PROVE  PlaceInv' /\ PromiseInv'
  <1> DEFINE op == Head(turns)
  <1>1. /\ op \in Operations /\ op = turns[1] /\ Performs(op) /\ Len(turns) \in Nat /\ Len(turns) >= 1
        /\ turns' = Tail(turns) /\ Len(turns') = Len(turns) - 1
        /\ \A i \in 1..Len(turns') : turns'[i] = turns[i + 1]
    BY TurnsPop DEF Served, ChainTypeOK
  <1> HIDE DEF op
  <1>2. /\ db.pending \cap undone = {} /\ db.pending \cap db.kept = {}
        /\ op.do = "write" => op.arg \notin db.pending \cup db.kept \cup undone
    BY <1>1 DEF PlaceInv
  <1>3. BodyKeeps(op)
    BY <1>1, <1>2, BodyStep
  <1>4. PlaceInv'
    <2>1. ASSUME NEW i \in 1..Len(turns'), turns'[i].do = "write"
          PROVE  /\ turns'[i].arg \notin db'.pending \cup db'.kept \cup undone'
                 /\ \A j \in 1..Len(turns') :
                      turns'[j].do = "write" /\ turns'[j].arg = turns'[i].arg => i = j
      <3>1. i + 1 \in 1..Len(turns) /\ i + 1 # 1 /\ turns'[i] = turns[i + 1]
        BY <1>1
      <3>2. /\ turns[i + 1].arg \notin db.pending \cup db.kept \cup undone
            /\ \A j \in 1..Len(turns) : IsWrite(j, turns[i + 1].arg) => i + 1 = j
        BY <2>1, <3>1 DEF PlaceInv
      <3>3. ~(op.do = "write" /\ turns[i + 1].arg = op.arg)
        BY <1>1, <3>1, <3>2 DEF IsWrite
      <3>4. turns'[i].arg \notin db'.pending \cup db'.kept \cup undone'
        BY <1>3, <3>1, <3>2, <3>3 DEF BodyKeeps
      <3>5. ASSUME NEW j \in 1..Len(turns'), turns'[j].do = "write", turns'[j].arg = turns'[i].arg
            PROVE  i = j
        <4>1. j + 1 \in 1..Len(turns) /\ turns'[j] = turns[j + 1]
          BY <1>1
        <4> QED BY <3>1, <3>2, <3>5, <4>1 DEF IsWrite
      <3> QED BY <3>4, <3>5
    <2> QED BY <1>3, <2>1 DEF PlaceInv, BodyKeeps, IsWrite
  <1>5. promised' \cap undone' = {}
    BY <1>3 DEF PromiseInv, BodyKeeps
  <1>6. ASSUME NEW x \in promised'
        PROVE  x \in db'.kept \/ \E i \in 1..Len(turns') : Secures(i, x)'
    <2>1. x \in promised /\ (x \in db.kept \/ \E i \in 1..Len(turns) : Secures(i, x))
      BY <1>3 DEF BodyKeeps, PromiseInv
    <2>2. CASE x \in db.kept
      BY <1>3, <2>2 DEF BodyKeeps
    <2>3. ASSUME NEW i \in 1..Len(turns), Secures(i, x), i = 1 PROVE x \in db'.kept
      <3>1. x \in db.pending /\ op.do = "commit" /\ inner[op.arg].active
        BY <1>1, <2>3 DEF Secures
      <3> QED BY <1>3, <3>1 DEF BodyKeeps
    <2>4. ASSUME NEW i \in 1..Len(turns), Secures(i, x), i # 1, x \notin db'.kept
          PROVE  \E k \in 1..Len(turns') : Secures(k, x)'
      <3> DEFINE h == turns[i].arg
      <3>1. i - 1 \in 1..Len(turns') /\ turns'[i - 1] = turns[i] /\ 1 \in 1..(i - 1)
        BY <1>1, <2>4
      <3>2. h \in Handles
        <4>1. turns[i] \in Operations /\ turns[i].do = "commit"
          BY <2>4 DEF Secures, ChainTypeOK
        <4> QED BY <4>1, OperationKinds
      <3>3. inner'[h].active
        <4>1. inner[h].active /\ (op.do \in {"commit", "rollback"} => op.arg # h)
          BY <1>1, <2>4, <3>1 DEF Secures
        <4> QED BY <1>3, <3>2, <4>1 DEF BodyKeeps
      <3>4. \A j \in 1..(i - 1 - 1) : turns'[j] = turns[j + 1] /\ j + 1 \in 1..(i - 1)
        BY <1>1
      <3>5. x \in db'.pending \/ \E j \in 1..(i - 1 - 1) : IsWrite(j, x)'
        <4>1. CASE x \in db.pending
          BY <1>3, <2>4, <4>1 DEF BodyKeeps
        <4>2. CASE IsWrite(1, x)
          BY <1>1, <1>3, <2>4, <4>2 DEF BodyKeeps, IsWrite
        <4>3. ASSUME NEW j \in 1..(i - 1), IsWrite(j, x), j # 1
              PROVE  \E k \in 1..(i - 1 - 1) : IsWrite(k, x)'
          <5>1. j - 1 \in 1..(i - 1 - 1) /\ (j - 1) + 1 = j
            BY <4>3
          <5>2. turns'[j - 1] = turns[j]
            BY <3>4, <5>1
          <5>3. IsWrite(j - 1, x)'
            BY <4>3, <5>2 DEF IsWrite
          <5> QED BY <5>1, <5>3
        <4> QED BY <2>4, <4>1, <4>2, <4>3 DEF Secures
      <3>6. Secures(i - 1, x)'
        <4>1. turns'[i - 1] = turns[i] /\ turns[i].do = "commit" /\ turns[i].arg = h
          BY <2>4, <3>1 DEF Secures
        <4>2. \A j \in 1..(i - 1 - 1) :
                turns'[j].do \in {"commit", "rollback"} => turns'[j].arg # h
          BY <2>4, <3>4, <4>1 DEF Secures
        <4> QED BY <3>3, <3>5, <4>1, <4>2 DEF Secures
      <3> QED BY <3>1, <3>6
    <2> QED BY <2>1, <2>2, <2>3, <2>4
  <1> QED BY <1>4, <1>5, <1>6 DEF PromiseInv

LEMMA PlaceStep ==
  ASSUME ChainTypeOK, QuietInv, PlaceInv, PromiseInv, OneChain, TxNext
  PROVE  PlaceInv' /\ PromiseInv'
  <1>1. ASSUME NEW u \in Users, NEW op \in Operations, Drive(u, op) PROVE PlaceInv' /\ PromiseInv'
    BY <1>1, DriveKeeps
  <1>2. ASSUME NEW w \in Workers, Served(w) PROVE PlaceInv' /\ PromiseInv'
    <2>1. turns # <<>>
      BY <1>2 DEF Served, QuietInv, OneChain
    <2> QED BY <1>2, <2>1, ServedKeeps
  <1>3. ASSUME NEW u \in Users, Rolls(u) \/ Dies(u) PROVE PlaceInv' /\ PromiseInv'
    <2>1. /\ turns = <<>> /\ turns' = turns /\ promised' = promised
          /\ user[u].h \in Handles /\ rollback(user[u].h)
      BY <1>3 DEF Rolls, Dies, QuietInv, ChainTypeOK, UsersTyped
    <2> QED BY <2>1, RollbackStep, PastQueue
  <1>4. ASSUME NEW u \in Users, NEW h \in Handles, Sweep(u, h) PROVE PlaceInv' /\ PromiseInv'
    <2>1. turns = <<>> /\ turns' = turns /\ promised' = promised /\ rollback(h)
      BY <1>4 DEF Sweep, QuietInv
    <2> QED BY <2>1, RollbackStep, PastQueue
  <1>5. ASSUME NEW u \in Users, SessionGone(u) PROVE PlaceInv' /\ PromiseInv'
    <2>1. /\ turns = <<>> /\ turns' = turns /\ promised' = promised
          /\ db'.kept = db.kept /\ db'.pending = {} /\ undone' = undone \cup db.pending
      BY <1>5 DEF SessionGone, QuietInv, ChainTypeOK, StoreTyped
    <2> QED BY <2>1, PastQueue
  <1>6. ASSUME NEW u \in Users,
               \/ ChainEnds(u) \/ DropsWhenQuiet(u) \/ CloseSession(u) \/ ClosesWhenQuiet(u)
               \/ \E h \in Handles : DropHandle(u, h)
        PROVE  PlaceInv' /\ PromiseInv'
    <2>1. UNCHANGED <<turns, inner, db, promised, undone>>
      BY <1>6 DEF ChainEnds, DropsWhenQuiet, CloseSession, ClosesWhenQuiet, DropHandle
    <2> QED BY <2>1, Still
  <1>7. ASSUME NEW w \in Workers, Serve(w) PROVE PlaceInv' /\ PromiseInv'
    <2>1. UNCHANGED <<turns, inner, db, promised, undone>>
      BY <1>7 DEF Serve
    <2> QED BY <2>1, Still
  <1> QED BY <1>1, <1>2, <1>3, <1>4, <1>5, <1>6, <1>7 DEF TxNext, Ending
-----------------------------------------------------------------------------
(* Nothing is left open *)

\* A rollback closes its transaction, or the driver refused.
LEMMA RollbackCloses ==
  ASSUME ChainTypeOK, NEW h \in Handles, rollback(h)
  PROVE  /\ inner'[h].active => h \in refused'
         /\ refused \subseteq refused'
         /\ \A g \in Handles : inner'[g].active => inner[g].active
  BY DEF rollback, Closed, Refuses, ChainTypeOK, StoreTyped

\* A body opens a transaction only with its handle.
LEMMA PerformsOpens ==
  ASSUME ChainTypeOK, OpenInv, NEW op \in Operations, Performs(op)
  PROVE  /\ \A h \in Handles : inner'[h].active => handle'[h] \in {"held", "gone"}
         /\ refused \subseteq refused'
  <1> USE DEF OpenInv
  <1>1. CASE op.do = "begin"
    <2>1. op.arg \in Handles /\ refused' = refused
      BY <1>1, OperationKinds DEF Performs
    <2>2. handle' = [handle EXCEPT ![op.arg] = IF inner'[op.arg].active THEN "held" ELSE "gone"]
      BY <1>1 DEF Performs
    <2>3. \A h \in Handles \ {op.arg} : inner'[h] = inner[h]
      BY <1>1, <2>1 DEF Performs, Opened, ChainTypeOK, StoreTyped
    <2> QED BY <2>1, <2>2, <2>3 DEF ChainTypeOK
  <1>2. CASE op.do = "write"
    BY <1>2 DEF Performs
  <1>3. CASE op.do \in {"commit", "rollback"}
    <2>1. op.arg \in Handles /\ (commit(op.arg) \/ rollback(op.arg)) /\ handle' = handle
      BY <1>3, OperationKinds DEF Performs
    <2>2. refused \subseteq refused' /\ \A h \in Handles : inner'[h].active => inner[h].active
      BY <2>1 DEF commit, rollback, Closed, Refuses, ChainTypeOK, StoreTyped
    <2> QED BY <2>1, <2>2
  <1> QED BY <1>1, <1>2, <1>3, OperationKinds

LEMMA OpenStep ==
  ASSUME ChainTypeOK, QuietInv, OpenInv, OneChain, TxNext
  PROVE  OpenInv'
  <1> PICK me \in Users : Users = {me}
    BY DEF OneChain
  <1> USE DEF OpenInv
  <1>1. ASSUME NEW u \in Users, NEW op \in Operations, Drive(u, op) PROVE OpenInv'
    <2>1. door /\ UNCHANGED <<inner, session, door, refused>>
      BY <1>1 DEF Drive
    <2>2. user'[me].at \in {"free", "waits"}
      BY <1>1 DEF Drive, Free, ChainTypeOK, UsersTyped
    <2>3. \A h \in Handles : inner[h].active => handle'[h] \in {"held", "gone"}
      BY <1>1 DEF Drive, ChainTypeOK
    <2> QED BY <2>1, <2>2, <2>3
  <1>2. ASSUME NEW w \in Workers, Serve(w) PROVE OpenInv'
    BY <1>2 DEF Serve
  <1>3. ASSUME NEW w \in Workers, Served(w) PROVE OpenInv'
    <2>1. turns # <<>> /\ door /\ UNCHANGED <<session, door, todo>>
      BY <1>3 DEF Served, ChainTypeOK, QuietInv, OneChain
    <2>2. Head(turns) \in Operations
      BY <2>1, TurnsPop DEF ChainTypeOK
    <2>3. user'[me] = user[me] \/ user'[me].at = "free"
      BY <1>3, <2>2, AnswersTypes DEF Served
    <2>4. /\ \A h \in Handles : inner'[h].active => handle'[h] \in {"held", "gone"}
          /\ refused \subseteq refused'
      BY <1>3, <2>2, PerformsOpens DEF Served
    <2> QED BY <2>1, <2>3, <2>4
  <1>4. ASSUME NEW u \in Users, ChainEnds(u) PROVE OpenInv'
    BY <1>4 DEF ChainEnds
  <1>5. ASSUME NEW u \in Users, NEW h \in Handles, DropHandle(u, h) PROVE OpenInv'
    <2>1. /\ UNCHANGED <<inner, session, door, todo, refused>> /\ user[me].at = "free"
          /\ handle[h] = "held" /\ handle' \in {handle, [handle EXCEPT ![h] = "gone"]}
      <3>1. UNCHANGED <<inner, session, door, todo, refused>> /\ user[u] = Free /\ handle[h] = "held"
        BY <1>5, Zenon DEF DropHandle
      <3>2. handle' \in {handle, [handle EXCEPT ![h] = "gone"]}
        BY <1>5, Zenon DEF DropHandle
      <3>3. user[me].at = "free"
        BY <3>1 DEF Free
      <3> QED BY <3>1, <3>2, <3>3
    <2>2. \/ user' = user \/ Step(u, "drops", h)
          \/ Step(u, "dying", h) /\ ~door /\ inner[h].active
      BY <1>5 DEF DropHandle
    <2>3. user'[me].at \in {"free", "drops"} \/ (user'[me].at = "dying" /\ user'[me].h \in refused)
      <3>1. CASE Step(u, "dying", h) /\ ~door /\ inner[h].active
        <4>1. user'[me].at = "dying" /\ user'[me].h = h
          BY <3>1 DEF Step, ChainTypeOK, UsersTyped
        <4> QED BY <2>1, <3>1, <4>1
      <3> QED BY <2>1, <2>2, <3>1, StepTypes
    <2>4. \A g \in Handles : /\ inner[g].active => handle'[g] \in {"held", "gone"}
                             /\ handle'[g] = "held" => handle[g] = "held"
      BY <2>1 DEF ChainTypeOK
    <2> QED BY <2>1, <2>3, <2>4
  <1>6. ASSUME NEW u \in Users, DropsWhenQuiet(u) PROVE OpenInv'
    <2>1. /\ UNCHANGED <<inner, handle, session, door, todo, refused>>
          /\ user[me].at = "drops" /\ Step(u, "rolls", user[u].h) /\ user[u].h \in Handles
      BY <1>6 DEF DropsWhenQuiet, ChainTypeOK, UsersTyped
    <2>2. user'[me].at = "rolls"
      BY <2>1, StepTypes
    <2> QED BY <2>1, <2>2
  <1>7. ASSUME NEW u \in Users, Rolls(u) \/ Dies(u) PROVE OpenInv'
    <2> DEFINE h == user[u].h
    <2>1. /\ h \in Handles /\ rollback(h) /\ UNCHANGED <<session, door, todo>>
          /\ user[me].at \in {"rolls", "dying"}
      BY <1>7 DEF Rolls, Dies, ChainTypeOK, UsersTyped
    <2>2. handle' \in {handle, [handle EXCEPT ![h] = "gone"]}
      BY <1>7 DEF Rolls, Dies
    <2>3. user' = [user EXCEPT ![u] = Free] \/ (Step(u, "dying", h) /\ inner'[h].active)
      BY <1>7 DEF Rolls, Dies
    <2>4. user'[me].at = "free" \/ (user'[me].at = "dying" /\ user'[me].h \in refused')
      BY <2>1, <2>3, RollbackCloses DEF Step, Free, ChainTypeOK, UsersTyped
    <2>5. /\ refused \subseteq refused'
          /\ \A g \in Handles : inner'[g].active => inner[g].active
      BY <2>1, RollbackCloses
    <2>6. \A g \in Handles : /\ inner'[g].active => handle'[g] \in {"held", "gone"}
                             /\ handle'[g] = "held" => handle[g] = "held"
      BY <2>1, <2>2, <2>5 DEF ChainTypeOK
    <2> QED BY <2>1, <2>4, <2>5, <2>6
  <1>8. ASSUME NEW u \in Users, CloseSession(u) PROVE OpenInv'
    <2>1. /\ UNCHANGED <<inner, handle, door, todo, refused>> /\ session = "up" /\ session' = "going"
          /\ user[me].at = "free" /\ Step(u, "closes", Nobody)
      BY <1>8 DEF CloseSession, Free
    <2>2. user'[me].at = "closes" /\ door
      BY <2>1, StepTypes
    <2> QED BY <2>1, <2>2
  <1>9. ASSUME NEW u \in Users, ClosesWhenQuiet(u) PROVE OpenInv'
    <2>1. /\ UNCHANGED <<inner, handle, session, refused>> /\ ~door' /\ todo' = Open
          /\ session = "going" /\ Step(u, "sweeps", Nobody)
      BY <1>9, Zenon DEF ClosesWhenQuiet
    <2>2. user'[me].at = "sweeps"
      BY <2>1, StepTypes
    <2>3. \A h \in Handles : handle'[h] = "held" /\ inner'[h].active => h \in todo'
      BY <2>1 DEF Open
    <2> QED BY <2>1, <2>2, <2>3
  <1>10. ASSUME NEW u \in Users, NEW h \in Handles, Sweep(u, h) PROVE OpenInv'
    <2>1. /\ UNCHANGED <<user, handle, session, door>> /\ todo' = todo \ {h}
          /\ user[me].at = "sweeps" /\ rollback(h)
      BY <1>10 DEF Sweep
    <2>2. /\ inner'[h].active => h \in refused'
          /\ refused \subseteq refused'
          /\ \A g \in Handles : inner'[g].active => inner[g].active
      BY <2>1, RollbackCloses
    <2> QED BY <2>1, <2>2
  <1>11. ASSUME NEW u \in Users, SessionGone(u) PROVE OpenInv'
    <2>1. /\ UNCHANGED <<inner, handle, door, todo, refused>> /\ session' = "gone" /\ todo = {}
          /\ user[me].at = "sweeps"
      BY <1>11 DEF SessionGone
    <2>2. user'[me].at = "free"
      BY <1>11, FreeTypes DEF SessionGone
    <2> QED BY <2>1, <2>2
  <1> QED BY <1>1, <1>2, <1>3, <1>4, <1>5, <1>6, <1>7, <1>8, <1>9, <1>10, <1>11, Zenon DEF TxNext, Ending
-----------------------------------------------------------------------------
(* Theorems *)

LEMMA InvStep == OneChain /\ Inv /\ [TxNext]_txVars => Inv'
  <1> SUFFICES ASSUME OneChain, Inv, [TxNext]_txVars PROVE Inv'
    OBVIOUS
  <1>1. CASE TxNext
    BY <1>1, ChainTypeStep, QuietStep, PlaceStep, OpenStep DEF Inv
  <1>2. CASE UNCHANGED txVars
    <2>1. ChainTypeOK' /\ QuietInv' /\ OpenInv'
      BY <1>2 DEF Inv, txVars, ChainTypeOK, UsersTyped, StoreTyped, QuietInv, OpenInv
    <2> QED BY <1>2, <2>1, Still DEF Inv, txVars
  <1> QED BY <1>1, <1>2

LEMMA InvAlways == ASSUME OneChain PROVE TxSpec => []Inv
  <1>1. Inv /\ [TxNext]_txVars => Inv'
    BY InvStep
  <1> QED BY <1>1, InvInit, PTL DEF TxSpec

\* With one chain of calls no destructor reaches the connection beside an operation
\* or beside another destructor, whatever the executor does (async.cpp:163, 261-262).
THEOREM EndsAlone == ASSUME OneChain PROVE TxSpec => []OneOnConnection
  <1>1. ASSUME Inv PROVE OneOnConnection
    <2> PICK me \in Users : Users = {me}
      BY DEF OneChain
    <2>1. OnConnection = {} \/ OnConnection = {busy} \/ OnConnection = {me}
      <3>1. CASE busy = Nobody
        BY <3>1 DEF OnConnection, OneChain
      <3>2. CASE busy \in Workers
        <4>1. user[me].at \notin {"rolls", "dying", "sweeps"}
          BY <1>1, <3>2 DEF Inv, QuietInv, OneChain
        <4> QED BY <3>2, <4>1 DEF OnConnection
      <3> QED BY <1>1, <3>1, <3>2 DEF Inv, ChainTypeOK
    <2>2. Cardinality({}) = 0 /\ \A x : Cardinality({x}) = 1
      BY FS_EmptySet, FS_Singleton, Zenon
    <2>3. Cardinality(OnConnection) = 0 \/ Cardinality(OnConnection) = 1
      BY <2>1, <2>2, Zenon
    <2> QED BY <2>3 DEF OneOnConnection
  <1> QED BY <1>1, InvAlways, PTL

\* What an accepted commit() stands behind is never rolled back by the end of a
\* handle or of the session, for every number of transactions, writes and turns
\* (async.cpp:240-246, 261).
THEOREM CommitsHold == ASSUME OneChain PROVE TxSpec => []CommitNotUndone
  <1>1. Inv => CommitNotUndone
    BY DEF Inv, PromiseInv, CommitNotUndone
  <1> QED BY <1>1, InvAlways, PTL

\* A session that is gone leaves no transaction open that the driver would have
\* closed (async.cpp:164-174).
THEOREM SessionClosesAll == ASSUME OneChain PROVE TxSpec => []NothingLeftOpen
  <1>1. Inv => NothingLeftOpen
    <2> SUFFICES ASSUME Inv, session = "gone" PROVE NothingLeftOpen
      BY DEF NothingLeftOpen
    <2>1. ~door /\ todo = {}
      BY DEF Inv, OpenInv
    <2> QED BY <2>1 DEF Inv, OpenInv, ChainTypeOK, NothingLeftOpen
  <1> QED BY <1>1, InvAlways, PTL

-----------------------------------------------------------------------------
(***************************************************************************)
(* The worker pool.                                                        *)
(***************************************************************************)
USE PoolAssumption

\* What taking the front makes of a queue.
LEMMA PopFront ==
  ASSUME NEW q \in Seq(Works), q # <<>>
  PROVE  /\ Head(q) \in Works /\ Head(q) = q[1] /\ Tail(q) \in Seq(Works)
         /\ Len(q) >= 1 /\ Len(Tail(q)) = Len(q) - 1
         /\ \A i \in 1..Len(Tail(q)) : Tail(q)[i] = q[i + 1] /\ i + 1 \in 1..Len(q)
         /\ \A i \in 1..Len(q) : i # 1 => i - 1 \in 1..Len(Tail(q)) /\ Tail(q)[i - 1] = q[i]
  OBVIOUS

\* The pool that does not exist yet is well typed.
LEMMA TypeInit == Init => TypeOK
  BY DEF Init, TypeOK, States, Slots

\* Every step keeps the types.
LEMMA TypeStep == TypeOK /\ [Next]_vars => TypeOK'
  <1> SUFFICES ASSUME TypeOK, [Next]_vars PROVE TypeOK'
    OBVIOUS
  <1> USE DEF TypeOK, States
  <1>1. \A n : Filled(n) \in [Slots -> States]
    BY DEF Filled
  <1>2. \A n : \A i \in Slots : Filled(n)[i] = "running" <=> worker[i] = "running"
    BY DEF Filled
  <1>3. CASE Grow
    <2>1. PICK a \in Actors :
            \/ FirstUse(a) \/ FirstUseFails(a)
            \/ \E n \in 0..MaxThreads : SetSize(a, n) \/ GrowFails(a, n)
      BY <1>3 DEF Grow
    <2>2. CASE FirstUse(a)
      BY <1>1, <1>2, <2>2 DEF FirstUse
    <2>3. CASE FirstUseFails(a)
      BY <2>3 DEF FirstUseFails
    <2>4. ASSUME NEW n \in 0..MaxThreads, SetSize(a, n) PROVE TypeOK'
      BY <1>1, <1>2, <2>4 DEF SetSize
    <2>5. ASSUME NEW n \in 0..MaxThreads, GrowFails(a, n) PROVE TypeOK'
      BY <1>1, <1>2, <2>5 DEF GrowFails
    <2> QED BY <2>1, <2>2, <2>3, <2>4, <2>5, Zenon
  <1>4. ASSUME NEW a \in Actors, NotifyOne(a) PROVE TypeOK'
    BY <1>4 DEF NotifyOne
  <1>5. ASSUME NEW a \in Actors, NEW x \in Works, Submit(a, x) PROVE TypeOK'
    BY <1>5 DEF Submit
  <1>6. ASSUME NEW i \in Slots, Look(i) PROVE TypeOK'
    <2>1. CASE queue # <<>>
      <3>1. Head(queue) \in Works /\ Tail(queue) \in Seq(Works)
        BY <2>1, PopFront
      <3> QED BY <1>6, <2>1, <3>1, Zenon DEF Look
    <2>2. CASE queue = <<>>
      BY <1>6, <2>2 DEF Look
    <2> QED BY <2>1, <2>2
  <1>7. ASSUME NEW i \in Slots, WakeSpuriously(i) \/ WorkEnds(i) PROVE TypeOK'
    BY <1>7 DEF WakeSpuriously, WorkEnds
  <1>8. CASE Stop \/ StopNotifies \/ Joined
    BY <1>8 DEF Stop, StopNotifies, Joined
  <1>9. CASE UNCHANGED vars
    BY <1>9 DEF vars
  <1> QED BY <1>3, <1>4, <1>5, <1>6, <1>7, <1>8, <1>9, Zenon DEF Next, WorkerStep

\* Type correctness of the worker pool.
THEOREM WorkerPoolTypes == Spec => []TypeOK
  BY TypeInit, TypeStep, PTL DEF Spec

\* Once the destructor has set its flag nobody can fall asleep any more.
StopInv ==
  /\ leaving # "no" <=> pool \in {"stopping", "gone"}
  /\ pool = "gone" => \A i \in Slots : worker[i] \in {"none", "exited"}
  /\ StopIsHeard

\* Every step keeps the invariant behind StopIsHeard.
LEMMA StopStep == TypeOK /\ StopInv /\ [Next]_vars => StopInv'
  <1> SUFFICES ASSUME TypeOK, StopInv, [Next]_vars PROVE StopInv'
    OBVIOUS
  <1> USE DEF TypeOK, StopInv, StopIsHeard
  <1>1. \A n : \A i \in Slots : Filled(n)[i] = "asleep" => worker[i] = "asleep"
    BY DEF Filled
  <1>2. CASE Grow
    <2>1. PICK a \in Actors :
            \/ FirstUse(a) \/ FirstUseFails(a)
            \/ \E n \in 0..MaxThreads : SetSize(a, n) \/ GrowFails(a, n)
      BY <1>2 DEF Grow
    <2>2. CASE FirstUse(a) \/ FirstUseFails(a)
      BY <1>1, <2>2 DEF FirstUse, FirstUseFails
    <2>3. ASSUME NEW n \in 0..MaxThreads, SetSize(a, n) \/ GrowFails(a, n) PROVE StopInv'
      BY <1>1, <2>3 DEF SetSize, GrowFails
    <2> QED BY <2>1, <2>2, <2>3
  <1>3. ASSUME NEW a \in Actors, NotifyOne(a) PROVE StopInv'
    BY <1>3 DEF NotifyOne
  <1>4. ASSUME NEW a \in Actors, NEW x \in Works, Submit(a, x) PROVE StopInv'
    BY <1>4 DEF Submit
  <1>5. ASSUME NEW i \in Slots, Look(i) PROVE StopInv'
    <2>1. pool # "gone"
      BY <1>5 DEF Look
    <2>2. leaving' = leaving /\ pool' = pool
      BY <1>5 DEF Look
    <2>3. leaving = "join" => worker'[i] # "asleep"
      BY <1>5, <2>1 DEF Look
    <2>4. \A j \in Slots : j # i => worker'[j] = worker[j]
      BY <1>5 DEF Look
    <2> QED BY <2>1, <2>2, <2>3, <2>4
  <1>6. ASSUME NEW i \in Slots, WakeSpuriously(i) \/ WorkEnds(i) PROVE StopInv'
    BY <1>6 DEF WakeSpuriously, WorkEnds
  <1>7. CASE Stop \/ StopNotifies \/ Joined
    BY <1>7 DEF Stop, StopNotifies, Joined, Spawned
  <1>8. CASE UNCHANGED vars
    BY <1>8 DEF vars
  <1> QED BY <1>2, <1>3, <1>4, <1>5, <1>6, <1>7, <1>8, Zenon DEF Next, WorkerStep

\* The destructor never joins a sleeping worker.
THEOREM WorkerPoolHearsStop == Spec => []StopIsHeard
  <1>1. Init => StopInv
    BY DEF Init, StopInv, StopIsHeard
  <1>2. StopInv => StopIsHeard
    BY DEF StopInv
  <1> QED BY <1>1, <1>2, StopStep, WorkerPoolTypes, PTL DEF Spec

-----------------------------------------------------------------------------
\* A closure that was taken waits, runs or has run; a worker leaves only a
\* stopping pool with nothing left to do; and a pool has a worker.
DrainInv ==
  /\ \A x \in accepted : \/ x \in ran
                         \/ \E j \in 1..Len(queue) : queue[j] = x
                         \/ \E i \in Slots : doing[i] = x
  /\ ran \subseteq accepted
  /\ \A j \in 1..Len(queue) : queue[j] \in accepted
  /\ \A i \in Slots : doing[i] # None => doing[i] \in accepted
  /\ \A i \in Slots : worker[i] = "exited" => pool \in {"stopping", "gone"} /\ queue = <<>>
  /\ pool \in {"up", "stopping", "gone"} => worker[1] # "none"
  /\ pool = "none" => queue = <<>>
  /\ pool = "gone" => queue = <<>> /\ \A i \in Slots : worker[i] \in {"none", "exited"}

\* Every step keeps the invariant behind NothingDropped.
LEMMA DrainStep == TypeOK /\ DrainInv /\ [Next]_vars => DrainInv'
  <1> SUFFICES ASSUME TypeOK, DrainInv, [Next]_vars PROVE DrainInv'
    OBVIOUS
  <1>t. /\ worker \in [Slots -> States] /\ doing \in [Slots -> Works \cup {None}]
        /\ queue \in Seq(Works) /\ 1 \in Slots
        /\ \A i \in Slots : worker[i] = "running" <=> doing[i] # None
        /\ MaxThreads \in Nat /\ intended \in 0..MaxThreads
    BY DEF TypeOK, Slots
  <1>1. \A n : \A i \in Slots : /\ Filled(n)[i] = "exited" <=> worker[i] = "exited"
                                /\ worker[i] # "none" => Filled(n)[i] = worker[i]
    BY DEF Filled
  <1>2. \A n \in Nat : n > 0 => Filled(n)[1] # "none"
    BY <1>t DEF Filled
  <1>3. CASE Grow
    <2>1. PICK a \in Actors :
            \/ FirstUse(a) \/ FirstUseFails(a)
            \/ \E n \in 0..MaxThreads : SetSize(a, n) \/ GrowFails(a, n)
      BY <1>3 DEF Grow
    <2>2. CASE FirstUse(a)
      <3>1. (IF intended > 0 THEN intended ELSE Hardware) \in Nat \ {0}
        BY <1>t DEF Slots
      <3>2. worker'[1] # "none"
        BY <1>2, <2>2, <3>1 DEF FirstUse
      <3> QED BY <1>1, <2>2, <3>2 DEF FirstUse, DrainInv
    <2>3. CASE FirstUseFails(a)
      BY <2>3 DEF FirstUseFails, DrainInv
    <2>4. ASSUME NEW n \in 0..MaxThreads, SetSize(a, n) \/ GrowFails(a, n) PROVE DrainInv'
      <3>1. UNCHANGED <<pool, doing, queue, accepted, ran>>
        BY <2>4 DEF SetSize, GrowFails
      <3>2. worker' = worker \/ (pool = "up" /\ \E k : worker' = Filled(k))
        BY <2>4 DEF SetSize, GrowFails
      <3> QED BY <1>1, <1>t, <3>1, <3>2 DEF DrainInv
    <2> QED BY <2>1, <2>2, <2>3, <2>4
  <1>4. ASSUME NEW a \in Actors, NotifyOne(a) PROVE DrainInv'
    <2>1. UNCHANGED <<pool, doing, queue, accepted, ran>>
      BY <1>4 DEF NotifyOne
    <2>2. worker' = worker \/ \E i \in Slots : worker[i] = "asleep" /\ worker' = [worker EXCEPT ![i] = "look"]
      BY <1>4 DEF NotifyOne
    <2> QED BY <1>t, <2>1, <2>2 DEF DrainInv
  <1>5. ASSUME NEW a \in Actors, NEW x \in Works, Submit(a, x) PROVE DrainInv'
    <2>1. /\ queue' = Append(queue, x) /\ accepted' = accepted \cup {x} /\ pool = "up"
          /\ UNCHANGED <<pool, worker, doing, ran>>
      BY <1>5 DEF Submit
    <2>2. /\ Len(queue') = Len(queue) + 1 /\ queue'[Len(queue) + 1] = x
          /\ \A j \in 1..Len(queue) : queue'[j] = queue[j] /\ j \in 1..Len(queue')
          /\ Len(queue) + 1 \in 1..Len(queue')
          /\ \A j \in 1..Len(queue') : j \in 1..Len(queue) \/ j = Len(queue) + 1
      BY <1>t, <2>1
    <2>3. \A i \in Slots : worker[i] # "exited"
      BY <2>1 DEF DrainInv
    <2> QED BY <2>1, <2>2, <2>3 DEF DrainInv
  <1>6. ASSUME NEW i \in Slots, Look(i) PROVE DrainInv'
    <2>0. UNCHANGED <<pool, accepted, ran>> /\ worker[i] = "look" /\ pool # "gone" /\ doing[i] = None
      BY <1>6, <1>t DEF Look, DrainInv
    <2>1. CASE queue # <<>>
      <3>1. /\ worker' = [worker EXCEPT ![i] = "running"]
            /\ doing' = [doing EXCEPT ![i] = Head(queue)] /\ queue' = Tail(queue)
        BY <1>6, <2>1 DEF Look
      <3>2. /\ Head(queue) = queue[1] /\ 1 \in 1..Len(queue)
            /\ \A j \in 1..Len(queue') : queue'[j] = queue[j + 1] /\ j + 1 \in 1..Len(queue)
            /\ \A j \in 1..Len(queue) : j # 1 => j - 1 \in 1..Len(queue') /\ queue'[j - 1] = queue[j]
        BY <1>t, <2>1, <3>1, PopFront
      <3>3. ASSUME NEW x \in accepted'
            PROVE  \/ x \in ran' \/ \E j \in 1..Len(queue') : queue'[j] = x
                   \/ \E k \in Slots : doing'[k] = x
        <4>0. x # None
          BY <2>0 DEF TypeOK
        <4>1. CASE x \in ran
          BY <2>0, <4>1
        <4>2. CASE \E k \in Slots : doing[k] = x
          BY <1>t, <2>0, <3>1, <4>0, <4>2
        <4>3. CASE \E j \in 1..Len(queue) : queue[j] = x
          <5>1. PICK j \in 1..Len(queue) : queue[j] = x
            BY <4>3
          <5>2. CASE j = 1
            BY <1>t, <3>1, <3>2, <5>1, <5>2
          <5>3. CASE j # 1
            BY <3>2, <5>1, <5>3
          <5> QED BY <5>2, <5>3
        <4> QED BY <2>0, <4>1, <4>2, <4>3 DEF DrainInv
      <3>4. \A k \in Slots : doing'[k] # None => doing'[k] \in accepted'
        BY <1>t, <2>0, <3>1, <3>2 DEF DrainInv
      <3>5. \A j \in 1..Len(queue') : queue'[j] \in accepted'
        BY <2>0, <3>2 DEF DrainInv
      <3>6. \A k \in Slots : worker'[k] # "exited"
        BY <1>t, <2>1, <3>1 DEF DrainInv
      <3> QED BY <1>t, <2>0, <2>1, <3>1, <3>3, <3>4, <3>5, <3>6 DEF DrainInv
    <2>2. CASE queue = <<>>
      <3>1. /\ UNCHANGED <<doing, queue>>
            /\ worker' = [worker EXCEPT ![i] = IF pool = "stopping" THEN "exited" ELSE "asleep"]
        BY <1>6, <2>2 DEF Look
      <3> QED BY <1>t, <2>0, <2>2, <3>1 DEF DrainInv
    <2> QED BY <2>1, <2>2
  <1>7. ASSUME NEW i \in Slots, WakeSpuriously(i) PROVE DrainInv'
    BY <1>7, <1>t DEF WakeSpuriously, DrainInv
  <1>8. ASSUME NEW i \in Slots, WorkEnds(i) PROVE DrainInv'
    BY <1>8, <1>t DEF WorkEnds, DrainInv
  <1>9. CASE Stop
    BY <1>9 DEF Stop, DrainInv
  <1>10. CASE StopNotifies
    BY <1>10, <1>t DEF StopNotifies, DrainInv
  <1>11. CASE Joined
    BY <1>11, <1>t DEF Joined, Spawned, DrainInv
  <1>12. CASE UNCHANGED vars
    BY <1>12 DEF vars, DrainInv
  <1> QED BY <1>3, <1>4, <1>5, <1>6, <1>7, <1>8, <1>9, <1>10, <1>11, <1>12 DEF Next, WorkerStep

\* Whatever submit() took has run when the pool is gone.
THEOREM WorkerPoolDropsNothing == Spec => []NothingDropped
  <1>1. Init => DrainInv
    BY DEF Init, DrainInv
  <1>2. TypeOK /\ DrainInv => NothingDropped
    <2> SUFFICES ASSUME TypeOK, DrainInv, pool = "gone" PROVE accepted = ran
      BY DEF NothingDropped
    <2>1. \A i \in Slots : doing[i] = None
      BY DEF TypeOK, DrainInv
    <2>2. ASSUME NEW x \in accepted PROVE x \in ran
      <3>1. x # None /\ queue = <<>>
        BY DEF TypeOK, DrainInv
      <3> QED BY <2>1, <3>1 DEF DrainInv
    <2> QED BY <2>2, Zenon DEF DrainInv
  <1> QED BY <1>1, <1>2, DrainStep, WorkerPoolTypes, PTL DEF Spec

-----------------------------------------------------------------------------
Lookers == {i \in Slots : worker[i] = "look"}
Asleep == {i \in Slots : worker[i] = "asleep"}

\* Every set of workers and of actors is finite.
LEMMA Finite ==
  /\ IsFiniteSet(Slots) /\ IsFiniteSet(Actors)
  /\ \A S \in SUBSET Slots : IsFiniteSet(S) /\ Cardinality(S) \in Nat
  /\ \A S \in SUBSET Actors : IsFiniteSet(S) /\ Cardinality(S) \in Nat
  <1>1. IsFiniteSet(Slots)
    BY FS_Interval DEF Slots
  <1>2. IsFiniteSet(Actors)
    BY <1>1, FS_Union, Zenon DEF Actors
  <1> QED BY <1>1, <1>2, FS_Subset, FS_CardinalityType

\* One looker more, or one less.
LEMMA OneMore ==
  ASSUME TypeOK, NEW i \in Slots, worker[i] # "look", NEW v \in States,
         worker' = [worker EXCEPT ![i] = v]
  PROVE  Cardinality(Lookers') = Cardinality(Lookers) + (IF v = "look" THEN 1 ELSE 0)
  <1>0. Lookers \in SUBSET Slots /\ i \notin Lookers
    BY DEF Lookers
  <1>1. CASE v = "look"
    <2>1. Lookers' = Lookers \cup {i}
      BY <1>1 DEF Lookers, TypeOK
    <2> QED BY <1>0, <1>1, <2>1, Finite, FS_AddElement
  <1>2. CASE v # "look"
    <2>1. Lookers' = Lookers
      BY <1>2 DEF Lookers, TypeOK
    <2> QED BY <1>0, <1>2, <2>1, Finite
  <1> QED BY <1>1, <1>2

\* A looker that turns to something else.
LEMMA OneLess ==
  ASSUME TypeOK, NEW i \in Slots, worker[i] = "look", NEW v \in States, v # "look",
         worker' = [worker EXCEPT ![i] = v]
  PROVE  Cardinality(Lookers') = Cardinality(Lookers) - 1
  <1>0. Lookers \in SUBSET Slots /\ i \in Lookers
    BY DEF Lookers
  <1>1. Lookers' = Lookers \ {i}
    BY DEF Lookers, TypeOK
  <1> QED BY <1>0, <1>1, Finite, FS_RemoveElement

\* NoSleepBesideWork is inductive as it stands.
LEMMA WakeStep == TypeOK /\ NoSleepBesideWork /\ [Next]_vars => NoSleepBesideWork'
  <1> SUFFICES ASSUME TypeOK, NoSleepBesideWork, [Next]_vars,
                      Asleep' # {}
               PROVE  Len(queue') <= Cardinality(notifying') + Cardinality(Lookers')
    BY DEF NoSleepBesideWork, Lookers, Asleep
  <1>h. Asleep # {} => Len(queue) <= Cardinality(notifying) + Cardinality(Lookers)
    BY DEF NoSleepBesideWork, Lookers, Asleep
  <1>t. /\ queue \in Seq(Works) /\ Len(queue) \in Nat /\ notifying \in SUBSET Actors
        /\ worker \in [Slots -> States]
    BY DEF TypeOK
  <1>n. /\ Cardinality(notifying) \in Nat /\ Cardinality(Lookers) \in Nat
        /\ Cardinality(Lookers') \in Nat /\ IsFiniteSet(notifying) /\ IsFiniteSet(Lookers')
    <2>1. Lookers \in SUBSET Slots /\ Lookers' \in SUBSET Slots
      BY DEF Lookers
    <2> QED BY <1>t, <2>1, Finite
  <1>more. ASSUME UNCHANGED <<queue, notifying>>, Lookers \subseteq Lookers', Asleep # {}
           PROVE  Len(queue') <= Cardinality(notifying') + Cardinality(Lookers')
    <2>1. Cardinality(Lookers) <= Cardinality(Lookers')
      BY <1>n, <1>more, FS_Subset
    <2> QED BY <1>h, <1>t, <1>n, <1>more, <2>1
  <1>1. CASE Grow
    <2>1. UNCHANGED <<queue, notifying>> /\ (worker' = worker \/ \E k : worker' = Filled(k))
      BY <1>1 DEF Grow, FirstUse, FirstUseFails, SetSize, GrowFails
    <2>2. Lookers \subseteq Lookers' /\ Asleep' = Asleep
      BY <1>t, <2>1 DEF Lookers, Asleep, Filled
    <2> QED BY <1>more, <2>1, <2>2
  <1>2. ASSUME NEW a \in Actors, NotifyOne(a)
        PROVE  Len(queue') <= Cardinality(notifying') + Cardinality(Lookers')
    <2>1. queue' = queue /\ notifying' = notifying \ {a} /\ a \in notifying
      BY <1>2 DEF NotifyOne
    <2>2. Cardinality(notifying') = Cardinality(notifying) - 1
      BY <1>n, <2>1, FS_RemoveElement, Zenon
    <2>3. Asleep # {} => \E i \in Asleep : worker' = [worker EXCEPT ![i] = "look"]
      BY <1>2 DEF NotifyOne, Asleep
    <2>4. Asleep = {} => worker' = worker
      BY <1>2 DEF NotifyOne, Asleep
    <2>5. Asleep # {}
      BY <2>4 DEF Asleep
    <2>6. PICK i \in Asleep : worker' = [worker EXCEPT ![i] = "look"]
      BY <2>3, <2>5
    <2>7. i \in Slots /\ worker[i] # "look" /\ "look" \in States
      BY DEF Asleep, States
    <2>8. Cardinality(Lookers') = Cardinality(Lookers) + 1
      BY <2>6, <2>7, OneMore, Zenon
    <2> QED BY <1>h, <1>t, <1>n, <2>1, <2>2, <2>5, <2>8
  <1>3. ASSUME NEW a \in Actors, NEW x \in Works, Submit(a, x)
        PROVE  Len(queue') <= Cardinality(notifying') + Cardinality(Lookers')
    <2>1. /\ queue' = Append(queue, x) /\ notifying' = notifying \cup {a} /\ a \notin notifying
          /\ worker' = worker
      BY <1>3 DEF Submit, MayCall
    <2>2. Cardinality(notifying') = Cardinality(notifying) + 1
      BY <1>n, <2>1, FS_AddElement, Zenon
    <2>3. Len(queue') = Len(queue) + 1
      BY <1>t, <2>1
    <2>4. Asleep # {} /\ Lookers' = Lookers
      BY <2>1 DEF Asleep, Lookers
    <2> QED BY <1>h, <1>t, <1>n, <2>2, <2>3, <2>4
  <1>4. ASSUME NEW i \in Slots, Look(i)
        PROVE  Len(queue') <= Cardinality(notifying') + Cardinality(Lookers')
    <2>0. notifying' = notifying /\ worker[i] = "look"
      BY <1>4 DEF Look
    <2>1. CASE queue # <<>>
      <3>1. worker' = [worker EXCEPT ![i] = "running"] /\ queue' = Tail(queue)
        BY <1>4, <2>1 DEF Look
      <3>2. Cardinality(Lookers') = Cardinality(Lookers) - 1
        BY <2>0, <3>1, OneLess, Zenon DEF States
      <3>3. Len(queue') = Len(queue) - 1
        BY <1>t, <2>1, <3>1, PopFront
      <3>4. Asleep # {}
        BY <1>t, <3>1 DEF Asleep
      <3> QED BY <1>h, <1>t, <1>n, <2>0, <3>2, <3>3, <3>4
    <2>2. CASE queue = <<>>
      <3>1. queue' = <<>>
        BY <1>4, <2>2 DEF Look
      <3>2. Len(queue') = 0
        BY <3>1
      <3> QED BY <1>n, <2>0, <3>2
    <2> QED BY <2>1, <2>2
  <1>5. ASSUME NEW i \in Slots, WakeSpuriously(i) \/ WorkEnds(i)
        PROVE  Len(queue') <= Cardinality(notifying') + Cardinality(Lookers')
    <2>1. UNCHANGED <<queue, notifying>> /\ worker' = [worker EXCEPT ![i] = "look"]
      BY <1>5 DEF WakeSpuriously, WorkEnds
    <2>2. Lookers \subseteq Lookers' /\ Asleep # {}
      BY <1>t, <2>1 DEF Lookers, Asleep
    <2> QED BY <1>more, <2>1, <2>2
  <1>6. CASE Stop \/ StopNotifies \/ Joined
    <2>1. /\ UNCHANGED <<queue, notifying>>
          /\ worker' = worker \/ worker' = [i \in Slots |-> IF worker[i] = "asleep" THEN "look" ELSE worker[i]]
      BY <1>6 DEF Stop, StopNotifies, Joined
    <2>2. Lookers \subseteq Lookers' /\ Asleep # {}
      BY <1>t, <2>1 DEF Lookers, Asleep
    <2> QED BY <1>more, <2>1, <2>2
  <1>7. CASE UNCHANGED vars
    BY <1>7, <1>more DEF vars, Lookers, Asleep
  <1> QED BY <1>1, <1>2, <1>3, <1>4, <1>5, <1>6, <1>7 DEF Next, WorkerStep

\* No worker sleeps on beside work nobody is on the way to.
THEOREM WorkerPoolWakes == Spec => []NoSleepBesideWork
  <1>1. Init => NoSleepBesideWork
    BY DEF Init, NoSleepBesideWork
  <1> QED BY <1>1, WakeStep, WorkerPoolTypes, PTL DEF Spec

\* Before the first use the size asked for is the one intended.
SizeInv == (pool = "none" => asked = intended) /\ SizeHonoured

\* No thread of workers_ goes away, and growth fills them from the front.
LEMMA SizeStep == TypeOK /\ SizeInv /\ [Next]_vars => SizeInv'
  <1> SUFFICES ASSUME TypeOK, SizeInv, [Next]_vars PROVE SizeInv'
    OBVIOUS
  <1> USE DEF SizeInv, SizeHonoured, Spawned
  <1>t. worker \in [Slots -> States] /\ asked \in 0..MaxThreads /\ intended \in 0..MaxThreads
    BY DEF TypeOK
  <1>f. ASSUME NEW n \in 0..MaxThreads, worker' = Filled(n)
        PROVE  1..n \subseteq Spawned' /\ Spawned \subseteq Spawned'
    BY <1>f, <1>t DEF Filled, Slots
  <1>1. CASE Grow
    <2>1. PICK a \in Actors :
            \/ FirstUse(a) \/ FirstUseFails(a)
            \/ \E n \in 0..MaxThreads : SetSize(a, n) \/ GrowFails(a, n)
      BY <1>1 DEF Grow
    <2>2. CASE FirstUse(a)
      <3>1. CASE intended > 0
        BY <1>f, <1>t, <2>2, <3>1 DEF FirstUse
      <3>2. CASE intended = 0
        BY <1>t, <2>2, <3>2 DEF FirstUse
      <3> QED BY <1>t, <3>1, <3>2
    <2>3. CASE FirstUseFails(a)
      BY <2>3 DEF FirstUseFails
    <2>4. ASSUME NEW n \in 0..MaxThreads, SetSize(a, n) PROVE SizeInv'
      <3>1. CASE pool = "none"
        BY <2>4, <3>1 DEF SetSize
      <3>2. CASE pool = "up" /\ worker' = Filled(n)
        BY <1>f, <2>4, <3>2 DEF SetSize
      <3> QED BY <2>4, <3>1, <3>2 DEF SetSize
    <2>5. ASSUME NEW n \in 0..MaxThreads, GrowFails(a, n) PROVE SizeInv'
      <3>1. \A k : worker' = Filled(k) => Spawned \subseteq Spawned'
        BY <1>t DEF Filled
      <3> QED BY <2>5, <3>1 DEF GrowFails
    <2> QED BY <2>1, <2>2, <2>3, <2>4, <2>5
  <1>2. ASSUME NEW a \in Actors, NotifyOne(a) PROVE SizeInv'
    BY <1>2, <1>t DEF NotifyOne
  <1>3. ASSUME NEW a \in Actors, NEW x \in Works, Submit(a, x) PROVE SizeInv'
    BY <1>3 DEF Submit
  <1>4. ASSUME NEW i \in Slots, Look(i) \/ WakeSpuriously(i) \/ WorkEnds(i) PROVE SizeInv'
    <2>1. /\ UNCHANGED <<pool, asked, intended>>
          /\ \E v : v # "none" /\ worker' = [worker EXCEPT ![i] = v]
      BY <1>4, Zenon DEF Look, WakeSpuriously, WorkEnds
    <2> QED BY <1>t, <2>1
  <1>5. CASE Stop \/ StopNotifies \/ Joined
    BY <1>5, <1>t DEF Stop, StopNotifies, Joined
  <1>6. CASE UNCHANGED vars
    BY <1>6 DEF vars
  <1> QED BY <1>1, <1>2, <1>3, <1>4, <1>5, <1>6 DEF Next, WorkerStep

\* What the worker pool promises, for every number of threads: no closure is lost
\* or slept through, the end is heard, and the size asked for is there
\* (worker_pool.cpp:43-126).
THEOREM WorkerPoolSound == Spec => []PoolSound
  <1>1. Init => SizeInv
    BY DEF Init, SizeInv, SizeHonoured
  <1>2. Spec => []SizeHonoured
    <2>1. SizeInv => SizeHonoured
      BY DEF SizeInv
    <2> QED BY <1>1, <2>1, SizeStep, WorkerPoolTypes, PTL DEF Spec
  <1> QED BY <1>2, WorkerPoolHearsStop, WorkerPoolDropsNothing, WorkerPoolWakes, PTL DEF PoolSound
=============================================================================
