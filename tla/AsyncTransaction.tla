-------------------------- MODULE AsyncTransaction --------------------------
(***************************************************************************)
(* Transactions on an asynchronous session: async::transaction and its     *)
(* destructor, the destructor of the session (src/async/async.cpp), and    *)
(* the transaction both close (src/transaction.cpp).                       *)
(*                                                                         *)
(* The session's queue is taken as what SessionFifo promises of it.  A     *)
(* user is a chain of calls, one after the other: it may be parked on an   *)
(* operation, and a coroutine is resumed on the worker that ran the body,  *)
(* which it then occupies.  The end of a handle is the one call that       *)
(* reaches the connection without a turn in the queue.                     *)
(***************************************************************************)
EXTENDS Naturals, Sequences, FiniteSets

CONSTANTS
  Users,      \* chains of calls that use the session
  Workers,    \* threads of its executor
  Handles,    \* transactions begun in its life
  Writes,     \* what is written, each once
  MaxTurns,   \* submit_limit()
  Nobody

VARIABLES
  turns,      \* operations accepted and not over, the one being served first
  busy,       \* the worker that serves it
  user,       \* where each user stands: a step and the handle it is about
  place,      \* the worker a user occupies
  handle,     \* "unborn", "asked", "held" or "gone"
  inner,      \* the uniorm::transaction behind it: active_, owns_mode_
  session,    \* "up", "going" or "gone"
  door,       \* session_door::open
  todo,       \* transactions the session's destructor has yet to close
  db,         \* the connection: its mode, what is in the open transaction, what is kept
  promised,   \* history: writes that an accepted commit() stands behind
  undone,     \* history: writes rolled back
  refused     \* history: transactions whose end the driver refused

txVars == <<turns, busy, user, place, handle, inner, session, door, todo, db, promised,
            undone, refused>>

Free == [at |-> "free", h |-> Nobody]
Operations == [do : {"begin", "commit", "rollback"}, arg : Handles, by : Users \cup {Nobody}]
                \cup [do : {"write"}, arg : Writes, by : Users \cup {Nobody}]

TxInit ==
  /\ turns = <<>> /\ busy = Nobody
  /\ user = [u \in Users |-> Free] /\ place = [u \in Users |-> Nobody]
  /\ handle = [h \in Handles |-> "unborn"]
  /\ inner = [h \in Handles |-> [active |-> FALSE, owns |-> FALSE]]
  /\ session = "up" /\ door = TRUE /\ todo = {}
  /\ db = [manual |-> FALSE, pending |-> {}, kept |-> {}]
  /\ promised = {} /\ undone = {} /\ refused = {}
-----------------------------------------------------------------------------
(* The transaction itself (transaction.cpp) *)

\* The constructor: only the one that switched autocommit off switches it back.
Opened(h) ==
  /\ inner' = [inner EXCEPT ![h] = [active |-> TRUE, owns |-> ~db.manual]]
  /\ db' = [db EXCEPT !.manual = TRUE]

Closed(h) == inner' = [inner EXCEPT ![h].active = FALSE]
ModeAfter(h) == db.manual /\ ~inner[h].owns
Refuses(h) == refused' = refused \cup {h} /\ UNCHANGED inner

\* commit() and rollback(): nothing on one that is over.  The driver may refuse the
\* call, or the mode that should come back after it; the transaction then stays
\* active.
commit(h) ==
  LET done == [db EXCEPT !.pending = {}, !.kept = @ \cup db.pending] IN
  IF ~inner[h].active THEN UNCHANGED <<inner, db, undone, refused>>
  ELSE /\ \/ Closed(h) /\ db' = [done EXCEPT !.manual = ModeAfter(h)] /\ UNCHANGED refused
          \/ Refuses(h) /\ UNCHANGED db
          \/ inner[h].owns /\ Refuses(h) /\ db' = done
       /\ UNCHANGED undone

rollback(h) ==
  LET done == [db EXCEPT !.pending = {}] IN
  IF ~inner[h].active THEN UNCHANGED <<inner, db, undone, refused>>
  ELSE \/ /\ Closed(h) /\ db' = [done EXCEPT !.manual = ModeAfter(h)]
          /\ undone' = undone \cup db.pending /\ UNCHANGED refused
       \/ Refuses(h) /\ UNCHANGED <<db, undone>>
       \/ inner[h].owns /\ Refuses(h) /\ db' = done /\ undone' = undone \cup db.pending
-----------------------------------------------------------------------------
(* Operations, through the queue *)

\* The writes a commit() accepted now comes after.
Covered == db.pending \cup {turns[i].arg : i \in {j \in DOMAIN turns : turns[j].do = "write"}}

\* Nothing that closes the transaction stands before it.
WillBeActive(h) == inner[h].active /\ \A i \in DOMAIN turns : turns[i].arg # h

\* A call is driven; the user goes on (start) or waits for the answer (block,
\* co_await), which gives back the worker it was on.  commit() and rollback() of
\* a handle whose session is gone throw, and so come to nothing.
Drive(u, op) ==
  /\ user[u] = Free /\ session = "up" /\ door
  /\ op.by \in {u, Nobody} /\ Len(turns) < MaxTurns
  /\ CASE op.do = "begin" -> handle[op.arg] = "unborn" /\ op.by = u
       [] op.do = "write" -> /\ op.arg \notin db.pending \cup db.kept \cup undone
                             /\ \A i \in DOMAIN turns : turns[i].arg # op.arg
       [] OTHER -> handle[op.arg] = "held"
  /\ turns' = Append(turns, op)
  /\ handle' = IF op.do = "begin" THEN [handle EXCEPT ![op.arg] = "asked"] ELSE handle
  /\ promised' = IF op.do = "commit" /\ WillBeActive(op.arg)
                 THEN promised \cup Covered ELSE promised
  /\ IF op.by = u
     THEN /\ user' = [user EXCEPT ![u] = [at |-> "waits", h |-> Nobody]]
          /\ place' = [place EXCEPT ![u] = Nobody]
     ELSE UNCHANGED <<user, place>>
  /\ UNCHANGED <<busy, inner, session, door, todo, db, undone, refused>>

Serve(w) ==
  /\ busy = Nobody /\ turns # <<>> /\ \A u \in Users : place[u] # w
  /\ busy' = w
  /\ UNCHANGED <<turns, user, place, handle, inner, session, door, todo, db, promised,
                 undone, refused>>

\* What a body does; begin() throws when the driver does not leave autocommit, and
\* a write the server refuses, which writes nothing, is left out.
Performs(op) ==
  /\ CASE op.do = "begin" ->
            /\ Opened(op.arg) \/ (~db.manual /\ UNCHANGED <<inner, db>>)
            /\ UNCHANGED <<undone, refused>>
       [] op.do = "write" ->
            /\ db' = IF db.manual THEN [db EXCEPT !.pending = @ \cup {op.arg}]
                     ELSE [db EXCEPT !.kept = @ \cup {op.arg}]
            /\ UNCHANGED <<inner, undone, refused>>
       [] op.do = "commit" -> commit(op.arg)
       [] OTHER -> rollback(op.arg)
  \* A commit() the driver refused promises nothing, nor does one behind a
  \* rollback() that was asked for first.
  /\ promised' = IF \/ op.do = "commit" /\ inner'[op.arg].active
                    \/ op.do = "rollback" /\ inner[op.arg].active
                 THEN promised \ db.pending ELSE promised
  /\ handle' = IF op.do # "begin" THEN handle
               ELSE [handle EXCEPT ![op.arg] = IF inner'[op.arg].active THEN "held" ELSE "gone"]

\* A user that waits goes on: a coroutine on the worker, or where resume_on says.
Answers(op, w) ==
  IF op.by = Nobody THEN UNCHANGED <<user, place>>
  ELSE /\ user' = [user EXCEPT ![op.by] = Free]
       /\ place' \in {place, [place EXCEPT ![op.by] = w]}

\* Mutant: an operation nobody waits for keeps its turn.
ServedHeld(w) ==
  /\ busy = w /\ Head(turns).by # Nobody
  /\ busy' = Nobody /\ turns' = Tail(turns)
  /\ Performs(Head(turns)) /\ Answers(Head(turns), w)
  /\ UNCHANGED <<session, door, todo>>

\* The body is over: the slot is freed, then the answer is delivered.
Served(w) ==
  /\ busy = w
  /\ busy' = Nobody /\ turns' = Tail(turns)
  /\ Performs(Head(turns)) /\ Answers(Head(turns), w)
  /\ UNCHANGED <<session, door, todo>>

\* A coroutine on a worker comes to its end.
ChainEnds(u) ==
  /\ user[u] = Free /\ place[u] # Nobody
  /\ place' = [place EXCEPT ![u] = Nobody]
  /\ UNCHANGED <<turns, busy, user, handle, inner, session, door, todo, db, promised,
                 undone, refused>>
-----------------------------------------------------------------------------
(* The end of a handle: ~async::transaction, and the transaction it holds *)

Step(u, at, h) == user' = [user EXCEPT ![u] = [at |-> at, h |-> h]]
Idle == turns = <<>>

\* Its guard: nothing to do for one that is over, and the door has to be open.
\* What it held is destroyed after it, and rolls back what is still active.
DropHandle(u, h) ==
  /\ user[u] = Free /\ handle[h] = "held"
  /\ IF inner[h].active THEN Step(u, IF door THEN "drops" ELSE "dying", h) ELSE UNCHANGED user
  /\ handle' = IF inner[h].active THEN handle ELSE [handle EXCEPT ![h] = "gone"]
  /\ UNCHANGED <<turns, busy, place, inner, session, door, todo, db, promised, undone, refused>>

\* Mutant: the destructor does not wait for the session to go quiet.
DropsAtOnce(u) ==
  /\ user[u].at = "drops" /\ Step(u, "rolls", user[u].h)
  /\ UNCHANGED <<turns, busy, place, handle, inner, session, door, todo, db, promised,
                 undone, refused>>

\* wait_idle() comes back.
DropsWhenQuiet(u) ==
  /\ user[u].at = "drops" /\ Idle /\ Step(u, "rolls", user[u].h)
  /\ UNCHANGED <<turns, busy, place, handle, inner, session, door, todo, db, promised,
                 undone, refused>>

\* The rollback of the destructor, then that of the transaction's own, should the
\* first have been refused.
Rolls(u) ==
  /\ user[u].at = "rolls"
  /\ rollback(user[u].h)
  /\ IF inner'[user[u].h].active THEN Step(u, "dying", user[u].h) /\ UNCHANGED handle
     ELSE /\ user' = [user EXCEPT ![u] = Free]
          /\ handle' = [handle EXCEPT ![user[u].h] = "gone"]
  /\ UNCHANGED <<turns, busy, place, session, door, todo, promised>>

Dies(u) ==
  /\ user[u].at = "dying"
  /\ rollback(user[u].h)
  /\ user' = [user EXCEPT ![u] = Free]
  /\ handle' = [handle EXCEPT ![user[u].h] = "gone"]
  /\ UNCHANGED <<turns, busy, place, session, door, todo, promised>>
-----------------------------------------------------------------------------
(* The end of the session: ~orm() *)

CloseSession(u) ==
  /\ user[u] = Free /\ place[u] = Nobody /\ session = "up"
  /\ session' = "going" /\ Step(u, "closes", Nobody)
  /\ UNCHANGED <<turns, busy, place, handle, inner, door, todo, db, promised, undone, refused>>

Open == {h \in Handles : handle[h] = "held" /\ inner[h].active}

\* Mutant: the handles given out are left to themselves.
ClosesLoose(u) ==
  /\ user[u].at = "closes" /\ Idle
  /\ door' = FALSE /\ todo' = {} /\ Step(u, "sweeps", Nobody)
  /\ UNCHANGED <<turns, busy, place, handle, inner, session, db, promised, undone, refused>>

\* wait_idle() comes back; the door closes, and the open transactions are those
\* whose handles are still there.
ClosesWhenQuiet(u) ==
  /\ user[u].at = "closes" /\ Idle
  /\ door' = FALSE /\ todo' = Open /\ Step(u, "sweeps", Nobody)
  /\ UNCHANGED <<turns, busy, place, handle, inner, session, db, promised, undone, refused>>

Sweep(u, h) ==
  /\ user[u].at = "sweeps" /\ h \in todo
  /\ rollback(h) /\ todo' = todo \ {h}
  /\ UNCHANGED <<turns, busy, user, place, handle, session, door, promised>>

\* The connection goes back to its pool, which rolls back and resets it.
SessionGone(u) ==
  /\ user[u].at = "sweeps" /\ todo = {}
  /\ session' = "gone" /\ user' = [user EXCEPT ![u] = Free]
  /\ db' = [db EXCEPT !.manual = FALSE, !.pending = {}]
  /\ undone' = undone \cup db.pending
  /\ UNCHANGED <<turns, busy, place, handle, inner, door, todo, promised, refused>>
-----------------------------------------------------------------------------
Ending(u) ==
  DropsWhenQuiet(u) \/ Rolls(u) \/ Dies(u) \/ ClosesWhenQuiet(u) \/ SessionGone(u)
    \/ \E h \in Handles : Sweep(u, h)

TxNext ==
  \/ \E u \in Users :
       \/ \E op \in Operations : Drive(u, op)
       \/ \E h \in Handles : DropHandle(u, h)
       \/ ChainEnds(u) \/ CloseSession(u) \/ Ending(u)
  \/ \E w \in Workers : Serve(w) \/ Served(w)

\* A worker takes what is queued and a body comes to its end, a thread inside a
\* destructor goes on when it can, and a coroutine does not hold its worker for
\* ever: these are the threads of the executor and of the callers.
TxFairness ==
  /\ WF_txVars(\E w \in Workers : Serve(w))
  /\ \A w \in Workers : WF_txVars(Served(w))
  /\ \A u \in Users : WF_txVars(Ending(u))

TxSpec == TxInit /\ [][TxNext]_txVars /\ TxFairness
-----------------------------------------------------------------------------
(* Properties *)

\* Who is inside a call of the connection: a body, or a destructor's rollback.
OnConnection ==
  {w \in Workers : busy = w} \cup {u \in Users : user[u].at \in {"rolls", "dying", "sweeps"}}

\* "Two operations on one connection is not a shape this API makes"
\* (async.hpp:818-820): the rollback of a destructor never runs beside an
\* operation or beside another end (async.cpp:163, 261-262).
OneOnConnection == Cardinality(OnConnection) <= 1

\* What a commit() accepted by the session stands behind is never rolled back by
\* the end of a handle or of the session, however soon the handle goes: the end
\* waits for the commit that was asked for first (async.cpp:240-246, 261).
CommitNotUndone == promised \cap undone = {}

\* When the session is gone no transaction of it is open, however its handle was
\* left, unless the driver refused to close it: the handle left over has nothing
\* to reach (async.cpp:164-174, async.hpp:821-824).
NothingLeftOpen ==
  session = "gone" =>
    /\ \A h \in Handles : handle[h] # "gone" /\ inner[h].active => h \in refused
    /\ \A u \in Users : user[u].at # "dying" \/ user[u].h \in refused

\* Whoever ends a handle or the session comes out of the destructor: the wait for
\* a quiet session ends (async.cpp:163, 261).
EndsComeBack ==
  \A u \in Users : user[u].at \in {"drops", "rolls", "dying", "closes", "sweeps"} ~> user[u] = Free
=============================================================================
