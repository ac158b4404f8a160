----------------------------- MODULE UnitOfWork -----------------------------
(***************************************************************************)
(* What a lease does with its connection: orm's connection and transaction *)
(* calls (src/orm.cpp), transaction (src/transaction.cpp), connection      *)
(* (src/connection.cpp) with its statement cache, the libpq session under  *)
(* it (backends/libpq/connection.cpp, statement.cpp), and what the pool    *)
(* does with a connection that comes back or stays idle (src/pool.cpp).    *)
(*                                                                         *)
(* A connection has one user at a time, so a call is one step.  What the   *)
(* session makes of a command is a set of outcomes: a session and whether  *)
(* the call returned or threw.                                             *)
(***************************************************************************)
EXTENDS StatementCache

CONSTANTS
  Orms,         \* sessions of the application, which take the connection in turns
  Works,        \* what they write, each once
  HeartbeatSql  \* the pool's own text

ASSUME UowAssumption == HeartbeatSql \in Sqls /\ None \notin Orms \cup Works

VARIABLES
  s,        \* the libpq session and its server, see Sessions
  mode,     \* connection::autocommit_
  lease,    \* the orm that has the connection
  auto,     \* orm::auto_commit_
  tx,       \* None, or owns_mode_ of the lease's active transaction
  unit,     \* works that returned since the last commit or rollback in manual mode
  spoiled,  \* a statement failed since then
  refused,  \* it was a commit() that threw
  tried, asked, promised, stray   \* works: run, asked to be durable by their own
            \* lease, promised to be, and written after a refused commit()

vars == <<cache, s, mode, lease, auto, tx, unit, spoiled, refused, tried, asked,
          promised, stray>>

Sessions ==
  [alive : BOOLEAN,        \* PQstatus() is CONNECTION_OK
   server : {"idle", "intrans", "inerror"},
   pending : SUBSET Works, \* in the server's open transaction
   durable : SUBSET Works,
   parsed : SUBSET Stmts,  \* statements the server holds a parse of
   auto : BOOLEAN,         \* autocommit_
   open : BOOLEAN]         \* transaction_open_
-----------------------------------------------------------------------------
(* The libpq session *)

Did(x) == [s |-> x, ok |-> TRUE]
Threw(x) == [s |-> x, ok |-> FALSE]
Then(R, F(_)) == UNION {IF r.ok THEN F(r.s) ELSE {r} : r \in R}

Lost(x) == [x EXCEPT !.alive = FALSE, !.server = "idle", !.pending = {}, !.parsed = {}]
Ended(x) == [x EXCEPT !.server = "idle", !.durable = @ \cup x.pending, !.pending = {}]
Undone(x) == [x EXCEPT !.server = "idle", !.pending = {}]

\* COMMIT on the server: it may refuse what it holds, which ends the transaction;
\* it answers an aborted transaction with a plain ROLLBACK; the line may break
\* before the work is kept or after.
ServerCommit(x) ==
  CASE ~x.alive -> {Threw(x)}
    [] x.server = "intrans" -> {Did(Ended(x)), Threw(Undone(x)), Threw(Lost(x)), Threw(Lost(Ended(x)))}
    [] OTHER -> {Did(Undone(x)), Threw(Lost(x))}

\* Mutant: the answer is not looked at.
PgCommitUnchecked(x) ==
  IF ~x.open THEN {Did(x)} ELSE {Did([r.s EXCEPT !.open = FALSE]) : r \in ServerCommit(x)}

PgCommit(x) ==
  IF ~x.open THEN {Did(x)}
  ELSE {IF r.ok THEN Did([r.s EXCEPT !.open = FALSE]) ELSE r : r \in ServerCommit(x)}

ServerRollback(x) == IF x.alive THEN {Did(Undone(x)), Threw(Lost(x))} ELSE {Threw(x)}

PgRollback(x) ==
  IF ~x.open THEN IF x.server = "inerror" THEN ServerRollback(x) ELSE {Did(x)}
  ELSE {IF r.ok THEN Did([r.s EXCEPT !.open = FALSE]) ELSE r : r \in ServerRollback(x)}

\* Switching it on commits.
PgSetAutocommit(x, on) ==
  Then(IF on /\ ~x.auto THEN PgCommit(x) ELSE {Did(x)},
       LAMBDA y : {Did([y EXCEPT !.auto = on])})

\* open_transaction()
PgOpenTransaction(x) ==
  IF x.auto \/ x.open THEN {Did(x)}
  ELSE IF ~x.alive THEN {Threw(x)}
  ELSE {Did([x EXCEPT !.server = "intrans", !.open = TRUE]), Threw(Lost(x))}

\* prepare(): a text the server may refuse, in an aborted transaction always.
PgPrepare(x, st) ==
  IF ~x.alive THEN {Threw(x)}
  ELSE {Threw(Lost(x)), Threw(IF x.server = "intrans" THEN [x EXCEPT !.server = "inerror"] ELSE x)}
       \cup IF x.server = "inerror" THEN {} ELSE {Did([x EXCEPT !.parsed = @ \cup {st}])}

\* The statement runs with work W: within the server's transaction, or on its own,
\* and then the line may break with the work done.
PgRun(x, W) ==
  IF ~x.alive THEN {Threw(x)}
  ELSE {Threw(Lost(x)), Threw(IF x.server = "intrans" THEN [x EXCEPT !.server = "inerror"] ELSE x)}
       \cup (CASE x.server = "inerror" -> {}
               [] x.server = "intrans" -> {Did([x EXCEPT !.pending = @ \cup W])}
               [] x.server = "idle" ->
                    LET y == [x EXCEPT !.durable = @ \cup W] IN {Did(y), Threw(Lost(y))})

PgExecute(x, W) == Then(PgOpenTransaction(x), LAMBDA y : PgRun(y, W))
-----------------------------------------------------------------------------
(* connection, transaction, orm *)

New(d) == [alive |-> TRUE, server |-> "idle", pending |-> {}, durable |-> d, parsed |-> {},
           auto |-> TRUE, open |-> FALSE]

Init ==
  /\ CacheInit
  /\ s = New({}) /\ mode = TRUE
  /\ lease = None /\ auto = [o \in Orms |-> TRUE] /\ tx = None
  /\ unit = {} /\ spoiled = FALSE /\ refused = FALSE
  /\ tried = {} /\ asked = {} /\ promised = {} /\ stray = {}

\* A commit() of the connection is over: what it means to the lease's work.  One
\* that threw promised nothing and left nothing to commit.
Committed(r) ==
  /\ asked' = asked \cup unit
  /\ promised' = IF r.ok /\ ~spoiled THEN promised \cup unit ELSE promised
  /\ unit' = {} /\ spoiled' = FALSE
  /\ refused' = ~r.ok
  /\ UNCHANGED stray

RolledBack(r) ==
  /\ IF r.ok THEN unit' = {} /\ spoiled' = FALSE /\ refused' = FALSE
     ELSE UNCHANGED <<unit, spoiled, refused>>
  /\ UNCHANGED <<asked, promised, stray>>

\* adopt_connection()
Adopt(x, on) ==
  Then(IF mode THEN {Did(x)} ELSE PgRollback(x), LAMBDA y : PgSetAutocommit(y, on))

\* orm::connect() takes the idle connection.  A dead one is not adopted, and a
\* call that throws here has the lease all the same.
Connect(o) ==
  /\ lease = None
  /\ \E r \in IF s.alive THEN Adopt(s, auto[o]) ELSE {Threw(s)} :
       s' = r.s /\ mode' = IF r.ok THEN auto[o] ELSE mode
  /\ lease' = o
  /\ UNCHANGED <<cache, auto, tx, unit, spoiled, refused, tried, asked, promised, stray>>

Leased == lease # None /\ s.alive

\* Mutant: the mode is noted before the backend is asked.
AutoCommitEager(o, on) ==
  /\ auto[o] # on /\ lease = o /\ s.alive
  /\ \E r \in PgSetAutocommit(s, on) :
       /\ s' = r.s /\ mode' = on
       /\ auto' = IF r.ok THEN [auto EXCEPT ![o] = on] ELSE auto
       /\ IF on THEN Committed(r) ELSE UNCHANGED <<unit, spoiled, refused, asked, promised, stray>>
  /\ UNCHANGED <<cache, lease, tx, tried>>

\* orm::auto_commit(): without a lease only the wish is kept.
AutoCommit(o, on) ==
  /\ auto[o] # on
  /\ \/ /\ ~(lease = o /\ s.alive)
        /\ auto' = [auto EXCEPT ![o] = on]
        /\ UNCHANGED <<s, mode, unit, spoiled, refused, asked, promised, stray>>
     \/ /\ lease = o /\ s.alive
        /\ \E r \in PgSetAutocommit(s, on) :
             /\ s' = r.s
             /\ IF r.ok THEN mode' = on /\ auto' = [auto EXCEPT ![o] = on] ELSE UNCHANGED <<mode, auto>>
             /\ IF on THEN Committed(r)
                ELSE UNCHANGED <<unit, spoiled, refused, asked, promised, stray>>
  /\ UNCHANGED <<cache, lease, tx, tried>>

\* orm::commit(), orm::rollback()
Commit ==
  /\ Leased
  /\ \E r \in PgCommit(s) : s' = r.s /\ Committed(r)
  /\ UNCHANGED <<cache, mode, lease, auto, tx, tried>>

Rollback ==
  /\ Leased
  /\ \E r \in PgRollback(s) : s' = r.s /\ RolledBack(r)
  /\ UNCHANGED <<cache, mode, lease, auto, tx, tried>>

\* begin(), one transaction at a time.
Begin ==
  /\ Leased /\ tx = None
  /\ tx' = mode
  /\ \E r \in IF mode THEN PgSetAutocommit(s, FALSE) ELSE {Did(s)} :
       s' = r.s /\ mode' = IF r.ok THEN FALSE ELSE mode
  /\ UNCHANGED <<cache, lease, auto, unit, spoiled, refused, tried, asked, promised, stray>>

\* transaction::commit(), rollback(): the work ends, then the mode is restored.
TxCommit ==
  /\ tx # None
  /\ \E r \in PgCommit(s) :
       /\ Committed(r)
       /\ \E q \in IF r.ok /\ tx THEN PgSetAutocommit(r.s, TRUE) ELSE {r} :
            /\ s' = q.s
            /\ mode' = IF q.ok /\ tx THEN TRUE ELSE mode
            /\ tx' = IF q.ok THEN None ELSE tx
  /\ UNCHANGED <<cache, lease, auto, tried>>

\* Mutant: the mode is restored first.
TxRollbackLate(gone) ==
  /\ tx # None
  /\ \E r \in Then(IF tx THEN PgSetAutocommit(s, TRUE) ELSE {Did(s)}, PgRollback) :
       /\ RolledBack(r)
       /\ s' = r.s
       /\ mode' = IF r.ok /\ tx THEN TRUE ELSE mode
       /\ tx' = IF r.ok \/ gone THEN None ELSE tx
  /\ UNCHANGED <<cache, lease, auto, tried>>

\* `gone`: from the destructor, which swallows what is thrown.
TxRollback(gone) ==
  /\ tx # None
  /\ \E r \in PgRollback(s) :
       /\ RolledBack(r)
       /\ \E q \in IF r.ok /\ tx THEN PgSetAutocommit(r.s, TRUE) ELSE {r} :
            /\ s' = q.s
            /\ mode' = IF q.ok /\ tx THEN TRUE ELSE mode
            /\ tx' = IF q.ok \/ gone THEN None ELSE tx
  /\ UNCHANGED <<cache, lease, auto, tried>>
-----------------------------------------------------------------------------
(* Statements *)

Acquired(q, st) == IF q \in Cached(cache) THEN Taken(cache, q) ELSE Made(cache, q, st)

\* Mutant: what is in use is given up with the rest.
DroppingInUse(x, had, c) ==
  IF x.server = "inerror" THEN x ELSE [x EXCEPT !.parsed = @ \cap {c.entries[q] : q \in Sqls}]

\* ~pq_statement() of what cache `had` holds and c no longer: DEALLOCATE, which an
\* aborted transaction refuses.
Dropping(x, had, c) ==
  IF x.server = "inerror" THEN x ELSE [x EXCEPT !.parsed = @ \ (Held(had) \ Held(c))]

\* From acquire_statement() to execute(): the parameters may be refused before
\* the statement is sent.
Sent(q, st, W) ==
  Then(IF q \in Cached(cache) THEN {Did(s)} ELSE PgPrepare(s, st),
       LAMBDA y : {Threw(y)} \cup PgExecute(y, W))

\* The statement acquire_statement() comes to.
Statement(q, st) ==
  IF q \in Cached(cache) THEN st = cache.entries[q] ELSE st \notin Held(cache) \cup s.parsed

\* What a statement's end means to the lease's work.
Ran(r, W) ==
  /\ tried' = tried \cup W
  /\ asked' = IF mode THEN asked \cup W ELSE asked
  /\ promised' = IF mode /\ r.ok THEN promised \cup W ELSE promised
  /\ unit' = IF ~mode /\ r.ok THEN unit \cup W ELSE unit
  /\ stray' = IF ~mode /\ refused THEN stray \cup W ELSE stray
  /\ spoiled' = (spoiled \/ (~mode /\ ~r.ok))

\* execute_update(): the statement goes back at once.
ExecuteUpdate(q, w) ==
  /\ Leased /\ w \notin tried
  /\ \E st \in Stmts :
       /\ Statement(q, st)
       /\ \E r \in Sent(q, st, {w}) :
            LET c == Acquired(q, st) IN
            /\ cache' = IF r.ok THEN Returned(c, st) ELSE Discarded(c, st)
            /\ s' = Dropping(r.s, c, cache')
            /\ Ran(r, {w})
  /\ UNCHANGED <<mode, lease, auto, tx, refused>>

\* execute(): the result set keeps it.
Execute(q) ==
  /\ Leased
  /\ \E st \in Stmts :
       /\ Statement(q, st)
       /\ \E r \in Sent(q, st, {}) :
            LET c == Acquired(q, st) IN
            /\ cache' = IF r.ok THEN c ELSE Discarded(c, st)
            /\ s' = Dropping(r.s, c, cache')
            /\ Ran(r, {})
  /\ UNCHANGED <<mode, lease, auto, tx, refused>>

\* A result set goes, whoever has the connection by then.
CloseResult(st) ==
  /\ cache.out[st] # None
  /\ cache' = Returned(cache, st) /\ s' = Dropping(s, cache, cache')
  /\ UNCHANGED <<mode, lease, auto, tx, unit, spoiled, refused, tried, asked, promised, stray>>

ClearStatementCache ==
  /\ Leased
  /\ cache' = Cleared(cache) /\ s' = Dropping(s, cache, cache')
  /\ UNCHANGED <<mode, lease, auto, tx, unit, spoiled, refused, tried, asked, promised, stray>>
-----------------------------------------------------------------------------
(* The pool *)

\* The connection is destroyed, and its statements with it; the next lease gets
\* a new one.
Retire(x) == s' = New(x.durable) /\ mode' = TRUE /\ cache' = Empty

\* connection_pool::release()'s reset of a connection in manual mode.
Reset(x) ==
  IF mode THEN {Did(x)} ELSE Then(PgRollback(x), LAMBDA y : PgSetAutocommit(y, TRUE))

\* Mutant: the connection is taken back as it is.
DisconnectAsIs ==
  /\ lease # None /\ tx = None
  /\ lease' = None /\ unit' = {} /\ spoiled' = FALSE /\ refused' = FALSE
  /\ UNCHANGED <<cache, s, mode, auto, tx, tried, asked, promised, stray>>

\* The lease ends, and every transaction of it before.
Disconnect ==
  /\ lease # None /\ tx = None
  /\ \E r \in Reset(s) :
       IF r.ok THEN s' = r.s /\ mode' = TRUE /\ UNCHANGED cache ELSE Retire(r.s)
  /\ lease' = None /\ unit' = {} /\ spoiled' = FALSE /\ refused' = FALSE
  /\ UNCHANGED <<auto, tx, tried, asked, promised, stray>>

\* run_maintenance()'s heartbeat; a connection that fails it is dropped.
Heartbeat ==
  /\ lease = None
  /\ \E st \in Stmts :
       /\ Statement(HeartbeatSql, st)
       /\ \E r \in Sent(HeartbeatSql, st, {}) :
            LET c == Acquired(HeartbeatSql, st) IN
            IF r.ok
            THEN cache' = Returned(c, st) /\ s' = Dropping(r.s, c, cache') /\ UNCHANGED mode
            ELSE Retire(r.s)
  /\ UNCHANGED <<lease, auto, tx, unit, spoiled, refused, tried, asked, promised, stray>>

Next ==
  \/ \E o \in Orms : Connect(o) \/ \E on \in BOOLEAN : AutoCommit(o, on)
  \/ Commit \/ Rollback \/ Begin \/ TxCommit \/ \E gone \in BOOLEAN : TxRollback(gone)
  \/ \E q \in Sqls : Execute(q) \/ \E w \in Works : ExecuteUpdate(q, w)
  \/ \E st \in Stmts : CloseResult(st)
  \/ ClearStatementCache \/ Disconnect \/ Heartbeat

Spec == Init /\ [][Next]_vars
-----------------------------------------------------------------------------
\* The members of connection, transaction and orm, and the session they drive
\* (connection.hpp:110-130, libpq/connection.hpp:70-72).
TypeOK ==
  /\ cache \in Caches /\ s \in Sessions
  /\ mode \in BOOLEAN /\ lease \in Orms \cup {None}
  /\ auto \in [Orms -> BOOLEAN] /\ tx \in BOOLEAN \cup {None}
  /\ spoiled \in BOOLEAN /\ refused \in BOOLEAN
  /\ unit \in SUBSET Works /\ tried \in SUBSET Works /\ asked \in SUBSET Works
  /\ promised \in SUBSET Works /\ stray \in SUBSET Works

\* Nothing becomes durable that its own lease did not ask for: not by the end of
\* a transaction nobody committed, not by the pool that resets the connection,
\* not by the next lease that adopts it.  Writes after a refused commit() are
\* set apart, see ManualHoldsBack (orm.cpp:22-29, transaction.cpp, pool.cpp:257-279).
NothingUnasked == s.durable \subseteq asked \cup stray

\* What a lease finds in the session's transaction is its own
\* (pool.cpp:257-279, orm.cpp:22-29).
LeasesDoNotMix == s.pending \subseteq unit /\ (lease = None => s.server = "idle")

\* A commit() that returned made durable what was written since the last one,
\* unless a statement failed in between, and so did every statement that
\* returned in autocommit mode (connection.cpp:44-62, libpq/connection.cpp:178-192).
CommitHolds == promised \subseteq s.durable

\* The connection's idea of the mode is its backend's, and the backend knows of
\* the server's transaction (connection.cpp:156-159, libpq/connection.cpp:169-207).
ModesAgree == mode = s.auto /\ (s.server # "idle" => s.open)

\* A statement that exists can be run: the server of a session that lives has
\* its parse (libpq/statement.cpp:160-197).
StatementsParsed == s.alive => Held(cache) \subseteq s.parsed

\* What the library believes of the server is so: the mode, the transaction and
\* the parses it counts on (connection.cpp:156-159, libpq/connection.cpp:169-207,
\* libpq/statement.cpp:160-197).
BeliefsHold == TypeOK /\ ModesAgree /\ StatementsParsed

\* include/uniorm/connection.hpp:60 "Off: nothing is durable until
\* commit()/rollback()": a write in manual mode is durable only when a commit
\* was asked for after it.
ManualHoldsBack == s.durable \subseteq asked
=============================================================================
