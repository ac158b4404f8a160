---------------------------- MODULE PoolRegistry ----------------------------
(***************************************************************************)
(* connection_pool_registry (src/pool.cpp): make_key(), acquire_keyed()    *)
(* and configure(), with the maintenance scheduler every new pool is added *)
(* to.  The registry's mutex is held while a pool is made, add() and its   *)
(* join() included, and not while the pool hands out a connection.         *)
(*                                                                         *)
(* What a caller names is a record: a connection string as its tokens, or  *)
(* a connection_spec.  `place` and `user` are where the backend connects   *)
(* and as whom.                                                            *)
(***************************************************************************)
EXTENDS MaintenanceScheduler, Sequences

CONSTANTS
  Targets,   \* what callers name
  Private,   \* pools an application makes for itself, past the registry
  DefaultInterval   \* the heartbeat of a pool nobody configured

ASSUME TargetsAssumption ==
  /\ None \notin Targets
  /\ \A s \in Targets : s.form \in {"string", "spec"}

VARIABLES
  rlock,    \* who holds connection_pool_registry::mutex_
  table,    \* pools_: the pool of each key
  target,   \* pool_options::target of each pool
  want,     \* what a caller in the registry is doing
  lease     \* what a caller named last, and the pool that served it

regVars == <<rlock, table, target, want, lease>>
vars == <<owner, listed, left, due, running, stop, worker, sleep, handle, apc,
          making, leaving, rlock, table, target, want, lease>>
-----------------------------------------------------------------------------
(* make_key() *)

\* to_lower(trim(...)) on the names the tokens may have.
Plain(name) ==
  CASE name \in {"DSN", "dsn", " Dsn "} -> "dsn"
    [] name \in {"UID", "uid"} -> "uid"
    [] name \in {"User", "user"} -> "user"
    [] name \in {"UserName", "username"} -> "username"
    [] OTHER -> name

\* Mutant: a user spelt another way is not seen.
NextTokenUidOnly(token, key) ==
  CASE Plain(token.name) = "dsn" -> [key EXCEPT !.dsn = token.value]
    [] token.name = "uid" -> [key EXCEPT !.uid = token.value]
    [] OTHER -> key

\* One turn of the loop over the tokens; a token without '=' has no name.
NextToken(token, key) ==
  CASE Plain(token.name) = "dsn" -> [key EXCEPT !.dsn = token.value]
    [] Plain(token.name) \in {"uid", "user", "username"} -> [key EXCEPT !.uid = token.value]
    [] OTHER -> key

FromTokens(tokens) ==
  LET upTo[n \in 0..Len(tokens)] ==
        IF n = 0 THEN [dsn |-> "", uid |-> ""] ELSE NextToken(tokens[n], upTo[n - 1])
  IN  upTo[Len(tokens)]

make_key(s) ==
  IF s.form = "string"
  THEN <<"string", FromTokens(s.tokens)>>
  ELSE <<"spec", [scheme |-> s.scheme, target |-> s.place, user |-> s.user]>>

KeyOf == [s \in Targets |-> make_key(s)]
Keys == {KeyOf[s] : s \in Targets}
-----------------------------------------------------------------------------
NoWant == [call |-> "none"]

\* The registry's table and its mutex, and what each caller is doing
\* (pool.hpp:113-140): a lease is on a pool, never on nothing.
TypeOK ==
  /\ SchedTypeOK
  /\ rlock \in Callers \cup {None}
  /\ table \in [Keys -> Pools \cup {None}]
  /\ target \in [Pools -> Targets \cup {None}]
  /\ want \in [Callers -> {NoWant} \cup
                 [call : {"acquire", "configure"}, s : Targets]]
  /\ lease \in [Callers -> {None} \cup [s : Targets, pool : Pools]]

Init ==
  /\ SchedInit
  /\ rlock = None
  /\ table = [k \in Keys |-> None]
  /\ target = [p \in Pools |-> None]
  /\ want = [c \in Callers |-> NoWant]
  /\ lease = [c \in Callers |-> None]

\* A caller outside the registry.
Free(c) == apc[c] = "out" /\ want[c] = NoWant

\* Mutant: a key that is not there is taken for found.
AcquireFoundUnchecked(c, s) ==
  /\ Free(c) /\ rlock = None
  /\ lease' = [lease EXCEPT ![c] = [s |-> s, pool |-> table[KeyOf[s]]]]
  /\ UNCHANGED <<schedVars, rlock, table, target, want>>

\* acquire() of a key that has its pool: found and unlocked in one step.
AcquireFound(c, s) ==
  /\ Free(c) /\ rlock = None
  /\ table[KeyOf[s]] # None
  /\ lease' = [lease EXCEPT ![c] = [s |-> s, pool |-> table[KeyOf[s]]]]
  /\ UNCHANGED <<schedVars, rlock, table, target, want>>

\* acquire() of a new key: the pool is made, the lock held.
AcquireMakes(c, s, p) ==
  /\ Free(c) /\ rlock = None
  /\ table[KeyOf[s]] = None /\ Interval[p] = DefaultInterval /\ p \notin Private
  /\ rlock' = c
  /\ Create(c, p)
  /\ want' = [want EXCEPT ![c] = [call |-> "acquire", s |-> s]]
  /\ target' = [target EXCEPT ![p] = s]
  /\ UNCHANGED <<table, lease>>

\* configure(): a pool is made whether the key has one or not.
Configure(c, s, p) ==
  /\ Free(c) /\ rlock = None /\ p \notin Private
  /\ rlock' = c
  /\ Create(c, p)
  /\ want' = [want EXCEPT ![c] = [call |-> "configure", s |-> s]]
  /\ target' = [target EXCEPT ![p] = s]
  /\ UNCHANGED <<table, lease>>

\* Mutant: assignment in place of emplace(); the pool that was there goes.
PublishOver(c) ==
  LET w == want[c] p == making[c] kept == table[KeyOf[w.s]] IN
  /\ apc[c] = "back" /\ w.call \in {"acquire", "configure"}
  /\ table' = [table EXCEPT ![KeyOf[w.s]] = p]
  /\ owner' = IF kept = None THEN owner ELSE [owner EXCEPT ![kept] = "dropped"]
  /\ lease' = IF w.call = "acquire" THEN [lease EXCEPT ![c] = [s |-> w.s, pool |-> p]] ELSE lease
  /\ rlock' = None
  /\ want' = [want EXCEPT ![c] = NoWant] /\ apc' = [apc EXCEPT ![c] = "out"]
  /\ making' = [making EXCEPT ![c] = None]
  /\ UNCHANGED <<listed, left, due, running, stop, worker, sleep, handle, leaving, target>>

\* The constructor is back: emplace(), which keeps an entry that is there, and
\* unlock.  A pool that found its key taken goes at once.
Publish(c) ==
  LET w == want[c] p == making[c] IN
  /\ apc[c] = "back" /\ w.call \in {"acquire", "configure"}
  /\ LET kept == table[KeyOf[w.s]]
         now == IF kept = None THEN p ELSE kept
     IN  /\ table' = [table EXCEPT ![KeyOf[w.s]] = now]
         /\ IF kept = None THEN UNCHANGED <<owner, left>>
            ELSE /\ owner' = [owner EXCEPT ![p] = "dropped"]
                 /\ left' = [left EXCEPT ![p] = 0]
         /\ lease' = IF w.call = "acquire" THEN [lease EXCEPT ![c] = [s |-> w.s, pool |-> now]]
                     ELSE lease
  /\ rlock' = None
  /\ want' = [want EXCEPT ![c] = NoWant] /\ apc' = [apc EXCEPT ![c] = "out"]
  /\ making' = [making EXCEPT ![c] = None]
  /\ UNCHANGED <<listed, due, running, stop, worker, sleep, handle, leaving, target>>

-----------------------------------------------------------------------------
\* A pool an application makes for itself, without the registry, and lets go.
MakeOwn(c, p) == Free(c) /\ p \in Private /\ Create(c, p) /\ UNCHANGED regVars
OwnReturns(c) == want[c] = NoWant /\ CreateReturns(c) /\ UNCHANGED regVars
DropOwn(p) == target[p] = None /\ Drop(p) /\ UNCHANGED regVars

CallerStep(c) == (AddStep(c) /\ UNCHANGED regVars) \/ OwnReturns(c) \/ Publish(c)

Call(c) ==
  \E s \in Targets :
    \/ AcquireFound(c, s)
    \/ \E p \in Pools : AcquireMakes(c, s, p) \/ Configure(c, s, p)

Next ==
  \/ \E c \in Callers : CallerStep(c) \/ Call(c) \/ \E p \in Pools : MakeOwn(c, p)
  \/ \E p \in Pools : DropOwn(p)
  \/ (WorkerStep \/ WakesSpuriously \/ Tick \/ Leave \/ LeaveStep) /\ UNCHANGED regVars

Spec == Init /\ [][Next]_vars

\* The threads run on and the clock ticks.  Nobody is made to call or to end
\* the process.
FairSpec ==
  /\ Spec
  /\ WF_vars(WorkerStep /\ UNCHANGED regVars)
  /\ WF_vars(Tick /\ UNCHANGED regVars)
  /\ WF_vars(LeaveStep /\ UNCHANGED regVars)
  /\ \A c \in Callers : WF_vars(CallerStep(c))
-----------------------------------------------------------------------------
\* A pool is shared by everyone who reaches the same place as the same user:
\* callers that race for the first connection, configure() in between, and
\* spellings of one string that differ all come to one pool, so its size holds
\* for the place (pool.cpp:335-402).
SharedByAll ==
  \A c, d \in Callers :
    lease[c] # None /\ lease[d] # None =>
      LET s == lease[c].s t == lease[d].s IN
      s.form = t.form /\ s.place = t.place /\ s.user = t.user => lease[c].pool = lease[d].pool

\* A pool somebody leased from is never let go of by the registry, whatever is
\* configured later under the same key (pool.cpp:404-418).
LeasedPoolsLive == \A c \in Callers : lease[c] # None => owner[lease[c].pool] = "held"

\* A lease is always of a pool that was made, and that pool stays
\* (pool.cpp:387-418).
LeasesStand == TypeOK /\ LeasedPoolsLive

\* Every call that makes a pool comes back and frees the registry's mutex,
\* though it may have to join a maintenance thread while it holds it
\* (pool.cpp:105-124, 387-418).
CallsReturn ==
  (\E c \in Callers : want[c] # NoWant) ~> (rlock = None /\ \A c \in Callers : want[c] = NoWant)

\* pool.hpp:115 "keyed by where they connect and who they connect as": a lease
\* is on a pool of the place and the user that were asked for.
LeaseIsWhereAsked ==
  \A c \in Callers :
    lease[c] # None =>
      LET t == target[lease[c].pool] IN
      t.place = lease[c].s.place /\ t.user = lease[c].s.user
=============================================================================
