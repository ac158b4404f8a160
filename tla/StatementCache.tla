--------------------------- MODULE StatementCache ---------------------------
(***************************************************************************)
(* The cache of prepared statements of one connection                      *)
(* (src/statement_cache.hpp): statements are taken out for use and put     *)
(* back when their consumer is done.  The operators say what a call makes  *)
(* of a cache c; connection.cpp's calls are put together from them.        *)
(***************************************************************************)
EXTENDS Naturals, Sequences, FiniteSets

CONSTANTS
  Sqls,       \* SQL texts, the keys
  Stmts,      \* prepared statements that may come to be
  Capacity,
  None

ASSUME CacheAssumption ==
  /\ IsFiniteSet(Sqls) /\ IsFiniteSet(Stmts)
  /\ Capacity \in Nat \ {0}
  /\ None \notin Sqls \cup Stmts

VARIABLE cache

Caches ==
  [entries : [Sqls -> Stmts \cup {None}],   \* the cached statement of each text
   lru : Seq(Sqls),                         \* front = most recently returned
   out : [Stmts -> Sqls \cup {None}]]       \* the text each statement in use is for

Cached(c) == {q \in Sqls : c.entries[q] # None}

\* The statements that exist.
Held(c) == {st \in Stmts : c.out[st] # None \/ \E q \in Sqls : c.entries[q] = st}

Empty == [entries |-> [q \in Sqls |-> None], lru |-> <<>>, out |-> [st \in Stmts |-> None]]

\* lru.remove(): q is there at most once, see CacheListed.
Without(l, q) ==
  IF \A i \in 1..Len(l) : l[i] # q THEN l
  ELSE LET k == CHOOSE i \in 1..Len(l) : l[i] = q
       IN  [i \in 1..(Len(l) - 1) |-> IF i < k THEN l[i] ELSE l[i + 1]]

\* Mutant: the entry stays while the statement is out.
TakenShared(c, q) == [c EXCEPT !.out[c.entries[q]] = q]

\* acquire() of a text that is there: erased, and dropped from lru.
Taken(c, q) ==
  [entries |-> [c.entries EXCEPT ![q] = None],
   lru |-> Without(c.lru, q),
   out |-> [c.out EXCEPT ![c.entries[q]] = q]]

\* acquire() of a text that is not there: a new statement st.
Made(c, q, st) == [c EXCEPT !.out[st] = q]

\* A call that failed: its statement is destroyed, not returned.
Discarded(c, st) == [c EXCEPT !.out[st] = None]

\* Mutant: no room is made.
KeptCrowded(c, st) ==
  [entries |-> [c.entries EXCEPT ![c.out[st]] = st],
   lru |-> <<c.out[st]>> \o c.lru,
   out |-> [c.out EXCEPT ![st] = None]]

\* release(): the oldest makes room in a full cache, st goes to the front.
Kept(c, st) ==
  LET full == Cardinality(Cached(c)) >= Capacity
      oldest == c.lru[Len(c.lru)]
  IN  [entries |-> [q \in Sqls |-> IF q = c.out[st] THEN st
                                   ELSE IF full /\ q = oldest THEN None ELSE c.entries[q]],
       lru |-> <<c.out[st]>> \o (IF full THEN SubSeq(c.lru, 1, Len(c.lru) - 1) ELSE c.lru),
       out |-> [c.out EXCEPT ![st] = None]]

\* A text that got an entry meanwhile drops the statement.
Returned(c, st) == IF c.out[st] \in Cached(c) THEN Discarded(c, st) ELSE Kept(c, st)

\* clear_statement_cache()
Cleared(c) == [entries |-> [q \in Sqls |-> None], lru |-> <<>>, out |-> c.out]

CacheInit == cache = Empty

CacheNext ==
  \/ \E q \in Cached(cache) : cache' = Taken(cache, q)
  \/ \E q \in Sqls \ Cached(cache), st \in Stmts \ Held(cache) : cache' = Made(cache, q, st)
  \/ \E st \in Stmts :
       cache.out[st] # None /\ cache' \in {Returned(cache, st), Discarded(cache, st)}
  \/ cache' = Cleared(cache)

CacheSpec == CacheInit /\ [][CacheNext]_cache
-----------------------------------------------------------------------------
\* The list names every cached text once and no other, so the text that makes
\* room is there, and the cache never outgrows its capacity, however many
\* statements of one text are out at a time (statement_cache.hpp:32-64).
CacheListed ==
  /\ {cache.lru[i] : i \in 1..Len(cache.lru)} = Cached(cache)
  /\ \A i, j \in 1..Len(cache.lru) : cache.lru[i] = cache.lru[j] => i = j
  /\ Len(cache.lru) <= Capacity

\* statement_cache.hpp:7 "the cache only ever holds idle handles": a cached
\* statement is in nobody's hands, and is there for one text only.
CacheIdle ==
  \A q \in Cached(cache) :
    /\ cache.out[cache.entries[q]] = None
    /\ \A r \in Cached(cache) : cache.entries[r] = cache.entries[q] => r = q

\* However calls follow one another, list and entries agree within the capacity
\* and only idle statements are cached (statement_cache.hpp:24-80).
CacheKept == CacheListed /\ CacheIdle
=============================================================================
