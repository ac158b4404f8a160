-------------------------- MODULE UnitOfWorkProofs --------------------------
(***************************************************************************)
(* Theorems about StatementCache and UnitOfWork, for every number of       *)
(* sessions, works, texts and statements and every capacity of the cache.  *)
(***************************************************************************)
EXTENDS UnitOfWork, FiniteSetTheorems, FunctionTheorems, TLAPS
-----------------------------------------------------------------------------
(* The cache keeps its list and its entries together.  Each call keeps a    *)
(* good cache good, so the result holds for any sequence of them.           *)

Listed(c) ==
  /\ {c.lru[i] : i \in 1..Len(c.lru)} = Cached(c)
  /\ \A i, j \in 1..Len(c.lru) : c.lru[i] = c.lru[j] => i = j
  /\ Len(c.lru) <= Capacity

Idle(c) ==
  \A q \in Cached(c) :
    /\ c.out[c.entries[q]] = None
    /\ \A r \in Cached(c) : c.entries[r] = c.entries[q] => r = q

Good(c) == c \in Caches /\ Listed(c) /\ Idle(c)

\* The list is as long as the cache is large, so a full cache has an oldest text.
LEMMA ListCounts ==
  ASSUME NEW c \in Caches, Listed(c)
  PROVE  Cardinality(Cached(c)) = Len(c.lru)
<1>1. Len(c.lru) \in Nat /\ c.lru \in [1..Len(c.lru) -> Sqls] /\ DOMAIN c.lru = 1..Len(c.lru)
  BY DEF Caches
<1>2. c.lru \in Bijection(1..Len(c.lru), Cached(c))
  <2>1. c.lru \in [1..Len(c.lru) -> Cached(c)]
    BY <1>1 DEF Listed
  <2>2. c.lru \in Injection(1..Len(c.lru), Cached(c))
    BY <2>1 DEF Listed, Injection, IsInjective
  <2>3. \A q \in Cached(c) : \E i \in 1..Len(c.lru) : c.lru[i] = q
    BY DEF Listed
  <2>4. c.lru \in Surjection(1..Len(c.lru), Cached(c))
    BY <2>1, <2>3 DEF Surjection
  <2> QED BY <2>2, <2>4 DEF Bijection
<1>3. IsFiniteSet(1..Len(c.lru)) /\ Cardinality(1..Len(c.lru)) = Len(c.lru)
  BY <1>1, FS_Interval
<1>4. ExistsBijection(1..Len(c.lru), Cached(c))
  BY <1>2 DEF ExistsBijection
<1> QED BY <1>3, <1>4, FS_Bijection

\* A new connection has a good cache.
LEMMA EmptyGood == Good(Empty)
<1>1. Empty \in Caches
  BY DEF Empty, Caches
<1>2. Cached(Empty) = {}
  BY DEF Cached, Empty
<1>3. Empty.lru = <<>> /\ Len(Empty.lru) = 0
  BY DEF Empty
<1> QED BY <1>1, <1>2, <1>3, CacheAssumption DEF Good, Listed, Idle

Distinct(l) == \A i, j \in 1..Len(l) : l[i] = l[j] => i = j

\* w is l without q.
LessOne(l, w, q) ==
  /\ w \in Seq(Sqls) /\ Len(w) <= Len(l)
  /\ \A i \in 1..Len(w) : w[i] # q /\ \E j \in 1..Len(l) : l[j] = w[i]
  /\ \A j \in 1..Len(l) : l[j] # q => \E i \in 1..Len(w) : w[i] = l[j]
  /\ Distinct(w)

\* lru.remove() takes one text off a list without repetitions.
LEMMA WithoutOne ==
  ASSUME NEW l \in Seq(Sqls), NEW q \in Sqls, Distinct(l)
  PROVE  LessOne(l, Without(l, q), q)
<1> DEFINE w == Without(l, q)
<1>1. Len(l) \in Nat /\ \A i \in 1..Len(l) : l[i] \in Sqls
  OBVIOUS
<1>2. CASE \A i \in 1..Len(l) : l[i] # q
  <2>1. w = l
    BY <1>2 DEF Without
  <2> HIDE DEF w
  <2>2. LessOne(l, w, q)
    BY <1>1, <1>2, <2>1 DEF LessOne, Distinct
  <2> QED BY <2>2 DEF w
<1>3. CASE ~ \A i \in 1..Len(l) : l[i] # q
  <2> DEFINE k == CHOOSE i \in 1..Len(l) : l[i] = q
             m == Len(l) - 1
  <2>1. k \in 1..Len(l) /\ l[k] = q
    BY <1>3
  <2>2. m \in Nat /\ m + 1 = Len(l)
    BY <1>1, <2>1
  <2>3. w = [i \in 1..m |-> IF i < k THEN l[i] ELSE l[i + 1]]
    BY <1>3 DEF Without
  <2> HIDE DEF k, m, w
  <2>4. w \in Seq(Sqls) /\ Len(w) = m
    <3>1. \A i \in 1..m : (IF i < k THEN l[i] ELSE l[i + 1]) \in Sqls
      BY <1>1, <2>1, <2>2
    <3>2. w \in [1..m -> Sqls]
      BY <2>3, <3>1
    <3> QED BY <2>2, <3>2
  <2>5. \A i \in 1..m : w[i] = IF i < k THEN l[i] ELSE l[i + 1]
    BY <2>3
  <2>6. \A i \in 1..m : w[i] # q /\ \E j \in 1..Len(l) : l[j] = w[i]
    BY <1>1, <2>1, <2>2, <2>5 DEF Distinct
  <2>7. \A j \in 1..Len(l) : l[j] # q => \E i \in 1..m : w[i] = l[j]
    <3> TAKE j \in 1..Len(l)
    <3> HAVE l[j] # q
    <3>1. CASE j < k
      <4>1. j \in 1..m /\ w[j] = l[j]
        BY <1>1, <2>1, <2>2, <2>5, <3>1
      <4> QED BY <4>1
    <3>2. CASE j > k
      <4>1. j - 1 \in 1..m /\ w[j - 1] = l[j]
        BY <1>1, <2>1, <2>2, <2>5, <3>2
      <4> QED BY <4>1
    <3> QED BY <2>1, <3>1, <3>2
  <2>9. \A i, j \in 1..m : w[i] = w[j] => i = j
    BY <1>1, <2>1, <2>2, <2>5 DEF Distinct
  <2>10. m <= Len(l)
    BY <1>1, <2>2
  <2>11. LessOne(l, w, q)
    BY <2>4, <2>6, <2>7, <2>9, <2>10, Zenon DEF LessOne, Distinct
  <2> QED BY <2>11 DEF w
<1> QED BY <1>2, <1>3

\* A statement taken out leaves a good cache.
LEMMA TakenGood ==
  ASSUME NEW c, Good(c), NEW q \in Cached(c)
  PROVE  Good(Taken(c, q))
<1> DEFINE d == Taken(c, q)
<1>1. c \in Caches /\ Listed(c) /\ Idle(c) /\ q \in Sqls /\ c.entries[q] \in Stmts
  BY DEF Good, Cached, Caches
<1>2. /\ d.entries = [c.entries EXCEPT ![q] = None]
      /\ d.lru = Without(c.lru, q)
      /\ d.out = [c.out EXCEPT ![c.entries[q]] = q]
  BY DEF Taken
<1>3. /\ d.lru \in Seq(Sqls) /\ Len(d.lru) <= Len(c.lru)
      /\ {d.lru[i] : i \in 1..Len(d.lru)} = {c.lru[i] : i \in 1..Len(c.lru)} \ {q}
      /\ \A i, j \in 1..Len(d.lru) : d.lru[i] = d.lru[j] => i = j
  <2>1. c.lru \in Seq(Sqls) /\ \A i, j \in 1..Len(c.lru) : c.lru[i] = c.lru[j] => i = j
    BY <1>1 DEF Caches, Listed
  <2>2. LessOne(c.lru, d.lru, q)
    BY <1>1, <1>2, <2>1, WithoutOne DEF Distinct
  <2> DEFINE l == c.lru
             w == d.lru
  <2>3. LessOne(l, w, q)
    BY <2>2
  <2> HIDE DEF d, l, w
  <2>4. w \in Seq(Sqls) /\ Len(w) <= Len(l) /\ \A i, j \in 1..Len(w) : w[i] = w[j] => i = j
    BY <2>3, Zenon DEF LessOne, Distinct
  <2>5. {w[i] : i \in 1..Len(w)} = {l[i] : i \in 1..Len(l)} \ {q}
    <3>1. ASSUME NEW i \in 1..Len(w) PROVE w[i] \in {l[j] : j \in 1..Len(l)} \ {q}
      <4>1. w[i] # q /\ \E j \in 1..Len(l) : l[j] = w[i]
        BY <2>3, Zenon DEF LessOne
      <4> QED BY <4>1, Zenon
    <3>2. ASSUME NEW j \in 1..Len(l), l[j] # q PROVE l[j] \in {w[i] : i \in 1..Len(w)}
      <4>1. \E i \in 1..Len(w) : w[i] = l[j]
        BY <2>3, <3>2, Zenon DEF LessOne
      <4> QED BY <4>1, Zenon
    <3> QED BY <3>1, <3>2, Zenon
  <2> QED BY <2>4, <2>5, Zenon DEF l, w
<1>4. d \in Caches
  <2>1. d = [entries |-> d.entries, lru |-> d.lru, out |-> d.out]
    BY DEF Taken
  <2>2. d.entries \in [Sqls -> Stmts \cup {None}] /\ d.out \in [Stmts -> Sqls \cup {None}]
    BY <1>1, <1>2 DEF Caches
  <2> HIDE DEF d
  <2> QED BY <1>3, <2>1, <2>2 DEF Caches
<1>5. Cached(d) = Cached(c) \ {q}
  BY <1>1, <1>2 DEF Cached, Caches
<1>6. Listed(d)
  <2>1. Len(c.lru) \in Nat /\ Len(d.lru) \in Nat /\ Len(c.lru) <= Capacity
    BY <1>1, <1>4 DEF Caches, Listed
  <2>2. Len(d.lru) <= Capacity
    BY <1>2, <1>3, <2>1, CacheAssumption
  <2>3. {d.lru[i] : i \in 1..Len(d.lru)} = Cached(d)
    <3>1. {c.lru[i] : i \in 1..Len(c.lru)} = Cached(c)
      BY <1>1 DEF Listed
    <3> HIDE DEF d
    <3> QED BY <1>2, <1>3, <1>5, <3>1, Zenon
  <2>4. \A i, j \in 1..Len(d.lru) : d.lru[i] = d.lru[j] => i = j
    BY <1>2, <1>3
  <2> QED BY <2>2, <2>3, <2>4 DEF Listed
<1>7. Idle(d)
  <2>1. \A r \in Cached(d) : r \in Cached(c) /\ r # q /\ d.entries[r] = c.entries[r]
    BY <1>1, <1>2, <1>5 DEF Caches, Cached
  <2>2. \A r \in Cached(d) : c.entries[r] # c.entries[q] /\ c.entries[r] \in Stmts
    BY <1>1, <2>1 DEF Idle, Caches, Cached
  <2>3. \A r \in Cached(d) : d.out[d.entries[r]] = None
    BY <1>1, <1>2, <2>1, <2>2 DEF Idle, Caches
  <2> QED BY <1>1, <2>1, <2>3 DEF Idle
<1> QED BY <1>4, <1>6, <1>7 DEF Good

\* So does a new one, and one that is destroyed.
LEMMA MadeGood ==
  ASSUME NEW c, Good(c), NEW q \in Sqls, NEW st \in Stmts, st \notin Held(c)
  PROVE  Good(Made(c, q, st))
<1>1. Made(c, q, st) \in Caches
  BY DEF Good, Made, Caches
<1>2. /\ Made(c, q, st).entries = c.entries /\ Made(c, q, st).lru = c.lru
      /\ Made(c, q, st).out = [c.out EXCEPT ![st] = q]
  BY DEF Made, Good, Caches
<1>3. Cached(Made(c, q, st)) = Cached(c)
  BY <1>2 DEF Cached
<1>4. \A r \in Cached(c) : c.entries[r] # st /\ c.entries[r] \in Stmts
  BY DEF Held, Cached, Good, Caches
<1>5. Listed(Made(c, q, st))
  BY <1>2, <1>3 DEF Good, Listed
<1>6. Idle(Made(c, q, st))
  <2>1. \A r \in Cached(c) : Made(c, q, st).out[c.entries[r]] = c.out[c.entries[r]]
    BY <1>2, <1>4 DEF Good, Caches
  <2> QED BY <1>2, <1>3, <2>1 DEF Good, Idle
<1> QED BY <1>1, <1>5, <1>6 DEF Good

\* A statement destroyed by a failed call was not in the cache.
LEMMA DiscardedGood ==
  ASSUME NEW c, Good(c), NEW st \in Stmts
  PROVE  Good(Discarded(c, st))
<1>1. Discarded(c, st) \in Caches
  BY DEF Good, Discarded, Caches
<1>2. /\ Discarded(c, st).entries = c.entries /\ Discarded(c, st).lru = c.lru
      /\ Discarded(c, st).out = [c.out EXCEPT ![st] = None]
  BY DEF Discarded, Good, Caches
<1>3. Cached(Discarded(c, st)) = Cached(c)
  BY <1>2 DEF Cached
<1>4. \A r \in Cached(c) : c.entries[r] \in Stmts
  BY DEF Cached, Good, Caches
<1> QED BY <1>1, <1>2, <1>3, <1>4 DEF Good, Listed, Idle, Caches

\* A statement that comes back takes the place of the oldest in a full cache.
LEMMA KeptGood ==
  ASSUME NEW c, Good(c), NEW st \in Stmts, c.out[st] # None, c.out[st] \notin Cached(c)
  PROVE  Good(Kept(c, st))
<1> DEFINE d == Kept(c, st)
           p == c.out[st]
           n == Len(c.lru)
           full == Cardinality(Cached(c)) >= Capacity
           m == IF full THEN n - 1 ELSE n
           old == c.lru[n]
           rest == IF full THEN SubSeq(c.lru, 1, n - 1) ELSE c.lru
<1>1. c \in Caches /\ Listed(c) /\ Idle(c)
  BY DEF Good
<1>2. p \in Sqls /\ c.lru \in Seq(Sqls) /\ n \in Nat /\ Capacity \in Nat \ {0}
  BY <1>1, CacheAssumption DEF Caches
<1>3. Cardinality(Cached(c)) = n /\ n <= Capacity
  BY <1>1, ListCounts DEF Listed
<1>4. full => n >= 1 /\ n = Capacity
  BY <1>2, <1>3
<1>5. /\ d.entries = [q \in Sqls |-> IF q = p THEN st
                                     ELSE IF full /\ q = old THEN None ELSE c.entries[q]]
      /\ d.lru = <<p>> \o rest
      /\ d.out = [c.out EXCEPT ![st] = None]
  BY DEF Kept
<1>6. \A i \in 1..n : c.lru[i] \in Cached(c) /\ c.lru[i] # p
  BY <1>1 DEF Listed
<1>7. rest \in Seq(Sqls) /\ Len(rest) = m /\ m \in Nat /\ m < Capacity
      /\ \A i \in 1..m : rest[i] = c.lru[i]
  <2>1. CASE full
    <3>1. rest = SubSeq(c.lru, 1, n - 1) /\ m = n - 1
      BY <2>1
    <3> QED BY <1>2, <1>4, <2>1, <3>1
  <2>2. CASE ~full
    <3>1. rest = c.lru /\ m = n
      BY <2>2
    <3>2. n < Capacity
      BY <1>2, <1>3, <2>2
    <3> QED BY <1>2, <3>1, <3>2
  <2> QED BY <2>1, <2>2
<1>8. m <= n /\ (full => m = n - 1) /\ (~full => m = n)
  BY <1>2
<1> HIDE DEF rest, m, full, p, old
<1>9. Len(d.lru) = m + 1 /\ d.lru \in Seq(Sqls)
      /\ d.lru[1] = p /\ \A i \in 2..(m + 1) : d.lru[i] = c.lru[i - 1]
  <2>1. <<p>> \in Seq(Sqls) /\ Len(<<p>>) = 1 /\ <<p>>[1] = p
    BY <1>2
  <2>2. Len(<<p>> \o rest) = m + 1 /\ <<p>> \o rest \in Seq(Sqls)
    BY <1>7, <2>1
  <2>3. (<<p>> \o rest)[1] = p
    BY <1>7, <2>1
  <2>4. ASSUME NEW i \in 2..(m + 1)
        PROVE  (<<p>> \o rest)[i] = c.lru[i - 1]
    <3>1. i \in Int /\ i - 1 \in 1..m /\ i > 1 /\ i <= 1 + Len(rest)
      BY <1>7
    <3>2. (<<p>> \o rest)[i] = rest[i - 1]
      BY <1>7, <2>1, <3>1
    <3> QED BY <1>7, <3>1, <3>2
  <2> HIDE DEF d
  <2> QED BY <1>5, <2>2, <2>3, <2>4
<1>10. d \in Caches
  <2>1. d.entries \in [Sqls -> Stmts \cup {None}]
    BY <1>1, <1>5 DEF Caches
  <2>2. d.out \in [Stmts -> Sqls \cup {None}]
    BY <1>1, <1>5 DEF Caches
  <2>3. d = [entries |-> d.entries, lru |-> d.lru, out |-> d.out]
    BY DEF Kept
  <2> HIDE DEF d
  <2> QED BY <1>9, <2>1, <2>2, <2>3 DEF Caches
<1>11. Cached(d) = {p} \cup {q \in Cached(c) : ~(full /\ q = old)}
  BY <1>1, <1>2, <1>5, CacheAssumption DEF Cached, Caches
<1> HIDE DEF d
<1>12. {q \in Cached(c) : ~(full /\ q = old)} = {c.lru[i] : i \in 1..m}
  <2>1. CASE full
    <3>1. \A i \in 1..n : c.lru[i] = old <=> i = n
      BY <1>1, <1>2, <1>4, <2>1 DEF Listed, old
    <3>2. \A i \in 1..m : i \in 1..n /\ c.lru[i] # old
      BY <1>2, <1>4, <1>8, <2>1, <3>1
    <3>3. \A q \in Cached(c) : q # old => \E i \in 1..m : c.lru[i] = q
      <4> TAKE q \in Cached(c)
      <4> HAVE q # old
      <4>1. PICK i \in 1..n : c.lru[i] = q
        BY <1>1 DEF Listed
      <4>2. i # n
        BY <3>1, <4>1
      <4>3. i \in 1..m
        BY <1>2, <1>8, <2>1, <4>2
      <4> QED BY <4>1, <4>3
    <3> QED BY <1>6, <2>1, <3>2, <3>3
  <2>2. CASE ~full
    BY <1>1, <1>8, <2>2 DEF Listed
  <2> QED BY <2>1, <2>2
<1>13. Listed(d)
  <2>1. \A i \in 1..(m + 1) : d.lru[i] \in {p} \cup {c.lru[j] : j \in 1..m}
    <3> TAKE i \in 1..(m + 1)
    <3>1. CASE i = 1
      BY <1>9, <3>1
    <3>2. CASE i # 1
      <4>1. i \in 2..(m + 1) /\ i - 1 \in 1..m
        BY <1>7, <3>2
      <4> QED BY <1>9, <4>1
    <3> QED BY <3>1, <3>2
  <2>2. \A j \in 1..m : j + 1 \in 2..(m + 1) /\ j + 1 \in 1..(m + 1) /\ d.lru[j + 1] = c.lru[j]
    <3> TAKE j \in 1..m
    <3>1. j + 1 \in 2..(m + 1) /\ j + 1 \in 1..(m + 1) /\ (j + 1) - 1 = j
      BY <1>7
    <3> QED BY <1>9, <3>1
  <2>3. 1 \in 1..(m + 1)
    BY <1>7
  <2>4. {d.lru[i] : i \in 1..(m + 1)} = {p} \cup {c.lru[j] : j \in 1..m}
    BY <1>9, <2>1, <2>2, <2>3
  <2>5. ASSUME NEW i \in 1..(m + 1), NEW j \in 1..(m + 1), d.lru[i] = d.lru[j]
        PROVE  i = j
    <3>1. \A k \in 2..(m + 1) : k - 1 \in 1..m /\ k - 1 \in 1..n /\ d.lru[k] # p
      <4> TAKE k \in 2..(m + 1)
      <4>1. k - 1 \in 1..m /\ k - 1 \in 1..n
        BY <1>2, <1>7, <1>8
      <4> QED BY <1>6, <1>9, <4>1
    <3>2. CASE i = 1 \/ j = 1
      <4>1. i = 1 \/ i \in 2..(m + 1)
        BY <1>7
      <4>2. j = 1 \/ j \in 2..(m + 1)
        BY <1>7
      <4> QED BY <1>9, <2>5, <3>1, <3>2, <4>1, <4>2
    <3>3. CASE i # 1 /\ j # 1
      <4>1. i \in 2..(m + 1) /\ j \in 2..(m + 1)
        BY <1>7, <3>3
      <4>2. c.lru[i - 1] = c.lru[j - 1] /\ i - 1 \in 1..n /\ j - 1 \in 1..n
        BY <1>9, <2>5, <3>1, <4>1
      <4>3. i - 1 = j - 1
        BY <1>1, <4>2 DEF Listed
      <4> QED BY <1>7, <4>3
    <3> QED BY <3>2, <3>3
  <2>6. m + 1 <= Capacity
    BY <1>2, <1>7
  <2> QED BY <1>9, <1>11, <1>12, <2>4, <2>5, <2>6, Zenon DEF Listed
<1>14. Idle(d)
  <2>1. \A r \in Cached(c) : c.entries[r] # st /\ c.entries[r] \in Stmts /\ r \in Sqls /\ r # p
    BY <1>1 DEF Idle, Cached, Caches, p
  <2>2. \A r \in Cached(d) : \/ r = p /\ d.entries[r] = st
                             \/ r \in Cached(c) /\ d.entries[r] = c.entries[r]
    BY <1>2, <1>5, <1>11, <2>1
  <2>3. \A r \in Cached(d) : d.out[d.entries[r]] = None
    <3> TAKE r \in Cached(d)
    <3>1. CASE d.entries[r] = st
      BY <1>1, <1>5, <3>1 DEF Caches
    <3>2. CASE r \in Cached(c) /\ d.entries[r] = c.entries[r]
      BY <1>1, <1>5, <2>1, <3>2 DEF Caches, Idle
    <3> QED BY <2>2, <3>1, <3>2
  <2>4. \A q, r \in Cached(d) : d.entries[r] = d.entries[q] => r = q
    BY <1>1, <2>1, <2>2 DEF Idle
  <2> QED BY <2>3, <2>4 DEF Idle
<1>15. Good(d)
  BY <1>10, <1>13, <1>14 DEF Good
<1> QED BY <1>15 DEF d

\* release() keeps a good cache good, whether it keeps the statement or drops it.
LEMMA ReturnedGood ==
  ASSUME NEW c, Good(c), NEW st \in Stmts, c.out[st] # None
  PROVE  Good(Returned(c, st))
BY KeptGood, DiscardedGood DEF Returned

\* clear_statement_cache() keeps a good cache good.
LEMMA ClearedGood ==
  ASSUME NEW c, Good(c)
  PROVE  Good(Cleared(c))
<1>1. Cleared(c) \in Caches
  <2>1. Cleared(c) = [entries |-> [q \in Sqls |-> None], lru |-> <<>>, out |-> c.out]
    BY DEF Cleared
  <2>2. c.out \in [Stmts -> Sqls \cup {None}] /\ <<>> \in Seq(Sqls)
    BY DEF Good, Caches
  <2>3. [q \in Sqls |-> None] \in [Sqls -> Stmts \cup {None}]
    OBVIOUS
  <2> QED BY <2>1, <2>2, <2>3 DEF Caches
<1>2. Cleared(c).entries = [q \in Sqls |-> None] /\ Cleared(c).lru = <<>>
  BY DEF Good, Cleared, Caches
<1>3. Cached(Cleared(c)) = {} /\ Len(Cleared(c).lru) = 0
  BY <1>2 DEF Cached
<1> QED BY <1>1, <1>2, <1>3, CacheAssumption DEF Good, Listed, Idle

\* Whatever is taken, returned, destroyed or cleared in whatever order, the
\* cache stays good.
THEOREM CacheStaysGood == CacheSpec => []Good(cache)
<1>1. CacheInit => Good(cache)
  BY EmptyGood DEF CacheInit
<1>2. Good(cache) /\ [CacheNext]_cache => Good(cache)'
  <2> SUFFICES ASSUME Good(cache), [CacheNext]_cache
               PROVE  Good(cache')
    BY DEF Good, Listed, Idle, Cached, Caches
  <2>1. ASSUME NEW q \in Cached(cache), cache' = Taken(cache, q)
        PROVE  Good(cache')
    BY <2>1, TakenGood
  <2>2. ASSUME NEW q \in Sqls \ Cached(cache), NEW st \in Stmts \ Held(cache),
               cache' = Made(cache, q, st)
        PROVE  Good(cache')
    BY <2>2, MadeGood
  <2>3. ASSUME NEW st \in Stmts, cache.out[st] # None,
               cache' \in {Returned(cache, st), Discarded(cache, st)}
        PROVE  Good(cache')
    BY <2>3, ReturnedGood, DiscardedGood
  <2>4. CASE cache' = Cleared(cache)
    BY <2>4, ClearedGood
  <2>5. CASE UNCHANGED cache
    BY <2>5
  <2> QED BY <2>1, <2>2, <2>3, <2>4, <2>5 DEF CacheNext
<1> QED BY <1>1, <1>2, PTL DEF CacheSpec

\* statement_cache.hpp:32-64: list and entries agree and the capacity holds.
THEOREM CacheKeepsList == CacheSpec => []CacheListed
<1>1. Good(cache) => CacheListed
  BY DEF Good, Listed, CacheListed
<1> QED BY <1>1, CacheStaysGood, PTL

\* statement_cache.hpp:8: the cache only ever holds idle handles.
THEOREM CacheKeepsIdle == CacheSpec => []CacheIdle
<1>1. Good(cache) => CacheIdle
  BY DEF Good, Idle, CacheIdle
<1> QED BY <1>1, CacheStaysGood, PTL

\* statement_cache.hpp:24-80: both, whatever calls follow one another.
THEOREM CacheStaysKept == CacheSpec => []CacheKept
<1> QED BY CacheKeepsList, CacheKeepsIdle, PTL DEF CacheKept
-----------------------------------------------------------------------------
(* Units of work *)

\* A session that commits by itself has no transaction open; a transaction of
\* the server is one the session opened, on a line that holds; outside of one
\* nothing is pending; a lost line took the parses along.
Sane(x) ==
  /\ x \in Sessions
  /\ x.auto => ~x.open
  /\ x.server # "idle" => x.open /\ x.alive
  /\ x.server = "idle" => x.pending = {}
  /\ ~x.alive => x.parsed = {}

\* What the ends of units leave behind: between leases the connection commits by
\* itself, and while it does there is no unit; a transaction the server does not
\* have is one it refused to commit; an aborted one had a failure; and what was
\* written without one is pending or durable, as long as a commit can succeed.
UnitInv ==
  /\ lease = None => mode /\ tx = None
  /\ mode => unit = {} /\ ~spoiled /\ ~refused
  /\ s.alive /\ s.open /\ s.server = "idle" => refused
  /\ s.server = "inerror" => spoiled
  /\ ~spoiled /\ (s.alive \/ ~s.open) => unit \subseteq s.pending \cup s.durable

Inv ==
  /\ TypeOK /\ Good(cache) /\ Sane(s)
  /\ mode = s.auto /\ StatementsParsed
  /\ s.pending \subseteq unit /\ UnitInv
  /\ NothingUnasked /\ CommitHolds
-----------------------------------------------------------------------------
(* What the calls of the libpq session make of a sane session *)

\* A call leaves a sane session in the same mode, takes nothing back that is
\* durable and, on a line that holds, no parse.
Follows(x, y) ==
  /\ Sane(y) /\ y.auto = x.auto /\ x.durable \subseteq y.durable
  /\ y.alive => x.alive /\ x.parsed \subseteq y.parsed

LEMMA LostSane ==
  ASSUME NEW x, Sane(x)
  PROVE  /\ Follows(x, Lost(x)) /\ Lost(x).durable = x.durable /\ Lost(x).server = "idle"
         /\ ~Lost(x).alive
  BY Zenon DEF Sane, Sessions, Lost, Follows

LEMMA UndoneSane ==
  ASSUME NEW x, Sane(x)
  PROVE  /\ Follows(x, Undone(x)) /\ Undone(x).durable = x.durable /\ Undone(x).server = "idle"
         /\ Undone(x).open = x.open /\ Undone(x).alive = x.alive
  BY Zenon DEF Sane, Sessions, Undone, Follows

LEMMA EndedSane ==
  ASSUME NEW x, Sane(x)
  PROVE  /\ Follows(x, Ended(x)) /\ Ended(x).durable = x.durable \cup x.pending
         /\ Ended(x).server = "idle" /\ Ended(x).open = x.open /\ Ended(x).alive = x.alive
  BY Zenon DEF Sane, Sessions, Ended, Follows

\* A session whose transaction is over.
Closed(x) == [x EXCEPT !.open = FALSE]

LEMMA ClosedSane ==
  ASSUME NEW x, Sane(x), x.server = "idle"
  PROVE  /\ Follows(x, Closed(x)) /\ Closed(x).durable = x.durable /\ Closed(x).server = "idle"
         /\ ~Closed(x).open /\ Closed(x).alive = x.alive
  BY Zenon DEF Sane, Sessions, Closed, Follows

LEMMA FollowsOn ==
  /\ \A x : Sane(x) => Follows(x, x)
  /\ \A x, y, z : Follows(x, y) /\ Follows(y, z) => Follows(x, z)
  BY DEF Follows

LEMMA Outcomes == \A x : Did(x).s = x /\ Did(x).ok /\ Threw(x).s = x /\ ~Threw(x).ok
  BY DEF Did, Threw

\* COMMIT ends the server's transaction one way or the other, and adds nothing to
\* what is durable but what was pending; when it returns, all of that, unless the
\* transaction was aborted.
LEMMA ServerCommitEffect ==
  ASSUME NEW x, Sane(x), NEW r \in ServerCommit(x)
  PROVE  /\ Follows(x, r.s) /\ r.s.server = "idle"
         /\ r.s.durable \subseteq x.durable \cup x.pending
         /\ r.ok => x.alive /\ (x.server # "inerror" => x.pending \subseteq r.s.durable)
  <1>1. CASE ~x.alive
    <2>1. r = Threw(x) /\ x.server = "idle"
      BY <1>1 DEF ServerCommit, Sane
    <2> QED BY <2>1, FollowsOn, Outcomes
  <1>2. CASE x.alive /\ x.server = "intrans"
    <2>1. r \in {Did(Ended(x)), Threw(Undone(x)), Threw(Lost(x)), Threw(Lost(Ended(x)))}
      BY <1>2, Zenon DEF ServerCommit
    <2>2. Sane(Ended(x))
      BY EndedSane DEF Follows
    <2>3. CASE r = Did(Ended(x))
      BY <1>2, <2>3, EndedSane, Outcomes
    <2>4. CASE r = Threw(Undone(x))
      BY <2>4, UndoneSane, Outcomes
    <2>5. CASE r = Threw(Lost(x))
      BY <2>5, LostSane, Outcomes
    <2>6. CASE r = Threw(Lost(Ended(x)))
      BY <2>2, <2>6, EndedSane, LostSane, FollowsOn, Outcomes
    <2> QED BY <2>1, <2>3, <2>4, <2>5, <2>6
  <1>3. CASE x.alive /\ x.server # "intrans"
    <2>1. r \in {Did(Undone(x)), Threw(Lost(x))}
      BY <1>3 DEF ServerCommit
    <2>2. x.server # "inerror" => x.pending = {}
      BY <1>3 DEF Sane, Sessions
    <2> QED BY <1>3, <2>1, <2>2, UndoneSane, LostSane, Outcomes
  <1> QED BY <1>1, <1>2, <1>3

LEMMA CommitEffect ==
  ASSUME NEW x, Sane(x), NEW r \in PgCommit(x)
  PROVE  /\ Follows(x, r.s) /\ r.s.server = "idle"
         /\ r.s.durable \subseteq x.durable \cup x.pending
         /\ r.ok => /\ ~r.s.open /\ (x.alive \/ ~x.open)
                    /\ (x.server # "inerror" => x.pending \subseteq r.s.durable)
         /\ ~r.ok => x.open
  <1>1. CASE ~x.open
    <2>1. r = Did(x) /\ x.server = "idle" /\ x.pending = {}
      BY <1>1 DEF PgCommit, Sane
    <2> QED BY <1>1, <2>1, FollowsOn, Outcomes
  <1>2. CASE x.open
    <2>1. PICK q \in ServerCommit(x) : r = IF q.ok THEN Did(Closed(q.s)) ELSE q
      BY <1>2, Zenon DEF PgCommit, Closed
    <2>2. Sane(q.s)
      BY ServerCommitEffect, Zenon DEF Follows
    <2>3. CASE q.ok
      BY <2>1, <2>2, <2>3, ServerCommitEffect, ClosedSane, FollowsOn, Outcomes
    <2>4. CASE ~q.ok
      BY <1>2, <2>1, <2>4, ServerCommitEffect
    <2> QED BY <2>3, <2>4
  <1> QED BY <1>1, <1>2

\* ROLLBACK ends it, and a session that cannot even do that is lost.
LEMMA RollbackEffect ==
  ASSUME NEW x, Sane(x), NEW r \in PgRollback(x)
  PROVE  /\ Follows(x, r.s) /\ r.s.server = "idle" /\ r.s.durable = x.durable
         /\ r.ok => ~r.s.open
         /\ ~r.ok => ~r.s.alive /\ x.open /\ r.s.open
  <1>1. ASSUME NEW q \in ServerRollback(x)
        PROVE  /\ Follows(x, q.s) /\ q.s.server = "idle" /\ q.s.durable = x.durable
               /\ q.s.open = x.open /\ (~q.ok => ~q.s.alive)
    <2>1. CASE x.alive
      <3>1. q = Did(Undone(x)) \/ q = Threw(Lost(x))
        BY <1>1, <2>1 DEF ServerRollback
      <3>2. Lost(x).open = x.open
        BY DEF Lost, Sane, Sessions
      <3> QED BY <3>1, <3>2, UndoneSane, LostSane, Outcomes
    <2>2. CASE ~x.alive
      <3>1. q = Threw(x) /\ x.server = "idle"
        BY <1>1, <2>2 DEF ServerRollback, Sane
      <3> QED BY <2>2, <3>1, FollowsOn, Outcomes
    <2> QED BY <2>1, <2>2
  <1>2. CASE ~x.open
    <2>1. r = Did(x) /\ x.server = "idle"
      BY <1>2 DEF PgRollback, Sane
    <2> QED BY <1>2, <2>1, FollowsOn, Outcomes
  <1>3. CASE x.open
    <2>1. PICK q \in ServerRollback(x) : r = IF q.ok THEN Did(Closed(q.s)) ELSE q
      BY <1>3, Zenon DEF PgRollback, Closed
    <2>2. Sane(q.s)
      BY <1>1, Zenon DEF Follows
    <2>3. CASE q.ok
      BY <1>1, <2>1, <2>2, <2>3, ClosedSane, FollowsOn, Outcomes
    <2>4. CASE ~q.ok
      BY <1>1, <1>3, <2>1, <2>4, Zenon
    <2> QED BY <2>3, <2>4
  <1> QED BY <1>2, <1>3

Switched(x, on) == [x EXCEPT !.auto = on]

LEMMA SwitchedSane ==
  ASSUME NEW x, Sane(x), NEW on \in BOOLEAN, on => ~x.open
  PROVE  /\ Sane(Switched(x, on)) /\ Switched(x, on).auto = on
         /\ Switched(x, on).durable = x.durable /\ Switched(x, on).pending = x.pending
         /\ Switched(x, on).server = x.server /\ Switched(x, on).open = x.open
         /\ Switched(x, on).alive = x.alive /\ Switched(x, on).parsed = x.parsed
  BY DEF Sane, Sessions, Switched

LEMMA SwitchedOn ==
  ASSUME NEW x, Sane(x), ~x.open
  PROVE  /\ Sane(Switched(x, TRUE)) /\ Switched(x, TRUE).auto
         /\ Switched(x, TRUE).durable = x.durable /\ Switched(x, TRUE).pending = x.pending
         /\ Switched(x, TRUE).server = x.server /\ ~Switched(x, TRUE).open
         /\ Switched(x, TRUE).alive = x.alive /\ Switched(x, TRUE).parsed = x.parsed
  BY Zenon DEF Sane, Sessions, Switched

\* Switching to manual mode only notes it; so does switching back where no
\* transaction is open.
LEMMA SwitchPlain ==
  ASSUME NEW x, Sane(x), NEW on \in BOOLEAN, on => ~x.open, NEW r \in PgSetAutocommit(x, on)
  PROVE  r.ok /\ r.s = Switched(x, on)
  <1>1. PICK q \in IF on /\ ~x.auto THEN PgCommit(x) ELSE {Did(x)} :
          r \in IF q.ok THEN {Did([q.s EXCEPT !.auto = on])} ELSE {q}
    BY Zenon DEF PgSetAutocommit, Then
  <1>2. q = Did(x)
    BY <1>1, Zenon DEF PgCommit
  <1> QED BY <1>1, <1>2, Outcomes DEF Switched

\* Switching back commits, and a commit that fails leaves the mode.
LEMMA SwitchOnEffect ==
  ASSUME NEW x, Sane(x), NEW r \in PgSetAutocommit(x, TRUE)
  PROVE  /\ Sane(r.s) /\ x.durable \subseteq r.s.durable /\ r.s.server = "idle"
         /\ r.s.alive => x.alive /\ x.parsed \subseteq r.s.parsed
         /\ r.s.durable \subseteq x.durable \cup x.pending
         /\ r.ok => /\ r.s.auto /\ ~r.s.open /\ (x.alive \/ ~x.open)
                    /\ (x.server # "inerror" => x.pending \subseteq r.s.durable)
         /\ ~r.ok => x.open /\ r.s.auto = x.auto
  <1>1. PICK q \in IF ~x.auto THEN PgCommit(x) ELSE {Did(x)} :
          r \in IF q.ok THEN {Did([q.s EXCEPT !.auto = TRUE])} ELSE {q}
    BY Zenon DEF PgSetAutocommit, Then
  <1>2. CASE x.auto
    <2>1. ~x.open /\ x.server = "idle" /\ x.pending = {}
      BY <1>2 DEF Sane
    <2>2. r.ok /\ r.s = Switched(x, TRUE)
      BY <2>1, SwitchPlain, Zenon
    <2>3. /\ Sane(r.s) /\ r.s.auto /\ ~r.s.open /\ r.s.durable = x.durable
          /\ r.s.server = x.server /\ r.s.alive = x.alive /\ r.s.parsed = x.parsed
      <3>1. Sane(x)
        OBVIOUS
      <3> QED BY <2>1, <2>2, <3>1, SwitchedOn, ZenonT(30)
    <2> QED BY <2>1, <2>2, <2>3, Zenon
  <1>3. CASE ~x.auto
    <2>1. q \in PgCommit(x)
      BY <1>1, <1>3
    <2>2. CASE q.ok
      <3>1. Sane(q.s) /\ ~q.s.open /\ r.ok /\ r.s = Switched(q.s, TRUE)
        BY <1>1, <2>1, <2>2, CommitEffect, Outcomes DEF Switched, Follows
      <3>2. /\ Sane(r.s) /\ r.s.auto /\ ~r.s.open /\ r.s.durable = q.s.durable
            /\ r.s.server = q.s.server /\ r.s.alive = q.s.alive /\ r.s.parsed = q.s.parsed
        BY <3>1, SwitchedOn, Zenon
      <3> QED BY <2>1, <2>2, <3>1, <3>2, CommitEffect, Zenon DEF Follows
    <2>3. CASE ~q.ok
      BY <1>1, <2>1, <2>3, CommitEffect DEF Follows
    <2> QED BY <2>2, <2>3
  <1> QED BY <1>2, <1>3

\* A failed statement aborts the transaction it ran in.
Failed(x) == IF x.server = "intrans" THEN [x EXCEPT !.server = "inerror"] ELSE x

LEMMA FailedSane ==
  ASSUME NEW x, Sane(x)
  PROVE  /\ Follows(x, Failed(x)) /\ Failed(x).durable = x.durable
         /\ Failed(x).pending = x.pending /\ Failed(x).open = x.open /\ Failed(x).alive = x.alive
         /\ Failed(x).server = "idle" => x.server = "idle"
  BY DEF Sane, Sessions, Failed, Follows

\* What running a statement with works W may come to.
Runs(x, W, r) ==
  /\ Follows(x, r.s)
  /\ r.s.durable \subseteq x.durable \cup W /\ r.s.pending \subseteq x.pending \cup W
  /\ ~x.auto /\ ~(x.open /\ x.server = "idle") => r.s.durable = x.durable
  /\ ~r.ok => r.s.pending \subseteq x.pending
  /\ r.ok => /\ r.s.alive /\ r.s.server # "inerror"
             /\ W \cup x.pending \subseteq r.s.pending \cup r.s.durable
  /\ r.s.alive /\ r.s.open /\ r.s.server = "idle" => x.open /\ x.server = "idle"
  /\ x.server = "inerror" => ~r.s.alive \/ r.s.server = "inerror"

LEMMA RunsOn ==
  ASSUME NEW x, NEW y, NEW W, NEW r, Follows(x, y), Runs(y, W, r),
         y.durable = x.durable, y.pending = x.pending,
         y.open /\ y.server = "idle" => x.open /\ x.server = "idle",
         x.server = "inerror" => y.server = "inerror"
  PROVE  Runs(x, W, r)
  BY FollowsOn DEF Runs, Follows

LEMMA StopsRuns ==
  ASSUME NEW x, Sane(x), NEW W
  PROVE  Runs(x, W, Threw(Lost(x))) /\ Runs(x, W, Threw(Failed(x))) /\ Runs(x, W, Threw(x))
  <1>1. Lost(x).pending = {}
    BY LostSane DEF Follows, Sane
  <1>2. Failed(x).server = "inerror" <=> x.server \in {"intrans", "inerror"}
    BY DEF Failed, Sane, Sessions
  <1>3. Runs(x, W, Threw(Lost(x)))
    BY <1>1, LostSane, Outcomes DEF Runs
  <1>4. Runs(x, W, Threw(Failed(x)))
    BY <1>2, FailedSane, Outcomes DEF Runs
  <1>5. Runs(x, W, Threw(x))
    BY FollowsOn, Outcomes DEF Runs
  <1> QED BY <1>3, <1>4, <1>5

LEMMA PrepareEffect ==
  ASSUME NEW x, Sane(x), NEW st \in Stmts, NEW r \in PgPrepare(x, st)
  PROVE  /\ Follows(x, r.s) /\ \A W : ~r.ok => Runs(x, W, r)
         /\ r.ok => /\ st \in r.s.parsed /\ r.s.alive /\ x.server # "inerror"
                    /\ r.s.durable = x.durable /\ r.s.pending = x.pending
                    /\ r.s.open = x.open /\ r.s.server = x.server
  <1> DEFINE y == [x EXCEPT !.parsed = @ \cup {st}]
  <1>1. CASE r \in {Threw(x), Threw(Lost(x)), Threw(Failed(x))}
    <2>1. ~r.ok
      BY <1>1, Outcomes
    <2>2. \A W : Runs(x, W, r)
      <3> TAKE W
      <3> QED BY <1>1, StopsRuns, Zenon
    <2>3. Follows(x, r.s)
      BY <2>2, Zenon DEF Runs
    <2> QED BY <2>1, <2>2, <2>3, Zenon
  <1>2. CASE r = Did(y) /\ x.alive /\ x.server # "inerror"
    <2>1. /\ Follows(x, y) /\ st \in y.parsed /\ y.alive
          /\ y.durable = x.durable /\ y.pending = x.pending
          /\ y.open = x.open /\ y.server = x.server
      BY <1>2 DEF Sane, Sessions, Follows
    <2> QED BY <1>2, <2>1, Outcomes, Zenon
  <1> QED BY <1>1, <1>2, Zenon DEF PgPrepare, Failed

LEMMA RunEffect ==
  ASSUME NEW x, Sane(x), x.auto \/ x.open \/ ~x.alive, NEW W \in SUBSET Works, NEW r \in PgRun(x, W)
  PROVE  Runs(x, W, r)
  <1> DEFINE p == [x EXCEPT !.pending = @ \cup W]
             y == [x EXCEPT !.durable = @ \cup W]
  <1>1. CASE r \in {Threw(x), Threw(Lost(x)), Threw(Failed(x))}
    BY <1>1, StopsRuns
  <1>2. CASE r = Did(p) /\ x.alive /\ x.server = "intrans"
    <2>1. /\ Follows(x, p) /\ p.durable = x.durable /\ p.pending = x.pending \cup W
          /\ p.alive /\ p.server = "intrans"
      BY <1>2 DEF Sane, Sessions, Follows
    <2> QED BY <1>2, <2>1, Outcomes, Zenon DEF Runs
  <1>3. CASE r \in {Did(y), Threw(Lost(y))} /\ x.alive /\ x.server = "idle"
    <2>1. /\ Follows(x, y) /\ y.durable = x.durable \cup W /\ y.pending = {} /\ x.pending = {}
          /\ y.alive /\ y.server = "idle" /\ y.open = x.open
      BY <1>3 DEF Sane, Sessions, Follows
    <2>2. x.auto \/ (x.open /\ x.server = "idle")
      BY <1>3
    <2>3. CASE r = Did(y)
      BY <1>3, <2>1, <2>2, <2>3, Outcomes, Zenon DEF Runs
    <2>4. CASE r = Threw(Lost(y))
      <3>1. Sane(y)
        BY <2>1 DEF Follows
      <3> DEFINE z == Lost(y)
      <3> HIDE DEF y
      <3>2. Follows(y, z) /\ z.durable = y.durable /\ ~z.alive /\ z.server = "idle"
        BY <3>1, LostSane
      <3> HIDE DEF z
      <3>3. Follows(x, z) /\ z.durable = y.durable /\ ~z.alive /\ z.pending = {}
        BY <2>1, <3>2, FollowsOn, Zenon DEF Follows, Sane
      <3> QED BY <1>3, <2>1, <2>2, <2>4, <3>3, Outcomes DEF Runs, z
    <2> QED BY <1>3, <2>3, <2>4
  <1>4. x.server \in {"idle", "intrans", "inerror"}
    BY DEF Sane, Sessions
  <1> QED BY <1>1, <1>2, <1>3, <1>4, Zenon DEF PgRun, Failed

LEMMA ExecuteEffect ==
  ASSUME NEW x, Sane(x), NEW W \in SUBSET Works, NEW r \in PgExecute(x, W)
  PROVE  Runs(x, W, r)
  <1>1. PICK q \in PgOpenTransaction(x) : r \in IF q.ok THEN PgRun(q.s, W) ELSE {q}
    BY Zenon DEF PgExecute, Then
  <1>2. CASE x.auto \/ x.open
    <2>1. q = Did(x)
      BY <1>1, <1>2, Zenon DEF PgOpenTransaction
    <2> QED BY <1>1, <1>2, <2>1, Outcomes, RunEffect
  <1>3. CASE ~(x.auto \/ x.open)
    <2> DEFINE y == [x EXCEPT !.server = "intrans", !.open = TRUE]
    <2>1. CASE q = Threw(x) \/ q = Threw(Lost(x))
      BY <1>1, <2>1, StopsRuns, Outcomes
    <2>2. CASE q = Did(y) /\ x.alive
      <3>1. /\ Follows(x, y) /\ y.durable = x.durable /\ y.pending = x.pending
            /\ y.server = "intrans" /\ y.open /\ x.server = "idle"
        BY <1>3, <2>2, Zenon DEF Sane, Sessions, Follows
      <3>2. Sane(y) /\ r \in PgRun(y, W)
        BY <1>1, <2>2, <3>1, Outcomes DEF Follows
      <3>3. Runs(y, W, r)
        BY <3>1, <3>2, RunEffect, Zenon
      <3> QED BY <3>1, <3>3, RunsOn, Zenon
    <2> QED BY <1>1, <1>3, <2>1, <2>2, Zenon DEF PgOpenTransaction
  <1> QED BY <1>2, <1>3
-----------------------------------------------------------------------------
(* Statements and the cache *)

\* What the calls of the cache make of the statements that exist.
LEMMA HeldTaken ==
  ASSUME NEW c, Good(c), NEW q \in Cached(c)
  PROVE  Held(Taken(c, q)) \subseteq Held(c)
  <1>1. /\ Taken(c, q).entries = [c.entries EXCEPT ![q] = None]
        /\ Taken(c, q).out = [c.out EXCEPT ![c.entries[q]] = q]
    BY DEF Taken
  <1> QED BY <1>1, CacheAssumption DEF Good, Caches, Held, Cached

LEMMA HeldMade ==
  ASSUME NEW c, Good(c), NEW q \in Sqls, NEW st \in Stmts
  PROVE  Held(Made(c, q, st)) \subseteq Held(c) \cup {st}
  <1>1. Made(c, q, st).entries = c.entries /\ Made(c, q, st).out = [c.out EXCEPT ![st] = q]
    BY DEF Made, Good, Caches
  <1> QED BY <1>1 DEF Good, Caches, Held

LEMMA HeldDiscarded ==
  ASSUME NEW c, Good(c), NEW st \in Stmts
  PROVE  /\ Held(Discarded(c, st)) \subseteq Held(c)
         /\ c.out[st] # None => st \notin Held(Discarded(c, st))
  <1>1. Discarded(c, st).entries = c.entries /\ Discarded(c, st).out = [c.out EXCEPT ![st] = None]
    BY DEF Discarded, Good, Caches
  <1>2. c.out[st] # None => \A q \in Sqls : c.entries[q] # st
    BY CacheAssumption DEF Good, Idle, Cached
  <1> QED BY <1>1, <1>2 DEF Good, Caches, Held

LEMMA HeldReturned ==
  ASSUME NEW c, Good(c), NEW st \in Stmts, c.out[st] # None
  PROVE  Held(Returned(c, st)) \subseteq Held(c)
  <1>1. CASE c.out[st] \in Cached(c)
    BY <1>1, HeldDiscarded DEF Returned
  <1>2. CASE c.out[st] \notin Cached(c)
    <2> DEFINE d == Kept(c, st)
    <2>1. d.out = [c.out EXCEPT ![st] = None]
      BY DEF Kept
    <2>2. \A q \in Sqls : d.entries[q] \in {st, None, c.entries[q]}
      BY DEF Kept
    <2>3. Returned(c, st) = d
      BY <1>2 DEF Returned
    <2> HIDE DEF d
    <2> QED BY <2>1, <2>2, <2>3, CacheAssumption DEF Good, Caches, Held
  <1> QED BY <1>1, <1>2

LEMMA HeldCleared ==
  ASSUME NEW c, Good(c)
  PROVE  Held(Cleared(c)) \subseteq Held(c)
  BY CacheAssumption DEF Held, Cleared

\* ~pq_statement() touches only the parses, and none that is still counted on.
Alike(x, y) ==
  /\ y.auto = x.auto /\ y.alive = x.alive /\ y.open = x.open /\ y.server = x.server
  /\ y.pending = x.pending /\ y.durable = x.durable

LEMMA DroppingKeeps ==
  ASSUME NEW x, Sane(x), NEW had, NEW c, x.alive => Held(c) \subseteq x.parsed
  PROVE  /\ Sane(Dropping(x, had, c)) /\ Alike(x, Dropping(x, had, c))
         /\ x.alive => Held(c) \subseteq Dropping(x, had, c).parsed
  BY DEF Dropping, Sane, Sessions, Alike

\* The statement acquire_statement() comes to is in use afterwards.
LEMMA AcquiredGood ==
  ASSUME Good(cache), NEW q \in Sqls, NEW st \in Stmts, Statement(q, st)
  PROVE  Good(Acquired(q, st)) /\ Acquired(q, st).out[st] # None
  <1>1. CASE q \in Cached(cache)
    <2>1. Acquired(q, st) = Taken(cache, q) /\ st = cache.entries[q]
      BY <1>1 DEF Acquired, Statement
    <2>2. Taken(cache, q).out[st] = q
      BY <2>1 DEF Taken, Good, Caches
    <2> QED BY <1>1, <2>1, <2>2, TakenGood, CacheAssumption
  <1>2. CASE q \notin Cached(cache)
    <2>1. Acquired(q, st) = Made(cache, q, st) /\ st \notin Held(cache)
      BY <1>2 DEF Acquired, Statement
    <2>2. Made(cache, q, st).out[st] = q
      BY DEF Made, Good, Caches
    <2> QED BY <2>1, <2>2, MadeGood, CacheAssumption
  <1> QED BY <1>1, <1>2

\* From acquire_statement() to the end of execute(): a session that runs the works,
\* and has the parse of every statement that exists then.
LEMMA SentEffect ==
  ASSUME Sane(s), Good(cache), StatementsParsed,
         NEW q \in Sqls, NEW st \in Stmts, Statement(q, st),
         NEW W \in SUBSET Works, NEW r \in Sent(q, st, W)
  PROVE  /\ Runs(s, W, r)
         /\ r.ok => Held(Acquired(q, st)) \subseteq r.s.parsed
         /\ r.s.alive => Held(Discarded(Acquired(q, st), st)) \subseteq r.s.parsed
  <1> DEFINE c == Acquired(q, st)
  <1>1. PICK p \in IF q \in Cached(cache) THEN {Did(s)} ELSE PgPrepare(s, st) :
          r \in IF p.ok THEN {Threw(p.s)} \cup PgExecute(p.s, W) ELSE {p}
    BY Zenon DEF Sent, Then
  <1>2. Good(c) /\ c.out[st] # None
    BY AcquiredGood
  <1>3. /\ Held(Discarded(c, st)) \subseteq Held(c) /\ st \notin Held(Discarded(c, st))
    BY <1>2, HeldDiscarded
  <1>4. CASE q \in Cached(cache)
    <2>1. p = Did(s) /\ c = Taken(cache, q)
      BY <1>1, <1>4, Zenon DEF Acquired
    <2>2. r = Threw(s) \/ r \in PgExecute(s, W)
      BY <1>1, <2>1, Outcomes
    <2>3. Runs(s, W, r)
      BY <2>2, StopsRuns, ExecuteEffect
    <2>4. Held(c) \subseteq Held(cache)
      BY <1>4, <2>1, HeldTaken
    <2>5. r.s.alive => Held(cache) \subseteq r.s.parsed
      BY <2>3 DEF Runs, Follows, StatementsParsed
    <2>6. r.ok => r.s.alive
      BY <2>3 DEF Runs
    <2> HIDE DEF c
    <2>7. r.s.alive => Held(c) \subseteq r.s.parsed
      BY <2>4, <2>5
    <2>8. r.s.alive => Held(Discarded(c, st)) \subseteq r.s.parsed
      BY <1>3, <2>7
    <2> QED BY <2>3, <2>6, <2>7, <2>8 DEF c
  <1>5. CASE q \notin Cached(cache)
    <2>1. p \in PgPrepare(s, st) /\ c = Made(cache, q, st)
      BY <1>1, <1>5, Zenon DEF Acquired
    <2>2. Held(c) \subseteq Held(cache) \cup {st}
      BY <2>1, HeldMade
    <2>3. Runs(s, W, r) /\ (r.ok => st \in r.s.parsed)
      <3>1. CASE ~p.ok
        <4>1. r = p
          BY <1>1, <3>1
        <4> QED BY <2>1, <3>1, <4>1, PrepareEffect, Zenon
      <3>2. CASE p.ok
        <4>1. /\ Follows(s, p.s) /\ st \in p.s.parsed /\ p.s.alive /\ s.server # "inerror"
              /\ p.s.durable = s.durable /\ p.s.pending = s.pending
              /\ p.s.open = s.open /\ p.s.server = s.server
          BY <2>1, <3>2, PrepareEffect
        <4>2. Sane(p.s)
          BY <4>1 DEF Follows
        <4>3. r = Threw(p.s) \/ r \in PgExecute(p.s, W)
          BY <1>1, <3>2
        <4>4. Runs(p.s, W, r)
          BY <4>2, <4>3, StopsRuns, ExecuteEffect
        <4>5. Runs(s, W, r)
          BY <4>1, <4>4, RunsOn
        <4>6. r.ok => st \in r.s.parsed
          BY <4>1, <4>4 DEF Runs, Follows
        <4> QED BY <4>5, <4>6
      <3> QED BY <3>1, <3>2
    <2>4. r.s.alive => Held(cache) \subseteq r.s.parsed
      BY <2>3 DEF Runs, Follows, StatementsParsed
    <2>5. r.ok => r.s.alive
      BY <2>3 DEF Runs
    <2> HIDE DEF c
    <2>6. r.ok => Held(c) \subseteq r.s.parsed
      BY <2>2, <2>3, <2>4, <2>5
    <2>7. r.s.alive => Held(Discarded(c, st)) \subseteq r.s.parsed
      BY <1>3, <2>2, <2>4
    <2> QED BY <2>3, <2>6, <2>7 DEF c
  <1> QED BY <1>4, <1>5
-----------------------------------------------------------------------------
(* The invariant, by what a step does to the lease's work *)

\* The part of the invariant that a step has to show once the session and the
\* cache it leaves are known to be in order.
LEMMA InvNext ==
  ASSUME Inv, Good(cache'), Sane(s'), mode' = s'.auto,
         s'.alive => Held(cache') \subseteq s'.parsed,
         lease' \in Orms \cup {None}, auto' \in [Orms -> BOOLEAN],
         tx' \in BOOLEAN \cup {None}, spoiled' \in BOOLEAN, refused' \in BOOLEAN,
         unit' \in SUBSET Works, tried' \in SUBSET Works, asked' \in SUBSET Works,
         promised' \in SUBSET Works, stray' \in SUBSET Works,
         s'.pending \subseteq unit', UnitInv', NothingUnasked', CommitHolds'
  PROVE  Inv'
  <1>1. s' \in Sessions /\ mode' \in BOOLEAN /\ cache' \in Caches
    BY DEF Sane, Sessions, Good
  <1>2. TypeOK'
    BY <1>1 DEF TypeOK
  <1>3. StatementsParsed'
    BY DEF StatementsParsed
  <1>4. Good(cache)' /\ Sane(s)'
    OBVIOUS
  <1> QED BY <1>2, <1>3, <1>4 DEF Inv

\* A session at rest has nothing pending, and one that commits by itself rests.
LEMMA RestsSane ==
  /\ \A x : Sane(x) /\ x.server = "idle" => x.pending = {}
  /\ \A x : Sane(x) /\ x.auto => ~x.open /\ x.server = "idle" /\ x.pending = {}
  BY DEF Sane

\* A step that ends, starts or writes nothing.
LEMMA QuietKeeps ==
  ASSUME Inv, Good(cache'), Sane(s'), mode' = s'.auto,
         s'.alive => Held(cache') \subseteq s'.parsed,
         s'.alive = s.alive, s'.open = s.open, s'.server = s.server,
         s'.pending = s.pending, s'.durable = s.durable,
         mode' => mode, lease' \in Orms \cup {None}, auto' \in [Orms -> BOOLEAN],
         tx' \in BOOLEAN \cup {None}, lease' = None => mode' /\ tx' = None,
         UNCHANGED <<unit, spoiled, refused, tried, asked, promised, stray>>
  PROVE  Inv'
  <1>1. UnitInv'
    BY DEF Inv, UnitInv
  <1>2. NothingUnasked' /\ CommitHolds' /\ s'.pending \subseteq unit'
    BY DEF Inv, NothingUnasked, CommitHolds
  <1>3. /\ spoiled' \in BOOLEAN /\ refused' \in BOOLEAN
        /\ unit' \in SUBSET Works /\ tried' \in SUBSET Works /\ asked' \in SUBSET Works
        /\ promised' \in SUBSET Works /\ stray' \in SUBSET Works
    BY DEF Inv, TypeOK
  <1> QED BY <1>1, <1>2, <1>3, InvNext

\* A commit() of the connection.
LEMMA CommittedKeeps ==
  ASSUME Inv, NEW r, Committed(r), Sane(s'), mode' = s'.auto,
         s'.alive => s.alive /\ s.parsed \subseteq s'.parsed,
         s.durable \subseteq s'.durable, s'.server = "idle",
         s'.durable \subseteq s.durable \cup s.pending,
         r.ok => /\ ~s'.open /\ (s.alive \/ ~s.open)
                 /\ (s.server # "inerror" => s.pending \subseteq s'.durable),
         mode' => r.ok, auto' \in [Orms -> BOOLEAN], tx' \in BOOLEAN \cup {None},
         lease # None, UNCHANGED <<cache, lease, tried>>
  PROVE  Inv'
  <1>1. /\ unit' = {} /\ spoiled' = FALSE /\ refused' = ~r.ok /\ asked' = asked \cup unit
        /\ promised' = IF r.ok /\ ~spoiled THEN promised \cup unit ELSE promised
        /\ stray' = stray
    BY DEF Committed
  <1>2. s'.pending = {}
    BY RestsSane
  <1>3. UnitInv'
    BY <1>1, Zenon DEF UnitInv
  <1>4. NothingUnasked'
    BY <1>1 DEF Inv, NothingUnasked
  <1>5. CommitHolds'
    <2>1. r.ok /\ ~spoiled => unit \subseteq s'.durable
      BY DEF Inv, UnitInv
    <2> QED BY <1>1, <2>1 DEF Inv, CommitHolds
  <1>6. /\ spoiled' \in BOOLEAN /\ refused' \in BOOLEAN
        /\ unit' \in SUBSET Works /\ tried' \in SUBSET Works /\ asked' \in SUBSET Works
        /\ promised' \in SUBSET Works /\ stray' \in SUBSET Works /\ lease' \in Orms \cup {None}
    BY <1>1, Zenon DEF Inv, TypeOK
  <1>7. s'.alive => Held(cache') \subseteq s'.parsed
    BY DEF Inv, StatementsParsed
  <1>8. Good(cache')
    BY DEF Inv
  <1> QED BY <1>1, <1>2, <1>3, <1>4, <1>5, <1>6, <1>7, <1>8, InvNext

\* A rollback() of the connection.
LEMMA RolledBackKeeps ==
  ASSUME Inv, NEW r, RolledBack(r), Sane(s'), mode' = s'.auto,
         s'.alive => s.alive /\ s.parsed \subseteq s'.parsed,
         s'.durable = s.durable, s'.server = "idle",
         r.ok => ~s'.open,
         ~r.ok => ~s'.alive /\ s'.open /\ ~mode',
         auto' \in [Orms -> BOOLEAN], tx' \in BOOLEAN \cup {None},
         lease # None, UNCHANGED <<cache, lease, tried>>
  PROVE  Inv'
  <1>1. /\ r.ok => unit' = {} /\ spoiled' = FALSE /\ refused' = FALSE
        /\ ~r.ok => unit' = unit /\ spoiled' = spoiled /\ refused' = refused
        /\ asked' = asked /\ promised' = promised /\ stray' = stray
    BY DEF RolledBack
  <1>2. s'.pending = {}
    BY RestsSane
  <1>3. UnitInv'
    BY <1>1, <1>2 DEF UnitInv
  <1>4. NothingUnasked' /\ CommitHolds'
    BY <1>1 DEF Inv, NothingUnasked, CommitHolds
  <1>5. /\ spoiled' \in BOOLEAN /\ refused' \in BOOLEAN
        /\ unit' \in SUBSET Works /\ tried' \in SUBSET Works /\ asked' \in SUBSET Works
        /\ promised' \in SUBSET Works /\ stray' \in SUBSET Works /\ lease' \in Orms \cup {None}
    BY <1>1, Zenon DEF Inv, TypeOK
  <1>6. s'.alive => Held(cache') \subseteq s'.parsed
    BY DEF Inv, StatementsParsed
  <1>7. Good(cache')
    BY DEF Inv
  <1> QED BY <1>2, <1>3, <1>4, <1>5, <1>6, <1>7, InvNext

\* A statement that ran with works W, or failed.
LEMMA RanKeeps ==
  ASSUME Inv, NEW W \in SUBSET Works, NEW r, s.alive, Runs(s, W, r),
         Ran(r, W), Alike(r.s, s'), Sane(s'), Good(cache'),
         s'.alive => Held(cache') \subseteq s'.parsed,
         UNCHANGED <<mode, lease, auto, tx, refused>>
  PROVE  Inv'
  <1>1. /\ Sane(s) /\ UnitInv /\ mode = s.auto /\ s.pending \subseteq unit
        /\ mode \in BOOLEAN /\ spoiled \in BOOLEAN
    BY DEF Inv, TypeOK
  <1>2. /\ mode' = s'.auto /\ s.durable \subseteq s'.durable /\ (s'.alive => s.alive)
    BY <1>1 DEF Runs, Follows, Alike
  <1>3. mode => s.pending = {} /\ s'.pending = {} /\ s'.server = "idle" /\ ~s'.open
    BY <1>1, <1>2, RestsSane, Zenon
  <1>4. /\ s'.durable \subseteq s.durable \cup W /\ s'.pending \subseteq s.pending \cup W
        /\ ~s.auto /\ ~(s.open /\ s.server = "idle") => s'.durable = s.durable
        /\ ~r.ok => s'.pending \subseteq s.pending
        /\ r.ok => s'.server # "inerror" /\ W \cup s.pending \subseteq s'.pending \cup s'.durable
        /\ s'.alive /\ s'.open /\ s'.server = "idle" => s.open /\ s.server = "idle"
    BY DEF Runs, Alike
  <1>5. /\ tried' = tried \cup W
        /\ asked' = IF mode THEN asked \cup W ELSE asked
        /\ promised' = IF mode /\ r.ok THEN promised \cup W ELSE promised
        /\ unit' = IF ~mode /\ r.ok THEN unit \cup W ELSE unit
        /\ stray' = IF ~mode /\ refused THEN stray \cup W ELSE stray
        /\ spoiled' = (spoiled \/ (~mode /\ ~r.ok))
    BY DEF Ran
  <1>6. s'.pending \subseteq unit'
    BY <1>1, <1>3, <1>4, <1>5
  <1>7. UnitInv'
    <2>1. lease' = None => mode' /\ tx' = None
      BY <1>1 DEF UnitInv
    <2>2. mode' => unit' = {} /\ ~spoiled' /\ ~refused'
      BY <1>1, <1>5, Zenon DEF UnitInv
    <2>3. s'.alive /\ s'.open /\ s'.server = "idle" => refused'
      BY <1>1, <1>4 DEF UnitInv
    <2>4. s'.server = "inerror" => spoiled'
      BY <1>3, <1>4, <1>5, Zenon
    <2>5. ~spoiled' => unit' \subseteq s'.pending \cup s'.durable
      BY <1>1, <1>2, <1>4, <1>5, Zenon DEF UnitInv
    <2> QED BY <2>1, <2>2, <2>3, <2>4, <2>5 DEF UnitInv
  <1>8. NothingUnasked'
    <2>1. ~mode /\ ~refused => s'.durable = s.durable
      BY <1>1, <1>4 DEF UnitInv
    <2> QED BY <1>4, <1>5, <2>1 DEF Inv, NothingUnasked
  <1>9. CommitHolds'
    BY <1>2, <1>3, <1>4, <1>5, Zenon DEF Inv, CommitHolds
  <1>10. /\ lease' \in Orms \cup {None} /\ auto' \in [Orms -> BOOLEAN]
         /\ tx' \in BOOLEAN \cup {None} /\ spoiled' \in BOOLEAN /\ refused' \in BOOLEAN
         /\ unit' \in SUBSET Works /\ tried' \in SUBSET Works /\ asked' \in SUBSET Works
         /\ promised' \in SUBSET Works /\ stray' \in SUBSET Works
    BY <1>5 DEF Inv, TypeOK
  <1> QED BY <1>2, <1>6, <1>7, <1>8, <1>9, <1>10, InvNext

\* A connection that is taken back: the session is new or at rest.
LEMMA IdleKeeps ==
  ASSUME Inv, Good(cache'), Sane(s'), s'.auto, mode' = TRUE, s'.durable = s.durable,
         s'.alive => Held(cache') \subseteq s'.parsed, lease' = None, tx' = None,
         unit' = {}, spoiled' = FALSE, refused' = FALSE,
         UNCHANGED <<auto, tried, asked, promised, stray>>
  PROVE  Inv'
  <1>1. mode' = s'.auto
    BY DEF Sane, Sessions
  <1>2. ~s'.open /\ s'.server = "idle" /\ s'.pending = {}
    BY RestsSane
  <1>3. UnitInv'
    BY <1>2 DEF UnitInv
  <1>4. NothingUnasked' /\ CommitHolds'
    BY DEF Inv, NothingUnasked, CommitHolds
  <1>5. /\ auto' \in [Orms -> BOOLEAN] /\ tried' \in SUBSET Works /\ asked' \in SUBSET Works
        /\ promised' \in SUBSET Works /\ stray' \in SUBSET Works
    BY DEF Inv, TypeOK
  <1> QED BY <1>1, <1>2, <1>3, <1>4, <1>5, InvNext, Zenon

LEMMA NewSane ==
  ASSUME NEW d \in SUBSET Works
  PROVE  Sane(New(d)) /\ New(d).auto /\ New(d).durable = d /\ New(d).alive
  BY Zenon DEF Sane, Sessions, New

LEMMA EmptyHolds == Held(Empty) = {}
  BY CacheAssumption DEF Held, Empty

LEMMA InitInv == Init => Inv
  <1> SUFFICES ASSUME Init PROVE Inv
    OBVIOUS
  <1>1. Good(cache) /\ Held(cache) = {}
    BY EmptyGood, EmptyHolds DEF Init, CacheInit
  <1>2. Sane(s) /\ s.auto = TRUE /\ s.pending = {} /\ s.durable = {} /\ s.open = FALSE
        /\ s.server = "idle"
    BY DEF Init, New, Sane, Sessions
  <1>3. TypeOK
    BY <1>1, <1>2, Zenon DEF Init, TypeOK, Good, Sane
  <1>4. UnitInv /\ NothingUnasked /\ CommitHolds /\ StatementsParsed /\ mode = s.auto
    BY <1>1, <1>2, Zenon DEF Init, UnitInv, NothingUnasked, CommitHolds, StatementsParsed
  <1> QED BY <1>1, <1>2, <1>3, <1>4 DEF Inv
-----------------------------------------------------------------------------
(* The actions *)

LEMMA ConnectKeeps ==
  ASSUME Inv, NEW o \in Orms, Connect(o)
  PROVE  Inv'
  <1>1. /\ lease = None /\ mode = TRUE /\ tx = None /\ Sane(s) /\ s.auto /\ auto[o] \in BOOLEAN
        /\ mode = s.auto
    BY DEF Connect, Inv, UnitInv, TypeOK
  <1>2. PICK r \in IF s.alive THEN Adopt(s, auto[o]) ELSE {Threw(s)} :
          s' = r.s /\ mode' = IF r.ok THEN auto[o] ELSE mode
    BY DEF Connect
  <1>3. /\ Sane(s') /\ mode' = s'.auto /\ s'.parsed = s.parsed
        /\ s'.alive = s.alive /\ s'.open = s.open /\ s'.server = s.server
        /\ s'.pending = s.pending /\ s'.durable = s.durable
    <2>1. CASE ~s.alive
      <3>1. r = Threw(s)
        BY <1>2, <2>1
      <3>2. s' = s /\ mode' = mode
        BY <1>2, <3>1, Outcomes
      <3> QED BY <1>1, <3>2, Zenon
    <2>2. CASE s.alive
      <3>1. PICK p \in IF mode THEN {Did(s)} ELSE PgRollback(s) :
              r \in IF p.ok THEN PgSetAutocommit(p.s, auto[o]) ELSE {p}
        BY <1>2, <2>2, Zenon DEF Adopt, Then
      <3>2. p = Did(s)
        BY <1>1, <3>1, Zenon
      <3>3. r \in PgSetAutocommit(s, auto[o])
        BY <3>1, <3>2, Outcomes
      <3>4. ~s.open
        BY <1>1, RestsSane
      <3>5. r.ok /\ r.s = Switched(s, auto[o])
        BY <1>1, <3>3, <3>4, SwitchPlain
      <3>6. s' = Switched(s, auto[o]) /\ mode' = auto[o]
        BY <1>2, <3>5, Zenon
      <3> QED BY <1>1, <3>4, <3>6, SwitchedSane
    <2> QED BY <2>1, <2>2
  <1>4. lease' = o /\ tx' = tx /\ auto' = auto /\ cache' = cache /\ o # None
    BY UowAssumption DEF Connect
  <1>5. Good(cache') /\ (s'.alive => Held(cache') \subseteq s'.parsed)
    BY <1>3, <1>4 DEF Inv, StatementsParsed
  <1>6. /\ lease' \in Orms \cup {None} /\ auto' \in [Orms -> BOOLEAN]
        /\ tx' \in BOOLEAN \cup {None} /\ lease' # None
    BY <1>4 DEF Inv, TypeOK
  <1>7. UNCHANGED <<unit, spoiled, refused, tried, asked, promised, stray>>
    BY DEF Connect
  <1> QED BY <1>1, <1>3, <1>5, <1>6, <1>7, QuietKeeps

LEMMA AutoCommitKeeps ==
  ASSUME Inv, NEW o \in Orms, NEW on \in BOOLEAN, AutoCommit(o, on)
  PROVE  Inv'
  <1>1. UNCHANGED <<cache, lease, tx, tried>>
    BY DEF AutoCommit
  <1>2. /\ Sane(s) /\ Good(cache) /\ mode = s.auto /\ UnitInv
        /\ (s.alive => Held(cache) \subseteq s.parsed)
        /\ lease \in Orms \cup {None} /\ tx \in BOOLEAN \cup {None}
        /\ auto \in [Orms -> BOOLEAN] /\ [auto EXCEPT ![o] = on] \in [Orms -> BOOLEAN]
    BY DEF Inv, TypeOK, StatementsParsed
  <1>3. CASE ~(lease = o /\ s.alive)
    <2>1. /\ auto' = [auto EXCEPT ![o] = on]
          /\ UNCHANGED <<s, mode, unit, spoiled, refused, asked, promised, stray>>
      BY <1>3 DEF AutoCommit
    <2>2. UNCHANGED <<unit, spoiled, refused, tried, asked, promised, stray>>
      BY <1>1, <2>1
    <2>3. lease' = None => mode' /\ tx' = None
      BY <1>1, <1>2, <2>1 DEF UnitInv
    <2> QED BY <1>1, <1>2, <2>1, <2>2, <2>3, QuietKeeps
  <1>4. CASE lease = o /\ s.alive
    <2>1. PICK r \in PgSetAutocommit(s, on) :
            /\ s' = r.s
            /\ IF r.ok THEN mode' = on /\ auto' = [auto EXCEPT ![o] = on] ELSE UNCHANGED <<mode, auto>>
            /\ IF on THEN Committed(r)
               ELSE UNCHANGED <<unit, spoiled, refused, asked, promised, stray>>
      BY <1>4, Zenon DEF AutoCommit
    <2>2. auto' \in [Orms -> BOOLEAN] /\ lease # None
      BY <1>2, <1>4, <2>1, UowAssumption
    <2>3. CASE on = FALSE
      <3>1. r.ok /\ s' = Switched(s, FALSE) /\ mode' = FALSE
        BY <1>2, <2>1, <2>3, SwitchPlain, Zenon
      <3>2. /\ Sane(s') /\ s'.auto = FALSE /\ s'.parsed = s.parsed
            /\ s'.alive = s.alive /\ s'.open = s.open /\ s'.server = s.server
            /\ s'.pending = s.pending /\ s'.durable = s.durable
        BY <1>2, <3>1, SwitchedSane, Zenon
      <3>3. UNCHANGED <<unit, spoiled, refused, tried, asked, promised, stray>>
        BY <1>1, <2>1, <2>3
      <3> QED BY <1>1, <1>2, <2>2, <3>1, <3>2, <3>3, QuietKeeps, Zenon
    <2>4. CASE on = TRUE
      <3>1. r \in PgSetAutocommit(s, TRUE) /\ Committed(r)
        BY <2>1, <2>4, Zenon
      <3>2. /\ Sane(s') /\ s.durable \subseteq s'.durable /\ s'.server = "idle"
            /\ s'.alive => s.alive /\ s.parsed \subseteq s'.parsed
            /\ s'.durable \subseteq s.durable \cup s.pending
            /\ r.ok => /\ s'.auto /\ ~s'.open /\ (s.alive \/ ~s.open)
                       /\ (s.server # "inerror" => s.pending \subseteq s'.durable)
            /\ ~r.ok => s.open /\ s'.auto = s.auto
        BY <1>2, <2>1, <3>1, SwitchOnEffect, Zenon
      <3>3. s'.auto \in BOOLEAN
        BY <3>2 DEF Sane, Sessions
      <3>4. mode' = s'.auto
        BY <1>2, <2>1, <2>4, <3>2, <3>3, Zenon
      <3>5. mode' => r.ok
        BY <1>2, <2>1, <3>2, RestsSane, Zenon
      <3> QED BY <1>1, <1>2, <2>2, <3>1, <3>2, <3>4, <3>5, CommittedKeeps
    <2> QED BY <2>3, <2>4, Zenon
  <1> QED BY <1>3, <1>4

LEMMA CommitKeeps ==
  ASSUME Inv, Commit
  PROVE  Inv'
  <1>1. PICK r \in PgCommit(s) : s' = r.s /\ Committed(r)
    BY DEF Commit
  <1>2. UNCHANGED <<cache, mode, lease, auto, tx, tried>> /\ lease # None
    BY DEF Commit, Leased
  <1>3. /\ Sane(s) /\ mode = s.auto /\ tx \in BOOLEAN \cup {None} /\ auto \in [Orms -> BOOLEAN]
    BY DEF Inv, TypeOK
  <1>4. /\ Follows(s, s') /\ s'.server = "idle" /\ s'.durable \subseteq s.durable \cup s.pending
        /\ r.ok => /\ ~s'.open /\ (s.alive \/ ~s.open)
                   /\ (s.server # "inerror" => s.pending \subseteq s'.durable)
        /\ ~r.ok => s.open
    BY <1>1, <1>3, CommitEffect
  <1>5. mode' = s'.auto /\ (mode' => r.ok)
    BY <1>2, <1>3, <1>4, RestsSane, Zenon DEF Follows
  <1> QED BY <1>1, <1>2, <1>3, <1>4, <1>5, CommittedKeeps DEF Follows

LEMMA RollbackKeeps ==
  ASSUME Inv, Rollback
  PROVE  Inv'
  <1>1. PICK r \in PgRollback(s) : s' = r.s /\ RolledBack(r)
    BY DEF Rollback
  <1>2. UNCHANGED <<cache, mode, lease, auto, tx, tried>> /\ lease # None
    BY DEF Rollback, Leased
  <1>3. /\ Sane(s) /\ mode = s.auto /\ tx \in BOOLEAN \cup {None} /\ auto \in [Orms -> BOOLEAN]
    BY DEF Inv, TypeOK
  <1>4. /\ Follows(s, s') /\ s'.server = "idle" /\ s'.durable = s.durable
        /\ r.ok => ~s'.open
        /\ ~r.ok => ~s'.alive /\ s.open /\ s'.open
    BY <1>1, <1>3, RollbackEffect
  <1>5. mode' = s'.auto /\ (~r.ok => ~mode')
    BY <1>2, <1>3, <1>4, RestsSane DEF Follows
  <1> QED BY <1>1, <1>2, <1>3, <1>4, <1>5, RolledBackKeeps DEF Follows

LEMMA BeginKeeps ==
  ASSUME Inv, Begin
  PROVE  Inv'
  <1>1. PICK r \in IF mode THEN PgSetAutocommit(s, FALSE) ELSE {Did(s)} :
          s' = r.s /\ mode' = IF r.ok THEN FALSE ELSE mode
    BY Zenon DEF Begin
  <1>2. /\ UNCHANGED <<unit, spoiled, refused, tried, asked, promised, stray>>
        /\ cache' = cache /\ lease' = lease /\ auto' = auto /\ tx' = mode /\ lease # None
    BY DEF Begin, Leased
  <1>3. /\ Sane(s) /\ Good(cache) /\ mode = s.auto /\ mode \in BOOLEAN
        /\ (s.alive => Held(cache) \subseteq s.parsed)
        /\ lease \in Orms \cup {None} /\ auto \in [Orms -> BOOLEAN]
    BY DEF Inv, TypeOK, StatementsParsed
  <1>4. /\ Sane(s') /\ mode' = FALSE /\ s'.auto = FALSE /\ s'.parsed = s.parsed
        /\ s'.alive = s.alive /\ s'.open = s.open /\ s'.server = s.server
        /\ s'.pending = s.pending /\ s'.durable = s.durable
    <2>1. CASE mode = TRUE
      <3>1. r.ok /\ r.s = Switched(s, FALSE)
        BY <1>1, <1>3, <2>1, SwitchPlain, Zenon
      <3>2. s' = Switched(s, FALSE) /\ mode' = FALSE
        BY <1>1, <3>1
      <3> QED BY <1>3, <3>2, SwitchedSane, Zenon
    <2>2. CASE mode = FALSE
      <3>1. s' = s /\ mode' = FALSE
        BY <1>1, <2>2, Outcomes
      <3> QED BY <1>3, <2>2, <3>1
    <2> QED BY <1>3, <2>1, <2>2, Zenon
  <1>5. tx' \in BOOLEAN \cup {None} /\ lease' # None
    BY <1>2, <1>3
  <1> QED BY <1>2, <1>3, <1>4, <1>5, QuietKeeps, Zenon

LEMMA TxCommitKeeps ==
  ASSUME Inv, TxCommit
  PROVE  Inv'
  <1>1. PICK r \in PgCommit(s) :
          /\ Committed(r)
          /\ \E q \in IF r.ok /\ tx THEN PgSetAutocommit(r.s, TRUE) ELSE {r} :
               /\ s' = q.s
               /\ mode' = IF q.ok /\ tx THEN TRUE ELSE mode
               /\ tx' = IF q.ok THEN None ELSE tx
    BY Zenon DEF TxCommit
  <1>2. PICK q \in IF r.ok /\ tx THEN PgSetAutocommit(r.s, TRUE) ELSE {r} :
          /\ s' = q.s
          /\ mode' = IF q.ok /\ tx THEN TRUE ELSE mode
          /\ tx' = IF q.ok THEN None ELSE tx
    BY <1>1, Zenon
  <1>3. UNCHANGED <<cache, lease, auto, tried>> /\ tx # None
    BY DEF TxCommit
  <1>4. /\ Sane(s) /\ mode = s.auto /\ tx \in BOOLEAN /\ auto \in [Orms -> BOOLEAN] /\ lease # None
    BY <1>3 DEF Inv, TypeOK, UnitInv
  <1>5. /\ Follows(s, r.s) /\ r.s.server = "idle" /\ r.s.durable \subseteq s.durable \cup s.pending
        /\ r.ok => /\ ~r.s.open /\ (s.alive \/ ~s.open)
                   /\ (s.server # "inerror" => s.pending \subseteq r.s.durable)
        /\ ~r.ok => s.open
    BY <1>1, <1>4, CommitEffect
  <1>6. /\ Sane(s') /\ mode' = s'.auto /\ s'.durable = r.s.durable /\ s'.server = "idle"
        /\ s'.alive = r.s.alive /\ s'.parsed = r.s.parsed /\ s'.open = r.s.open
        /\ mode' => r.ok
    <2>1. CASE r.ok /\ tx = TRUE
      <3>1. Sane(r.s) /\ ~r.s.open /\ q \in PgSetAutocommit(r.s, TRUE)
        BY <1>2, <1>5, <2>1, Zenon DEF Follows
      <3>2. q.ok /\ q.s = Switched(r.s, TRUE)
        BY <3>1, SwitchPlain, Zenon
      <3>3. s' = Switched(r.s, TRUE) /\ mode' = TRUE
        BY <1>2, <2>1, <3>2
      <3> QED BY <1>5, <2>1, <3>1, <3>3, SwitchedSane, Zenon
    <2>2. CASE ~(r.ok /\ tx = TRUE)
      <3>1. q = r
        BY <1>2, <1>4, <2>2, Zenon
      <3>2. s' = r.s /\ mode' = mode
        BY <1>2, <1>4, <2>2, <3>1, Zenon
      <3>3. mode => ~s.open
        BY <1>4, RestsSane, Zenon
      <3> QED BY <1>4, <1>5, <3>2, <3>3 DEF Follows
    <2> QED BY <2>1, <2>2, Zenon
  <1>7. tx' \in BOOLEAN \cup {None}
    BY <1>2, <1>4
  <1> QED BY <1>1, <1>3, <1>4, <1>5, <1>6, <1>7, CommittedKeeps, Zenon DEF Follows

LEMMA TxRollbackKeeps ==
  ASSUME Inv, NEW gone \in BOOLEAN, TxRollback(gone)
  PROVE  Inv'
  <1>1. PICK r \in PgRollback(s) :
          /\ RolledBack(r)
          /\ \E q \in IF r.ok /\ tx THEN PgSetAutocommit(r.s, TRUE) ELSE {r} :
               /\ s' = q.s
               /\ mode' = IF q.ok /\ tx THEN TRUE ELSE mode
               /\ tx' = IF q.ok \/ gone THEN None ELSE tx
    BY Zenon DEF TxRollback
  <1>2. PICK q \in IF r.ok /\ tx THEN PgSetAutocommit(r.s, TRUE) ELSE {r} :
          /\ s' = q.s
          /\ mode' = IF q.ok /\ tx THEN TRUE ELSE mode
          /\ tx' = IF q.ok \/ gone THEN None ELSE tx
    BY <1>1, Zenon
  <1>3. UNCHANGED <<cache, lease, auto, tried>> /\ tx # None
    BY DEF TxRollback
  <1>4. /\ Sane(s) /\ mode = s.auto /\ tx \in BOOLEAN /\ auto \in [Orms -> BOOLEAN] /\ lease # None
    BY <1>3 DEF Inv, TypeOK, UnitInv
  <1>5. /\ Follows(s, r.s) /\ r.s.server = "idle" /\ r.s.durable = s.durable
        /\ r.ok => ~r.s.open
        /\ ~r.ok => ~r.s.alive /\ s.open /\ r.s.open
    BY <1>1, <1>4, RollbackEffect
  <1>6. /\ Sane(s') /\ mode' = s'.auto /\ s'.durable = r.s.durable /\ s'.server = "idle"
        /\ s'.alive = r.s.alive /\ s'.parsed = r.s.parsed /\ s'.open = r.s.open
        /\ ~r.ok => ~mode'
    <2>1. CASE r.ok /\ tx = TRUE
      <3>1. Sane(r.s) /\ ~r.s.open /\ q \in PgSetAutocommit(r.s, TRUE)
        BY <1>2, <1>5, <2>1, Zenon DEF Follows
      <3>2. q.ok /\ q.s = Switched(r.s, TRUE)
        BY <3>1, SwitchPlain, Zenon
      <3>3. s' = Switched(r.s, TRUE) /\ mode' = TRUE
        BY <1>2, <2>1, <3>2
      <3> QED BY <1>5, <2>1, <3>1, <3>3, SwitchedSane, Zenon
    <2>2. CASE ~(r.ok /\ tx = TRUE)
      <3>1. q = r
        BY <1>2, <1>4, <2>2, Zenon
      <3>2. s' = r.s /\ mode' = mode
        BY <1>2, <1>4, <2>2, <3>1, Zenon
      <3>3. mode => ~s.open
        BY <1>4, RestsSane, Zenon
      <3> QED BY <1>4, <1>5, <3>2, <3>3 DEF Follows
    <2> QED BY <2>1, <2>2, Zenon
  <1>7. tx' \in BOOLEAN \cup {None}
    BY <1>2, <1>4
  <1> QED BY <1>1, <1>3, <1>4, <1>5, <1>6, <1>7, RolledBackKeeps, Zenon DEF Follows

\* The cache and the session after a statement that ran or failed.
LEMMA StatementEnds ==
  ASSUME Sane(s), Good(cache), StatementsParsed,
         NEW q \in Sqls, NEW st \in Stmts, Statement(q, st),
         NEW W \in SUBSET Works, NEW r \in Sent(q, st, W), NEW d,
         \/ d = Discarded(Acquired(q, st), st)
         \/ r.ok /\ d \in {Acquired(q, st), Returned(Acquired(q, st), st)}
  PROVE  LET x == Dropping(r.s, Acquired(q, st), d) IN
         Good(d) /\ Sane(x) /\ Alike(r.s, x) /\ (x.alive => Held(d) \subseteq x.parsed)
  <1> DEFINE c == Acquired(q, st)
             x == Dropping(r.s, c, d)
  <1>1. Good(c) /\ c.out[st] # None
    BY AcquiredGood
  <1>2. /\ Sane(r.s) /\ (r.ok => Held(c) \subseteq r.s.parsed)
        /\ r.s.alive => Held(Discarded(c, st)) \subseteq r.s.parsed
    BY SentEffect, Zenon DEF Runs, Follows
  <1> HIDE DEF c
  <1>3. Good(d) /\ (r.s.alive => Held(d) \subseteq r.s.parsed)
    <2>1. CASE d = Discarded(c, st)
      BY <1>1, <1>2, <2>1, DiscardedGood
    <2>2. CASE r.ok /\ d = c
      BY <1>1, <1>2, <2>2
    <2>3. CASE r.ok /\ d = Returned(c, st)
      BY <1>1, <1>2, <2>3, ReturnedGood, HeldReturned
    <2> QED BY <2>1, <2>2, <2>3, Zenon DEF c
  <1>4. Sane(x) /\ Alike(r.s, x) /\ (r.s.alive => Held(d) \subseteq x.parsed)
    BY <1>2, <1>3, DroppingKeeps, Zenon
  <1> HIDE DEF x
  <1>5. x.alive => Held(d) \subseteq x.parsed
    BY <1>4 DEF Alike
  <1> QED BY <1>3, <1>4, <1>5, Zenon DEF x, c

LEMMA ExecuteUpdateKeeps ==
  ASSUME Inv, NEW q \in Sqls, NEW w \in Works, ExecuteUpdate(q, w)
  PROVE  Inv'
  <1>1. PICK st \in Stmts :
          /\ Statement(q, st)
          /\ \E r \in Sent(q, st, {w}) :
               /\ cache' = IF r.ok THEN Returned(Acquired(q, st), st)
                           ELSE Discarded(Acquired(q, st), st)
               /\ s' = Dropping(r.s, Acquired(q, st), cache')
               /\ Ran(r, {w})
    BY Zenon DEF ExecuteUpdate
  <1>2. PICK r \in Sent(q, st, {w}) :
          /\ cache' = IF r.ok THEN Returned(Acquired(q, st), st)
                      ELSE Discarded(Acquired(q, st), st)
          /\ s' = Dropping(r.s, Acquired(q, st), cache')
          /\ Ran(r, {w})
    BY <1>1
  <1>3. Sane(s) /\ Good(cache) /\ StatementsParsed /\ {w} \in SUBSET Works
    BY DEF Inv
  <1>4. s.alive /\ UNCHANGED <<mode, lease, auto, tx, refused>>
    BY DEF ExecuteUpdate, Leased
  <1>5. Runs(s, {w}, r)
    BY <1>1, <1>3, SentEffect, Zenon
  <1>6. \/ cache' = Discarded(Acquired(q, st), st)
        \/ r.ok /\ cache' \in {Acquired(q, st), Returned(Acquired(q, st), st)}
    BY <1>2
  <1>7. Good(cache') /\ Sane(s') /\ Alike(r.s, s') /\ (s'.alive => Held(cache') \subseteq s'.parsed)
    BY <1>1, <1>2, <1>3, <1>6, StatementEnds, Zenon
  <1> QED BY <1>2, <1>3, <1>4, <1>5, <1>7, RanKeeps, Zenon

LEMMA ExecuteKeeps ==
  ASSUME Inv, NEW q \in Sqls, Execute(q)
  PROVE  Inv'
  <1>1. PICK st \in Stmts :
          /\ Statement(q, st)
          /\ \E r \in Sent(q, st, {}) :
               /\ cache' = IF r.ok THEN Acquired(q, st) ELSE Discarded(Acquired(q, st), st)
               /\ s' = Dropping(r.s, Acquired(q, st), cache')
               /\ Ran(r, {})
    BY Zenon DEF Execute
  <1>2. PICK r \in Sent(q, st, {}) :
          /\ cache' = IF r.ok THEN Acquired(q, st) ELSE Discarded(Acquired(q, st), st)
          /\ s' = Dropping(r.s, Acquired(q, st), cache')
          /\ Ran(r, {})
    BY <1>1
  <1>3. Sane(s) /\ Good(cache) /\ StatementsParsed /\ {} \in SUBSET Works
    BY Zenon DEF Inv
  <1>4. s.alive /\ UNCHANGED <<mode, lease, auto, tx, refused>>
    BY DEF Execute, Leased
  <1>5. Runs(s, {}, r)
    BY <1>1, <1>3, SentEffect, Zenon
  <1>6. \/ cache' = Discarded(Acquired(q, st), st)
        \/ r.ok /\ cache' \in {Acquired(q, st), Returned(Acquired(q, st), st)}
    BY <1>2
  <1>7. Good(cache') /\ Sane(s') /\ Alike(r.s, s') /\ (s'.alive => Held(cache') \subseteq s'.parsed)
    BY <1>1, <1>2, <1>3, <1>6, StatementEnds, Zenon
  <1> QED BY <1>2, <1>3, <1>4, <1>5, <1>7, RanKeeps, Zenon

\* Statements that go between two calls.
LEMMA DropsKeep ==
  ASSUME Inv, Good(cache'), Held(cache') \subseteq Held(cache), s' = Dropping(s, cache, cache'),
         UNCHANGED <<mode, lease, auto, tx, unit, spoiled, refused, tried, asked, promised, stray>>
  PROVE  Inv'
  <1>1. /\ Sane(s) /\ mode = s.auto /\ UnitInv /\ (s.alive => Held(cache') \subseteq s.parsed)
        /\ lease \in Orms \cup {None} /\ tx \in BOOLEAN \cup {None} /\ auto \in [Orms -> BOOLEAN]
    BY DEF Inv, TypeOK, StatementsParsed
  <1>2. Sane(s') /\ Alike(s, s') /\ (s.alive => Held(cache') \subseteq s'.parsed)
    BY <1>1, DroppingKeeps
  <1>3. lease' = None => mode' /\ tx' = None
    BY <1>1 DEF UnitInv
  <1> QED BY <1>1, <1>2, <1>3, QuietKeeps DEF Alike

LEMMA CloseResultKeeps ==
  ASSUME Inv, NEW st \in Stmts, CloseResult(st)
  PROVE  Inv'
  <1>1. Good(cache) /\ cache.out[st] # None /\ cache' = Returned(cache, st)
    BY DEF CloseResult, Inv
  <1>2. Good(cache') /\ Held(cache') \subseteq Held(cache)
    BY <1>1, ReturnedGood, HeldReturned
  <1> QED BY <1>2, DropsKeep DEF CloseResult

LEMMA ClearStatementCacheKeeps ==
  ASSUME Inv, ClearStatementCache
  PROVE  Inv'
  <1>1. Good(cache) /\ cache' = Cleared(cache)
    BY DEF ClearStatementCache, Inv
  <1>2. Good(cache') /\ Held(cache') \subseteq Held(cache)
    BY <1>1, ClearedGood, HeldCleared
  <1> QED BY <1>2, DropsKeep DEF ClearStatementCache

\* A connection that is destroyed leaves what is durable.
LEMMA RetireKeeps ==
  ASSUME Inv, NEW x, Retire(x), Sane(x), x.durable = s.durable, lease' = None, tx' = None,
         unit' = {}, spoiled' = FALSE, refused' = FALSE,
         UNCHANGED <<auto, tried, asked, promised, stray>>
  PROVE  Inv'
  <1>1. s' = New(x.durable) /\ mode' = TRUE /\ cache' = Empty /\ x.durable \in SUBSET Works
    BY DEF Retire, Sane, Sessions
  <1>2. Sane(s') /\ s'.auto /\ s'.durable = s.durable
    BY <1>1, NewSane
  <1>3. Good(cache') /\ Held(cache') \subseteq s'.parsed
    BY <1>1, EmptyGood, EmptyHolds
  <1> QED BY <1>1, <1>2, <1>3, IdleKeeps, Zenon

LEMMA DisconnectKeeps ==
  ASSUME Inv, Disconnect
  PROVE  Inv'
  <1>1. /\ lease' = None /\ tx' = None /\ unit' = {} /\ spoiled' = FALSE /\ refused' = FALSE
        /\ UNCHANGED <<auto, tried, asked, promised, stray>>
    BY DEF Disconnect
  <1>2. PICK r \in Reset(s) :
          IF r.ok THEN s' = r.s /\ mode' = TRUE /\ UNCHANGED cache ELSE Retire(r.s)
    BY DEF Disconnect
  <1>3. Sane(s) /\ Good(cache) /\ mode = s.auto /\ mode \in BOOLEAN /\ StatementsParsed
    BY DEF Inv, TypeOK
  <1>4. CASE mode = TRUE
    <2>1. r = Did(s)
      BY <1>2, <1>4 DEF Reset
    <2>2. s' = s /\ mode' = TRUE /\ cache' = cache
      BY <1>2, <2>1, Outcomes
    <2> QED BY <1>1, <1>3, <1>4, <2>2, IdleKeeps, Zenon DEF StatementsParsed
  <1>5. CASE mode = FALSE
    <2>1. PICK p \in PgRollback(s) : r \in IF p.ok THEN PgSetAutocommit(p.s, TRUE) ELSE {p}
      BY <1>2, <1>5, Zenon DEF Reset, Then
    <2>2. /\ Follows(s, p.s) /\ Sane(p.s) /\ p.s.durable = s.durable /\ (p.ok => ~p.s.open)
      BY <1>3, <2>1, RollbackEffect DEF Follows
    <2>3. CASE p.ok
      <3>1. r.ok /\ r.s = Switched(p.s, TRUE)
        BY <2>1, <2>2, <2>3, SwitchPlain, Zenon
      <3>2. s' = Switched(p.s, TRUE) /\ mode' = TRUE /\ cache' = cache
        BY <1>2, <3>1
      <3>3. /\ Sane(s') /\ s'.auto /\ s'.durable = p.s.durable
            /\ s'.alive = p.s.alive /\ s'.parsed = p.s.parsed
        BY <2>2, <2>3, <3>2, SwitchedOn, Zenon
      <3>4. s'.alive => Held(cache') \subseteq s'.parsed
        BY <1>3, <2>2, <3>2, <3>3, Zenon DEF Follows, StatementsParsed
      <3> QED BY <1>1, <1>3, <2>2, <3>2, <3>3, <3>4, IdleKeeps, Zenon
    <2>4. CASE ~p.ok
      <3>1. Retire(p.s)
        BY <1>2, <2>1, <2>4
      <3> QED BY <1>1, <2>2, <3>1, RetireKeeps, Zenon
    <2> QED BY <2>3, <2>4
  <1> QED BY <1>3, <1>4, <1>5, Zenon

LEMMA HeartbeatKeeps ==
  ASSUME Inv, Heartbeat
  PROVE  Inv'
  <1>1. PICK st \in Stmts :
          /\ Statement(HeartbeatSql, st)
          /\ \E r \in Sent(HeartbeatSql, st, {}) :
               IF r.ok
               THEN /\ cache' = Returned(Acquired(HeartbeatSql, st), st)
                    /\ s' = Dropping(r.s, Acquired(HeartbeatSql, st), cache')
                    /\ UNCHANGED mode
               ELSE Retire(r.s)
    BY Zenon DEF Heartbeat
  <1>2. PICK r \in Sent(HeartbeatSql, st, {}) :
          IF r.ok
          THEN /\ cache' = Returned(Acquired(HeartbeatSql, st), st)
               /\ s' = Dropping(r.s, Acquired(HeartbeatSql, st), cache')
               /\ UNCHANGED mode
          ELSE Retire(r.s)
    BY <1>1
  <1>3. /\ Sane(s) /\ Good(cache) /\ StatementsParsed /\ {} \in SUBSET Works
        /\ HeartbeatSql \in Sqls
    BY UowAssumption DEF Inv
  <1>4. /\ mode = TRUE /\ s.auto /\ lease' = None /\ tx' = None
        /\ unit' = {} /\ spoiled' = FALSE /\ refused' = FALSE
        /\ UNCHANGED <<auto, tried, asked, promised, stray>>
    BY DEF Heartbeat, Inv, UnitInv, TypeOK
  <1>5. Runs(s, {}, r)
    BY <1>1, <1>3, SentEffect, Zenon
  <1>6. Sane(r.s) /\ r.s.auto = s.auto /\ r.s.durable = s.durable
    BY <1>5, Zenon DEF Runs, Follows
  <1>7. CASE r.ok
    <2>1. /\ cache' = Returned(Acquired(HeartbeatSql, st), st)
          /\ s' = Dropping(r.s, Acquired(HeartbeatSql, st), cache') /\ mode' = mode
      BY <1>2, <1>7
    <2>2. \/ cache' = Discarded(Acquired(HeartbeatSql, st), st)
          \/ r.ok /\ cache' \in {Acquired(HeartbeatSql, st), Returned(Acquired(HeartbeatSql, st), st)}
      BY <1>7, <2>1
    <2>3. /\ Good(cache') /\ Sane(s') /\ Alike(r.s, s')
          /\ s'.alive => Held(cache') \subseteq s'.parsed
      BY <1>1, <1>3, <2>1, <2>2, StatementEnds, Zenon
    <2>4. s'.auto /\ s'.durable = s.durable /\ mode' = TRUE
      BY <1>4, <1>6, <2>1, <2>3, Zenon DEF Alike
    <2> QED BY <1>4, <2>3, <2>4, IdleKeeps, Zenon
  <1>8. CASE ~r.ok
    <2>1. Retire(r.s)
      BY <1>2, <1>8
    <2> QED BY <1>4, <1>6, <2>1, RetireKeeps, Zenon
  <1> QED BY <1>7, <1>8
-----------------------------------------------------------------------------
LEMMA StutterInv ==
  ASSUME Inv, UNCHANGED vars
  PROVE  Inv'
  <1>1. /\ cache' = cache /\ s' = s /\ mode' = mode /\ lease' = lease /\ auto' = auto /\ tx' = tx
        /\ UNCHANGED <<unit, spoiled, refused, tried, asked, promised, stray>>
    BY DEF vars
  <1>2. /\ Sane(s) /\ Good(cache) /\ mode = s.auto /\ UnitInv
        /\ (s.alive => Held(cache) \subseteq s.parsed)
        /\ lease \in Orms \cup {None} /\ tx \in BOOLEAN \cup {None} /\ auto \in [Orms -> BOOLEAN]
    BY DEF Inv, TypeOK, StatementsParsed
  <1>3. lease' = None => mode' /\ tx' = None
    BY <1>1, <1>2 DEF UnitInv
  <1> QED BY <1>1, <1>2, <1>3, QuietKeeps

LEMMA NextInv == Inv /\ [Next]_vars => Inv'
  <1> SUFFICES ASSUME Inv, [Next]_vars PROVE Inv'
    OBVIOUS
  <1>1. ASSUME NEW o \in Orms, Connect(o) PROVE Inv'
    BY <1>1, ConnectKeeps
  <1>2. ASSUME NEW o \in Orms, NEW on \in BOOLEAN, AutoCommit(o, on) PROVE Inv'
    BY <1>2, AutoCommitKeeps
  <1>3. CASE Commit
    BY <1>3, CommitKeeps
  <1>4. CASE Rollback
    BY <1>4, RollbackKeeps
  <1>5. CASE Begin
    BY <1>5, BeginKeeps
  <1>6. CASE TxCommit
    BY <1>6, TxCommitKeeps
  <1>7. ASSUME NEW gone \in BOOLEAN, TxRollback(gone) PROVE Inv'
    BY <1>7, TxRollbackKeeps
  <1>8. ASSUME NEW q \in Sqls, Execute(q) PROVE Inv'
    BY <1>8, ExecuteKeeps
  <1>9. ASSUME NEW q \in Sqls, NEW w \in Works, ExecuteUpdate(q, w) PROVE Inv'
    BY <1>9, ExecuteUpdateKeeps
  <1>10. ASSUME NEW st \in Stmts, CloseResult(st) PROVE Inv'
    BY <1>10, CloseResultKeeps
  <1>11. CASE ClearStatementCache
    BY <1>11, ClearStatementCacheKeeps
  <1>12. CASE Disconnect
    BY <1>12, DisconnectKeeps
  <1>13. CASE Heartbeat
    BY <1>13, HeartbeatKeeps
  <1>14. CASE UNCHANGED vars
    BY <1>14, StutterInv
  <1> QED BY <1>1, <1>2, <1>3, <1>4, <1>5, <1>6, <1>7, <1>8, <1>9, <1>10, <1>11, <1>12, <1>13,
             <1>14 DEF Next

LEMMA UnitInvariant == Spec => []Inv
  <1> QED BY InitInv, NextInv, PTL DEF Spec

\* Whatever the leases do and wherever the line breaks, the connection's idea of
\* the mode is its backend's, the backend knows of the server's transaction, and
\* every statement that exists can be run (connection.cpp:156-159,
\* libpq/connection.cpp:169-207, libpq/statement.cpp:160-197).
THEOREM LibraryKnowsServer == Spec => []BeliefsHold
  <1>1. Inv => BeliefsHold
    BY DEF Inv, BeliefsHold, ModesAgree, Sane
  <1> QED BY <1>1, UnitInvariant, PTL

\* Nothing becomes durable that its own lease did not ask for, except writes after
\* a commit() that threw (orm.cpp:22-29, transaction.cpp, pool.cpp:257-279).
THEOREM OnlyAskedIsKept == Spec => []NothingUnasked
  <1>1. Inv => NothingUnasked
    BY DEF Inv
  <1> QED BY <1>1, UnitInvariant, PTL

\* No lease finds work of another in the session's transaction: release() and
\* adopt_connection() leave none behind (pool.cpp:257-279, orm.cpp:22-29).
THEOREM LeasesStartClean == Spec => []LeasesDoNotMix
  <1>1. Inv => LeasesDoNotMix
    <2> SUFFICES ASSUME Inv PROVE LeasesDoNotMix
      OBVIOUS
    <2>1. lease = None => s.auto
      BY DEF Inv, UnitInv
    <2>2. lease = None => s.server = "idle"
      BY <2>1, RestsSane DEF Inv
    <2> QED BY <2>2 DEF Inv, LeasesDoNotMix
  <1> QED BY <1>1, UnitInvariant, PTL

\* What a commit() that returned covered is durable, unless a statement of the
\* unit failed, and so is every write that returned in autocommit mode
\* (connection.cpp:44-62, libpq/connection.cpp:178-192).
THEOREM CommitsAreKept == Spec => []CommitHolds
  <1>1. Inv => CommitHolds
    BY DEF Inv
  <1> QED BY <1>1, UnitInvariant, PTL

\* The statement cache stays in order under the calls connection makes of it,
\* failures, result sets that outlive their lease and heartbeats included
\* (connection.cpp:95-142, statement_cache.hpp:24-80).
THEOREM CacheKeptInUse == Spec => []CacheKept
  <1>1. Inv => CacheKept
    BY DEF Inv, Good, Listed, Idle, CacheKept, CacheListed, CacheIdle
  <1> QED BY <1>1, UnitInvariant, PTL
=============================================================================
