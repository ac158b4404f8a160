------------------------ MODULE ConnectionPoolProofs ------------------------
(***************************************************************************)
(* Theorems about ConnectionPool, for every finite set of borrowers and of *)
(* connections and every pool size.                                        *)
(***************************************************************************)
EXTENDS ConnectionPool, FiniteSetTheorems, TLAPS

USE ThreadsAssumption, ConnsAssumption, SizeAssumption, IdleLimitAssumption

\* Arithmetic of std::size_t stays within the type.
LEMMA SizeArithmetic ==
  ASSUME NEW n \in 0..SizeMax, NEW k \in 0..SizeMax
  PROVE  Plus1(n) \in 0..SizeMax /\ Minus(n, k) \in 0..SizeMax
  BY DEF Plus1, Minus

\* The number of any set of connections fits a std::size_t.
LEMMA FewConns ==
  ASSUME NEW S \in SUBSET Conns
  PROVE  IsFiniteSet(S) /\ Cardinality(S) \in 0..SizeMax
  <1>1. IsFiniteSet(S) /\ Cardinality(S) <= Cardinality(Conns)
    BY FS_Subset
  <1>2. Cardinality(S) \in Nat /\ Cardinality(Conns) \in Nat
    BY <1>1, FS_CardinalityType
  <1> QED BY <1>1, <1>2

\* A call past the point where it takes a connection over has one in hand.
CurHeld ==
  \A t \in Threads :
    pc[t] \in {"resetting", "returning", "retiring", "lapsing"} => cur[t] \in Conns

\* A new pool is well typed.
LEMMA TypeInit == Init => TypeOK /\ CurHeld
  <1> SUFFICES ASSUME Init PROVE TypeOK /\ CurHeld
    OBVIOUS
  <1>1. lapsed \in BOOLEAN /\ abandoned \in BOOLEAN
    BY Zenon DEF Init
  <1> QED BY <1>1 DEF Init, TypeOK, PcStates, CurHeld

\* Every step of the pool keeps the types: no handler leaves `created` outside
\* std::size_t, and no call holds what is not a connection.
LEMMA TypeStep == TypeOK /\ CurHeld /\ [Next]_vars => TypeOK'
  <1> SUFFICES ASSUME TypeOK, CurHeld, [Next]_vars PROVE TypeOK'
    OBVIOUS
  <1> USE DEF TypeOK, PcStates, lockedVars, passVars, lapseVars
  <1>s. 1 \in 0..SizeMax
    OBVIOUS
  <1>1. ASSUME NEW t \in Threads, AcquireStep(t) PROVE TypeOK'
    <2>1. ASSUME NEW c \in Conns, TakeIdle(t, c) PROVE TypeOK'
      BY <2>1 DEF TakeIdle, AtLoopHead, Goto
    <2>2. ASSUME NEW c \in Conns, DropExpired(t, c) PROVE TypeOK'
      BY <2>2, <1>s, SizeArithmetic, Zenon DEF DropExpired, AtLoopHead, Goto
    <2>3. CASE ClaimSlot(t)
      BY <2>3, <1>s, SizeArithmetic, Zenon DEF ClaimSlot, AtLoopHead, Goto
    <2>4. CASE BeginWait(t)
      BY <2>4 DEF BeginWait, AtLoopHead, Goto
    <2>5. CASE ThrowTimeout(t)
      BY <2>5 DEF ThrowTimeout, Goto
    <2> QED BY <1>1, <2>1, <2>2, <2>3, <2>4, <2>5 DEF AcquireStep
  <1>2. ASSUME NEW t \in Threads, ConnectStep(t) PROVE TypeOK'
    <2>1. ASSUME NEW c \in Conns, ConnectSucceeds(t, c) PROVE TypeOK'
      BY <2>1 DEF ConnectSucceeds, Goto
    <2>2. CASE ConnectFails(t)
      BY <2>2 DEF ConnectFails, Goto
    <2>3. CASE ReturnSlot(t)
      BY <2>3, <1>s, SizeArithmetic, Zenon DEF ReturnSlot, Goto
    <2> QED BY <1>2, <2>1, <2>2, <2>3 DEF ConnectStep
  <1>3. ASSUME NEW t \in Threads, LapseStep(t) PROVE TypeOK'
    <2>1. CASE LapseNotify(t)
      BY <2>1 DEF LapseNotify, Goto, Awoken, Waiters
    <2>2. CASE LapsedCheck(t)
      BY <2>2 DEF LapsedCheck, Goto
    <2>3. CASE LapsedClaim(t)
      <3>1. created' \in 0..SizeMax
        <4>1. seen[t] \in 0..SizeMax
          OBVIOUS
        <4>2. Plus1(created) \in 0..SizeMax /\ Plus1(seen[t]) \in 0..SizeMax
          BY <4>1 DEF Plus1
        <4> QED BY <2>3, <4>2, Zenon DEF LapsedClaim
      <3> QED BY <2>3, <3>1 DEF LapsedClaim, Goto
    <2>4. CASE LapsedWait(t)
      BY <2>4 DEF LapsedWait, Goto
    <2>5. CASE LapsedWake(t)
      <3>1. created' \in 0..SizeMax
        <4>1. created' \in {created, Plus1(created), Minus(created, 1)}
          BY <2>5 DEF LapsedWake, LosePopped
        <4>2. Plus1(created) \in 0..SizeMax /\ Minus(created, 1) \in 0..SizeMax
          BY DEF Plus1, Minus
        <4> QED BY <4>1, <4>2
      <3>2. idle' \in SUBSET Conns /\ aged' \in SUBSET Conns
            /\ open' \in SUBSET Conns /\ manual' \in SUBSET Conns
        BY <2>5 DEF LapsedWake, LosePopped
      <3>3. pc' \in [Threads -> PcStates]
        BY <2>5 DEF LapsedWake, Goto
      <3>4. abandoned' \in BOOLEAN
        BY <2>5, Zenon DEF LapsedWake
      <3> QED BY <2>5, <3>1, <3>2, <3>3, <3>4 DEF LapsedWake
    <2>6. ASSUME NEW c \in Conns, LapsedTake(t, c) PROVE TypeOK'
      BY <2>6, <1>s, SizeArithmetic, Zenon DEF LapsedTake, LosePopped, Goto
    <2> QED BY <1>3, <2>1, <2>2, <2>3, <2>4, <2>5, <2>6 DEF LapseStep
  <1>4. ASSUME NEW t \in Threads, ReleaseStep(t) PROVE TypeOK'
    <2>1. CASE Reset(t)
      BY <2>1 DEF Reset, Goto
    <2>2. CASE ReturnIdle(t)
      BY <2>2 DEF ReturnIdle, Goto, CurHeld
    <2>3. CASE Retire(t)
      BY <2>3, <1>s, SizeArithmetic, Zenon DEF Retire, Goto
    <2>4. CASE NotifyOne(t)
      BY <2>4 DEF NotifyOne, Goto, Awoken, Waiters
    <2> QED BY <1>4, <2>1, <2>2, <2>3, <2>4 DEF ReleaseStep
  <1>5. ASSUME NEW t \in Threads, CallerStep(t) PROVE TypeOK'
    BY <1>5 DEF CallerStep, AcquireCall, DeadlinePasses, WaitEnds, SwitchMode,
       ReleaseCall, Goto, Awoken
  <1>6. CASE PassBegin
    <2>1. Cardinality(idle \cap aged) \in 0..SizeMax
      BY FewConns
    <2> QED BY <1>6, <2>1, SizeArithmetic, Zenon DEF PassBegin
  <1>7. CASE PassStep
    <2>1. CASE CloseEvicted
      BY <2>1 DEF CloseEvicted
    <2>2. CASE NotifyAll
      BY <2>2 DEF NotifyAll, Awoken, Waiters
    <2>3. CASE PassEnd
      BY <2>3 DEF PassEnd
    <2>4. ASSUME NEW c \in Conns, VerdictAlive(c) PROVE TypeOK'
      BY <2>4 DEF VerdictAlive
    <2>5. ASSUME NEW c \in Conns, VerdictDead(c) PROVE TypeOK'
      BY <2>5, <1>s, SizeArithmetic, Zenon DEF VerdictDead
    <2> QED BY <1>7, <2>1, <2>2, <2>3, <2>4, <2>5 DEF PassStep
  <1>8. ASSUME NEW c \in Conns, Age(c) PROVE TypeOK'
    BY <1>8 DEF Age
  <1>9. CASE UNCHANGED vars
    BY <1>9 DEF vars
  <1> QED
    BY <1>1, <1>2, <1>3, <1>4, <1>5, <1>6, <1>7, <1>8, <1>9 DEF Next, CallStep

\* No step loses the connection a call has taken over.
LEMMA CurHeldStep == TypeOK /\ CurHeld /\ [Next]_vars => CurHeld'
  <1> SUFFICES ASSUME TypeOK, CurHeld, [Next]_vars PROVE CurHeld'
    OBVIOUS
  <1> USE DEF TypeOK, CurHeld, Goto
  <1>1. ASSUME NEW t \in Threads, AcquireStep(t) PROVE CurHeld'
    BY <1>1 DEF AcquireStep, TakeIdle, DropExpired, ClaimSlot, BeginWait, ThrowTimeout
  <1>2. ASSUME NEW t \in Threads, ConnectStep(t) PROVE CurHeld'
    BY <1>2 DEF ConnectStep, ConnectSucceeds, ConnectFails, ReturnSlot
  <1>3. ASSUME NEW t \in Threads, LapseStep(t) PROVE CurHeld'
    BY <1>3 DEF LapseStep, LapseNotify, LapsedCheck, LapsedClaim, LapsedWait,
       LapsedWake, LapsedTake, Awoken, Waiters
  <1>4. ASSUME NEW t \in Threads, ReleaseStep(t) PROVE CurHeld'
    BY <1>4 DEF ReleaseStep, Reset, ReturnIdle, Retire, NotifyOne, Awoken, Waiters
  <1>5. ASSUME NEW t \in Threads, CallerStep(t) PROVE CurHeld'
    BY <1>5 DEF CallerStep, AcquireCall, DeadlinePasses, WaitEnds, SwitchMode,
       ReleaseCall, Awoken, Waiters
  <1>6. CASE PassBegin \/ PassStep \/ \E c \in Conns : Age(c)
    BY <1>6 DEF PassBegin, PassStep, CloseEvicted, NotifyAll, PassEnd, VerdictAlive,
       VerdictDead, Age, Awoken, Waiters
  <1>7. CASE UNCHANGED vars
    BY <1>7 DEF vars
  <1> QED
    BY <1>1, <1>2, <1>3, <1>4, <1>5, <1>6, <1>7 DEF Next, CallStep

\* Type correctness of the pool, including the iterations beside the mutex.
THEOREM PoolTypes == Spec => []TypeOK
  BY TypeInit, TypeStep, CurHeldStep, PTL DEF Spec
-----------------------------------------------------------------------------
(* Safety, up to the first iteration beside the mutex *)

\* Where a pool nobody has iterated without the mutex can be: no call is in
\* the unlocked loop, only a release holds a connection between its steps, a
\* connection on its way back to `idle` commits on its own, and a pass between
\* two rounds has nothing out for a heartbeat and nothing left to close.
Shape ==
  /\ \A t \in Threads :
       /\ pc[t] \notin {"lapsing", "lapsed", "lapsedClaim", "lapsedWait", "lapsedAwake"}
       /\ cur[t] # None => pc[t] \in {"resetting", "returning", "retiring", "notify"}
       /\ pc[t] = "returning" => cur[t] \notin manual
  /\ mpc = "rest" => checking = {}
  /\ mpc \in {"rest", "evict"} => doomed = {}
  /\ mpc # "evict" => evicted = {}

Held == idle \cup checking \cup Leased

PoolInv ==
  /\ TypeOK /\ CurHeld
  /\ ~lapsed => Shape
  /\ SlotsAccounted /\ OneOwner /\ CleanIdle /\ NoForgottenConnection

\* A new pool satisfies the invariant.
LEMMA PoolInvInit == Init => PoolInv
  <1> SUFFICES ASSUME Init PROVE PoolInv
    OBVIOUS
  <1>1. TypeOK /\ CurHeld
    BY TypeInit
  <1>2. Leased = {} /\ InHand = {} /\ Carrying = {}
    BY DEF Init, Leased, InHand, Carrying
  <1>3. Shape
    BY DEF Init, Shape
  <1>4. SlotsAccounted
    BY <1>2, FS_EmptySet DEF Init, SlotsAccounted
  <1>5. OneOwner /\ CleanIdle /\ NoForgottenConnection
    BY <1>2 DEF Init, OneOwner, CleanIdle, NoForgottenConnection
  <1> QED BY <1>1, <1>3, <1>4, <1>5 DEF PoolInv

\* What a step does when no call iterates without the mutex, before or in it.
LockedStep ==
  \/ \E t \in Threads :
       \/ \E c \in Conns : TakeIdle(t, c) \/ ConnectSucceeds(t, c) \/ SwitchMode(t, c)
                           \/ ReleaseCall(t, c)
       \/ ClaimSlot(t) \/ BeginWait(t) \/ ThrowTimeout(t) \/ ConnectFails(t)
       \/ ReturnSlot(t) \/ Reset(t) \/ ReturnIdle(t) \/ Retire(t) \/ NotifyOne(t)
       \/ AcquireCall(t) \/ DeadlinePasses(t) \/ WaitEnds(t)
  \/ PassBegin \/ CloseEvicted \/ NotifyAll \/ PassEnd
  \/ \E c \in Conns : VerdictAlive(c) \/ VerdictDead(c) \/ Age(c)
  \/ UNCHANGED vars

\* The history variable `lapsed` is never reset, and while it is FALSE the
\* unlocked loop has no step.
LEMMA OnlyLocked ==
  ASSUME PoolInv, [Next]_vars, ~lapsed'
  PROVE  ~lapsed /\ Shape /\ LockedStep
  <1>1. lapsed => lapsed'
    <2>1. ASSUME NEW t \in Threads, CallStep(t) PROVE lapsed => lapsed'
      BY <2>1, Zenon DEF CallStep, AcquireStep, TakeIdle, DropExpired, ClaimSlot,
         BeginWait, ThrowTimeout, ConnectStep, ConnectSucceeds, ConnectFails,
         ReturnSlot, LapseStep, LapseNotify, LapsedTake, LapsedCheck,
         LapsedClaim, LapsedWait, LapsedWake, ReleaseStep, Reset, ReturnIdle,
         Retire, NotifyOne, lapseVars
    <2>2. ASSUME NEW t \in Threads, CallerStep(t) PROVE lapsed => lapsed'
      BY <2>2, Zenon DEF CallerStep, AcquireCall, DeadlinePasses, WaitEnds, SwitchMode,
         ReleaseCall, lapseVars
    <2>3. CASE PassBegin \/ PassStep \/ \E c \in Conns : Age(c)
      BY <2>3, Zenon DEF PassBegin, PassStep, CloseEvicted, NotifyAll, PassEnd,
         VerdictAlive, VerdictDead, Age, lapseVars
    <2>4. CASE UNCHANGED vars
      BY <2>4 DEF vars
    <2> QED BY <2>1, <2>2, <2>3, <2>4 DEF Next
  <1>2. ~lapsed /\ Shape
    BY <1>1 DEF PoolInv
  <1>3. ASSUME NEW t \in Threads PROVE ~LapseStep(t)
    BY <1>2 DEF Shape, LapseStep, LapseNotify, LapsedTake, LapsedCheck,
       LapsedClaim, LapsedWait, LapsedWake
  <1>4. ASSUME NEW t \in Threads, NEW c \in Conns PROVE ~DropExpired(t, c)
    BY DEF DropExpired
  <1> QED
    BY <1>2, <1>3, <1>4 DEF Next, CallStep, AcquireStep, ConnectStep, ReleaseStep,
       CallerStep, PassStep, LockedStep

\* OneOwner and NoForgottenConnection without their guard.
Places ==
  /\ idle \cap checking = {} /\ (idle \cup checking) \cap Leased = {}
  /\ InHand \cap Held = {}
  /\ (evicted \cup doomed) \cap (Held \cup InHand) = {}
  /\ \A t, u \in Threads : t # u /\ cur[t] # None => cur[t] # cur[u]
  /\ open = Held \cup InHand \cup evicted \cup doomed

\* The shape of the calls and of the pass survives every locked step.
LEMMA ShapeStep ==
  ASSUME TypeOK, Shape, Places, LockedStep
  PROVE  Shape'
  <1> USE DEF TypeOK, Shape, PcStates, lockedVars, passVars
  <1>1. ASSUME NEW t \in Threads, NEW c \in Conns, TakeIdle(t, c) PROVE Shape'
    BY <1>1 DEF TakeIdle, AtLoopHead, Goto
  <1>2. ASSUME NEW t \in Threads, NEW c \in Conns, ConnectSucceeds(t, c) PROVE Shape'
    BY <1>2 DEF ConnectSucceeds, Goto
  <1>3. ASSUME NEW t \in Threads, NEW c \in Conns, SwitchMode(t, c) PROVE Shape'
    BY <1>3 DEF SwitchMode, Places, InHand, Held, Leased
  <1>4. ASSUME NEW t \in Threads, NEW c \in Conns, ReleaseCall(t, c) PROVE Shape'
    BY <1>4 DEF ReleaseCall, Goto
  <1>5. ASSUME NEW t \in Threads, ClaimSlot(t) PROVE Shape'
    BY <1>5 DEF ClaimSlot, AtLoopHead, Goto
  <1>6. ASSUME NEW t \in Threads, BeginWait(t) PROVE Shape'
    BY <1>6 DEF BeginWait, AtLoopHead, Goto
  <1>7. ASSUME NEW t \in Threads, ThrowTimeout(t) PROVE Shape'
    BY <1>7 DEF ThrowTimeout, Goto
  <1>8. ASSUME NEW t \in Threads, ConnectFails(t) PROVE Shape'
    BY <1>8 DEF ConnectFails, Goto
  <1>9. ASSUME NEW t \in Threads, ReturnSlot(t) PROVE Shape'
    BY <1>9 DEF ReturnSlot, Goto
  <1>10. ASSUME NEW t \in Threads, Reset(t) PROVE Shape'
    BY <1>10 DEF Reset, Goto
  <1>11. ASSUME NEW t \in Threads, ReturnIdle(t) PROVE Shape'
    BY <1>11 DEF ReturnIdle, Goto
  <1>12. ASSUME NEW t \in Threads, Retire(t) PROVE Shape'
    BY <1>12 DEF Retire, Goto
  <1>13. ASSUME NEW t \in Threads, NotifyOne(t) PROVE Shape'
    BY <1>13 DEF NotifyOne, Goto, Awoken, Waiters
  <1>14. ASSUME NEW t \in Threads, AcquireCall(t) PROVE Shape'
    BY <1>14 DEF AcquireCall, Goto
  <1>15. ASSUME NEW t \in Threads, DeadlinePasses(t) PROVE Shape'
    BY <1>15 DEF DeadlinePasses
  <1>16. ASSUME NEW t \in Threads, WaitEnds(t) PROVE Shape'
    BY <1>16 DEF WaitEnds, Goto, Awoken, Waiters
  <1>17. CASE PassBegin
    BY <1>17 DEF PassBegin
  <1>18. CASE CloseEvicted
    BY <1>18 DEF CloseEvicted
  <1>19. CASE NotifyAll
    BY <1>19 DEF NotifyAll, Awoken, Waiters
  <1>20. CASE PassEnd
    BY <1>20 DEF PassEnd
  <1>21. ASSUME NEW c \in Conns, VerdictAlive(c) PROVE Shape'
    BY <1>21 DEF VerdictAlive
  <1>22. ASSUME NEW c \in Conns, VerdictDead(c) PROVE Shape'
    BY <1>22 DEF VerdictDead
  <1>23. ASSUME NEW c \in Conns, Age(c) PROVE Shape'
    BY <1>23 DEF Age
  <1>24. CASE UNCHANGED vars
    BY <1>24 DEF vars
  <1> QED
    BY <1>1, <1>2, <1>3, <1>4, <1>5, <1>6, <1>7, <1>8, <1>9, <1>10, <1>11, 
       <1>12, <1>13, <1>14, <1>15, <1>16, <1>17, <1>18, <1>19, <1>20, <1>21, 
       <1>22, <1>23, <1>24, Zenon DEF LockedStep

\* No locked step puts a connection in two places.
LEMMA PlacesStep ==
  ASSUME TypeOK, CurHeld, Shape, Places, LockedStep
  PROVE  Places'
  <1> USE DEF TypeOK, CurHeld, Shape, Places, Held, Leased, InHand, lockedVars, passVars
  <1>1. ASSUME NEW t \in Threads, NEW c \in Conns, TakeIdle(t, c) PROVE Places'
    BY <1>1 DEF TakeIdle, AtLoopHead, Goto
  <1>2. ASSUME NEW t \in Threads, NEW c \in Conns, ConnectSucceeds(t, c) PROVE Places'
    BY <1>2 DEF ConnectSucceeds, Goto
  <1>3. ASSUME NEW t \in Threads, NEW c \in Conns, SwitchMode(t, c) PROVE Places'
    BY <1>3 DEF SwitchMode
  <1>4. ASSUME NEW t \in Threads, NEW c \in Conns, ReleaseCall(t, c) PROVE Places'
    BY <1>4 DEF ReleaseCall, Goto
  <1>5. ASSUME NEW t \in Threads, ClaimSlot(t) PROVE Places'
    BY <1>5 DEF ClaimSlot, AtLoopHead, Goto
  <1>6. ASSUME NEW t \in Threads, BeginWait(t) PROVE Places'
    BY <1>6 DEF BeginWait, AtLoopHead, Goto
  <1>7. ASSUME NEW t \in Threads, ThrowTimeout(t) PROVE Places'
    BY <1>7 DEF ThrowTimeout, Goto
  <1>8. ASSUME NEW t \in Threads, ConnectFails(t) PROVE Places'
    BY <1>8 DEF ConnectFails, Goto
  <1>9. ASSUME NEW t \in Threads, ReturnSlot(t) PROVE Places'
    BY <1>9 DEF ReturnSlot, Goto
  <1>10. ASSUME NEW t \in Threads, Reset(t) PROVE Places'
    BY <1>10 DEF Reset, Goto
  <1>11. ASSUME NEW t \in Threads, ReturnIdle(t) PROVE Places'
    BY <1>11 DEF ReturnIdle, Goto
  <1>12. ASSUME NEW t \in Threads, Retire(t) PROVE Places'
    BY <1>12 DEF Retire, Goto
  <1>13. ASSUME NEW t \in Threads, NotifyOne(t) PROVE Places'
    BY <1>13 DEF NotifyOne, Goto, Awoken, Waiters
  <1>14. ASSUME NEW t \in Threads, AcquireCall(t) PROVE Places'
    BY <1>14 DEF AcquireCall, Goto
  <1>15. ASSUME NEW t \in Threads, DeadlinePasses(t) PROVE Places'
    BY <1>15 DEF DeadlinePasses
  <1>16. ASSUME NEW t \in Threads, WaitEnds(t) PROVE Places'
    BY <1>16 DEF WaitEnds, Goto, Awoken, Waiters
  <1>17. CASE PassBegin
    BY <1>17 DEF PassBegin
  <1>18. CASE CloseEvicted
    BY <1>18 DEF CloseEvicted
  <1>19. CASE NotifyAll
    BY <1>19 DEF NotifyAll, Awoken, Waiters
  <1>20. CASE PassEnd
    BY <1>20 DEF PassEnd
  <1>21. ASSUME NEW c \in Conns, VerdictAlive(c) PROVE Places'
    BY <1>21 DEF VerdictAlive
  <1>22. ASSUME NEW c \in Conns, VerdictDead(c) PROVE Places'
    BY <1>22 DEF VerdictDead
  <1>23. ASSUME NEW c \in Conns, Age(c) PROVE Places'
    BY <1>23 DEF Age
  <1>24. CASE UNCHANGED vars
    BY <1>24 DEF vars
  <1> QED
    BY <1>1, <1>2, <1>3, <1>4, <1>5, <1>6, <1>7, <1>8, <1>9, <1>10, <1>11, 
       <1>12, <1>13, <1>14, <1>15, <1>16, <1>17, <1>18, <1>19, <1>20, <1>21, 
       <1>22, <1>23, <1>24, Zenon DEF LockedStep

\* What the pool may hand out next commits on its own.
Clean == (idle \cup checking) \cap manual = {}

\* No step makes an idle connection unclean or leaves an open one to nobody.
LEMMA CleanStep ==
  ASSUME TypeOK, CurHeld, Shape, Places, Clean, LockedStep
  PROVE  Clean'
  <1> USE DEF TypeOK, Clean, lockedVars, passVars
  <1>1. ASSUME NEW t \in Threads, NEW c \in Conns, TakeIdle(t, c) PROVE Clean'
    BY <1>1 DEF TakeIdle, AtLoopHead, Goto
  <1>2. ASSUME NEW t \in Threads, NEW c \in Conns, ConnectSucceeds(t, c) PROVE Clean'
    BY <1>2 DEF ConnectSucceeds, Goto
  <1>3. ASSUME NEW t \in Threads, NEW c \in Conns, SwitchMode(t, c) PROVE Clean'
    BY <1>3 DEF SwitchMode, Places, Held, Leased
  <1>4. ASSUME NEW t \in Threads, NEW c \in Conns, ReleaseCall(t, c) PROVE Clean'
    BY <1>4 DEF ReleaseCall, Goto
  <1>5. ASSUME NEW t \in Threads, ClaimSlot(t) PROVE Clean'
    BY <1>5 DEF ClaimSlot, AtLoopHead, Goto
  <1>6. ASSUME NEW t \in Threads, BeginWait(t) PROVE Clean'
    BY <1>6 DEF BeginWait, AtLoopHead, Goto
  <1>7. ASSUME NEW t \in Threads, ThrowTimeout(t) PROVE Clean'
    BY <1>7 DEF ThrowTimeout, Goto
  <1>8. ASSUME NEW t \in Threads, ConnectFails(t) PROVE Clean'
    BY <1>8 DEF ConnectFails, Goto
  <1>9. ASSUME NEW t \in Threads, ReturnSlot(t) PROVE Clean'
    BY <1>9 DEF ReturnSlot, Goto
  <1>10. ASSUME NEW t \in Threads, Reset(t) PROVE Clean'
    BY <1>10 DEF Reset, Goto
  <1>11. ASSUME NEW t \in Threads, ReturnIdle(t) PROVE Clean'
    BY <1>11 DEF ReturnIdle, Shape, CurHeld
  <1>12. ASSUME NEW t \in Threads, Retire(t) PROVE Clean'
    BY <1>12 DEF Retire, Goto
  <1>13. ASSUME NEW t \in Threads, NotifyOne(t) PROVE Clean'
    BY <1>13 DEF NotifyOne, Goto, Awoken, Waiters
  <1>14. ASSUME NEW t \in Threads, AcquireCall(t) PROVE Clean'
    BY <1>14 DEF AcquireCall, Goto
  <1>15. ASSUME NEW t \in Threads, DeadlinePasses(t) PROVE Clean'
    BY <1>15 DEF DeadlinePasses
  <1>16. ASSUME NEW t \in Threads, WaitEnds(t) PROVE Clean'
    BY <1>16 DEF WaitEnds, Goto, Awoken, Waiters
  <1>17. CASE PassBegin
    BY <1>17 DEF PassBegin
  <1>18. CASE CloseEvicted
    BY <1>18 DEF CloseEvicted
  <1>19. CASE NotifyAll
    BY <1>19 DEF NotifyAll, Awoken, Waiters
  <1>20. CASE PassEnd
    BY <1>20 DEF PassEnd
  <1>21. ASSUME NEW c \in Conns, VerdictAlive(c) PROVE Clean'
    BY <1>21 DEF VerdictAlive
  <1>22. ASSUME NEW c \in Conns, VerdictDead(c) PROVE Clean'
    BY <1>22 DEF VerdictDead
  <1>23. ASSUME NEW c \in Conns, Age(c) PROVE Clean'
    BY <1>23 DEF Age
  <1>24. CASE UNCHANGED vars
    BY <1>24 DEF vars
  <1> QED
    BY <1>1, <1>2, <1>3, <1>4, <1>5, <1>6, <1>7, <1>8, <1>9, <1>10, <1>11, 
       <1>12, <1>13, <1>14, <1>15, <1>16, <1>17, <1>18, <1>19, <1>20, <1>21, 
       <1>22, <1>23, <1>24 DEF LockedStep

\* SlotsAccounted without its guard.
Slots == created = Cardinality(Held) + Cardinality(Carrying) /\ created <= Size

\* Counting one connection or thread more, or one less.
LEMMA AddOne ==
  ASSUME NEW S, IsFiniteSet(S), NEW x
  PROVE  /\ x \notin S => Cardinality(S \cup {x}) = Cardinality(S) + 1
         /\ x \in S => Cardinality(S \ {x}) = Cardinality(S) - 1
         /\ x \in S => Cardinality(S) >= 1
  <1>1. IsFiniteSet(S \ {x}) /\ Cardinality(S \ {x}) \in Nat /\ Cardinality(S) \in Nat
    BY FS_RemoveElement, FS_CardinalityType
  <1>2. x \notin S => Cardinality(S \cup {x}) = Cardinality(S) + 1
    BY FS_AddElement, Zenon
  <1>3. x \in S => Cardinality(S \ {x}) = Cardinality(S) - 1
    BY FS_RemoveElement, Zenon
  <1> QED BY <1>1, <1>2, <1>3

\* What `created` counts are finite sets.
LEMMA Counted ==
  ASSUME TypeOK
  PROVE  /\ IsFiniteSet(Held) /\ Cardinality(Held) \in Nat
         /\ IsFiniteSet(Carrying) /\ Cardinality(Carrying) \in Nat
  <1>1. Held \in SUBSET Conns
    BY DEF Held, Leased, TypeOK
  <1>2. Carrying \in SUBSET Threads
    BY DEF Carrying
  <1> QED BY <1>1, <1>2, FS_Subset, FS_CardinalityType

\* Each step moves `created` with the places and the calls it counts: a slot
\* changes hands, is claimed below the limit, or is given back.
LEMMA SlotsStep ==
  ASSUME TypeOK, CurHeld, Shape, Places, Slots, LockedStep
  PROVE  Slots'
  <1>1. ASSUME NEW t \in Threads, NEW c \in Conns, TakeIdle(t, c) PROVE Slots'
    <2>1. Held' = Held
      BY <1>1 DEF TakeIdle, Goto, AtLoopHead, TypeOK, CurHeld, Shape, Places, Held, Leased, InHand, lockedVars, passVars
    <2>2. Carrying' = Carrying
      BY <1>1 DEF TakeIdle, Goto, AtLoopHead, TypeOK, CurHeld, Shape, Places, Held, Leased, InHand, lockedVars, passVars, Carrying
    <2>3. created' = created
      BY <1>1 DEF TakeIdle, lockedVars
    <2> QED BY <2>1, <2>2, <2>3, Counted, AddOne DEF Slots
  <1>2. ASSUME NEW t \in Threads, NEW c \in Conns, ConnectSucceeds(t, c) PROVE Slots'
    <2>1. Held' = Held \cup {c} /\ c \notin Held
      BY <1>2 DEF ConnectSucceeds, Goto, TypeOK, CurHeld, Shape, Places, Held, Leased, InHand, lockedVars, passVars
    <2>2. Carrying' = Carrying \ {t} /\ t \in Carrying
      BY <1>2 DEF ConnectSucceeds, Goto, TypeOK, CurHeld, Shape, Places, Held, Leased, InHand, lockedVars, passVars, Carrying
    <2>3. created' = created
      BY <1>2 DEF ConnectSucceeds, lockedVars
    <2>4. Cardinality(Held \cup {c}) = Cardinality(Held) + 1
      BY <2>1, Counted, AddOne
    <2>5. Cardinality(Carrying \ {t}) = Cardinality(Carrying) - 1
      BY <2>2, Counted, AddOne
    <2> QED BY <2>1, <2>2, <2>3, <2>4, <2>5, Counted DEF Slots
  <1>3. ASSUME NEW t \in Threads, NEW c \in Conns, SwitchMode(t, c) PROVE Slots'
    <2>1. Held' = Held /\ created' = created
      BY <1>3 DEF SwitchMode, TypeOK, CurHeld, Shape, Places, Held, Leased, InHand, lockedVars, passVars
    <2>2. Carrying' = Carrying
      BY <1>3 DEF SwitchMode, TypeOK, CurHeld, Shape, Places, Held, Leased, InHand, lockedVars, passVars, Carrying
    <2> QED BY <2>1, <2>2 DEF Slots
  <1>4. ASSUME NEW t \in Threads, NEW c \in Conns, ReleaseCall(t, c) PROVE Slots'
    <2>1. Held' = Held \ {c} /\ c \in Held
      BY <1>4 DEF ReleaseCall, Goto, TypeOK, CurHeld, Shape, Places, Held, Leased, InHand, lockedVars, passVars
    <2>2. Carrying' = Carrying \cup {t} /\ t \notin Carrying
      BY <1>4 DEF ReleaseCall, Goto, TypeOK, CurHeld, Shape, Places, Held, Leased, InHand, lockedVars, passVars, Carrying
    <2>3. created' = created
      BY <1>4, Zenon DEF ReleaseCall, lockedVars
    <2>4. Cardinality(Held \ {c}) = Cardinality(Held) - 1
      BY <2>1, Counted, AddOne
    <2>5. Cardinality(Carrying \cup {t}) = Cardinality(Carrying) + 1
      BY <2>2, Counted, AddOne
    <2> QED BY <2>1, <2>2, <2>3, <2>4, <2>5, Counted DEF Slots
  <1>5. ASSUME NEW t \in Threads, ClaimSlot(t) PROVE Slots'
    <2>1. Held' = Held
      BY <1>5 DEF ClaimSlot, Goto, AtLoopHead, TypeOK, CurHeld, Shape, Places, Held, Leased, InHand, lockedVars, passVars
    <2>2. Carrying' = Carrying \cup {t} /\ t \notin Carrying
      BY <1>5 DEF ClaimSlot, Goto, AtLoopHead, TypeOK, CurHeld, Shape, Places, Held, Leased, InHand, lockedVars, passVars, Carrying
    <2>3. created' = created + 1 /\ created < Size
      BY <1>5, Counted DEF ClaimSlot, Plus1, TypeOK, AtLoopHead
    <2> QED BY <2>1, <2>2, <2>3, Counted, AddOne DEF Slots
  <1>6. ASSUME NEW t \in Threads, BeginWait(t) PROVE Slots'
    <2>1. Held' = Held /\ created' = created
      BY <1>6 DEF BeginWait, AtLoopHead, Goto, TypeOK, CurHeld, Shape, Places, Held, Leased, InHand, lockedVars, passVars
    <2>2. Carrying' = Carrying
      BY <1>6 DEF BeginWait, AtLoopHead, Goto, TypeOK, CurHeld, Shape, Places, Held, Leased, InHand, lockedVars, passVars, Carrying
    <2> QED BY <2>1, <2>2 DEF Slots
  <1>7. ASSUME NEW t \in Threads, ThrowTimeout(t) PROVE Slots'
    <2>1. Held' = Held /\ created' = created
      BY <1>7 DEF ThrowTimeout, Goto, TypeOK, CurHeld, Shape, Places, Held, Leased, InHand, lockedVars, passVars
    <2>2. Carrying' = Carrying
      BY <1>7 DEF ThrowTimeout, Goto, TypeOK, CurHeld, Shape, Places, Held, Leased, InHand, lockedVars, passVars, Carrying
    <2> QED BY <2>1, <2>2 DEF Slots
  <1>8. ASSUME NEW t \in Threads, ConnectFails(t) PROVE Slots'
    <2>1. Held' = Held /\ created' = created
      BY <1>8 DEF ConnectFails, Goto, TypeOK, CurHeld, Shape, Places, Held, Leased, InHand, lockedVars, passVars
    <2>2. Carrying' = Carrying
      BY <1>8 DEF ConnectFails, Goto, TypeOK, CurHeld, Shape, Places, Held, Leased, InHand, lockedVars, passVars, Carrying
    <2> QED BY <2>1, <2>2 DEF Slots
  <1>9. ASSUME NEW t \in Threads, ReturnSlot(t) PROVE Slots'
    <2>1. Held' = Held
      BY <1>9 DEF ReturnSlot, Goto, TypeOK, CurHeld, Shape, Places, Held, Leased, InHand, lockedVars, passVars
    <2>2. Carrying' = Carrying \ {t} /\ t \in Carrying
      BY <1>9 DEF ReturnSlot, Goto, TypeOK, CurHeld, Shape, Places, Held, Leased, InHand, lockedVars, passVars, Carrying
    <2>3. created' = created - 1
      <3>1. Cardinality(Carrying) >= 1
        BY <2>1, <2>2, Counted, AddOne, Zenon
      <3>2. created >= 1 /\ created \in Nat
        BY <3>1, Counted DEF Slots
      <3> QED BY <1>9, <3>2, Zenon DEF ReturnSlot, Minus
    <2> QED BY <2>1, <2>2, <2>3, Counted, AddOne DEF Slots
  <1>10. ASSUME NEW t \in Threads, Reset(t) PROVE Slots'
    <2>1. Held' = Held /\ created' = created
      BY <1>10 DEF Reset, Goto, TypeOK, CurHeld, Shape, Places, Held, Leased, InHand, lockedVars, passVars
    <2>2. Carrying' = Carrying
      BY <1>10 DEF Reset, Goto, TypeOK, CurHeld, Shape, Places, Held, Leased, InHand, lockedVars, passVars, Carrying
    <2> QED BY <2>1, <2>2 DEF Slots
  <1>11. ASSUME NEW t \in Threads, ReturnIdle(t) PROVE Slots'
    <2>1. Held' = Held \cup {cur[t]} /\ cur[t] \notin Held
      BY <1>11 DEF ReturnIdle, Goto, TypeOK, CurHeld, Shape, Places, Held, Leased, InHand, lockedVars, passVars
    <2>2. Carrying' = Carrying \ {t} /\ t \in Carrying
      BY <1>11 DEF ReturnIdle, Goto, TypeOK, CurHeld, Shape, Places, Held, Leased, InHand, lockedVars, passVars, Carrying
    <2>3. created' = created
      BY <1>11, Zenon DEF ReturnIdle, lockedVars
    <2>4. Cardinality(Held \cup {cur[t]}) = Cardinality(Held) + 1
      BY <2>1, Counted, AddOne
    <2>5. Cardinality(Carrying \ {t}) = Cardinality(Carrying) - 1
      BY <2>2, Counted, AddOne
    <2> QED BY <2>1, <2>2, <2>3, <2>4, <2>5, Counted DEF Slots
  <1>12. ASSUME NEW t \in Threads, Retire(t) PROVE Slots'
    <2>1. Held' = Held
      BY <1>12 DEF Retire, Goto, TypeOK, CurHeld, Shape, Places, Held, Leased, InHand, lockedVars, passVars
    <2>2. Carrying' = Carrying \ {t} /\ t \in Carrying
      BY <1>12 DEF Retire, Goto, TypeOK, CurHeld, Shape, Places, Held, Leased, InHand, lockedVars, passVars, Carrying
    <2>3. created' = created - 1
      <3>1. Cardinality(Carrying) >= 1
        BY <2>1, <2>2, Counted, AddOne, Zenon
      <3>2. created >= 1 /\ created \in Nat
        BY <3>1, Counted DEF Slots
      <3> QED BY <1>12, <3>2, Zenon DEF Retire, Minus
    <2> QED BY <2>1, <2>2, <2>3, Counted, AddOne DEF Slots
  <1>13. ASSUME NEW t \in Threads, NotifyOne(t) PROVE Slots'
    <2>1. Held' = Held /\ created' = created
      BY <1>13 DEF NotifyOne, Goto, Awoken, Waiters, TypeOK, CurHeld, Shape, Places, Held, Leased, InHand, lockedVars, passVars
    <2>2. Carrying' = Carrying
      BY <1>13 DEF NotifyOne, Goto, Awoken, Waiters, TypeOK, CurHeld, Shape, Places, Held, Leased, InHand, lockedVars, passVars, Carrying
    <2> QED BY <2>1, <2>2 DEF Slots
  <1>14. ASSUME NEW t \in Threads, AcquireCall(t) PROVE Slots'
    <2>1. Held' = Held /\ created' = created
      BY <1>14 DEF AcquireCall, Goto, TypeOK, CurHeld, Shape, Places, Held, Leased, InHand, lockedVars, passVars
    <2>2. Carrying' = Carrying
      BY <1>14 DEF AcquireCall, Goto, TypeOK, CurHeld, Shape, Places, Held, Leased, InHand, lockedVars, passVars, Carrying
    <2> QED BY <2>1, <2>2 DEF Slots
  <1>15. ASSUME NEW t \in Threads, DeadlinePasses(t) PROVE Slots'
    <2>1. Held' = Held /\ created' = created
      BY <1>15 DEF DeadlinePasses, TypeOK, CurHeld, Shape, Places, Held, Leased, InHand, lockedVars, passVars
    <2>2. Carrying' = Carrying
      BY <1>15 DEF DeadlinePasses, TypeOK, CurHeld, Shape, Places, Held, Leased, InHand, lockedVars, passVars, Carrying
    <2> QED BY <2>1, <2>2 DEF Slots
  <1>16. ASSUME NEW t \in Threads, WaitEnds(t) PROVE Slots'
    <2>1. Held' = Held /\ created' = created
      BY <1>16 DEF WaitEnds, Goto, Awoken, Waiters, TypeOK, CurHeld, Shape, Places, Held, Leased, InHand, lockedVars, passVars
    <2>2. Carrying' = Carrying
      BY <1>16 DEF WaitEnds, Goto, Awoken, Waiters, TypeOK, CurHeld, Shape, Places, Held, Leased, InHand, lockedVars, passVars, Carrying
    <2> QED BY <2>1, <2>2 DEF Slots
  <1>17. CASE PassBegin
    <2> DEFINE Gone == idle \cap aged
    <2>1. Held' = Held \ Gone /\ Gone \in SUBSET Held /\ Held \cap Gone = Gone
      BY <1>17 DEF PassBegin, TypeOK, CurHeld, Shape, Places, Held, Leased, InHand, lockedVars, passVars
    <2>2. Carrying' = Carrying
      BY <1>17 DEF PassBegin, Carrying
    <2>3. IsFiniteSet(Gone) /\ Cardinality(Gone) \in Nat /\ Cardinality(Gone) <= Cardinality(Held)
      BY <2>1, Counted, FS_Subset, FS_CardinalityType
    <2>4. created' = Minus(created, Cardinality(Gone))
      BY <1>17 DEF PassBegin
    <2> HIDE DEF Gone
    <2>5. Cardinality(Held \ Gone) = Cardinality(Held) - Cardinality(Gone)
      BY <2>1, Counted, FS_Difference, Zenon
    <2> QED BY <2>1, <2>2, <2>3, <2>4, <2>5, Counted DEF Minus, Slots
  <1>18. CASE CloseEvicted
    <2>1. Held' = Held /\ created' = created
      BY <1>18 DEF CloseEvicted, TypeOK, CurHeld, Shape, Places, Held, Leased, InHand, lockedVars, passVars
    <2>2. Carrying' = Carrying
      BY <1>18 DEF CloseEvicted, TypeOK, CurHeld, Shape, Places, Held, Leased, InHand, lockedVars, passVars, Carrying
    <2> QED BY <2>1, <2>2 DEF Slots
  <1>19. CASE NotifyAll
    <2>1. Held' = Held /\ created' = created
      BY <1>19 DEF NotifyAll, Awoken, Waiters, TypeOK, CurHeld, Shape, Places, Held, Leased, InHand, lockedVars, passVars
    <2>2. Carrying' = Carrying
      BY <1>19 DEF NotifyAll, Awoken, Waiters, TypeOK, CurHeld, Shape, Places, Held, Leased, InHand, lockedVars, passVars, Carrying
    <2> QED BY <2>1, <2>2 DEF Slots
  <1>20. CASE PassEnd
    <2>1. Held' = Held /\ created' = created
      BY <1>20 DEF PassEnd, TypeOK, CurHeld, Shape, Places, Held, Leased, InHand, lockedVars, passVars
    <2>2. Carrying' = Carrying
      BY <1>20 DEF PassEnd, TypeOK, CurHeld, Shape, Places, Held, Leased, InHand, lockedVars, passVars, Carrying
    <2> QED BY <2>1, <2>2 DEF Slots
  <1>21. ASSUME NEW c \in Conns, VerdictAlive(c) PROVE Slots'
    <2>1. Held' = Held /\ created' = created
      BY <1>21 DEF VerdictAlive, TypeOK, CurHeld, Shape, Places, Held, Leased, InHand, lockedVars, passVars
    <2>2. Carrying' = Carrying
      BY <1>21 DEF VerdictAlive, TypeOK, CurHeld, Shape, Places, Held, Leased, InHand, lockedVars, passVars, Carrying
    <2> QED BY <2>1, <2>2 DEF Slots
  <1>22. ASSUME NEW c \in Conns, VerdictDead(c) PROVE Slots'
    <2>1. Held' = Held \ {c} /\ c \in Held
      BY <1>22 DEF VerdictDead, TypeOK, CurHeld, Shape, Places, Held, Leased, InHand, lockedVars, passVars
    <2>2. Carrying' = Carrying
      BY <1>22 DEF VerdictDead, TypeOK, CurHeld, Shape, Places, Held, Leased, InHand, lockedVars, passVars, Carrying
    <2>3. created' = created - 1
      <3>1. Cardinality(Held) >= 1
        BY <2>1, <2>2, Counted, AddOne, Zenon
      <3>2. created >= 1 /\ created \in Nat
        BY <3>1, Counted DEF Slots
      <3> QED BY <1>22, <3>2 DEF VerdictDead, Minus
    <2> QED BY <2>1, <2>2, <2>3, Counted, AddOne DEF Slots
  <1>23. ASSUME NEW c \in Conns, Age(c) PROVE Slots'
    <2>1. Held' = Held /\ created' = created
      BY <1>23 DEF Age, TypeOK, CurHeld, Shape, Places, Held, Leased, InHand, lockedVars, passVars
    <2>2. Carrying' = Carrying
      BY <1>23 DEF Age, TypeOK, CurHeld, Shape, Places, Held, Leased, InHand, lockedVars, passVars, Carrying
    <2> QED BY <2>1, <2>2 DEF Slots
  <1>24. CASE UNCHANGED vars
    BY <1>24, Zenon DEF vars, Slots, Held, Leased, Carrying
  <1> QED
    BY <1>1, <1>2, <1>3, <1>4, <1>5, <1>6, <1>7, <1>8, <1>9, <1>10, <1>11, 
       <1>12, <1>13, <1>14, <1>15, <1>16, <1>17, <1>18, <1>19, <1>20, <1>21, 
       <1>22, <1>23, <1>24 DEF LockedStep

\* Threads that will look at `idle` or will wake one that does.
Alert == {t \in Threads : pc[t] \in {"awake", "notify"}}

\* While somebody waits there are at least as many of those as idle entries,
\* or the pass is about to wake everyone.
Budget ==
  (\E t \in Threads : pc[t] = "waiting") /\ mpc # "tell" =>
    Cardinality(idle) <= Cardinality(Alert)

\* Those about to look, and the idle entries, are finite sets.
LEMMA AlertCount ==
  ASSUME TypeOK
  PROVE  /\ IsFiniteSet(Alert) /\ Cardinality(Alert) \in Nat
         /\ IsFiniteSet(idle) /\ Cardinality(idle) \in Nat
         /\ Cardinality(Alert') \in Nat
  <1>1. Alert \in SUBSET Threads /\ Alert' \in SUBSET Threads
    BY DEF Alert
  <1>2. idle \in SUBSET Conns
    BY DEF TypeOK
  <1> QED BY <1>1, <1>2, FS_Subset, FS_CardinalityType

\* Each entry that becomes idle brings its notification with it, and only a
\* thread that finds `idle` empty goes to sleep.
LEMMA BudgetStep ==
  ASSUME TypeOK, CurHeld, Shape, Places, Budget, LockedStep
  PROVE  Budget'
  <1>1. ASSUME NEW t \in Threads, NEW c \in Conns, TakeIdle(t, c) PROVE Budget'
    <2>1. Alert' = Alert \ {t} /\ idle' = idle \ {c} /\ c \in idle
      BY <1>1 DEF TakeIdle, Goto, TypeOK, Alert
    <2>2. (\E u \in Threads : pc'[u] = "waiting") => \E u \in Threads : pc[u] = "waiting"
      BY <1>1 DEF TakeIdle, Goto, TypeOK
    <2>3. mpc' = mpc
      BY <1>1 DEF TakeIdle, passVars
    <2>4. Cardinality(idle') = Cardinality(idle) - 1
      BY <2>1, AlertCount, AddOne
    <2>5. Cardinality(Alert \ {t}) >= Cardinality(Alert) - 1
      <3>1. CASE t \in Alert
        BY <3>1, AlertCount, AddOne
      <3>2. CASE t \notin Alert
        <4>1. Alert \ {t} = Alert
          BY <3>2
        <4> QED BY <4>1, AlertCount
      <3> QED BY <3>1, <3>2
    <2> QED BY <2>1, <2>2, <2>3, <2>4, <2>5, AlertCount DEF Budget
  <1>2. ASSUME NEW t \in Threads, NEW c \in Conns, ConnectSucceeds(t, c) PROVE Budget'
    <2>1. idle' = idle /\ Alert' = Alert
      BY <1>2 DEF ConnectSucceeds, Goto, TypeOK, Alert, lockedVars
    <2>2. (\E u \in Threads : pc'[u] = "waiting") => \E u \in Threads : pc[u] = "waiting"
      BY <1>2 DEF ConnectSucceeds, Goto, TypeOK
    <2>3. mpc' # "tell" => mpc # "tell"
      BY <1>2 DEF ConnectSucceeds, passVars
    <2> QED BY <2>1, <2>2, <2>3 DEF Budget
  <1>3. ASSUME NEW t \in Threads, NEW c \in Conns, SwitchMode(t, c) PROVE Budget'
    <2>1. idle' = idle /\ Alert' = Alert
      BY <1>3 DEF SwitchMode, TypeOK, Alert, lockedVars
    <2>2. (\E u \in Threads : pc'[u] = "waiting") => \E u \in Threads : pc[u] = "waiting"
      BY <1>3 DEF SwitchMode, TypeOK
    <2>3. mpc' # "tell" => mpc # "tell"
      BY <1>3 DEF SwitchMode, passVars
    <2> QED BY <2>1, <2>2, <2>3 DEF Budget
  <1>4. ASSUME NEW t \in Threads, NEW c \in Conns, ReleaseCall(t, c) PROVE Budget'
    <2>1. idle' = idle /\ Alert' = Alert
      BY <1>4 DEF ReleaseCall, Goto, TypeOK, Alert, lockedVars
    <2>2. (\E u \in Threads : pc'[u] = "waiting") => \E u \in Threads : pc[u] = "waiting"
      BY <1>4 DEF ReleaseCall, Goto, TypeOK
    <2>3. mpc' # "tell" => mpc # "tell"
      BY <1>4 DEF ReleaseCall, passVars
    <2> QED BY <2>1, <2>2, <2>3 DEF Budget
  <1>5. ASSUME NEW t \in Threads, ClaimSlot(t) PROVE Budget'
    <2>1. idle = {} /\ idle' = {}
      BY <1>5 DEF ClaimSlot, lockedVars
    <2> QED BY <2>1, FS_EmptySet, AlertCount DEF Budget
  <1>6. ASSUME NEW t \in Threads, BeginWait(t) PROVE Budget'
    <2>1. idle = {} /\ idle' = {}
      BY <1>6 DEF BeginWait, lockedVars
    <2> QED BY <2>1, FS_EmptySet, AlertCount DEF Budget
  <1>7. ASSUME NEW t \in Threads, ThrowTimeout(t) PROVE Budget'
    <2>1. idle = {} /\ idle' = {}
      BY <1>7 DEF ThrowTimeout, lockedVars
    <2> QED BY <2>1, FS_EmptySet, AlertCount DEF Budget
  <1>8. ASSUME NEW t \in Threads, ConnectFails(t) PROVE Budget'
    <2>1. idle' = idle /\ Alert' = Alert
      BY <1>8 DEF ConnectFails, Goto, TypeOK, Alert, lockedVars
    <2>2. (\E u \in Threads : pc'[u] = "waiting") => \E u \in Threads : pc[u] = "waiting"
      BY <1>8 DEF ConnectFails, Goto, TypeOK
    <2>3. mpc' # "tell" => mpc # "tell"
      BY <1>8 DEF ConnectFails, passVars
    <2> QED BY <2>1, <2>2, <2>3 DEF Budget
  <1>9. ASSUME NEW t \in Threads, ReturnSlot(t) PROVE Budget'
    <2>1. Alert' = Alert \cup {t} /\ t \notin Alert
      BY <1>9 DEF ReturnSlot, Goto, TypeOK, Alert, Shape
    <2>2. idle' = idle
      BY <1>9, Zenon DEF ReturnSlot, lockedVars
    <2>3. (\E u \in Threads : pc'[u] = "waiting") => \E u \in Threads : pc[u] = "waiting"
      BY <1>9 DEF ReturnSlot, Goto, TypeOK
    <2>4. mpc' = mpc
      BY <1>9 DEF ReturnSlot, passVars
    <2>5. Cardinality(Alert \cup {t}) = Cardinality(Alert) + 1
      BY <2>1, AlertCount, AddOne
    <2> QED BY <2>1, <2>2, <2>3, <2>4, <2>5, AlertCount DEF Budget
  <1>10. ASSUME NEW t \in Threads, Reset(t) PROVE Budget'
    <2>1. idle' = idle /\ Alert' = Alert
      BY <1>10 DEF Reset, Goto, TypeOK, Alert, lockedVars
    <2>2. (\E u \in Threads : pc'[u] = "waiting") => \E u \in Threads : pc[u] = "waiting"
      BY <1>10 DEF Reset, Goto, TypeOK
    <2>3. mpc' # "tell" => mpc # "tell"
      BY <1>10 DEF Reset, passVars
    <2> QED BY <2>1, <2>2, <2>3 DEF Budget
  <1>11. ASSUME NEW t \in Threads, ReturnIdle(t) PROVE Budget'
    <2>1. Alert' = Alert \cup {t} /\ t \notin Alert
      BY <1>11 DEF ReturnIdle, Goto, TypeOK, Alert, Shape
    <2>2. idle' = idle \cup {cur[t]}
      BY <1>11 DEF ReturnIdle, lockedVars
    <2>3. (\E u \in Threads : pc'[u] = "waiting") => \E u \in Threads : pc[u] = "waiting"
      BY <1>11 DEF ReturnIdle, Goto, TypeOK
    <2>4. mpc' = mpc
      BY <1>11 DEF ReturnIdle, passVars
    <2>5. Cardinality(Alert \cup {t}) = Cardinality(Alert) + 1
      BY <2>1, AlertCount, AddOne
    <2>6. cur[t] \notin idle
      BY <1>11 DEF ReturnIdle, CurHeld, Places, InHand, Held, TypeOK
    <2>7. Cardinality(idle') = Cardinality(idle) + 1
      BY <2>2, <2>6, AlertCount, AddOne
    <2> QED BY <2>1, <2>3, <2>4, <2>5, <2>7, AlertCount DEF Budget
  <1>12. ASSUME NEW t \in Threads, Retire(t) PROVE Budget'
    <2>1. Alert' = Alert \cup {t} /\ t \notin Alert
      BY <1>12 DEF Retire, Goto, TypeOK, Alert, Shape
    <2>2. idle' = idle
      BY <1>12 DEF Retire, lockedVars
    <2>3. (\E u \in Threads : pc'[u] = "waiting") => \E u \in Threads : pc[u] = "waiting"
      BY <1>12 DEF Retire, Goto, TypeOK
    <2>4. mpc' = mpc
      BY <1>12 DEF Retire, passVars
    <2>5. Cardinality(Alert \cup {t}) = Cardinality(Alert) + 1
      BY <2>1, AlertCount, AddOne
    <2> QED BY <2>1, <2>2, <2>3, <2>4, <2>5, AlertCount DEF Budget
  <1>13. ASSUME NEW t \in Threads, NotifyOne(t) PROVE Budget'
    <2>1. CASE Waiters = {}
      <3>1. \A u \in Threads : pc'[u] # "waiting"
        BY <1>13, <2>1 DEF NotifyOne, Goto, Waiters, TypeOK
      <3> QED BY <3>1 DEF Budget
    <2>2. CASE Waiters # {}
      <3>1. PICK w \in Waiters : pc' = [pc EXCEPT ![t] = "ready", ![w] = Awoken(w)]
        BY <1>13, <2>2 DEF NotifyOne
      <3>2. /\ w \in Threads /\ pc[w] = "waiting" /\ Awoken(w) = "awake"
            /\ pc[t] = "notify" /\ w # t
        BY <1>13, <3>1 DEF NotifyOne, Waiters, Shape, Awoken
      <3>3. Alert' = (Alert \ {t}) \cup {w} /\ t \in Alert /\ w \notin Alert \ {t}
        BY <3>1, <3>2 DEF Alert, TypeOK
      <3>4. idle' = idle /\ mpc' = mpc
        BY <1>13 DEF NotifyOne, lockedVars, passVars
      <3>5. IsFiniteSet(Alert \ {t}) /\ Cardinality(Alert \ {t}) = Cardinality(Alert) - 1
        BY <3>3, AlertCount, FS_RemoveElement
      <3>6. Cardinality(Alert') = Cardinality(Alert \ {t}) + 1
        BY <3>3, <3>5, AddOne, Zenon
      <3>7. Cardinality(Alert') = Cardinality(Alert)
        BY <3>5, <3>6, AlertCount
      <3> QED BY <3>2, <3>4, <3>7, AlertCount DEF Budget
    <2> QED BY <2>1, <2>2
  <1>14. ASSUME NEW t \in Threads, AcquireCall(t) PROVE Budget'
    <2>1. idle' = idle /\ Alert' = Alert
      BY <1>14 DEF AcquireCall, Goto, TypeOK, Alert, lockedVars
    <2>2. (\E u \in Threads : pc'[u] = "waiting") => \E u \in Threads : pc[u] = "waiting"
      BY <1>14 DEF AcquireCall, Goto, TypeOK
    <2>3. mpc' # "tell" => mpc # "tell"
      BY <1>14 DEF AcquireCall, passVars
    <2> QED BY <2>1, <2>2, <2>3 DEF Budget
  <1>15. ASSUME NEW t \in Threads, DeadlinePasses(t) PROVE Budget'
    <2>1. idle' = idle /\ Alert' = Alert
      BY <1>15 DEF DeadlinePasses, TypeOK, Alert, lockedVars
    <2>2. (\E u \in Threads : pc'[u] = "waiting") => \E u \in Threads : pc[u] = "waiting"
      BY <1>15 DEF DeadlinePasses, TypeOK
    <2>3. mpc' # "tell" => mpc # "tell"
      BY <1>15 DEF DeadlinePasses, passVars
    <2> QED BY <2>1, <2>2, <2>3 DEF Budget
  <1>16. ASSUME NEW t \in Threads, WaitEnds(t) PROVE Budget'
    <2>1. Alert' = Alert \cup {t} /\ t \notin Alert
      BY <1>16 DEF WaitEnds, Goto, Awoken, Waiters, TypeOK, Alert, Shape
    <2>2. idle' = idle
      BY <1>16 DEF WaitEnds, lockedVars
    <2>3. (\E u \in Threads : pc'[u] = "waiting") => \E u \in Threads : pc[u] = "waiting"
      BY <1>16 DEF WaitEnds, Goto, Awoken, Waiters, TypeOK
    <2>4. mpc' = mpc
      BY <1>16 DEF WaitEnds, passVars
    <2>5. Cardinality(Alert \cup {t}) = Cardinality(Alert) + 1
      BY <2>1, AlertCount, AddOne
    <2> QED BY <2>1, <2>2, <2>3, <2>4, <2>5, AlertCount DEF Budget
  <1>17. CASE PassBegin
    <2>1. idle' = {}
      BY <1>17 DEF PassBegin
    <2> QED BY <2>1, FS_EmptySet, AlertCount DEF Budget
  <1>18. CASE CloseEvicted
    <2>1. idle' = idle /\ Alert' = Alert
      BY <1>18 DEF CloseEvicted, TypeOK, Alert, lockedVars
    <2>2. (\E u \in Threads : pc'[u] = "waiting") => \E u \in Threads : pc[u] = "waiting"
      BY <1>18 DEF CloseEvicted, TypeOK
    <2>3. mpc' # "tell" => mpc # "tell"
      BY <1>18 DEF CloseEvicted, passVars
    <2> QED BY <2>1, <2>2, <2>3 DEF Budget
  <1>19. CASE NotifyAll
    BY <1>19 DEF NotifyAll, Waiters, Awoken, Budget, TypeOK
  <1>20. CASE PassEnd
    <2>1. idle' = idle /\ Alert' = Alert
      BY <1>20 DEF PassEnd, TypeOK, Alert, lockedVars
    <2>2. (\E u \in Threads : pc'[u] = "waiting") => \E u \in Threads : pc[u] = "waiting"
      BY <1>20 DEF PassEnd, TypeOK
    <2>3. mpc' # "tell" => mpc # "tell"
      BY <1>20 DEF PassEnd, passVars
    <2> QED BY <2>1, <2>2, <2>3 DEF Budget
  <1>21. ASSUME NEW c \in Conns, VerdictAlive(c) PROVE Budget'
    BY <1>21 DEF VerdictAlive, Budget
  <1>22. ASSUME NEW c \in Conns, VerdictDead(c) PROVE Budget'
    BY <1>22 DEF VerdictDead, Budget
  <1>23. ASSUME NEW c \in Conns, Age(c) PROVE Budget'
    <2>1. idle' = idle /\ Alert' = Alert
      BY <1>23 DEF Age, TypeOK, Alert, lockedVars
    <2>2. (\E u \in Threads : pc'[u] = "waiting") => \E u \in Threads : pc[u] = "waiting"
      BY <1>23 DEF Age, TypeOK
    <2>3. mpc' # "tell" => mpc # "tell"
      BY <1>23 DEF Age, passVars
    <2> QED BY <2>1, <2>2, <2>3 DEF Budget
  <1>24. CASE UNCHANGED vars
    BY <1>24 DEF vars, Budget, Alert
  <1> QED
    BY <1>1, <1>2, <1>3, <1>4, <1>5, <1>6, <1>7, <1>8, <1>9, <1>10, <1>11, 
       <1>12, <1>13, <1>14, <1>15, <1>16, <1>17, <1>18, <1>19, <1>20, <1>21, 
       <1>22, <1>23, <1>24 DEF LockedStep

-----------------------------------------------------------------------------
(* The theorems *)

\* The guarded properties are the unguarded facts of the step lemmas.
LEMMA Unguarded ==
  PoolInv <=>
    TypeOK /\ CurHeld /\ (~lapsed => Shape /\ Places /\ Clean /\ Slots)
  <1>1. OneOwner /\ NoForgottenConnection <=> (~lapsed => Places)
    BY DEF OneOwner, NoForgottenConnection, Places, Held
  <1>2. (~lapsed => Places) => (CleanIdle <=> (~lapsed => Clean))
    BY DEF CleanIdle, Clean, Places, Held
  <1>3. SlotsAccounted <=> (~lapsed => Slots)
    BY DEF SlotsAccounted, Slots, Held
  <1> QED BY <1>1, <1>2, <1>3 DEF PoolInv

\* Every step keeps the invariant, up to the first iteration beside the mutex.
LEMMA PoolInvStep == PoolInv /\ [Next]_vars => PoolInv'
  <1> SUFFICES ASSUME PoolInv, [Next]_vars PROVE PoolInv'
    OBVIOUS
  <1>1. TypeOK /\ CurHeld
    BY DEF PoolInv
  <1>2. TypeOK' /\ CurHeld'
    BY <1>1, TypeStep, CurHeldStep
  <1>3. ASSUME ~lapsed' PROVE Shape' /\ Places' /\ Clean' /\ Slots'
    <2>1. ~lapsed /\ Shape /\ LockedStep
      BY <1>3, OnlyLocked
    <2>2. Places /\ Clean /\ Slots
      BY <2>1, Unguarded
    <2> QED BY <1>1, <2>1, <2>2, ShapeStep, PlacesStep, CleanStep, SlotsStep
  <1>4. (Unguarded)'
    BY Unguarded, PTL
  <1> QED BY <1>2, <1>3, <1>4

\* The invariant is inductive.
LEMMA PoolInvAlways == Spec => []PoolInv
  BY PoolInvInit, PoolInvStep, PTL DEF Spec

\* `created` counts every slot in use once and never passes the pool's size.
THEOREM PoolSlots == Spec => []SlotsAccounted
  <1>1. PoolInv => SlotsAccounted
    BY DEF PoolInv
  <1> QED BY <1>1, PoolInvAlways, PTL

\* No connection is ever in two hands.
THEOREM PoolOwners == Spec => []OneOwner
  <1>1. PoolInv => OneOwner
    BY DEF PoolInv
  <1> QED BY <1>1, PoolInvAlways, PTL

\* Whatever the pool can hand out next is open and has no pending work.
THEOREM PoolClean == Spec => []CleanIdle
  <1>1. PoolInv => CleanIdle
    BY DEF PoolInv
  <1> QED BY <1>1, PoolInvAlways, PTL

\* No open connection is forgotten.
THEOREM PoolForgetsNone == Spec => []NoForgottenConnection
  <1>1. PoolInv => NoForgottenConnection
    BY DEF PoolInv
  <1> QED BY <1>1, PoolInvAlways, PTL

\* No waiter is left asleep beside an idle connection, for any number of
\* waiters and entries.
THEOREM PoolWakes == Spec => []NoSleepBesideIdle
  <1> DEFINE Inv == PoolInv /\ (~lapsed => Budget)
  <1>1. Init => Inv
    <2> SUFFICES ASSUME Init PROVE Inv
      OBVIOUS
    <2>1. \A t \in Threads : pc[t] # "waiting"
      BY DEF Init
    <2> QED BY <2>1, PoolInvInit DEF Budget
  <1>2. Inv /\ [Next]_vars => Inv'
    <2> SUFFICES ASSUME PoolInv, ~lapsed => Budget, [Next]_vars PROVE Inv'
      OBVIOUS
    <2>1. PoolInv'
      BY PoolInvStep
    <2>2. ASSUME ~lapsed' PROVE Budget'
      <3>1. ~lapsed /\ Shape /\ LockedStep
        BY <2>2, OnlyLocked
      <3>2. TypeOK /\ CurHeld /\ Places /\ Budget
        BY <3>1, Unguarded
      <3> QED BY <3>1, <3>2, BudgetStep
    <2> QED BY <2>1, <2>2
  <1>3. Inv => NoSleepBesideIdle
    <2> SUFFICES ASSUME PoolInv, Budget, ~lapsed, idle # {}, mpc # "tell",
                        NEW u \in Threads, pc[u] = "waiting"
                 PROVE  \E t \in Threads : pc[t] \in {"awake", "notify"}
      BY DEF NoSleepBesideIdle
    <2>1. TypeOK
      BY DEF PoolInv
    <2>2. Cardinality(idle) # 0
      BY <2>1, AlertCount, FS_EmptySet
    <2>3. Cardinality(Alert) # 0
      BY <2>1, <2>2, AlertCount DEF Budget
    <2>4. Alert # {}
      BY <2>3, FS_EmptySet
    <2> QED BY <2>4 DEF Alert
  <1> QED BY <1>1, <1>2, <1>3, PTL DEF Spec

\* A heartbeat never makes idle_count() dip.
THEOREM PoolCount == Spec => HeartbeatKeepsCount
  <1> DEFINE Dip == idle_count' < idle_count =>
        \/ \E t \in Threads : pc'[t] # pc[t]
        \/ created' < created
        \/ lapsed
  <1>1. PoolInv /\ [Next]_vars => [Dip]_vars
    <2> SUFFICES ASSUME PoolInv, [Next]_vars, ~lapsed,
                        \A t \in Threads : pc'[t] = pc[t],
                        ~(created' < created)
                 PROVE  ~(idle_count' < idle_count)
      OBVIOUS
    <2>1. TypeOK /\ Shape /\ Places /\ Slots
      BY Unguarded
    <2>2. /\ Cardinality(idle) \in Nat /\ Cardinality(checking) \in Nat
          /\ IsFiniteSet(idle) /\ IsFiniteSet(checking)
      BY <2>1, FewConns DEF TypeOK
    <2>3. \/ PassBegin
          \/ \E c \in Conns : VerdictAlive(c) \/ VerdictDead(c)
          \/ idle' = idle /\ checking' = checking
      <3>1. ASSUME NEW t \in Threads, CallStep(t) PROVE FALSE
        <4>1. CASE AcquireStep(t)
          BY <2>1, <4>1, Zenon DEF AcquireStep, TakeIdle, DropExpired, ClaimSlot, BeginWait,
             ThrowTimeout, AtLoopHead, Goto, TypeOK
        <4>2. CASE ConnectStep(t)
          BY <2>1, <4>2, Zenon DEF ConnectStep, ConnectSucceeds, ConnectFails, ReturnSlot,
             Goto, TypeOK
        <4>3. CASE LapseStep(t)
          BY <2>1, <4>3, Zenon DEF LapseStep, LapseNotify, LapsedTake, LapsedCheck,
             LapsedClaim, LapsedWait, LapsedWake, Shape
        <4>4. CASE Reset(t) \/ ReturnIdle(t) \/ Retire(t)
          BY <2>1, <4>4, Zenon DEF Reset, ReturnIdle, Retire, Goto, TypeOK
        <4>5. CASE NotifyOne(t)
          <5>1. pc[t] = "notify" /\ pc'[t] = "ready"
            BY <2>1, <4>5, Zenon DEF NotifyOne, Goto, Waiters, TypeOK
          <5> QED BY <5>1, Zenon
        <4> QED BY <3>1, <4>1, <4>2, <4>3, <4>4, <4>5, Zenon DEF CallStep, ReleaseStep
      <3>2. ASSUME NEW t \in Threads, CallerStep(t)
            PROVE  idle' = idle /\ checking' = checking
        BY <3>2, Zenon DEF CallerStep, AcquireCall, DeadlinePasses, WaitEnds, SwitchMode,
           ReleaseCall, lockedVars, passVars
      <3>3. CASE PassStep \/ \E c \in Conns : Age(c)
        BY <3>3 DEF PassStep, CloseEvicted, NotifyAll, PassEnd, Age, lockedVars, passVars
      <3>4. CASE UNCHANGED vars
        BY <3>4 DEF vars
      <3> QED BY <3>1, <3>2, <3>3, <3>4, Zenon DEF Next
    <2>4. CASE PassBegin
      <3> DEFINE Gone == idle \cap aged
      <3>1. Gone \in SUBSET Conns /\ idle \ aged = idle \ Gone /\ idle \cap Gone = Gone
        BY <2>1 DEF TypeOK
      <3>2. IsFiniteSet(Gone) /\ Cardinality(Gone) \in Nat
        BY <3>1, FewConns
      <3>3. created' = Minus(created, Cardinality(Gone))
        BY <2>4 DEF PassBegin
      <3>4. Cardinality(Gone) <= created
        <4>1. Gone \in SUBSET Held
          BY DEF Held
        <4> QED BY <4>1, <2>1, Counted, FS_Subset, <3>2 DEF Slots
      <3>5. Cardinality(Gone) = 0
        BY <3>2, <3>3, <3>4, <2>1 DEF Minus, TypeOK
      <3>6. Gone = {}
        BY <3>2, <3>5, FS_EmptySet
      <3>7. idle' = {} /\ checking' = idle /\ checking = {}
        BY <2>4, <3>6, <2>1 DEF PassBegin, Shape
      <3> QED BY <3>7, <2>2, FS_EmptySet DEF idle_count, under_maintenance
    <2>5. ASSUME NEW c \in Conns, VerdictAlive(c) PROVE ~(idle_count' < idle_count)
      <3>1. /\ idle' = idle \cup {c} /\ c \notin idle
            /\ checking' = checking \ {c} /\ c \in checking
        BY <2>5, <2>1, Zenon DEF VerdictAlive, Places
      <3>2. Cardinality(idle') = Cardinality(idle) + 1
        BY <3>1, <2>2, AddOne
      <3>3. Cardinality(checking') = Cardinality(checking) - 1
        BY <3>1, <2>2, AddOne
      <3> QED BY <3>2, <3>3, <2>2 DEF idle_count, under_maintenance
    <2>6. ASSUME NEW c \in Conns, VerdictDead(c) PROVE FALSE
      <3>1. c \in Held /\ created' = Minus(created, 1)
        BY <2>6, Zenon DEF VerdictDead, Held
      <3>2. Cardinality(Held) >= 1
        BY <3>1, <2>1, Counted, AddOne, Zenon
      <3>3. created >= 1
        BY <3>2, <2>1, Counted DEF Slots
      <3> QED BY <3>1, <3>3, <2>1 DEF Minus, TypeOK
    <2>7. CASE idle' = idle /\ checking' = checking
      BY <2>7, <2>2 DEF idle_count, under_maintenance
    <2> QED BY <2>3, <2>4, <2>5, <2>6, <2>7
  <1> QED BY <1>1, PoolInvAlways, PTL DEF Spec, HeartbeatKeepsCount
=============================================================================
