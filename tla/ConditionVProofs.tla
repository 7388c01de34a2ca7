--------------------------- MODULE ConditionVProofs ---------------------------
(***************************************************************************)
(* Proofs about struct conditionv, for every width of the counter.         *)
(*                                                                         *)
(* The invariant says who can be where: the owner of the mutex is the      *)
(* thread between a lock and an unlock, the waiters are the threads asleep,*)
(* a thread in its turn has its parity, and one asleep at its own parity   *)
(* is about to be notified.  The last conjunct alone is not inductive: an  *)
(* update would break it if the updating thread could be asleep, or if     *)
(* both parities could be up at once.                                      *)
(***************************************************************************)
EXTENDS ConditionV, TLAPS

\* The owner is the thread between a lock and the next unlock or wait.
OwnerInv ==
  \A t \in Threads : pc[t] \in {"made", "test", "turn"} <=> owner = t

\* The threads inside condv.wait are the waiters.
WaitingInv == \A t \in Threads : pc[t] = "asleep" <=> t \in waiting

IInv ==
  /\ TypeOK
  /\ OwnerInv
  /\ WaitingInv
  /\ TurnIsExclusive
  /\ NoLostWakeup
-------------------------------------------------------------------------------
\* ++value stays an int and turns the parity, at the wrap as well.
LEMMA IncrementFlips ==
  ASSUME NEW v \in IntMin..IntMax
  PROVE  /\ Increment(v) \in IntMin..IntMax
         /\ IsOdd(Increment(v)) <=> ~IsOdd(v)
<1>0. IntMax \in Nat /\ IntMax % 2 = 1
  BY ConditionVAssumption
<1>1. Increment(v) \in IntMin..IntMax
  BY <1>0 DEF Increment, IntMin
<1>2. CASE v = IntMax
  BY <1>0, <1>2 DEF Increment, IntMin, IsOdd, CRem2
<1>3. CASE v # IntMax /\ v >= 0
  BY <1>0, <1>3 DEF Increment, IntMin, IsOdd, CRem2
<1>4. CASE v # IntMax /\ v < 0
  BY <1>0, <1>4 DEF Increment, IntMin, IsOdd, CRem2
<1>5. QED
  BY <1>0, <1>1, <1>2, <1>3, <1>4 DEF IntMin

\* The predicates' test for a non-zero remainder is the test for an odd number,
\* for the negative values after the wrap too.
LEMMA OddRemainder ==
  ASSUME NEW v \in IntMin..IntMax
  PROVE  IsOdd(v) <=> v % 2 = 1
<1>0. IntMax \in Nat
  BY ConditionVAssumption
<1>1. CASE v >= 0
  BY <1>0, <1>1 DEF IntMin, IsOdd, CRem2
<1>2. CASE v < 0
  BY <1>0, <1>2 DEF IntMin, IsOdd, CRem2
<1>3. QED
  BY <1>0, <1>1, <1>2 DEF IntMin

\* The two threads never have the parity they wait for at the same time.
LEMMA OnePred ==
  ASSUME NEW t \in Threads
  PROVE  /\ Other(t) \in Threads /\ Other(t) # t
         /\ \A u \in Threads : u # t => u = Other(t)
         /\ Pred(Other(t)) <=> ~Pred(t)
BY ConditionVAssumption DEF Threads, Other, Pred

\* The initial state satisfies the invariant.
LEMMA InitIInv == Init => IInv
<1> SUFFICES ASSUME Init PROVE IInv
  OBVIOUS
<1>1. None \notin Threads /\ IntMax \in Nat
  BY ConditionVAssumption DEF Threads
<1>2. TypeOK
  BY <1>1 DEF Init, TypeOK, IntMin, Labels
<1>3. QED
  BY <1>1, <1>2 DEF Init, IInv, OwnerInv, WaitingInv, TurnIsExclusive, NoLostWakeup

\* Every step of either thread preserves it.
LEMMA NextIInv == IInv /\ [Next]_vars => IInv'
<1> SUFFICES ASSUME IInv, [Next]_vars PROVE IInv'
  OBVIOUS
<1> USE DEF IInv, TypeOK, Labels, Goto
<1>0. None \notin Threads
  BY ConditionVAssumption DEF Threads
<1>1. ASSUME NEW t \in Threads, MakeLock(t) PROVE IInv'
  BY <1>0, <1>1 DEF MakeLock, OwnerInv, WaitingInv, TurnIsExclusive,
                    NoLostWakeup, Pred, Other, Threads
<1>2. ASSUME NEW t \in Threads, FirstUnlock(t) PROVE IInv'
  BY <1>0, <1>2 DEF FirstUnlock, OwnerInv, WaitingInv, TurnIsExclusive,
                    NoLostWakeup, Pred, Other, Threads
<1>3. ASSUME NEW t \in Threads, Call(t) PROVE IInv'
  BY <1>0, <1>3 DEF Call, OwnerInv, WaitingInv, TurnIsExclusive,
                    NoLostWakeup, Pred, Other, Threads
<1>4. ASSUME NEW t \in Threads, Lock(t) PROVE IInv'
  BY <1>0, <1>4 DEF Lock, OwnerInv, WaitingInv, TurnIsExclusive,
                    NoLostWakeup, Pred, Other, Threads
<1>5. ASSUME NEW t \in Threads, Proceed(t) PROVE IInv'
  BY <1>0, <1>5 DEF Proceed, OwnerInv, WaitingInv, TurnIsExclusive,
                    NoLostWakeup, Pred, Other, Threads
<1>6. ASSUME NEW t \in Threads, Sleep(t) PROVE IInv'
  BY <1>0, <1>6 DEF Sleep, OwnerInv, WaitingInv, TurnIsExclusive,
                    NoLostWakeup, Pred, Other, Threads
<1>7. ASSUME NEW t \in Threads, SpuriousWake(t) PROVE IInv'
  BY <1>0, <1>7 DEF SpuriousWake, OwnerInv, WaitingInv, TurnIsExclusive,
                    NoLostWakeup, Pred, Other, Threads
<1>8. ASSUME NEW t \in Threads, UpdateUnlock(t) PROVE IInv'
  <2>1. /\ value' \in IntMin..IntMax
        /\ \A u \in Threads : Pred(u)' <=> ~Pred(u)
    BY <1>8, IncrementFlips DEF UpdateUnlock, Pred
  <2>2. Pred(t) /\ owner = t /\ pc[t] = "turn"
    BY <1>8 DEF UpdateUnlock, TurnIsExclusive
  <2>3. TypeOK' /\ OwnerInv' /\ WaitingInv'
    BY <1>0, <1>8, <2>1 DEF UpdateUnlock, OwnerInv, WaitingInv
  <2>4. TurnIsExclusive'
    BY <1>0, <1>8, <2>2 DEF UpdateUnlock, OwnerInv, TurnIsExclusive
  <2>5. ASSUME NEW u \in Threads, (u \in waiting /\ Pred(u))'
        PROVE  (pc[Other(u)] = "notify")'
    <3>1. u # t
      BY <1>8, <2>1, <2>2, <2>5
    <3>2. t = Other(u)
      BY <3>1, OnePred
    <3>3. QED
      BY <1>8, <3>2 DEF UpdateUnlock, Other
  <2>6. QED
    BY <2>3, <2>4, <2>5 DEF NoLostWakeup
<1>9. ASSUME NEW t \in Threads, Unlock(t) PROVE IInv'
  BY <1>0, <1>9 DEF Unlock, OwnerInv, WaitingInv, TurnIsExclusive,
                    NoLostWakeup, Pred, Other, Threads
<1>10. ASSUME NEW t \in Threads, Notify(t) PROVE IInv'
  BY <1>0, <1>10 DEF Notify, OwnerInv, WaitingInv, TurnIsExclusive,
                     NoLostWakeup, Pred, Other, Threads
<1>11. CASE UNCHANGED vars
  BY <1>11 DEF vars, OwnerInv, WaitingInv, TurnIsExclusive, NoLostWakeup, Pred
<1>12. QED
  BY <1>1, <1>2, <1>3, <1>4, <1>5, <1>6, <1>7, <1>8, <1>9, <1>10, <1>11
     DEF Next, Step

\* The invariant holds in every reachable state.
LEMMA SpecIInv == Spec => []IInv
BY InitIInv, NextIInv, PTL DEF Spec
-------------------------------------------------------------------------------
\* Every variable keeps its type; the counter never leaves the int's range
\* (conditionv::update).
THEOREM TypeCorrect == Spec => []TypeOK
BY SpecIInv, PTL DEF IInv

\* A thread let through its wait holds the mutex and has its parity
\* (wait_cond_odd, wait_cond_even).
THEOREM TurnsAreExclusive == Spec => []TurnIsExclusive
BY SpecIInv, PTL DEF IInv

\* A thread asleep at its own parity is about to be notified
\* (update_and_notify).
THEOREM NoWakeupIsLost == Spec => []NoLostWakeup
BY SpecIInv, PTL DEF IInv

\* A fresh object is a fresh turn: the even side moves first.
LEMMA InitRefines == Init => Abstract!Init
BY ConditionVAssumption
   DEF Init, Abstract!Init, Turn, Holder, Threads

\* The end of a wait takes the turn, update_and_notify passes it on, unlock
\* releases the object, and every other step is invisible.
LEMMA NextRefines ==
  IInv /\ [Next]_vars => [Abstract!Next]_(Abstract!turnVars)
<1> SUFFICES ASSUME IInv, [Next]_vars
             PROVE  Abstract!Next \/ UNCHANGED <<Turn, Holder>>
  BY DEF Abstract!turnVars
<1> USE DEF IInv, TypeOK, Labels, Goto
<1>0. Even # Odd /\ None \notin Threads /\ Threads = {Even, Odd}
  BY ConditionVAssumption DEF Threads
<1>1. ASSUME UNCHANGED value,
             \A u \in Threads : pc'[u] = "turn" <=> pc[u] = "turn"
      PROVE  UNCHANGED <<Turn, Holder>>
  BY <1>0, <1>1 DEF Turn, Holder
<1>2. ASSUME NEW t \in Threads,
             MakeLock(t) \/ FirstUnlock(t) \/ Call(t) \/ Lock(t) \/ Sleep(t)
      PROVE  UNCHANGED <<Turn, Holder>>
  BY <1>1, <1>2 DEF MakeLock, FirstUnlock, Call, Lock, Sleep
<1>3. ASSUME NEW t \in Threads, SpuriousWake(t) \/ Notify(t)
      PROVE  UNCHANGED <<Turn, Holder>>
  BY <1>1, <1>3 DEF SpuriousWake, Notify, WaitingInv
<1>4. ASSUME NEW t \in Threads, Proceed(t) PROVE Abstract!Take(t)
  <2>1. Turn = t /\ UNCHANGED Turn
    BY <1>0, <1>4, OddRemainder DEF Proceed, Pred, Turn
  <2>2. \A u \in Threads : pc[u] # "turn"
    BY <1>0, <1>4 DEF Proceed, OwnerInv
  <2>3. Holder = None /\ Holder' = t
    BY <1>0, <1>4, <2>2 DEF Proceed, Holder
  <2>4. QED
    BY <2>1, <2>3 DEF Abstract!Take
<1>5. ASSUME NEW t \in Threads, UpdateUnlock(t) \/ Unlock(t)
      PROVE  Holder = t /\ Holder' = None
  <2>1. pc[t] = "turn" /\ \A u \in Threads \ {t} : pc[u] # "turn"
    BY <1>0, <1>5 DEF UpdateUnlock, Unlock, TurnIsExclusive
  <2>2. QED
    BY <1>0, <1>5, <2>1 DEF UpdateUnlock, Unlock, Holder
<1>6. ASSUME NEW t \in Threads, UpdateUnlock(t) PROVE Abstract!Pass(t)
  <2>1. Turn = t
    BY <1>0, <1>6, OddRemainder DEF UpdateUnlock, TurnIsExclusive, Pred, Turn
  <2>2. value' % 2 = 1 <=> ~(value % 2 = 1)
    BY <1>6, IncrementFlips, OddRemainder DEF UpdateUnlock
  <2>3. Turn' = Abstract!OtherSide(t)
    BY <1>0, <2>1, <2>2 DEF Turn, Abstract!OtherSide
  <2>4. QED
    BY <1>5, <1>6, <2>3 DEF Abstract!Pass
<1>7. ASSUME NEW t \in Threads, Unlock(t) PROVE Abstract!Release(t)
  BY <1>5, <1>7 DEF Unlock, Abstract!Release, Turn
<1>8. CASE UNCHANGED vars
  BY <1>8 DEF vars, Turn, Holder
<1>9. QED
  BY <1>0, <1>2, <1>3, <1>4, <1>6, <1>7, <1>8
     DEF Next, Step, Abstract!Next, Abstract!Sides

\* The mutex, the condition variable and the counter implement turn taking, for
\* every width of the counter (struct conditionv).
THEOREM Refinement == Spec => TakesTurns
BY InitRefines, NextRefines, SpecIInv, PTL DEF Spec, TakesTurns, Abstract!Spec
===============================================================================
