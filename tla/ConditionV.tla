------------------------------ MODULE ConditionV ------------------------------
(***************************************************************************)
(* struct conditionv (inc/mhwimm_sync_mechanism.h): a mutex, a condition   *)
(* variable and a sequence counter, shared by exactly two threads.  One    *)
(* thread waits for an even counter, the other for an odd one; whoever has *)
(* the turn increments the counter, unlocks the mutex and only then calls  *)
(* notify_one.                                                             *)
(*                                                                         *)
(* Every call that can block or be overtaken is a step of its own: the     *)
(* lock, the evaluation of the predicate, falling asleep (which releases   *)
(* the mutex atomically), waking up (spuriously too), the update under the *)
(* lock and the notification after it.                                     *)
(***************************************************************************)
EXTENDS Integers

CONSTANTS
  Even, Odd,    \* the two threads, named for the parity each waits for
  None,         \* no thread
  IntMax        \* largest value of atomic_t (INT_MAX in the program)

ASSUME ConditionVAssumption ==
  /\ Even # Odd
  /\ None \notin {Even, Odd}
  /\ IntMax \in Nat
  /\ IntMax % 2 = 1     \* 2^(w-1) - 1 for a w-bit int

Threads == {Even, Odd}

Other(t) == IF t = Even THEN Odd ELSE Even

VARIABLES
  value,        \* the sequence counter, an int that wraps around
  owner,        \* the thread that has locked lock_data, or None
  waiting,      \* threads blocked inside condv.wait
  pc            \* where each thread is in its use of the object

vars == <<value, owner, waiting, pc>>

IntMin == -IntMax - 1

\* C's remainder takes the sign of the dividend: -3 % 2 is -1.
CRem2(v) == IF v >= 0 THEN v % 2 ELSE -((-v) % 2)

\* Variation: a parity test that compares with 1.
IsOddStrict(v) == CRem2(v) = 1

\* The wait predicates test for non-zero, not for one.
IsOdd(v) == CRem2(v) # 0

\* Variation: a counter that does not wrap.
IncrementUnbounded(v) == v + 1

\* ++value, which wraps in the build (no optimisation, two's complement).
Increment(v) == IF v = IntMax THEN IntMin ELSE v + 1

\* The predicate thread t waits for.
Pred(t) == IF t = Odd THEN IsOdd(value) ELSE ~IsOdd(value)

\* Whose parity it is, by the counter's parity as a number.
Turn == IF value % 2 = 1 THEN Odd ELSE Even
-------------------------------------------------------------------------------
Init ==
  /\ value = 0
  /\ owner = None
  /\ waiting = {}
  /\ pc = [t \in Threads |-> "ctor"]

Goto(t, label) == pc' = [pc EXCEPT ![t] = label]

\* makeup_uniquelock_and_associate_condv: the unique_lock starts out locked.
MakeLock(t) ==
  /\ pc[t] = "ctor"
  /\ owner = None
  /\ owner' = t
  /\ Goto(t, "made")
  /\ UNCHANGED <<value, waiting>>

\* The worker unlocks it at once, before its loop.
FirstUnlock(t) ==
  /\ pc[t] = "made"
  /\ owner' = None
  /\ Goto(t, "out")
  /\ UNCHANGED <<value, waiting>>

\* The thread calls wait_cond_odd or wait_cond_even.
Call(t) ==
  /\ pc[t] = "out"
  /\ Goto(t, "lock")
  /\ UNCHANGED <<value, owner, waiting>>

\* Variation: a woken thread takes the turn without testing again.
LockNoRetest(t) ==
  /\ pc[t] \in {"lock", "woken"}
  /\ owner = None
  /\ owner' = t
  /\ Goto(t, IF pc[t] = "woken" THEN "turn" ELSE "test")
  /\ UNCHANGED <<value, waiting>>

\* unlocked_ul.lock(), or the relock inside condv.wait after a wake-up.
Lock(t) ==
  /\ pc[t] \in {"lock", "woken"}
  /\ owner = None
  /\ owner' = t
  /\ Goto(t, "test")
  /\ UNCHANGED <<value, waiting>>

\* condv.wait returns: the predicate holds and the lock is held.
Proceed(t) ==
  /\ pc[t] = "test"
  /\ Pred(t)
  /\ Goto(t, "turn")
  /\ UNCHANGED <<value, owner, waiting>>

\* condv.wait blocks: unlocking and joining the waiters is one step.
Sleep(t) ==
  /\ pc[t] = "test"
  /\ ~Pred(t)
  /\ owner' = None
  /\ waiting' = waiting \cup {t}
  /\ Goto(t, "asleep")
  /\ UNCHANGED value

\* std::condition_variable may wake a waiter that nobody notified.
SpuriousWake(t) ==
  /\ t \in waiting
  /\ waiting' = waiting \ {t}
  /\ Goto(t, "woken")
  /\ UNCHANGED <<value, owner>>

\* update_and_notify, the part under the lock: ++value and unlock.
UpdateUnlock(t) ==
  /\ pc[t] = "turn"
  /\ value' = Increment(value)
  /\ owner' = None
  /\ Goto(t, "notify")
  /\ UNCHANGED waiting

\* unlock: the thread ends its turn without an update.
Unlock(t) ==
  /\ pc[t] = "turn"
  /\ owner' = None
  /\ Goto(t, "out")
  /\ UNCHANGED <<value, waiting>>

\* Variation: update_and_notify without the notification.
NotifyNobody(t) ==
  /\ pc[t] = "notify"
  /\ Goto(t, "out")
  /\ UNCHANGED <<value, owner, waiting>>

\* Variation: the counter is stepped once more after the unlock.
NotifyAndUpdate(t) ==
  /\ pc[t] = "notify"
  /\ value' = Increment(value)
  /\ Goto(t, "out")
  /\ UNCHANGED <<owner, waiting>>

\* update_and_notify, the part after the unlock: notify_one wakes one waiter
\* of the condition variable, if there is any.
Notify(t) ==
  /\ pc[t] = "notify"
  /\ \/ /\ waiting = {}
        /\ Goto(t, "out")
        /\ UNCHANGED waiting
     \/ \E w \in waiting :
          /\ waiting' = waiting \ {w}
          /\ pc' = [pc EXCEPT ![t] = "out", ![w] = "woken"]
  /\ UNCHANGED <<value, owner>>

Step(t) ==
  \/ MakeLock(t)
  \/ FirstUnlock(t)
  \/ Call(t)
  \/ Lock(t)
  \/ Proceed(t)
  \/ Sleep(t)
  \/ SpuriousWake(t)
  \/ UpdateUnlock(t)
  \/ Unlock(t)
  \/ Notify(t)

Next == \E t \in Threads : Step(t)

Spec == Init /\ [][Next]_vars

\* A runnable thread runs, and a thread that keeps trying to lock a mutex that
\* keeps being released gets it.  Calling the object, ending a turn and waking
\* up spuriously are not promised by anyone.
Fairness ==
  \A t \in Threads :
    /\ SF_vars(MakeLock(t))
    /\ WF_vars(FirstUnlock(t))
    /\ SF_vars(Lock(t))
    /\ WF_vars(Proceed(t))
    /\ WF_vars(Sleep(t))
    /\ WF_vars(Notify(t))

FairSpec == Spec /\ Fairness
-------------------------------------------------------------------------------
Labels ==
  {"ctor", "made", "out", "lock", "test", "asleep", "woken", "turn", "notify"}

\* Every variable keeps its type; the counter stays within the int's range.
TypeOK ==
  /\ value \in IntMin..IntMax
  /\ owner \in Threads \cup {None}
  /\ waiting \in SUBSET Threads
  /\ pc \in [Threads -> Labels]

\* A thread that was let through its wait has the mutex and its own parity, for
\* as long as its turn lasts: nothing the other thread does, late notifications
\* and spurious wake-ups included, makes both sides run at once
\* (wait_cond_odd and wait_cond_even re-test the predicate under the lock).
TurnIsExclusive ==
  \A t \in Threads : pc[t] = "turn" => owner = t /\ Pred(t)

\* No wake-up is lost although notify_one is called after the unlock: a thread
\* asleep while the parity is its own is owed a notification that the other
\* thread is just about to send (update_and_notify).
NoLostWakeup ==
  \A t \in Threads :
    t \in waiting /\ Pred(t) => pc[Other(t)] = "notify"

\* A thread inside a wait whose parity has come up gets its turn, whatever the
\* counter's value: past the wrap an odd counter leaves the remainder -1, and
\* the predicates must still tell the parities apart (wait_cond_odd).
WaiterIsServed ==
  \A t \in Threads :
    (pc[t] \in {"lock", "test", "asleep", "woken"} /\ Turn = t) ~> (pc[t] = "turn")

\* The mutex, condition variable and counter implement turn taking: the turn is
\* the counter's parity, the holder is the thread whose wait has returned.
Holder ==
  IF pc[Even] = "turn" THEN Even ELSE IF pc[Odd] = "turn" THEN Odd ELSE None

Abstract == INSTANCE TurnTaking
  WITH EvenSide <- Even, OddSide <- Odd, Nobody <- None,
       turn <- Turn, holder <- Holder

TakesTurns == Abstract!Spec
===============================================================================
