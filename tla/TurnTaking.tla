------------------------------ MODULE TurnTaking ------------------------------
(***************************************************************************)
(* What a `conditionv' promises the two threads that share it: they take   *)
(* turns.  One side owns the even values of the sequence counter, the      *)
(* other the odd ones; a side that has its turn may hold the object, and   *)
(* it either passes the turn on or lets go of the object and keeps it.     *)
(*                                                                         *)
(* This is the abstract specification.  ConditionV shows that the mutex,   *)
(* the condition variable and the counter implement it; MhwimmThreads      *)
(* takes two instances of it, one between UI and Executor and one between  *)
(* Executor and Database.                                                  *)
(***************************************************************************)
CONSTANTS
  EvenSide,     \* the thread that calls wait_cond_even
  OddSide,      \* the thread that calls wait_cond_odd
  Nobody        \* no thread: the object is free

VARIABLES
  turn,         \* the side whose parity the counter has
  holder        \* the side that returned from its wait and has not let go

turnVars == <<turn, holder>>

Sides == {EvenSide, OddSide}

OtherSide(t) == IF t = EvenSide THEN OddSide ELSE EvenSide

TypeOK ==
  /\ turn \in Sides
  /\ holder \in Sides \cup {Nobody}

\* The counter starts at zero, so the even side moves first.
Init ==
  /\ turn = EvenSide
  /\ holder = Nobody

\* A wait returns: the parity is the caller's and the mutex is now its own.
Take(t) ==
  /\ turn = t
  /\ holder = Nobody
  /\ holder' = t
  /\ UNCHANGED turn

\* update_and_notify: the turn goes to the other side.
Pass(t) ==
  /\ holder = t
  /\ holder' = Nobody
  /\ turn' = OtherSide(t)

\* unlock: the object is free again, the turn stays where it is.
Release(t) ==
  /\ holder = t
  /\ holder' = Nobody
  /\ UNCHANGED turn

Next == \E t \in Sides : Take(t) \/ Pass(t) \/ Release(t)

Spec == Init /\ [][Next]_turnVars
===============================================================================
