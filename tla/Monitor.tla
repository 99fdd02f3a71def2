------------------------------ MODULE Monitor -------------------------------
(***************************************************************************)
(* What a mutex and its condition variable promise: Wait() gives the mutex *)
(* up and goes to sleep in one step, so no Signal() falls between the two; *)
(* a Signal() with a sleeper owes one wake-up, and nobody wakes without    *)
(* being owed.  CondVar.tla is the implementation in src/port_win.cc,      *)
(* where SignalAll() releases one waiter as well.                          *)
(***************************************************************************)
EXTENDS Integers, FiniteSets

CONSTANTS Threads, NoOne

VARIABLES
  mu,        \* the holder of the mutex, or NoOne
  sleeping,  \* the threads in Wait() nobody has woken
  woken,     \* the threads in Wait() that are to take the mutex again
  owed       \* the wake-ups owed to the sleepers

vars == <<mu, sleeping, woken, owed>>

Init ==
  /\ mu = NoOne
  /\ sleeping = {}
  /\ woken = {}
  /\ owed = 0

Lock(t) ==
  /\ mu = NoOne
  /\ t \notin sleeping \cup woken
  /\ mu' = t
  /\ UNCHANGED <<sleeping, woken, owed>>

Unlock(t) ==
  /\ mu = t
  /\ mu' = NoOne
  /\ UNCHANGED <<sleeping, woken, owed>>

Wait(t) ==
  /\ mu = t
  /\ mu' = NoOne
  /\ sleeping' = sleeping \cup {t}
  /\ UNCHANGED <<woken, owed>>

Wake(t) ==
  /\ owed > 0
  /\ t \in sleeping
  /\ owed' = owed - 1
  /\ sleeping' = sleeping \ {t}
  /\ woken' = woken \cup {t}
  /\ UNCHANGED mu

Return(t) ==
  /\ t \in woken
  /\ mu = NoOne
  /\ mu' = t
  /\ woken' = woken \ {t}
  /\ UNCHANGED <<sleeping, owed>>

Signal ==
  /\ owed < Cardinality(sleeping)
  /\ owed' = owed + 1
  /\ UNCHANGED <<mu, sleeping, woken>>

Next ==
  \/ \E t \in Threads : Lock(t) \/ Unlock(t) \/ Wait(t) \/ Wake(t) \/ Return(t)
  \/ Signal

Spec == Init /\ [][Next]_vars
=============================================================================
