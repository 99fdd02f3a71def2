------------------------------ MODULE CondVar -------------------------------
(***************************************************************************)
(* port::Mutex and port::CondVar of src/port_win.cc: a condition variable  *)
(* built from a counter and two semaphores, after Birrell.  The semaphore  *)
(* sem1_ lets a waiter go, sem2_ tells the signaller that it went.         *)
(*                                                                         *)
(* A step is one blocking call with the code up to the next one.  What the *)
(* code does between wait_mtx_.Lock() and its next blocking call touches   *)
(* only waiting_, which wait_mtx_ protects, and releases a semaphore.      *)
(***************************************************************************)
EXTENDS Integers, FiniteSets

CONSTANTS
  Waiters,       \* the threads that call Wait()
  Signallers,    \* the threads that call Signal()
  Broadcasters,  \* the threads that call SignalAll()
  NoOne,         \* the holder of a free mutex
  SemMax         \* the maximum count given to CreateSemaphore

Threads == Waiters \cup Signallers \cup Broadcasters

ASSUME CondVarAssumption ==
  /\ IsFiniteSet(Threads)
  /\ NoOne \notin Threads
  /\ SemMax \in Nat \ {0}

VARIABLES
  pc,        \* pc[t]: where thread t is
  mu,        \* mu_: its holder
  wait_mtx,  \* wait_mtx_: its holder, between two steps
  waiting,   \* waiting_
  sem1,      \* the count of sem1_
  sem2       \* the count of sem2_

vars == <<pc, mu, wait_mtx, waiting, sem1, sem2>>

Init ==
  /\ pc = [t \in Threads |-> "run"]
  /\ mu = NoOne
  /\ wait_mtx = NoOne
  /\ waiting = 0
  /\ sem1 = 0
  /\ sem2 = 0

\* ReleaseSemaphore fails and changes nothing when the count is at its maximum
Released(sem) == IF sem < SemMax THEN sem + 1 ELSE sem

Goto(t, l) == pc' = [pc EXCEPT ![t] = l]

-----------------------------------------------------------------------------
(* The client's own use of the mutex *)

Lock(t) ==
  /\ pc[t] = "run"
  /\ mu = NoOne
  /\ mu' = t
  /\ UNCHANGED <<pc, wait_mtx, waiting, sem1, sem2>>

Unlock(t) ==
  /\ pc[t] = "run"
  /\ mu = t
  /\ mu' = NoOne
  /\ UNCHANGED <<pc, wait_mtx, waiting, sem1, sem2>>

-----------------------------------------------------------------------------
(* Wait(), called with the mutex held *)

\* Mutant: waiting_ is counted without wait_mtx_
WaitEnlistBare(t) ==
  /\ t \in Waiters
  /\ pc[t] = "run"
  /\ mu = t
  /\ waiting' = waiting + 1
  /\ Goto(t, "enlisted")
  /\ UNCHANGED <<mu, wait_mtx, sem1, sem2>>

WaitEnlist(t) ==
  /\ t \in Waiters
  /\ pc[t] = "run"
  /\ mu = t
  /\ wait_mtx = NoOne
  /\ waiting' = waiting + 1
  /\ Goto(t, "enlisted")
  /\ UNCHANGED <<mu, wait_mtx, sem1, sem2>>

WaitUnlock(t) ==
  /\ pc[t] = "enlisted"
  /\ mu' = NoOne
  /\ Goto(t, "asleep")
  /\ UNCHANGED <<wait_mtx, waiting, sem1, sem2>>

WaitSleep(t) ==
  /\ pc[t] = "asleep"
  /\ sem1 > 0
  /\ sem1' = sem1 - 1
  /\ Goto(t, "awake")
  /\ UNCHANGED <<mu, wait_mtx, waiting, sem2>>

\* Mutant: the waiter does not answer
WaitAnswerNot(t) ==
  /\ pc[t] = "awake"
  /\ Goto(t, "relock")
  /\ UNCHANGED <<mu, wait_mtx, waiting, sem1, sem2>>

WaitAnswer(t) ==
  /\ pc[t] = "awake"
  /\ sem2' = Released(sem2)
  /\ Goto(t, "relock")
  /\ UNCHANGED <<mu, wait_mtx, waiting, sem1>>

\* Mutant: Wait() does not wait for the mutex
WaitRelockBare(t) ==
  /\ pc[t] = "relock"
  /\ mu' = t
  /\ Goto(t, "run")
  /\ UNCHANGED <<wait_mtx, waiting, sem1, sem2>>

WaitRelock(t) ==
  /\ pc[t] = "relock"
  /\ mu = NoOne
  /\ mu' = t
  /\ Goto(t, "run")
  /\ UNCHANGED <<wait_mtx, waiting, sem1, sem2>>

-----------------------------------------------------------------------------
(* Signal() and SignalAll(); with waiting_ = 0 they do nothing *)

\* SignalWake as it must not be: the waiter is not counted off.
SignalWakeUncounted(t) ==
  /\ t \in Signallers
  /\ pc[t] = "run"
  /\ wait_mtx = NoOne
  /\ waiting > 0
  /\ sem1' = Released(sem1)
  /\ wait_mtx' = t
  /\ Goto(t, "signal")
  /\ UNCHANGED <<mu, waiting, sem2>>

SignalWake(t) ==
  /\ t \in Signallers
  /\ pc[t] = "run"
  /\ wait_mtx = NoOne
  /\ waiting > 0
  /\ waiting' = waiting - 1
  /\ sem1' = Released(sem1)
  /\ wait_mtx' = t
  /\ Goto(t, "signal")
  /\ UNCHANGED <<mu, sem2>>

\* Mutant: Signal() does not wait for the answer
SignalDoneEarly(t) ==
  /\ pc[t] = "signal"
  /\ wait_mtx' = NoOne
  /\ Goto(t, "run")
  /\ UNCHANGED <<mu, waiting, sem1, sem2>>

SignalDone(t) ==
  /\ pc[t] = "signal"
  /\ sem2 > 0
  /\ sem2' = sem2 - 1
  /\ wait_mtx' = NoOne
  /\ Goto(t, "run")
  /\ UNCHANGED <<mu, waiting, sem1>>

\* One release of sem1_, then the inner loop counts the first waiter off
SignalAllWake(t) ==
  /\ t \in Broadcasters
  /\ pc[t] = "run"
  /\ wait_mtx = NoOne
  /\ waiting > 0
  /\ waiting' = waiting - 1
  /\ sem1' = Released(sem1)
  /\ wait_mtx' = t
  /\ Goto(t, "signalAll")
  /\ UNCHANGED <<mu, sem2>>

\* The inner loop goes on while it counts waiters; then 1 < waiting_ is false
SignalAllNext(t) ==
  /\ pc[t] = "signalAll"
  /\ sem2 > 0
  /\ sem2' = sem2 - 1
  /\ waiting > 0
  /\ waiting' = waiting - 1
  /\ UNCHANGED <<pc, mu, wait_mtx, sem1>>

SignalAllDone(t) ==
  /\ pc[t] = "signalAll"
  /\ sem2 > 0
  /\ sem2' = sem2 - 1
  /\ waiting = 0
  /\ wait_mtx' = NoOne
  /\ Goto(t, "run")
  /\ UNCHANGED <<mu, waiting, sem1>>

\* The steps a thread is in the middle of a call with
InCall(t) ==
  \/ WaitUnlock(t)
  \/ WaitSleep(t)
  \/ WaitAnswer(t)
  \/ WaitRelock(t)
  \/ SignalDone(t)
  \/ SignalAllNext(t)
  \/ SignalAllDone(t)

Next ==
  \E t \in Threads :
    \/ Lock(t)
    \/ Unlock(t)
    \/ WaitEnlist(t)
    \/ SignalWake(t)
    \/ SignalAllWake(t)
    \/ InCall(t)

Spec == Init /\ [][Next]_vars

\* A thread inside a call that can go on is scheduled.  No fairness on the two
\* mutexes: a critical section may pass a thread over for ever.
Fairness ==
  \A t \in Threads :
    /\ WF_vars(WaitUnlock(t))
    /\ WF_vars(WaitSleep(t))
    /\ WF_vars(WaitAnswer(t))
    /\ WF_vars(SignalDone(t))
    /\ WF_vars(SignalAllNext(t) \/ SignalAllDone(t))

FairSpec == Spec /\ Fairness

-----------------------------------------------------------------------------
(* Properties *)

Signalling(t) == pc[t] \in {"signal", "signalAll"}
Asleep == {t \in Threads : pc[t] \in {"enlisted", "asleep"}}
Woken == {t \in Threads : pc[t] \in {"awake", "relock"}}

TypeOK ==
  /\ pc \in [Threads -> {"run", "enlisted", "asleep", "awake", "relock",
                         "signal", "signalAll"}]
  /\ mu \in Threads \cup {NoOne}
  /\ wait_mtx \in Threads \cup {NoOne}
  /\ waiting \in Nat
  /\ sem1 \in 0 .. SemMax
  /\ sem2 \in 0 .. SemMax

\* The handshake hands one token around: the signaller that holds wait_mtx_
\* puts it in sem1_, one waiter takes it and puts it in sem2_.  So neither
\* semaphore ever counts above one, and SemMax is never met.
OneToken ==
  /\ \A t \in Threads : Signalling(t) <=> wait_mtx = t
  /\ sem1 + sem2 <= 1
  /\ sem1 + sem2 = 1 => wait_mtx # NoOne /\ \A t \in Threads : pc[t] # "awake"
  /\ \A t, u \in Threads : pc[t] = "awake" /\ pc[u] = "awake" => t = u
  /\ \A t \in Threads : pc[t] = "awake" => wait_mtx # NoOne

\* SignalAll() waits for an answer of a waiter that nobody let go.
Stuck ==
  /\ \E t \in Threads : pc[t] = "signalAll"
  /\ sem1 = 0 /\ sem2 = 0
  /\ \A t \in Threads : pc[t] # "awake"

\* Until a SignalAll() is stuck, waiting_ and sem1_ count exactly the threads
\* asleep: no wake-up is lost, and none is left for a thread that waits later.
WaitersCounted == Stuck \/ waiting + sem1 = Cardinality(Asleep)

\* A thread that begins to wait while a signal is under way is not the one the
\* signal wakes: the threads asleep only get fewer until Signal() returns.
WakesEarlierWaiter ==
  [][\A t \in Threads : Signalling(t) => Asleep' \subseteq Asleep]_vars

\* Signal() returns, and SignalAll() does.
SignalReturns == \A t \in Threads : pc[t] = "signal" ~> pc[t] = "run"
SignalAllReturns == \A t \in Threads : pc[t] = "signalAll" ~> pc[t] = "run"

\* Wait() gives up the mutex where it counts itself as a waiter, Signal() and
\* SignalAll() owe a wake-up where they release sem1_, and a waiter wakes where
\* it passes sem1_.
Mon == INSTANCE Monitor WITH
  mu <- IF mu \in Asleep THEN NoOne ELSE mu,
  sleeping <- Asleep,
  woken <- Woken,
  owed <- sem1

ImplementsMonitor == Mon!Spec

-----------------------------------------------------------------------------
(* What the proofs need besides *)

\* Wait() keeps the mutex until it is counted, and sleeps without it.
WaitHolds ==
  \A t \in Threads :
    /\ pc[t] = "enlisted" => mu = t
    /\ pc[t] \in {"asleep", "awake", "relock"} => mu # t
=============================================================================
