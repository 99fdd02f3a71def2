--------------------------- MODULE CondVarProofs ----------------------------
(***************************************************************************)
(* Proofs about CondVar, for any number of threads.                        *)
(***************************************************************************)
EXTENDS CondVar, FiniteSetTheorems, TLAPS

(***************************************************************************)
(* The handshake, with Signal() and SignalAll()                            *)
(***************************************************************************)

Handshake == TypeOK /\ OneToken

LEMMA InitHandshake == Init => Handshake
  BY CondVarAssumption DEF Init, Handshake, TypeOK, OneToken, Signalling

LEMMA StepHandshake == Handshake /\ [Next]_vars => Handshake'
<1> SUFFICES ASSUME Handshake, [Next]_vars
             PROVE  Handshake'
  OBVIOUS
<1> USE CondVarAssumption DEF Handshake, TypeOK, OneToken, Signalling, Goto, Released
<1>1. ASSUME NEW t \in Threads, Lock(t) \/ Unlock(t)
      PROVE  Handshake'
  BY <1>1 DEF Lock, Unlock
<1>2. ASSUME NEW t \in Threads, WaitEnlist(t)
      PROVE  Handshake'
  BY <1>2 DEF WaitEnlist
<1>3. ASSUME NEW t \in Threads, WaitUnlock(t)
      PROVE  Handshake'
  BY <1>3 DEF WaitUnlock
<1>4. ASSUME NEW t \in Threads, WaitSleep(t)
      PROVE  Handshake'
  BY <1>4 DEF WaitSleep
<1>5. ASSUME NEW t \in Threads, WaitAnswer(t)
      PROVE  Handshake'
  BY <1>5 DEF WaitAnswer
<1>6. ASSUME NEW t \in Threads, WaitRelock(t)
      PROVE  Handshake'
  BY <1>6 DEF WaitRelock
<1>7. ASSUME NEW t \in Threads, SignalWake(t)
      PROVE  Handshake'
  BY <1>7 DEF SignalWake
<1>8. ASSUME NEW t \in Threads, SignalDone(t)
      PROVE  Handshake'
  BY <1>8 DEF SignalDone
<1>9. ASSUME NEW t \in Threads, SignalAllWake(t)
      PROVE  Handshake'
  BY <1>9 DEF SignalAllWake
<1>10. ASSUME NEW t \in Threads, SignalAllNext(t) \/ SignalAllDone(t)
       PROVE  Handshake'
  BY <1>10 DEF SignalAllNext, SignalAllDone
<1>11. CASE UNCHANGED vars
  BY <1>11 DEF vars
<1> QED
  BY <1>1, <1>2, <1>3, <1>4, <1>5, <1>6, <1>7, <1>8, <1>9, <1>10, <1>11
  DEF Next, InCall

\* At most one token is in flight between a signaller and the waiters, with
\* Signal() and with SignalAll(): the semaphores never come near their maximum.
THEOREM TokenIsUnique == Spec => [](TypeOK /\ OneToken)
<1>1. Handshake => TypeOK /\ OneToken
  BY DEF Handshake
<1> QED
  BY <1>1, InitHandshake, StepHandshake, PTL DEF Spec

(***************************************************************************)
(* The mutex across Wait()                                                 *)
(***************************************************************************)

LEMMA StepWaitHolds == Handshake /\ WaitHolds /\ [Next]_vars => WaitHolds'
<1> USE CondVarAssumption DEF Handshake, TypeOK, WaitHolds, Goto
<1>1. ASSUME Handshake, WaitHolds, NEW t \in Threads,
             \/ Lock(t) \/ Unlock(t) \/ WaitEnlist(t) \/ WaitUnlock(t)
             \/ WaitSleep(t) \/ WaitAnswer(t) \/ WaitRelock(t)
      PROVE  WaitHolds'
  BY <1>1 DEF Lock, Unlock, WaitEnlist, WaitUnlock, WaitSleep, WaitAnswer, WaitRelock
<1>2. ASSUME Handshake, WaitHolds, NEW t \in Threads,
             \/ SignalWake(t) \/ SignalDone(t) \/ SignalAllWake(t)
             \/ SignalAllNext(t) \/ SignalAllDone(t)
      PROVE  WaitHolds'
  BY <1>2 DEF SignalWake, SignalDone, SignalAllWake, SignalAllNext, SignalAllDone
<1>3. ASSUME Handshake, WaitHolds, UNCHANGED vars
      PROVE  WaitHolds'
  BY <1>3 DEF vars
<1> QED
  BY <1>1, <1>2, <1>3 DEF Next, InCall

(***************************************************************************)
(* Waiters are counted exactly until a SignalAll() is stuck                *)
(***************************************************************************)

\* While a call that holds wait_mtx_ is not stuck, nobody else begins one.
LEMMA FreeNotStuck ==
  ASSUME Handshake, wait_mtx = NoOne
  PROVE  ~Stuck
  BY CondVarAssumption DEF Handshake, OneToken, Signalling, Stuck

LEMMA StuckStays ==
  ASSUME Handshake, Stuck, [Next]_vars
  PROVE  Stuck'
<1> USE CondVarAssumption
    DEF Handshake, TypeOK, OneToken, Signalling, Stuck, Goto
<1>1. wait_mtx # NoOne
  OBVIOUS
<1>2. ASSUME NEW t \in Threads,
             \/ Lock(t) \/ Unlock(t) \/ WaitEnlist(t) \/ WaitUnlock(t)
             \/ WaitSleep(t) \/ WaitAnswer(t) \/ WaitRelock(t)
      PROVE  Stuck'
  BY <1>1, <1>2
  DEF Lock, Unlock, WaitEnlist, WaitUnlock, WaitSleep, WaitAnswer, WaitRelock
<1>3. ASSUME NEW t \in Threads,
             \/ SignalWake(t) \/ SignalDone(t) \/ SignalAllWake(t)
             \/ SignalAllNext(t) \/ SignalAllDone(t)
      PROVE  Stuck'
  BY <1>1, <1>3
  DEF SignalWake, SignalDone, SignalAllWake, SignalAllNext, SignalAllDone
<1>4. CASE UNCHANGED vars
  BY <1>4 DEF vars
<1> QED
  BY <1>2, <1>3, <1>4 DEF Next, InCall

LEMMA AsleepFinite == IsFiniteSet(Asleep) /\ Cardinality(Asleep) \in Nat
<1>1. Asleep \subseteq Threads
  BY DEF Asleep
<1>2. IsFiniteSet(Asleep)
  BY <1>1, CondVarAssumption, FS_Subset
<1> QED
  BY <1>2, FS_CardinalityType

\* What the steps do to the set of threads asleep
LEMMA AsleepSteps ==
  ASSUME TypeOK, [Next]_vars
  PROVE  \/ /\ Asleep' = Asleep
            /\ ~\E t \in Threads : WaitEnlist(t) \/ WaitSleep(t)
         \/ \E t \in Threads \ Asleep : WaitEnlist(t) /\ Asleep' = Asleep \cup {t}
         \/ \E t \in Asleep : WaitSleep(t) /\ Asleep' = Asleep \ {t}
<1> USE DEF TypeOK, Asleep, Goto
<1>1. ASSUME NEW t \in Threads, WaitEnlist(t)
      PROVE  t \notin Asleep /\ Asleep' = Asleep \cup {t}
  BY <1>1 DEF WaitEnlist
<1>2. ASSUME NEW t \in Threads, WaitSleep(t)
      PROVE  t \in Asleep /\ Asleep' = Asleep \ {t}
  BY <1>2 DEF WaitSleep
<1>3. ASSUME NEW t \in Threads,
             \/ Lock(t) \/ Unlock(t) \/ WaitUnlock(t) \/ WaitAnswer(t)
             \/ WaitRelock(t)
      PROVE  Asleep' = Asleep
  BY <1>3 DEF Lock, Unlock, WaitUnlock, WaitAnswer, WaitRelock
<1>4. ASSUME NEW t \in Threads,
             \/ SignalWake(t) \/ SignalDone(t) \/ SignalAllWake(t)
             \/ SignalAllNext(t) \/ SignalAllDone(t)
      PROVE  Asleep' = Asleep
  BY <1>4 DEF SignalWake, SignalDone, SignalAllWake, SignalAllNext, SignalAllDone
<1>5. ASSUME UNCHANGED vars
      PROVE  Asleep' = Asleep
  BY <1>5 DEF vars
<1> HIDE DEF TypeOK, Asleep, Goto
<1>6. CASE \E t \in Threads : WaitEnlist(t) \/ WaitSleep(t)
  BY <1>1, <1>2, <1>6
<1>7. CASE ~\E t \in Threads : WaitEnlist(t) \/ WaitSleep(t)
  BY <1>3, <1>4, <1>5, <1>7 DEF Next, InCall
<1> QED
  BY <1>6, <1>7

LEMMA StepCounted ==
  Handshake /\ WaitersCounted /\ [Next]_vars => WaitersCounted'
<1> SUFFICES ASSUME Handshake, WaitersCounted, [Next]_vars, ~Stuck
             PROVE  WaitersCounted'
  BY StuckStays DEF WaitersCounted
<1>1. TypeOK /\ OneToken /\ waiting + sem1 = Cardinality(Asleep)
  BY DEF Handshake, WaitersCounted
<1>2. /\ waiting \in Nat /\ sem1 \in Nat /\ sem1 <= SemMax /\ SemMax \in Nat \ {0}
      /\ IsFiniteSet(Asleep) /\ Cardinality(Asleep) \in Nat
  BY <1>1, AsleepFinite, CondVarAssumption DEF TypeOK
<1>3. ASSUME NEW t \in Threads \ Asleep, WaitEnlist(t), Asleep' = Asleep \cup {t}
      PROVE  WaitersCounted'
  <2>1. Cardinality(Asleep \cup {t}) = Cardinality(Asleep) + 1
    BY <1>2, FS_AddElement
  <2>2. waiting' = waiting + 1 /\ sem1' = sem1
    BY <1>3 DEF WaitEnlist
  <2> QED
    BY <1>1, <1>2, <1>3, <2>1, <2>2 DEF WaitersCounted
<1>4. ASSUME NEW t \in Asleep, WaitSleep(t), Asleep' = Asleep \ {t}
      PROVE  WaitersCounted'
  <2>1. Cardinality(Asleep \ {t}) = Cardinality(Asleep) - 1
    BY <1>2, FS_RemoveElement
  <2>2. waiting' = waiting /\ sem1' = sem1 - 1
    BY <1>4 DEF WaitSleep
  <2> QED
    BY <1>1, <1>2, <1>4, <2>1, <2>2 DEF WaitersCounted
<1>5. ASSUME Asleep' = Asleep, NEW t \in Threads, SignalWake(t) \/ SignalAllWake(t)
      PROVE  WaitersCounted'
  <2>1. sem1 = 0
    BY <1>1, <1>2, <1>5 DEF OneToken, SignalWake, SignalAllWake, TypeOK
  <2>2. waiting' = waiting - 1 /\ sem1' = 1
    BY <1>2, <1>5, <2>1 DEF SignalWake, SignalAllWake, Released
  <2> QED
    BY <1>1, <1>2, <1>5, <2>1, <2>2 DEF WaitersCounted
<1>6. ASSUME NEW t \in Threads, SignalAllNext(t)
      PROVE  WaitersCounted'
  <2>1. sem1 = 0 /\ sem2 = 1 /\ \A u \in Threads : pc[u] # "awake"
    BY <1>1, <1>6 DEF OneToken, SignalAllNext, TypeOK
  <2>2. Stuck'
    BY <1>6, <2>1 DEF SignalAllNext, Stuck
  <2> QED
    BY <2>2 DEF WaitersCounted
<1>7. ASSUME Asleep' = Asleep, UNCHANGED <<waiting, sem1>>
      PROVE  WaitersCounted'
  BY <1>1, <1>7 DEF WaitersCounted
<1>8. CASE Asleep' = Asleep /\ ~\E t \in Threads : WaitEnlist(t) \/ WaitSleep(t)
  <2>1. ASSUME ~\E t \in Threads :
                 SignalWake(t) \/ SignalAllWake(t) \/ SignalAllNext(t)
        PROVE  UNCHANGED <<waiting, sem1>>
    BY <1>8, <2>1
    DEF Next, InCall, Lock, Unlock, WaitUnlock, WaitAnswer, WaitRelock,
        SignalDone, SignalAllDone, vars
  <2> QED
    BY <1>5, <1>6, <1>7, <1>8, <2>1
<1> QED
  BY <1>1, <1>3, <1>4, <1>8, AsleepSteps

Counted == Handshake /\ WaitHolds /\ WaitersCounted

LEMMA Counting == Spec => []Counted
<1>1. Init => Counted
  <2> SUFFICES ASSUME Init PROVE Counted
    OBVIOUS
  <2>1. Asleep = {}
    BY DEF Init, Asleep
  <2>2. Cardinality(Asleep) = 0
    BY <2>1, FS_EmptySet
  <2> QED
    BY <2>2, InitHandshake
    DEF Init, Counted, WaitHolds, WaitersCounted
<1>2. Counted /\ [Next]_vars => Counted'
  BY StepHandshake, StepWaitHolds, StepCounted DEF Counted
<1> QED
  BY <1>1, <1>2, PTL DEF Spec

\* No wake-up is lost and none is left over: the waiters that nobody has
\* signalled are exactly those waiting_ and sem1_ count, unless a SignalAll() is
\* stuck for ever.
THEOREM NoLostWakeup == Spec => []WaitersCounted
<1>1. Counted => WaitersCounted
  BY DEF Counted
<1> QED
  BY <1>1, Counting, PTL

\* A signal wakes one of the threads that waited before it.
THEOREM SignalIsForTheEarlier == Spec => WakesEarlierWaiter
<1>1. Handshake /\ [Next]_vars =>
        [\A t \in Threads : Signalling(t) => Asleep' \subseteq Asleep]_vars
  <2> SUFFICES ASSUME Handshake, [Next]_vars, NEW t \in Threads, Signalling(t)
               PROVE  Asleep' \subseteq Asleep
    OBVIOUS
  <2>1. TypeOK /\ wait_mtx = t /\ wait_mtx # NoOne
    BY CondVarAssumption DEF Handshake, OneToken
  <2>2. ~\E u \in Threads : WaitEnlist(u)
    BY <2>1 DEF WaitEnlist
  <2> QED
    BY <2>1, <2>2, AsleepSteps
<1> QED
  BY <1>1, InitHandshake, StepHandshake, PTL DEF Spec, WakesEarlierWaiter

(***************************************************************************)
(* The refinement of Monitor                                               *)
(***************************************************************************)

LEMMA StepMonitor ==
  Counted /\ [Next]_vars => [Mon!Next]_(Mon!vars)
<1> DEFINE amu == IF mu \in Asleep THEN NoOne ELSE mu
<1> SUFFICES ASSUME Counted, [Next]_vars
             PROVE  Mon!Next \/ UNCHANGED <<amu, Asleep, Woken, sem1>>
  BY DEF Mon!vars
<1>1. /\ TypeOK /\ OneToken /\ WaitHolds /\ WaitersCounted
      /\ NoOne \notin Threads
  BY CondVarAssumption DEF Counted, Handshake
<1> USE DEF TypeOK, Goto
<1>2. ASSUME NEW t \in Threads, Lock(t)
      PROVE  Mon!Lock(t)
  BY <1>1, <1>2 DEF Lock, Asleep, Woken, Mon!Lock
<1>3. ASSUME NEW t \in Threads, Unlock(t)
      PROVE  Mon!Unlock(t)
  BY <1>1, <1>3 DEF Unlock, Asleep, Woken, Mon!Unlock
<1>4. ASSUME NEW t \in Threads, WaitEnlist(t)
      PROVE  Mon!Wait(t)
  BY <1>1, <1>4 DEF WaitEnlist, Asleep, Woken, Mon!Wait
<1>5. ASSUME NEW t \in Threads, WaitUnlock(t)
      PROVE  UNCHANGED <<amu, Asleep, Woken, sem1>>
  BY <1>1, <1>5 DEF WaitUnlock, Asleep, Woken, WaitHolds
<1>6. ASSUME NEW t \in Threads, WaitSleep(t)
      PROVE  Mon!Wake(t)
  BY <1>1, <1>6 DEF WaitSleep, Asleep, Woken, WaitHolds, Mon!Wake
<1>7. ASSUME NEW t \in Threads, WaitAnswer(t)
      PROVE  UNCHANGED <<amu, Asleep, Woken, sem1>>
  BY <1>1, <1>7 DEF WaitAnswer, Asleep, Woken
<1>8. ASSUME NEW t \in Threads, WaitRelock(t)
      PROVE  Mon!Return(t)
  BY <1>1, <1>8 DEF WaitRelock, Asleep, Woken, Mon!Return
<1>9. ASSUME NEW t \in Threads, SignalWake(t) \/ SignalAllWake(t)
      PROVE  Mon!Signal
  <2>1. Asleep' = Asleep /\ Woken' = Woken /\ mu' = mu
    <3>1. CASE SignalWake(t)
      BY <1>1, <3>1 DEF SignalWake, Asleep, Woken
    <3>2. CASE SignalAllWake(t)
      BY <1>1, <3>2 DEF SignalAllWake, Asleep, Woken
    <3> QED
      BY <1>9, <3>1, <3>2
  <2>2. sem1 = 0 /\ sem1' = 1 /\ waiting > 0
    BY <1>1, <1>9, CondVarAssumption
    DEF SignalWake, SignalAllWake, OneToken, Released
  <2>3. sem1 < Cardinality(Asleep)
    <3>1. ~Stuck
      BY <1>1, <1>9, FreeNotStuck DEF SignalWake, SignalAllWake, Counted
    <3> QED
      BY <1>1, <2>2, <3>1, AsleepFinite DEF WaitersCounted
  <2>4. amu' = amu
    BY <2>1
  <2>5. sem1' = sem1 + 1
    BY <2>2
  <2> QED
    BY <2>1, <2>3, <2>4, <2>5 DEF Mon!Signal, Mon!Cardinality, Cardinality,
       Mon!IsFiniteSet, IsFiniteSet
<1>10. ASSUME NEW t \in Threads,
              SignalDone(t) \/ SignalAllNext(t) \/ SignalAllDone(t)
       PROVE  UNCHANGED <<amu, Asleep, Woken, sem1>>
  BY <1>1, <1>10 DEF SignalDone, SignalAllNext, SignalAllDone, Asleep, Woken
<1>11. CASE UNCHANGED vars
  BY <1>11 DEF vars, Asleep, Woken
<1> HIDE DEF TypeOK, Goto
<1> QED
  BY <1>1, <1>2, <1>3, <1>4, <1>5, <1>6, <1>7, <1>8, <1>9, <1>10, <1>11
  DEF Next, InCall, Mon!Next

\* The condition variable of port_win.cc is a monitor's: giving up the mutex and
\* going to sleep are one step to its clients, and a waiter that wakes was owed
\* it.  SignalAll() is a Signal() that may not return.
THEOREM MonitorRefinement == Spec => ImplementsMonitor
<1>1. Init => Mon!Init
  BY DEF Init, Mon!Init, Asleep, Woken
<1>2. Counted /\ [Next]_vars => [Mon!Next]_(Mon!vars)
  BY StepMonitor
<1> QED
  BY <1>1, <1>2, Counting, PTL DEF Spec, ImplementsMonitor, Mon!Spec
=============================================================================
