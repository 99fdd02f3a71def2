----------------------- MODULE BackgroundQueueProofs ------------------------
(***************************************************************************)
(* Proofs about BackgroundQueue, for any number of callers and items.      *)
(***************************************************************************)
EXTENDS BackgroundQueue, SequenceTheorems, TLAPS

(***************************************************************************)
(* Queues of distinct items                                                *)
(***************************************************************************)

Distinct(s) == \A m, n \in DOMAIN s : s[m] = s[n] => m = n

\* push_back() of an item that is not queued
LEMMA AppendDistinct ==
  ASSUME queue \in Seq(Items), NEW i \in Items, i \notin Queued,
         Distinct(queue), queue' = Append(queue, i)
  PROVE  /\ queue' \in Seq(Items)
         /\ Distinct(queue')
         /\ Queued' = Queued \cup {i}
<1>1. queue' \in Seq(Items) /\ Len(queue') = Len(queue) + 1
  OBVIOUS
<1>2. DOMAIN queue = 1 .. Len(queue) /\ DOMAIN queue' = 1 .. Len(queue) + 1
  BY <1>1
<1>3. \A n \in DOMAIN queue : n \in DOMAIN queue' /\ queue'[n] = queue[n]
  BY <1>2
<1>4. queue'[Len(queue) + 1] = i /\ Len(queue) + 1 \in DOMAIN queue'
  BY <1>2
<1>5. \A n \in DOMAIN queue' : n \in DOMAIN queue \/ n = Len(queue) + 1
  BY <1>2
<1>6. \A n \in DOMAIN queue : queue[n] # i
  BY DEF Queued
<1>7. Distinct(queue')
  BY <1>3, <1>4, <1>5, <1>6 DEF Distinct
<1>8. Queued' = Queued \cup {i}
  BY <1>3, <1>4, <1>5 DEF Queued
<1> QED
  BY <1>1, <1>7, <1>8

\* front() and pop_front()
LEMMA TailDistinct ==
  ASSUME queue \in Seq(Items), queue # <<>>, Distinct(queue), queue' = Tail(queue)
  PROVE  /\ queue' \in Seq(Items)
         /\ Distinct(queue')
         /\ Head(queue) \in Items
         /\ Head(queue) \in Queued
         /\ Head(queue) \notin Queued'
         /\ Queued' \subseteq Queued
<1>1. queue' \in Seq(Items) /\ Len(queue) \in Nat /\ Len(queue) > 0
  BY EmptySeq
<1>2. Len(queue') = Len(queue) - 1
  BY <1>1, HeadTailProperties
<1>3. DOMAIN queue = 1 .. Len(queue) /\ DOMAIN queue' = 1 .. Len(queue) - 1
  BY <1>1, <1>2
<1>4. \A n \in DOMAIN queue' : n + 1 \in DOMAIN queue /\ queue'[n] = queue[n + 1]
  BY <1>1, <1>3, HeadTailProperties
<1>5. Head(queue) = queue[1] /\ 1 \in DOMAIN queue
  BY <1>1, <1>3
<1>6. Head(queue) \in Items
  BY <1>1
<1>7. ASSUME NEW m \in DOMAIN queue', NEW n \in DOMAIN queue', queue'[m] = queue'[n]
      PROVE  m = n
  <2>1. m + 1 = n + 1
    BY <1>4, <1>7 DEF Distinct
  <2> QED
    BY <2>1, <1>3
<1>8. \A n \in DOMAIN queue' : n + 1 # 1
  BY <1>3
<1>9. Head(queue) \notin Queued'
  BY <1>4, <1>5, <1>8 DEF Queued, Distinct
<1>10. Queued' \subseteq Queued
  BY <1>4 DEF Queued
<1> QED
  BY <1>1, <1>5, <1>6, <1>7, <1>9, <1>10 DEF Distinct, Queued

(***************************************************************************)
(* The invariant                                                           *)
(***************************************************************************)

\* The background thread exists once bgthread_ does, and only runs functions,
\* never its own loop, while it is inside Schedule().
ThreadOK ==
  /\ bg = "new" <=> ~bgthread
  /\ BG \in notifying => bg = "run"

IInv == TypeOK /\ NoneStranded /\ InOnePlace /\ ThreadOK

LEMMA InitIInv == Init => IInv
<1> SUFFICES ASSUME Init
             PROVE  IInv
  OBVIOUS
<1>1. queue \in Seq(Items)
  BY DEF Init
<1>2. Queued = {} /\ DOMAIN queue = {}
  BY DEF Init, Queued
<1> QED
  BY <1>1, <1>2, BackgroundQueueAssumption
  DEF Init, IInv, TypeOK, NoneStranded, InOnePlace, ThreadOK

LEMMA StepIInv == IInv /\ [Next]_vars => IInv'
<1> SUFFICES ASSUME IInv, [Next]_vars
             PROVE  IInv'
  OBVIOUS
<1> USE BackgroundQueueAssumption
<1>1. TypeOK /\ Distinct(queue) /\ None \notin Queued
  BY DEF IInv, TypeOK, InOnePlace, Distinct, Queued
<1>2. ASSUME NEW t \in Threads, NEW i \in Items, Push(t, i)
      PROVE  IInv'
  <2>1. /\ queue' \in Seq(Items)
        /\ Distinct(queue')
        /\ Queued' = Queued \cup {i}
    BY <1>1, <1>2, AppendDistinct DEF Push, TypeOK
  <2>2. TypeOK'
    BY <1>1, <1>2, <2>1 DEF Push, TypeOK
  <2>3. NoneStranded'
    BY <1>2 DEF Push, NoneStranded
  <2>4. InOnePlace'
    <3>1. running' # None <=> bg' = "run"
      BY <1>2 DEF Push, IInv, InOnePlace, ThreadOK
    <3> QED
      BY <1>2, <2>1, <3>1 DEF Push, IInv, InOnePlace, Distinct
  <2>5. ThreadOK'
    BY <1>2 DEF Push, MayCall, IInv, ThreadOK, TypeOK
  <2> QED
    BY <2>2, <2>3, <2>4, <2>5 DEF IInv
<1>3. ASSUME NEW t \in Threads, Notify(t)
      PROVE  IInv'
  <2>1. Queued' = Queued
    BY <1>3 DEF Notify, Queued
  <2> QED
    BY <1>3, <2>1
    DEF Notify, IInv, TypeOK, NoneStranded, InOnePlace, ThreadOK
<1>4. CASE Sleep \/ WakeSpuriously
  <2>1. Queued' = Queued
    BY <1>4 DEF Sleep, WakeSpuriously, Queued
  <2> QED
    BY <1>4, <2>1
    DEF Sleep, WakeSpuriously, IInv, TypeOK, NoneStranded, InOnePlace, ThreadOK
<1>5. CASE Take
  <2>1. /\ queue' \in Seq(Items)
        /\ Distinct(queue')
        /\ Head(queue) \in Items
        /\ Head(queue) \in Queued
        /\ Head(queue) \notin Queued'
        /\ Queued' \subseteq Queued
    BY <1>1, <1>5, TailDistinct DEF Take, TypeOK
  <2>2. TypeOK'
    BY <1>5, <2>1 DEF Take, IInv, TypeOK
  <2>3. NoneStranded'
    BY <1>5 DEF Take, IInv, NoneStranded
  <2>4. InOnePlace'
    BY <1>1, <1>5, <2>1 DEF Take, IInv, InOnePlace, Distinct
  <2>5. ThreadOK'
    BY <1>5 DEF Take, IInv, ThreadOK
  <2> QED
    BY <2>2, <2>3, <2>4, <2>5 DEF IInv
<1>6. CASE Return
  <2>1. Queued' = Queued
    BY <1>6 DEF Return, Queued
  <2>2. running \in Items
    BY <1>6 DEF Return, IInv, TypeOK, InOnePlace
  <2> QED
    BY <1>1, <1>6, <2>1, <2>2
    DEF Return, IInv, TypeOK, NoneStranded, InOnePlace, ThreadOK
<1>7. CASE UNCHANGED vars
  BY <1>7 DEF vars, IInv, TypeOK, NoneStranded, InOnePlace, ThreadOK, Queued
<1> QED
  BY <1>2, <1>3, <1>4, <1>5, <1>6, <1>7 DEF Next

\* The background thread never sleeps over an item that nobody will notify it
\* of, although the notification comes after mu_ is released.
THEOREM NobodyStranded == Spec => []NoneStranded
<1>1. IInv => NoneStranded
  BY DEF IInv
<1> QED
  BY InitIInv, StepIInv, <1>1, PTL DEF Spec

\* No call of Schedule() is dropped into two places or run twice.
THEOREM ItemsAreNotDuplicated == Spec => [](TypeOK /\ InOnePlace)
<1>1. IInv => TypeOK /\ InOnePlace
  BY DEF IInv
<1> QED
  BY InitIInv, StepIInv, <1>1, PTL DEF Spec

(***************************************************************************)
(* Refinement: the steps of PosixEnv are those of a FIFO of tasks          *)
(***************************************************************************)

LEMMA StepTasks == IInv /\ [Next]_vars => [Tasks!Next]_Tasks!vars
<1> SUFFICES ASSUME IInv, [Next]_vars
             PROVE  [Tasks!Next]_Tasks!vars
  OBVIOUS
<1>1. ASSUME NEW t \in Threads, NEW i \in Items, Push(t, i)
      PROVE  Tasks!Submit(i)
  BY <1>1 DEF Push, Tasks!Submit, Queued, Tasks!Queued
<1>2. ASSUME NEW t \in Threads, Notify(t)
      PROVE  UNCHANGED Tasks!vars
  BY <1>2 DEF Notify, Tasks!vars
<1>3. ASSUME Sleep \/ WakeSpuriously \/ UNCHANGED vars
      PROVE  UNCHANGED Tasks!vars
  BY <1>3 DEF Sleep, WakeSpuriously, vars, Tasks!vars
<1>4. ASSUME Take
      PROVE  Tasks!Start
  BY <1>4 DEF Take, Tasks!Start, IInv, InOnePlace
<1>5. ASSUME Return
      PROVE  Tasks!Finish
  BY <1>5 DEF Return, Tasks!Finish, IInv, InOnePlace
<1> QED
  BY <1>1, <1>2, <1>3, <1>4, <1>5 DEF Next, Tasks!Next

\* Whatever the callers, the items and the spurious wake-ups, functions start
\* one at a time in the order of the calls, each of them once.
THEOREM TasksRefinement == Spec => Tasks!Spec
<1>1. Init => Tasks!Init
  BY DEF Init, Tasks!Init
<1> QED
  BY InitIInv, StepIInv, StepTasks, <1>1, PTL DEF Spec, Tasks!Spec
=============================================================================
