-------------------------- MODULE BackgroundQueue ---------------------------
(***************************************************************************)
(* PosixEnv::Schedule and PosixEnv::BGThread of src/env_boost.cc: callers  *)
(* push work items under mu_ and notify bgsignal_ after they released it;  *)
(* one background thread, started by the first call, takes the items and   *)
(* runs them without the lock, so that an item may schedule others.        *)
(*                                                                         *)
(* A critical section of mu_ is one step.  boost::condition_variable is    *)
(* modelled by what the code relies on: wait() gives mu_ up and goes to    *)
(* sleep in one step, may wake without a notification, and notify_one()    *)
(* wakes the sleeper if there is one.                                      *)
(***************************************************************************)
EXTENDS Integers, Sequences

CONSTANTS
  Callers,  \* the threads that call Schedule()
  BG,       \* the background thread
  Items,    \* the calls of Schedule(), each a function and its argument
  None      \* no item

ASSUME BackgroundQueueAssumption ==
  /\ BG \notin Callers
  /\ None \notin Items

Threads == Callers \cup {BG}

VARIABLES
  bgthread,   \* bgthread_ has been created
  queue,      \* queue_
  notifying,  \* the threads between lock.unlock() and notify_one()
  bg,         \* where BGThread is: "new", "check", "asleep" or "run"
  running,    \* the item BGThread runs
  finished    \* the items that have run

vars == <<bgthread, queue, notifying, bg, running, finished>>

Queued == {queue[n] : n \in DOMAIN queue}

Init ==
  /\ bgthread = FALSE
  /\ queue = <<>>
  /\ notifying = {}
  /\ bg = "new"
  /\ running = None
  /\ finished = {}

-----------------------------------------------------------------------------
(* Schedule(), from a caller or from the item that runs *)

\* A thread that can call Schedule()
MayCall(t) ==
  /\ t \notin notifying
  /\ t = BG => bg = "run"

\* Push() as it must not be: only the call that creates the thread notifies it.
PushQuietly(t, i) ==
  /\ MayCall(t)
  /\ i \notin Queued \cup finished \cup {running}
  /\ bgthread' = TRUE
  /\ bg' = IF bgthread THEN bg ELSE "check"
  /\ queue' = Append(queue, i)
  /\ notifying' = IF bgthread THEN notifying ELSE notifying \cup {t}
  /\ UNCHANGED <<running, finished>>

\* The critical section: create the thread if there is none, push the item.
\* When the thread cannot be created the exception leaves everything as it was.
Push(t, i) ==
  /\ MayCall(t)
  /\ i \notin Queued \cup finished \cup {running}
  /\ bgthread' = TRUE
  /\ bg' = IF bgthread THEN bg ELSE "check"
  /\ queue' = Append(queue, i)
  /\ notifying' = notifying \cup {t}
  /\ UNCHANGED <<running, finished>>

\* bgsignal_.notify_one()
Notify(t) ==
  /\ t \in notifying
  /\ notifying' = notifying \ {t}
  /\ bg' = IF bg = "asleep" THEN "check" ELSE bg
  /\ UNCHANGED <<bgthread, queue, running, finished>>

-----------------------------------------------------------------------------
(* BGThread() *)

\* while (queue_.empty()) bgsignal_.wait(lock)
Sleep ==
  /\ bg = "check"
  /\ queue = <<>>
  /\ bg' = "asleep"
  /\ UNCHANGED <<bgthread, queue, notifying, running, finished>>

\* wait() returns though nobody notified
WakeSpuriously ==
  /\ bg = "asleep"
  /\ bg' = "check"
  /\ UNCHANGED <<bgthread, queue, notifying, running, finished>>

\* Take as it must not be: without pop_front(), and from the wrong end.
TakeCopy ==
  /\ bg = "check"
  /\ queue # <<>>
  /\ running' = Head(queue)
  /\ bg' = "run"
  /\ UNCHANGED <<bgthread, queue, notifying, finished>>

TakeLast ==
  /\ bg = "check"
  /\ queue # <<>>
  /\ running' = queue[Len(queue)]
  /\ queue' = SubSeq(queue, 1, Len(queue) - 1)
  /\ bg' = "run"
  /\ UNCHANGED <<bgthread, notifying, finished>>

\* Take the first item, unlock, and call its function
Take ==
  /\ bg = "check"
  /\ queue # <<>>
  /\ running' = Head(queue)
  /\ queue' = Tail(queue)
  /\ bg' = "run"
  /\ UNCHANGED <<bgthread, notifying, finished>>

\* The function returns; it is not in the middle of a call of Schedule()
Return ==
  /\ bg = "run"
  /\ BG \notin notifying
  /\ finished' = finished \cup {running}
  /\ running' = None
  /\ bg' = "check"
  /\ UNCHANGED <<bgthread, queue, notifying>>

Next ==
  \/ \E t \in Threads : Notify(t) \/ \E i \in Items : Push(t, i)
  \/ Sleep
  \/ WakeSpuriously
  \/ Take
  \/ Return

Spec == Init /\ [][Next]_vars

\* Threads are scheduled, and the functions return.  Nobody has to call
\* Schedule(), and no wake-up comes but by a notification.
FairSpec ==
  /\ Spec
  /\ \A t \in Threads : WF_vars(Notify(t))
  /\ WF_vars(Sleep)
  /\ WF_vars(Take)
  /\ WF_vars(Return)

-----------------------------------------------------------------------------
(* Properties *)

TypeOK ==
  /\ bgthread \in BOOLEAN
  /\ queue \in Seq(Items)
  /\ notifying \subseteq Threads
  /\ bg \in {"new", "check", "asleep", "run"}
  /\ running \in Items \cup {None}
  /\ finished \subseteq Items

\* The background thread does not sleep over an item: when it is asleep and the
\* queue is not empty, a thread that pushed is still to notify it.
NoneStranded ==
  /\ bg = "asleep" /\ queue # <<>> => notifying # {}
  /\ queue # <<>> => bgthread

\* An item is in one place only, so that no function runs twice.
InOnePlace ==
  /\ \A m, n \in DOMAIN queue : queue[m] = queue[n] => m = n
  /\ running \notin Queued \cup finished
  /\ Queued \cap finished = {}
  /\ running # None <=> bg = "run"

\* Items start one at a time in the order of the calls, each one once, and as
\* long as there are items the next one does start.
Tasks == INSTANCE TaskQueue

ImplementsTaskQueue == Tasks!FairSpec
=============================================================================
