----------------------------- MODULE TaskQueue ------------------------------
(***************************************************************************)
(* What Env::Schedule promises (src/env.h): every call's function is run   *)
(* once in a background thread.  PosixEnv promises more: one at a time, in *)
(* the order of the calls.  BackgroundQueue.tla is the implementation.     *)
(***************************************************************************)
EXTENDS Sequences

CONSTANTS
  Items,  \* the calls of Schedule(), each a function and its argument
  None    \* no item

VARIABLES
  queue,    \* the items that have not started, in the order of the calls
  running,  \* the item that runs, or None
  finished  \* the items that have run

vars == <<queue, running, finished>>

Queued == {queue[n] : n \in DOMAIN queue}

Init ==
  /\ queue = <<>>
  /\ running = None
  /\ finished = {}

Submit(i) ==
  /\ i \notin Queued \cup finished \cup {running}
  /\ queue' = Append(queue, i)
  /\ UNCHANGED <<running, finished>>

Start ==
  /\ running = None
  /\ queue # <<>>
  /\ running' = Head(queue)
  /\ queue' = Tail(queue)
  /\ UNCHANGED finished

Finish ==
  /\ running # None
  /\ finished' = finished \cup {running}
  /\ running' = None
  /\ UNCHANGED queue

Next == (\E i \in Items : Submit(i)) \/ Start \/ Finish

Spec == Init /\ [][Next]_vars

\* The background thread never rests while there is something to run.
FairSpec == Spec /\ WF_vars(Start) /\ WF_vars(Finish)
=============================================================================
