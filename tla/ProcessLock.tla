---------------------------- MODULE ProcessLock ----------------------------
(***************************************************************************)
(* What Env::LockFile and Env::UnlockFile promise (src/env.h, 97-116): a   *)
(* lock that one process at a time has, and gives up by a call or by its   *)
(* end.  A call that fails to give it up leaves it with its process, which *)
(* cannot get it again or give it up, until that process ends.             *)
(* Directories.tla is the implementation.                                  *)
(***************************************************************************)

CONSTANT Procs  \* the processes

VARIABLES
  owners,  \* those that were given the lock and have not given it up
  stuck    \* those that have it after they failed to give it up

lockVars == <<owners, stuck>>

Init == owners = {} /\ stuck = {}

\* Nobody has it, so whoever asks may get it.
Acquire(p) == owners \cup stuck = {} /\ owners' = {p} /\ UNCHANGED stuck

Release(p) == p \in owners /\ owners' = owners \ {p} /\ UNCHANGED stuck

ReleaseFails(p) ==
  /\ p \in owners
  /\ owners' = owners \ {p} /\ stuck' = stuck \cup {p}

\* The process ends.
End(p) ==
  /\ p \in stuck
  /\ stuck' = stuck \ {p} /\ UNCHANGED owners

Next == \E p \in Procs : Acquire(p) \/ Release(p) \/ ReleaseFails(p) \/ End(p)

Spec == Init /\ [][Next]_lockVars
=============================================================================
