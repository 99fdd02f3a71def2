------------------------- MODULE DirectoriesProofs --------------------------
(***************************************************************************)
(* Proofs about Directories, for any number of processes, names and        *)
(* handles.                                                                *)
(*                                                                         *)
(* The inductive invariant adds to the types and to HeldLockStays what a   *)
(* call in progress relies on: a process that is opening the lock file has *)
(* room for a handle, one that is closing it has the handle and not the    *)
(* lock, the history of a call contains the present, and a listing and     *)
(* what its iterator has still to give out have all files that stayed.     *)
(***************************************************************************)
EXTENDS Directories, TLAPS

\* The handles of calls in progress
HandlesOK ==
  \A p \in Procs :
    /\ pc[p] \in {"create", "assert", "open"} => open[p] < MaxHandles
    /\ pc[p] = "delete" => open[p] > 0 /\ holder # p

\* The history of calls in progress
HistoryOK ==
  \A p \in Procs :
    /\ pc[p] = "isdir" => dir \in been[p]
    /\ pc[p] = "mkdir" => \E d \in been[p] : d # "dir"
    /\ pc[p] = "list" =>
         /\ always[p] \subseteq files /\ always[p] \subseteq result[p] \cup rest[p]
         /\ result[p] \cup rest[p] \subseteq ever[p]

IInv == TypeOK /\ HeldLockStays /\ HandlesOK /\ HistoryOK

-----------------------------------------------------------------------------
(* The steps *)

USE DirectoriesAssumption

LEMMA InitIInv == Init => IInv
BY DEF Init, IInv, TypeOK, HeldLockStays, HandlesOK, HistoryOK

\* What a step of p does to the calls: nothing to those of others, and p comes to
\* create a directory only from a moment without one.
Moves(p) ==
  /\ \A q \in Procs \ {p} : pc'[q] = pc[q] /\ result'[q] = result[q]
  /\ pc'[p] = "isdir" => pc[p] = "idle"
  /\ pc'[p] = "mkdir" => dir # "dir"
  /\ pc'[p] = "list" =>
       \/ pc[p] = "idle" /\ result'[p] = {}
       \/ /\ pc[p] = "list" /\ files' = files
          /\ result[p] \subseteq result'[p] /\ result'[p] \subseteq result[p] \cup rest[p]

\* Everything but the history, for a step
Handled(p) == TypeOK' /\ HeldLockStays' /\ HandlesOK' /\ Moves(p)

LEMMA LockSteps ==
  ASSUME IInv, rest' \in [Procs -> SUBSET Names], NEW p \in Procs,
         \/ LockFile(p) \/ LockCreate(p) \/ LockAssert(p) \/ LockOpen(p) \/ LockTry(p)
  PROVE  Handled(p)
<1> USE DEF IInv, TypeOK, HeldLockStays, HandlesOK, Handled, Moves, Goto, Return,
            handleVars, callVars
<1>1. CASE LockFile(p)
  BY <1>1 DEF LockFile
<1>2. CASE LockCreate(p)
  BY <1>2 DEF LockCreate
<1>3. CASE LockAssert(p)
  BY <1>3 DEF LockAssert
<1>4. CASE LockOpen(p)
  BY <1>4 DEF LockOpen
<1>5. CASE LockTry(p)
  <2>1. TypeOK'
    BY <1>5 DEF LockTry
  <2>2. HandlesOK' /\ Moves(p)
    BY <1>5 DEF LockTry
  <2>3. HeldLockStays'
    <3>1. \A q \in Procs : pc'[q] = "try" => pc[q] = "try"
      BY <1>5 DEF LockTry
    <3>2. CASE holder = Nobody /\ holder' = p /\ lock' = [lock EXCEPT ![p] = TRUE]
      BY <1>5, <3>1, <3>2 DEF LockTry
    <3>3. CASE UNCHANGED <<holder, lock>>
      BY <1>5, <3>1, <3>3 DEF LockTry
    <3> QED
      BY <1>5, <3>2, <3>3 DEF LockTry
  <2> QED
    BY <2>1, <2>2, <2>3
<1> QED
  BY <1>1, <1>2, <1>3, <1>4, <1>5

LEMMA ReleaseSteps ==
  ASSUME IInv, rest' \in [Procs -> SUBSET Names], NEW p \in Procs,
         \/ UnlockFile(p) \/ UnlockDelete(p) \/ LockAbort(p) \/ Crash(p)
  PROVE  Handled(p)
<1> USE DEF IInv, TypeOK, HeldLockStays, HandlesOK, Handled, Moves, Goto, Return,
            handleVars, callVars
<1>1. CASE UnlockFile(p)
  BY <1>1 DEF UnlockFile
<1>2. CASE UnlockDelete(p)
  BY <1>2 DEF UnlockDelete
<1>3. CASE End(p)
  BY <1>3 DEF End
<1> QED
  BY <1>1, <1>2, <1>3 DEF LockAbort, Crash

LEMMA DirectorySteps ==
  ASSUME IInv, rest' \in [Procs -> SUBSET Names], NEW p \in Procs,
         \/ \E test \in BOOLEAN : CreateDir(p, test)
         \/ CreateDirIsDir(p) \/ CreateDirMake(p) \/ Throws(p)
         \/ DeleteDir(p) \/ DeleteDirFails(p) \/ DeleteDirSelf(p)
         \/ \E f \in Names : DeleteDirChild(p, f)
  PROVE  Handled(p)
<1> USE DEF IInv, TypeOK, HeldLockStays, HandlesOK, Handled, Moves, Goto, Return,
            handleVars, callVars, InRemoveAll, CreateDirReturn
<1>1. ASSUME NEW test \in BOOLEAN, CreateDir(p, test) PROVE Handled(p)
  BY <1>1 DEF CreateDir
<1>2. CASE CreateDirIsDir(p)
  <2>1. TypeOK'
    BY <1>2 DEF CreateDirIsDir
  <2>2. HeldLockStays' /\ HandlesOK'
    BY <1>2 DEF CreateDirIsDir
  <2>3. Moves(p)
    BY <1>2 DEF CreateDirIsDir
  <2> QED
    BY <2>1, <2>2, <2>3
<1>3. CASE CreateDirMake(p)
  BY <1>3 DEF CreateDirMake
<1>4. CASE DeleteDir(p)
  BY <1>4 DEF DeleteDir
<1>5. CASE DeleteDirFails(p)
  BY <1>5 DEF DeleteDirFails
<1>6. CASE DeleteDirSelf(p)
  BY <1>6 DEF DeleteDirSelf
<1>7. ASSUME NEW f \in Names, DeleteDirChild(p, f) PROVE Handled(p)
  BY <1>7 DEF DeleteDirChild, InUse
<1>8. CASE Throws(p)
  BY <1>8 DEF Throws
<1> QED
  BY <1>1, <1>2, <1>3, <1>4, <1>5, <1>6, <1>7, <1>8

LEMMA FileSteps ==
  ASSUME IInv, rest' \in [Procs -> SUBSET Names], NEW p \in Procs,
         \/ \E f \in Names : DeleteFile(p, f) \/ NewLogger(p, f) \/ DeleteLogger(p, f)
         \/ \E src, target \in Names : RenameFile(p, src, target)
         \/ ListOpen(p) \/ ListEnd(p) \/ \E f \in Names : ListNext(p, f)
  PROVE  Handled(p)
<1> USE DEF IInv, TypeOK, HeldLockStays, HandlesOK, Handled, Moves, Goto, Return,
            handleVars, callVars
<1>1. ASSUME NEW f \in Names, DeleteFile(p, f) PROVE Handled(p)
  BY <1>1 DEF DeleteFile, InUse
<1>2. ASSUME NEW f \in Names, NewLogger(p, f) PROVE Handled(p)
  BY <1>2 DEF NewLogger
<1>3. ASSUME NEW f \in Names, DeleteLogger(p, f) PROVE Handled(p)
  BY <1>3 DEF DeleteLogger
<1>4. ASSUME NEW src \in Names, NEW target \in Names, RenameFile(p, src, target)
      PROVE  Handled(p)
  BY <1>4 DEF RenameFile, InUse
<1>5. CASE ListOpen(p)
  BY <1>5 DEF ListOpen
<1>6. CASE ListEnd(p)
  BY <1>6 DEF ListEnd
<1>7. ASSUME NEW f \in Names, ListNext(p, f) PROVE Handled(p)
  BY <1>7 DEF ListNext
<1> QED
  BY <1>1, <1>2, <1>3, <1>4, <1>5, <1>6, <1>7

LEMMA StepHandled ==
  ASSUME IInv, NEW p \in Procs, Step(p)
  PROVE  Handled(p) /\ Scans /\ Observe
BY LockSteps, ReleaseSteps, DirectorySteps, FileSteps DEF Step, Scans, InCall, Call

\* A listing and its iterator keep the files that stay, and get none that never was
\* there, in a step of the call and in one of another process.
LEMMA ListingStays ==
  ASSUME IInv, NEW p \in Procs, Moves(p), Scans, Observe,
         NEW q \in Procs, pc'[q] = "list"
  PROVE  /\ always'[q] \subseteq result'[q] \cup rest'[q]
         /\ result'[q] \cup rest'[q] \subseteq ever'[q]
<1>1. ever'[q] = ever[q] \cup files'
  BY DEF Observe
<1>2. CASE pc[q] # "list"
  <2>1. result'[q] = {} /\ rest'[q] = files' /\ always'[q] \subseteq files'
    BY <1>2 DEF Moves, Scans, Scan, Observe
  <2> QED
    BY <1>1, <2>1
<1>3. CASE pc[q] = "list"
  <2>1. /\ always[q] \subseteq result[q] \cup rest[q]
        /\ result[q] \cup rest[q] \subseteq ever[q]
    BY <1>3 DEF IInv, HistoryOK
  <2>2. always'[q] = always[q] \cap files'
    BY <1>3 DEF Observe
  <2>3. /\ (rest[q] \ result'[q]) \cap files' \subseteq rest'[q]
        /\ rest'[q] \subseteq (rest[q] \ result'[q]) \cup ((files' \ files) \ result'[q])
    BY <1>3 DEF Scans, Scan
  <2>4. result[q] \subseteq result'[q] /\ result'[q] \subseteq result[q] \cup rest[q]
    BY <1>3 DEF Moves
  <2> QED
    BY <1>1, <2>1, <2>2, <2>3, <2>4
<1> QED
  BY <1>2, <1>3

\* The history is recorded while the call goes on.
LEMMA HistoryStays ==
  ASSUME IInv, NEW p \in Procs, Moves(p), Scans, Observe, dir' \in {"none", "file", "dir"}
  PROVE  HistoryOK'
<1> SUFFICES ASSUME NEW q \in Procs
             PROVE  /\ pc'[q] = "isdir" => dir' \in been'[q]
                    /\ pc'[q] = "mkdir" => \E d \in been'[q] : d # "dir"
                    /\ pc'[q] = "list" =>
                         /\ always'[q] \subseteq files'
                         /\ always'[q] \subseteq result'[q] \cup rest'[q]
                         /\ result'[q] \cup rest'[q] \subseteq ever'[q]
  BY DEF HistoryOK
<1>1. pc'[q] = "isdir" => dir' \in been'[q]
  BY DEF Observe
<1>2. pc'[q] = "mkdir" => \E d \in been'[q] : d # "dir"
  <2>1. pc'[q] = "mkdir" => been[q] \cup {dir} \subseteq been'[q]
    BY DEF Observe
  <2>2. CASE q = p
    BY <2>1, <2>2 DEF Moves
  <2>3. CASE q # p
    BY <2>1, <2>3 DEF Moves, IInv, HistoryOK
  <2> QED
    BY <2>2, <2>3
<1>3. pc'[q] = "list" => always'[q] \subseteq files'
  BY DEF Observe
<1>4. pc'[q] = "list" => /\ always'[q] \subseteq result'[q] \cup rest'[q]
                         /\ result'[q] \cup rest'[q] \subseteq ever'[q]
  BY ListingStays
<1> QED
  BY <1>1, <1>2, <1>3, <1>4

LEMMA NextIInv == IInv /\ [Next]_vars => IInv'
<1> SUFFICES ASSUME IInv, [Next]_vars
             PROVE  IInv'
  OBVIOUS
<1>1. ASSUME NEW p \in Procs, Step(p) PROVE IInv'
  <2>1. Handled(p) /\ Scans /\ Observe
    BY <1>1, StepHandled
  <2>2. HistoryOK'
    BY <2>1, HistoryStays DEF Handled, TypeOK
  <2> QED
    BY <2>1, <2>2 DEF Handled, IInv
<1>2. CASE UNCHANGED vars
  BY <1>2 DEF IInv, TypeOK, HeldLockStays, HandlesOK, HistoryOK, vars, handleVars, callVars
<1> QED
  BY <1>1, <1>2 DEF Next

\* The inductive invariant
THEOREM Invariance == Spec => []IInv
BY InitIInv, NextIInv, PTL DEF Spec

-----------------------------------------------------------------------------
(* The properties *)

\* Types are kept, and only a directory has files.
THEOREM TypeCorrect == Spec => []TypeOK
<1>1. IInv => TypeOK
  BY DEF IInv
<1> QED
  BY <1>1, Invariance, PTL

\* A lock that was given stays with its process and its file: LockFile,
\* UnlockFile and all that can happen to the directory meanwhile.
THEOREM LockIsKept == Spec => []HeldLockStays
<1>1. IInv => HeldLockStays
  BY DEF IInv
<1> QED
  BY <1>1, Invariance, PTL

\* LockFile and UnlockFile implement a lock of processes: every step gets it, gives it
\* up, fails to, or is the end of a process, as the clients see them, or is none.
THEOREM LockRefinement == Spec => ImplementsLock
<1> DEFINE owners == {p \in Procs : lock[p]}
           stuck == {p \in Procs : holder = p /\ ~lock[p]}
<1>1. Init => Lock!Init
  BY DEF Init, Lock!Init
<1>2. IInv /\ [Next]_vars => [Lock!Next]_<<owners, stuck>>
  <2> SUFFICES ASSUME IInv, [Next]_vars
               PROVE  Lock!Next \/ UNCHANGED <<owners, stuck>>
    OBVIOUS
  <2>1. ASSUME NEW p \in Procs, Step(p) PROVE Lock!Next \/ UNCHANGED <<owners, stuck>>
    \* Who was given the lock is its holder, so only one set has a member.
    <3>1. owners \cup stuck = {q \in Procs : holder = q} /\ owners \cap stuck = {}
      BY DEF IInv, HeldLockStays
    <3>2. lock \in [Procs -> BOOLEAN]
      BY DEF IInv, TypeOK
    <3>3. CASE holder = Nobody /\ holder' = p /\ lock' = [lock EXCEPT ![p] = TRUE]
      <4>1. owners \cup stuck = {}
        BY <3>1, <3>3
      <4>2. owners' = {p}
        BY <3>2, <3>3, <4>1
      <4>3. stuck' = {}
        BY <3>2, <3>3
      <4> QED
        BY <4>1, <4>2, <4>3 DEF Lock!Next, Lock!Acquire
    <3>4. CASE lock[p] /\ holder' = Nobody /\ lock' = [lock EXCEPT ![p] = FALSE]
      <4>1. p \in owners /\ holder = p
        BY <3>4 DEF IInv, HeldLockStays
      <4>2. owners' = owners \ {p}
        BY <3>2, <3>4
      <4>3. stuck = {} /\ stuck' = {}
        BY <3>4, <4>1
      <4> QED
        BY <4>1, <4>2, <4>3 DEF Lock!Next, Lock!Release
    <3>5. CASE lock[p] /\ holder' = holder /\ lock' = [lock EXCEPT ![p] = FALSE]
      <4>1. p \in owners /\ holder = p
        BY <3>5 DEF IInv, HeldLockStays
      <4>2. owners' = owners \ {p}
        BY <3>2, <3>5
      <4>3. stuck = {} /\ stuck' = {p}
        BY <3>2, <3>5, <4>1
      <4> QED
        BY <4>1, <4>2, <4>3 DEF Lock!Next, Lock!ReleaseFails
    <3>6. CASE End(p)
      <4>1. /\ holder' = IF holder = p THEN Nobody ELSE holder
            /\ lock' = [lock EXCEPT ![p] = FALSE]
        BY <3>6 DEF End
      <4>2. CASE holder # p
        <5>1. ~lock[p]
          BY <4>2 DEF IInv, HeldLockStays
        <5>2. lock' = lock /\ holder' = holder
          BY <3>2, <4>1, <4>2, <5>1
        <5> QED
          BY <5>2
      <4>3. CASE holder = p /\ lock[p]
        BY <3>4, <4>1, <4>3
      <4>4. CASE holder = p /\ ~lock[p]
        <5>1. p \in stuck /\ stuck' = {} /\ stuck = {p}
          BY <4>1, <4>4
        <5>2. owners' = owners
          BY <3>2, <4>1, <4>4
        <5> QED
          BY <5>1, <5>2 DEF Lock!Next, Lock!End
      <4> QED
        BY <4>2, <4>3, <4>4
    <3>7. CASE UNCHANGED <<holder, lock>>
      BY <3>7
    <3>8. \/ UNCHANGED <<holder, lock>>
          \/ End(p)
          \/ holder = Nobody /\ holder' = p /\ lock' = [lock EXCEPT ![p] = TRUE]
          \/ /\ lock[p] /\ holder' \in {Nobody, holder}
             /\ lock' = [lock EXCEPT ![p] = FALSE]
      BY <2>1
      DEF Step, InCall, Call, Crash, handleVars, LockFile, LockCreate, LockAssert,
          LockAbort, LockOpen, LockTry, UnlockFile, UnlockDelete, CreateDir, CreateDirIsDir,
          CreateDirMake, DeleteDir, DeleteDirFails, DeleteDirSelf, DeleteDirChild,
          DeleteFile, RenameFile, NewLogger, DeleteLogger, ListOpen, ListNext, ListEnd,
          Throws
    <3> QED
      BY <3>3, <3>4, <3>5, <3>6, <3>7, <3>8
  <2>2. CASE UNCHANGED vars
    BY <2>2 DEF vars, handleVars
  <2> QED
    BY <2>1, <2>2 DEF Next
<1> QED
  BY <1>1, <1>2, Invariance, PTL DEF Spec, ImplementsLock, Lock!Spec, Lock!lockVars

\* What CreateDir returns is about a moment of its call, whatever other processes
\* do between its test and its action.
THEOREM CreateDirIsHonest == Spec => CreateDirHonest
<1> DEFINE Honest(p) ==
      Returns(p, "isdir") \/ Returns(p, "mkdir") =>
        /\ status'[p] = "ok" /\ ~testing[p] => "dir" \in been[p] \cup {dir'}
        /\ status'[p] = "error" => been[p] # {"dir"}
<1>1. IInv /\ [Next]_vars => [\A p \in Procs : Honest(p)]_vars
  <2> SUFFICES ASSUME IInv, NEW q \in Procs, Step(q), NEW p \in Procs,
                      pc[p] \in {"isdir", "mkdir"}, pc'[p] = "idle"
               PROVE  Honest(p)!2
    BY DEF Next, Returns
  <2>1. p = q
    BY StepHandled DEF Handled, Moves
  <2>2. \/ CreateDirIsDir(p) /\ pc[p] = "isdir"
        \/ CreateDirMake(p) /\ pc[p] = "mkdir"
        \/ status'[p] = "none"
    BY <2>1
    DEF Step, InCall, Call, Crash, End, LockFile, LockCreate, LockAssert, InRemoveAll,
        LockAbort, LockOpen, LockTry, UnlockFile, UnlockDelete, CreateDir, CreateDirIsDir,
        CreateDirMake, DeleteDir, DeleteDirFails, DeleteDirSelf, DeleteDirChild, Return,
        DeleteFile, RenameFile, NewLogger, DeleteLogger, ListOpen, ListNext, ListEnd,
        Throws, IInv, TypeOK
  <2>3. CASE CreateDirIsDir(p) /\ pc[p] = "isdir"
    BY <2>3 DEF CreateDirIsDir, CreateDirReturn, Goto, Return, IInv, TypeOK, HistoryOK
  <2>4. CASE CreateDirMake(p) /\ pc[p] = "mkdir"
    BY <2>4 DEF CreateDirMake, CreateDirReturn, Return, IInv, TypeOK, HistoryOK
  <2> QED
    BY <2>2, <2>3, <2>4
<1> QED
  BY <1>1, Invariance, PTL DEF Spec, CreateDirHonest

\* What GetChildren returns lies between what was always there and what was ever
\* there.
THEOREM ListingIsHonest == Spec => ListingHonest
<1> DEFINE Honest(p) ==
      Returns(p, "list") /\ status'[p] = "ok" =>
        always[p] \subseteq result[p] /\ result[p] \subseteq ever[p]
<1>1. IInv /\ [Next]_vars => [\A p \in Procs : Honest(p)]_vars
  <2> SUFFICES ASSUME IInv, NEW q \in Procs, Step(q), NEW p \in Procs,
                      pc[p] = "list", pc'[p] = "idle", status'[p] = "ok"
               PROVE  always[p] \subseteq result[p] /\ result[p] \subseteq ever[p]
    BY DEF Next, Returns
  <2>1. p = q
    BY StepHandled DEF Handled, Moves
  <2>2. ListEnd(p)
    BY <2>1
    DEF Step, InCall, Call, Crash, End, LockFile, LockCreate, LockAssert, InRemoveAll,
        LockAbort, LockOpen, LockTry, UnlockFile, UnlockDelete, CreateDir, CreateDirIsDir,
        CreateDirMake, DeleteDir, DeleteDirFails, DeleteDirSelf, DeleteDirChild, Return,
        DeleteFile, RenameFile, NewLogger, DeleteLogger, ListOpen, ListNext,
        Throws, IInv, TypeOK
  <2> QED
    BY <2>2 DEF ListEnd, IInv, HistoryOK
<1> QED
  BY <1>1, Invariance, PTL DEF Spec, ListingHonest
=============================================================================
