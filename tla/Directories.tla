---------------------------- MODULE Directories -----------------------------
(***************************************************************************)
(* The directory of a database as several processes share it through the   *)
(* PosixEnv of src/env_boost.cc: CreateDir, DeleteDir, GetChildren, the    *)
(* files in it, and the lock of one of them.  Each call of the library is  *)
(* a step, so that every function that tests first and acts later has the  *)
(* other processes in between.  A process may end at any time.             *)
(*                                                                         *)
(* External: a library call may fail; a directory_iterator gives out every *)
(* file that stays from its construction until it comes to it, and some of *)
(* the others (Scan); the system refuses to remove or replace the file of  *)
(* a Logger (as in Files); nobody removes or replaces the file of a lock   *)
(* while a process has it open, which DeleteFile, RenameFile and DeleteDir *)
(* leave to their callers and the system; a lock belongs to a handle, so   *)
(* the process that has it cannot get it twice; the system closes the      *)
(* handles of a process that ends.                                         *)
(***************************************************************************)
EXTENDS Naturals, FiniteSets

CONSTANTS
  Procs,      \* the processes
  Nobody,     \* none of them
  Names,      \* the names of files that clients use
  LOCK,       \* the one they lock
  MaxHandles  \* bound: handles of LOCK that a process has open

ASSUME DirectoriesAssumption ==
  /\ Nobody \notin Procs
  /\ LOCK \in Names
  /\ MaxHandles \in Nat

VARIABLES
  dir,      \* what is under the name of the directory: "none", "file" or "dir"
  files,    \* the names of the files in it
  holder,   \* the process that has a handle with the lock of LOCK
  open,     \* open[p]: how many handles of LOCK it has
  lock,     \* lock[p]: it has a FileLock that it has not given to UnlockFile()
  logs,     \* logs[p]: the files it has Loggers on
  pc,       \* pc[p]: the next library call of the function it is in, or "idle"
  status,   \* status[p]: what its last call returned, "none" before that
  testing,  \* testing[p]: CreateDir() was called by GetTestDirectory()
  result,   \* result[p]: the vector that GetChildren() fills, as a set
  rest,     \* rest[p]: what its directory_iterator has still to give out
  been,     \* history, been[p]: what dir was since its call began
  always,   \* history, always[p]: the files that were there since then
  ever      \* history, ever[p]: the files that were there at some time since then

handleVars == <<holder, open, lock, logs>>
callVars == <<testing, result>>
vars == <<dir, files, handleVars, pc, status, callVars, rest, been, always, ever>>

Init ==
  /\ dir \in {"none", "file"} /\ files = {}
  /\ holder = Nobody
  /\ open = [p \in Procs |-> 0]
  /\ lock = [p \in Procs |-> FALSE]
  /\ logs = [p \in Procs |-> {}]
  /\ pc = [p \in Procs |-> "idle"]
  /\ status = [p \in Procs |-> "none"]
  /\ testing = [p \in Procs |-> FALSE]
  /\ result = [p \in Procs |-> {}]
  /\ rest = [p \in Procs |-> {}]
  /\ been = [p \in Procs |-> {}]
  /\ always = [p \in Procs |-> {}]
  /\ ever = [p \in Procs |-> {}]

\* On to the next library call, and back to the client
Goto(p, call) ==
  pc' = [pc EXCEPT ![p] = call] /\ status' = [status EXCEPT ![p] = "none"]
Return(p, s) ==
  pc' = [pc EXCEPT ![p] = "idle"] /\ status' = [status EXCEPT ![p] = s]

\* What is not removed or replaced
InUse(f) == \E p \in Procs : f \in logs[p] \/ (f = LOCK /\ open[p] > 0)

-----------------------------------------------------------------------------
(* LockFile and UnlockFile *)

\* exists(), which may throw
LockFile(p) ==
  /\ pc[p] = "idle" /\ open[p] < MaxHandles
  /\ Goto(p, IF LOCK \in files THEN "assert" ELSE "create") \/ Return(p, "error")
  /\ UNCHANGED <<dir, files, handleVars, callVars>>

\* The std::ofstream makes the file, or does not: nothing looks at it.
LockCreate(p) ==
  /\ pc[p] = "create"
  /\ \/ dir = "dir" /\ files' = files \cup {LOCK}
     \/ UNCHANGED files
  /\ Goto(p, "assert")
  /\ UNCHANGED <<dir, handleVars, callVars>>

\* exists() again
LockAssert(p) ==
  /\ pc[p] = "assert"
  /\ (LOCK \in files /\ Goto(p, "open")) \/ Return(p, "error")
  /\ UNCHANGED <<dir, files, handleVars, callVars>>

\* file_lock() opens the file, or throws.
LockOpen(p) ==
  /\ pc[p] = "open"
  /\ \/ LOCK \in files /\ open' = [open EXCEPT ![p] = @ + 1] /\ Goto(p, "try")
     \/ UNCHANGED open /\ Return(p, "error")
  /\ UNCHANGED <<dir, files, holder, lock, logs, callVars>>

\* LockTry as it must not be: the result of try_lock() is not looked at,
LockTryUnchecked(p) ==
  /\ pc[p] = "try"
  /\ holder' = IF holder = Nobody THEN p ELSE holder
  /\ lock' = [lock EXCEPT ![p] = TRUE]
  /\ Return(p, "ok")
  /\ UNCHANGED <<dir, files, open, logs, callVars>>

\* lock() is called instead, which waits,
LockTryWait(p) ==
  /\ pc[p] = "try" /\ holder = Nobody
  /\ holder' = p /\ lock' = [lock EXCEPT ![p] = TRUE]
  /\ Return(p, "ok")
  /\ UNCHANGED <<dir, files, open, logs, callVars>>

\* or my_lock is deleted in every case.
LockTryDeleted(p) ==
  /\ pc[p] = "try"
  /\ \/ /\ holder = Nobody
        /\ holder' = p /\ lock' = [lock EXCEPT ![p] = TRUE]
        /\ Return(p, "ok")
     \/ UNCHANGED <<holder, lock>> /\ Return(p, "error")
  /\ open' = [open EXCEPT ![p] = @ - 1]
  /\ UNCHANGED <<dir, files, logs, callVars>>

\* try_lock(): true, or false, or it throws; my_lock is deleted in no case, so
\* without the lock its handle stays open until the process ends.
LockTry(p) ==
  /\ pc[p] = "try"
  /\ \/ /\ holder = Nobody
        /\ holder' = p /\ lock' = [lock EXCEPT ![p] = TRUE]
        /\ Return(p, "ok")
     \/ UNCHANGED <<holder, lock>> /\ Return(p, "error")
  /\ UNCHANGED <<dir, files, open, logs, callVars>>

\* unlock(); if it throws, the client's FileLock is gone and the lock is not.
UnlockFile(p) ==
  /\ pc[p] = "idle" /\ lock[p]
  /\ lock' = [lock EXCEPT ![p] = FALSE]
  /\ \/ holder' = Nobody /\ Goto(p, "delete")
     \/ UNCHANGED holder /\ Return(p, "error")
  /\ UNCHANGED <<dir, files, open, logs, callVars>>

\* The destructor of the file_lock closes the handle.
UnlockDelete(p) ==
  /\ pc[p] = "delete"
  /\ open' = [open EXCEPT ![p] = @ - 1]
  /\ Return(p, "ok")
  /\ UNCHANGED <<dir, files, holder, lock, logs, callVars>>

\* The process ends.
End(p) ==
  /\ holder' = IF holder = p THEN Nobody ELSE holder
  /\ open' = [open EXCEPT ![p] = 0]
  /\ lock' = [lock EXCEPT ![p] = FALSE]
  /\ logs' = [logs EXCEPT ![p] = {}]
  /\ Return(p, "none")
  /\ testing' = [testing EXCEPT ![p] = FALSE]
  /\ result' = [result EXCEPT ![p] = {}]
  /\ UNCHANGED <<dir, files>>

\* The assertion that the file is there fails.
LockAbort(p) == pc[p] = "assert" /\ LOCK \notin files /\ End(p)

Crash(p) == End(p)

-----------------------------------------------------------------------------
(* CreateDir and DeleteDir *)

\* exists(); GetTestDirectory() calls CreateDir() too.
CreateDir(p, test) ==
  /\ pc[p] = "idle"
  /\ testing' = [testing EXCEPT ![p] = test]
  /\ Goto(p, IF dir = "none" THEN "mkdir" ELSE "isdir")
  /\ UNCHANGED <<dir, files, handleVars, result>>

\* GetTestDirectory() ignores the status of CreateDir().
CreateDirReturn(p, s) ==
  /\ Return(p, IF testing[p] THEN "ok" ELSE s)
  /\ testing' = [testing EXCEPT ![p] = FALSE]

\* CreateDirIsDir as it must not be: anything under the name will do.
CreateDirExists(p) ==
  /\ pc[p] = "isdir"
  /\ CreateDirReturn(p, "ok")
  /\ UNCHANGED <<dir, files, handleVars, result>>

\* is_directory()
CreateDirIsDir(p) ==
  /\ pc[p] = "isdir"
  /\ IF dir = "dir" THEN CreateDirReturn(p, "ok")
                    ELSE Goto(p, "mkdir") /\ UNCHANGED testing
  /\ UNCHANGED <<dir, files, handleVars, result>>

\* create_directories(): false if the directory is there.
CreateDirMake(p) ==
  /\ pc[p] = "mkdir"
  /\ \/ dir = "none" /\ dir' = "dir" /\ CreateDirReturn(p, "ok")
     \/ UNCHANGED dir /\ CreateDirReturn(p, "error")
  /\ UNCHANGED <<files, handleVars, result>>

\* remove_all() looks what is there: nothing counts as an error.
DeleteDir(p) ==
  /\ pc[p] = "idle"
  /\ \/ dir = "none" /\ Return(p, "error") /\ UNCHANGED dir
     \/ dir = "file" /\ Return(p, "ok") /\ dir' = "none"
     \/ dir = "dir" /\ Goto(p, "rmall") /\ UNCHANGED dir
  /\ UNCHANGED <<files, handleVars, callVars>>

\* The call is inside remove_all(), which has removed something or not yet.
InRemoveAll(p) == pc[p] \in {"rmall", "rmsome"}

\* One of the files
DeleteDirChild(p, f) ==
  /\ InRemoveAll(p) /\ f \in files /\ ~InUse(f)
  /\ files' = files \ {f}
  /\ Goto(p, "rmsome")
  /\ UNCHANGED <<dir, handleVars, callVars>>

\* A removal fails: remove_all() returns what it has counted, with or without the
\* one that failed, or the largest number, according to its version; ec is not
\* looked at.
DeleteDirFails(p) ==
  /\ InRemoveAll(p)
  /\ Return(p, "ok") \/ (pc[p] = "rmall" /\ Return(p, "error"))
  /\ UNCHANGED <<dir, files, handleVars, callVars>>

\* The directory itself; if another process has removed it, what is returned is
\* again up to the version.
DeleteDirSelf(p) ==
  /\ InRemoveAll(p) /\ files = {}
  /\ dir' = IF dir = "dir" THEN "none" ELSE dir
  /\ Return(p, "ok") \/ (dir # "dir" /\ pc[p] = "rmall" /\ Return(p, "error"))
  /\ UNCHANGED <<files, handleVars, callVars>>

-----------------------------------------------------------------------------
(* Files in the directory *)

\* A file that is not there is deleted without an error.
DeleteFile(p, f) ==
  /\ pc[p] = "idle"
  /\ \/ ~InUse(f) /\ files' = files \ {f} /\ Return(p, "ok")
     \/ f \in files /\ UNCHANGED files /\ Return(p, "error")
  /\ UNCHANGED <<dir, handleVars, callVars>>

RenameFile(p, src, target) ==
  /\ pc[p] = "idle"
  /\ \/ /\ src \in files /\ ~InUse(src) /\ ~InUse(target)
        /\ files' = (files \ {src}) \cup {target} /\ Return(p, "ok")
     \/ UNCHANGED files /\ Return(p, "error")
  /\ UNCHANGED <<dir, handleVars, callVars>>

\* The Logger keeps its file open.
NewLogger(p, f) ==
  /\ pc[p] = "idle" /\ f # LOCK
  /\ \/ /\ dir = "dir" /\ files' = files \cup {f}
        /\ logs' = [logs EXCEPT ![p] = @ \cup {f}] /\ Return(p, "ok")
     \/ UNCHANGED <<files, logs>> /\ Return(p, "error")
  /\ UNCHANGED <<dir, holder, open, lock, callVars>>

DeleteLogger(p, f) ==
  /\ pc[p] = "idle" /\ f \in logs[p]
  /\ logs' = [logs EXCEPT ![p] = @ \ {f}]
  /\ UNCHANGED <<dir, files, holder, open, lock, pc, status, callVars>>

\* GetChildren() clears *result, whatever is in it, and opens the directory.
ListOpen(p) ==
  /\ pc[p] = "idle"
  /\ result' = [result EXCEPT ![p] = {}]
  /\ IF dir = "dir" THEN Goto(p, "list") ELSE Return(p, "error")
  /\ UNCHANGED <<dir, files, handleVars, testing>>

\* push_back() and ++current
ListNext(p, f) ==
  /\ pc[p] = "list" /\ f \in rest[p]
  /\ result' = [result EXCEPT ![p] = @ \cup {f}]
  /\ UNCHANGED <<dir, files, handleVars, pc, status, testing>>

\* ListEnd as it must not be: a failed increment, which makes current the end, is
\* taken for it.
ListEndFailed(p) ==
  /\ pc[p] = "list"
  /\ Return(p, "ok")
  /\ result' = [result EXCEPT ![p] = {}]
  /\ UNCHANGED <<dir, files, handleVars, testing>>

\* current == end; the client takes the result.
ListEnd(p) ==
  /\ pc[p] = "list" /\ rest[p] = {}
  /\ Return(p, "ok")
  /\ result' = [result EXCEPT ![p] = {}]
  /\ UNCHANGED <<dir, files, handleVars, testing>>

\* is_directory() in CreateDir() and ++current in GetChildren() throw, which no caller
\* is told to expect.
Throws(p) ==
  /\ pc[p] \in {"isdir", "list"}
  /\ Return(p, "none")
  /\ testing' = [testing EXCEPT ![p] = FALSE]
  /\ result' = [result EXCEPT ![p] = {}]
  /\ UNCHANGED <<dir, files, handleVars>>

-----------------------------------------------------------------------------

\* The directory_iterator of GetChildren(): it begins with the files that are there; of
\* those that it has not given out, it keeps the ones that stay, and perhaps some that
\* go, since the library reads ahead; a file that comes may be met or not.
Scan(p) ==
  IF pc'[p] # "list" THEN rest'[p] = {}
  ELSE IF pc[p] # "list" THEN rest'[p] = files'
  ELSE LET left == rest[p] \ result'[p]
       IN  /\ left \cap files' \subseteq rest'[p]
           /\ rest'[p] \subseteq left \cup ((files' \ files) \ result'[p])

Scans == rest' \in [Procs -> SUBSET Names] /\ \A p \in Procs : Scan(p)

\* The history variables: what was there from the call to the return
Observe ==
  /\ been' = [p \in Procs |->
       IF pc'[p] \in {"isdir", "mkdir", "rmall", "rmsome"} THEN been[p] \cup {dir, dir'} ELSE {}]
  /\ always' = [p \in Procs |->
       IF pc'[p] # "list" THEN {}
       ELSE (IF pc[p] = "list" THEN always[p] ELSE files) \cap files']
  /\ ever' = [p \in Procs |-> IF pc'[p] = "list" THEN ever[p] \cup files' ELSE {}]

\* A function goes on.
InCall(p) ==
  \/ LockCreate(p) \/ LockAssert(p) \/ LockAbort(p) \/ LockOpen(p) \/ LockTry(p)
  \/ UnlockDelete(p)
  \/ CreateDirIsDir(p) \/ CreateDirMake(p)
  \/ DeleteDirFails(p) \/ DeleteDirSelf(p)
  \/ ListEnd(p) \/ Throws(p)
  \/ \E f \in Names : DeleteDirChild(p, f) \/ ListNext(p, f)

Call(p) ==
  \/ LockFile(p) \/ UnlockFile(p)
  \/ \E test \in BOOLEAN : CreateDir(p, test)
  \/ DeleteDir(p)
  \/ \E f \in Names : DeleteFile(p, f) \/ NewLogger(p, f) \/ DeleteLogger(p, f)
  \/ \E src, target \in Names : RenameFile(p, src, target)
  \/ ListOpen(p)

Step(p) == (InCall(p) \/ Call(p) \/ Crash(p)) /\ Scans /\ Observe

Next == \E p \in Procs : Step(p)

Spec == Init /\ [][Next]_vars

\* A process inside a function goes on.
FairSpec == Spec /\ \A p \in Procs : WF_vars(InCall(p) /\ Scans /\ Observe)

-----------------------------------------------------------------------------
(* Properties *)

TypeOK ==
  /\ dir \in {"none", "file", "dir"} /\ files \subseteq Names
  /\ dir # "dir" => files = {}
  /\ holder \in Procs \cup {Nobody}
  /\ open \in [Procs -> 0 .. MaxHandles] /\ lock \in [Procs -> BOOLEAN]
  /\ logs \in [Procs -> SUBSET Names]
  /\ pc \in [Procs -> {"idle", "create", "assert", "open", "try", "delete",
                       "isdir", "mkdir", "rmall", "rmsome", "list"}]
  /\ status \in [Procs -> {"none", "ok", "error"}]
  /\ testing \in [Procs -> BOOLEAN]
  /\ result \in [Procs -> SUBSET Names] /\ rest \in [Procs -> SUBSET Names]

\* Who was given the lock has it, with an open handle of the file that has its name:
\* no failed LockFile(), no UnlockFile() of another lock and no end of another
\* process takes it away (env_boost.cc:394-435).
HeldLockStays ==
  \A p \in Procs :
    /\ lock[p] => holder = p
    /\ holder = p \/ pc[p] = "try" => open[p] > 0 /\ LOCK \in files

\* The lock of env.h:97-116, as those see it who were given it: one process at a
\* time, from the LockFile() that says OK to UnlockFile() or the process's end, and
\* free again then, but for the process whose UnlockFile() failed.
Lock == INSTANCE ProcessLock
  WITH owners <- {p \in Procs : lock[p]},
       stuck <- {p \in Procs : holder = p /\ ~lock[p]}
ImplementsLock == Lock!Spec

Returns(p, call) == pc[p] = call /\ pc'[p] = "idle"

\* CreateDir() that says OK found or made a directory, and one that says it failed
\* found a moment without it, whatever other processes create and delete between
\* its calls of the library (env_boost.cc:338-353).
CreateDirHonest ==
  [][\A p \in Procs :
       Returns(p, "isdir") \/ Returns(p, "mkdir") =>
         /\ status'[p] = "ok" /\ ~testing[p] => "dir" \in been[p] \cup {dir'}
         /\ status'[p] = "error" => been[p] # {"dir"}]_vars

\* A list of children for which GetChildren() says OK has every file that was there
\* during the whole call, and none that was there at no time of it, whatever comes
\* and goes before and behind the iterator (env.h:75-77, env_boost.cc:305-322).
ListingHonest ==
  [][\A p \in Procs :
       Returns(p, "list") /\ status'[p] = "ok" =>
         always[p] \subseteq result[p] /\ result[p] \subseteq ever[p]]_vars

\* LockFile() and CreateDir() return, whoever has the lock: "this call does not
\* wait for existing locks to go away" (env.h:106-108).
CallsReturn ==
  \A p \in Procs :
    pc[p] \in {"create", "assert", "open", "try", "delete", "isdir", "mkdir"}
      ~> pc[p] = "idle"

\* DeleteDir() that says OK has deleted the directory, or somebody else has
\* (env.h:87, "Delete the specified directory.").
DeleteDirDeletes ==
  [][\A p \in Procs :
       (Returns(p, "rmall") \/ Returns(p, "rmsome")) /\ status'[p] = "ok" =>
         dir' # "dir" \/ been[p] # {"dir"}]_vars
=============================================================================
