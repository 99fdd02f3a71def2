------------------------------- MODULE Files --------------------------------
(***************************************************************************)
(* One file under one name, as the clients of src/env.cc and of the file   *)
(* classes of src/env_boost.cc share it (the build for Windows):           *)
(*   - a writer calls WriteStringToFile, again and again: a BoostFile over *)
(*     a buffered std::ofstream;                                           *)
(*   - a reader calls ReadFileToString: a PosixSequentialFile;             *)
(*   - several threads call Read() of one PosixRandomAccessFile, which     *)
(*     share its descriptor and so its position.                           *)
(*                                                                         *)
(* External: the stream may pass its buffer on to the file in pieces, at   *)
(* any time of a call that writes or flushes, and may fail at any piece,   *)
(* which drops the rest and makes the stream bad until it is closed.  Any  *)
(* open, seek, read or removal may fail.  All files are opened with the    *)
(* sharing mode of the C library: another open file does not keep one from *)
(* truncating it, but does keep it from being removed.                     *)
(***************************************************************************)
EXTENDS Integers, Sequences

CONSTANTS
  Strings,      \* the data that clients write
  Bytes,        \* what these are made of
  kBufferSize,  \* ReadFileToString: bytes asked for at once
  Threads,      \* the threads that read at random
  Offsets,      \* where they read
  Sizes,        \* how many bytes they ask for
  Absent,       \* no such file
  Failed        \* the result of a Read() that failed

ASSUME FilesAssumption ==
  /\ Strings \subseteq Seq(Bytes)
  /\ kBufferSize \in Nat \ {0}
  /\ Offsets \subseteq Nat
  /\ Sizes \subseteq Nat
  /\ Absent \notin Seq(Bytes)
  /\ Failed \notin Seq(Bytes)

VARIABLES
  disk,      \* what the file holds, or Absent
  wpc,       \* where WriteStringToFile is: "idle", "append", "write", "close", "delete"
  wdata,     \* its data
  wstatus,   \* its status: "ok" or "error", "none" before the first call
  stream,    \* file_ of the BoostFile: "closed", "good" or "bad"
  buffer,    \* what file_ has not passed on yet
  rpc,       \* where ReadFileToString is: "idle" or "read"
  rpos,      \* the position of its FILE
  rdata,     \* *data
  rstatus,   \* its status
  rtorn,     \* history: a writer truncated the file since the reader opened it
  fd,        \* the PosixRandomAccessFile is open
  fdpos,     \* the position of fd_
  mu,        \* the threads that hold mu_
  tpc,       \* tpc[t]: where t is in Read(): "idle", "lock", "seek", "read", "done"
  toff,      \* toff[t]: its offset
  tsize,     \* tsize[t]: its n
  tresult    \* tresult[t]: the bytes it got, or Failed

writerVars == <<wpc, wdata, wstatus, stream, buffer>>
readerVars == <<rpc, rpos, rdata, rstatus, rtorn>>
threadVars == <<fd, fdpos, mu, tpc, toff, tsize, tresult>>
vars == <<disk, wpc, wdata, wstatus, stream, buffer,
          rpc, rpos, rdata, rstatus, rtorn,
          fd, fdpos, mu, tpc, toff, tsize, tresult>>

Init ==
  /\ disk = Absent
  /\ wpc = "idle" /\ wdata = <<>> /\ wstatus = "none"
  /\ stream = "closed" /\ buffer = <<>>
  /\ rpc = "idle" /\ rpos = 0 /\ rdata = <<>> /\ rstatus = "none" /\ rtorn = FALSE
  /\ fd = FALSE /\ fdpos = 0 /\ mu = {}
  /\ tpc = [t \in Threads |-> "idle"]
  /\ toff = [t \in Threads |-> 0]
  /\ tsize = [t \in Threads |-> 0]
  /\ tresult = [t \in Threads |-> <<>>]

Smaller(m, n) == IF m < n THEN m ELSE n

\* What a read of n bytes gets at position pos: less than n at the end
Content(pos, n) == SubSeq(disk, pos + 1, Smaller(pos + n, Len(disk)))

-----------------------------------------------------------------------------
(* WriteStringToFile *)

\* OpenTruncating as it must not be: without ios_base::trunc.
OpenKeeping(s) ==
  /\ wpc = "idle"
  /\ disk' = IF disk = Absent THEN <<>> ELSE disk
  /\ wpc' = "append" /\ wdata' = s /\ wstatus' = "ok"
  /\ stream' = "good"
  /\ rtorn' = TRUE
  /\ UNCHANGED <<buffer, rpc, rpos, rdata, rstatus, threadVars>>

\* NewWritableFile(): the constructor of BoostFile truncates the file.
OpenTruncating(s) ==
  /\ wpc = "idle"
  /\ disk' = <<>>
  /\ wpc' = "append" /\ wdata' = s /\ wstatus' = "ok"
  /\ stream' = "good"
  /\ rtorn' = TRUE
  /\ UNCHANGED <<buffer, rpc, rpos, rdata, rstatus, threadVars>>

\* file_.open() fails: nothing looks at the stream, so the status is OK.
OpenFails(s) ==
  /\ wpc = "idle"
  /\ wpc' = "append" /\ wdata' = s /\ wstatus' = "ok"
  /\ stream' = "bad"
  /\ UNCHANGED <<disk, buffer, readerVars, threadVars>>

\* The constructor throws (no memory): WriteStringToFile returns at once.
OpenThrows(s) ==
  /\ wpc = "idle"
  /\ wdata' = s /\ wstatus' = "error"
  /\ UNCHANGED <<disk, wpc, stream, buffer, readerVars, threadVars>>

\* Append() calls file_.write().
AppendWrite ==
  /\ wpc = "append"
  /\ wpc' = "write"
  /\ buffer' = IF stream = "good" THEN buffer \o wdata ELSE buffer
  /\ UNCHANGED <<disk, wdata, wstatus, stream, readerVars, threadVars>>

\* write() and flush() pass the first n bytes of the buffer on.
Spill(n) ==
  /\ wpc \in {"write", "close"} /\ stream = "good"
  /\ n \in 1 .. Len(buffer)
  /\ disk' = disk \o SubSeq(buffer, 1, n)
  /\ buffer' = SubSeq(buffer, n + 1, Len(buffer))
  /\ UNCHANGED <<wpc, wdata, wstatus, stream, readerVars, threadVars>>

SpillFails ==
  /\ wpc \in {"write", "close"} /\ stream = "good"
  /\ buffer # <<>>
  /\ stream' = "bad"
  /\ UNCHANGED <<disk, wpc, wdata, wstatus, buffer, readerVars, threadVars>>

\* Append() tests good(): on to Close(), or to the destructor, which closes.
AppendReturns ==
  /\ wpc = "write"
  /\ IF stream = "good"
     THEN /\ wpc' = "close"
          /\ UNCHANGED <<wstatus, stream, buffer>>
     ELSE /\ wpc' = "delete" /\ wstatus' = "error"
          /\ stream' = "closed" /\ buffer' = <<>>
  /\ UNCHANGED <<disk, wdata, readerVars, threadVars>>

\* Close() has flushed what it could: OK whatever the state of the stream.
CloseReturns ==
  /\ wpc = "close"
  /\ stream = "good" => buffer = <<>>
  /\ wpc' = "idle" /\ stream' = "closed" /\ buffer' = <<>>
  /\ UNCHANGED <<disk, wdata, wstatus, readerVars, threadVars>>

\* DeleteFile(), its status ignored: a file somebody reads stays.
DeleteFile ==
  /\ wpc = "delete"
  /\ wpc' = "idle"
  /\ \/ rpc = "idle" /\ ~fd /\ disk' = Absent
     \/ UNCHANGED disk
  /\ UNCHANGED <<wdata, wstatus, stream, buffer, readerVars, threadVars>>

Writer ==
  \/ \E s \in Strings : OpenTruncating(s) \/ OpenFails(s) \/ OpenThrows(s)
  \/ AppendWrite
  \/ \E n \in 1 .. Len(buffer) : Spill(n)
  \/ SpillFails
  \/ AppendReturns
  \/ CloseReturns
  \/ DeleteFile

-----------------------------------------------------------------------------
(* ReadFileToString *)

\* NewSequentialFile()
ReaderOpen ==
  /\ rpc = "idle" /\ disk # Absent
  /\ rpc' = "read" /\ rpos' = 0 /\ rdata' = <<>> /\ rtorn' = FALSE
  /\ UNCHANGED <<disk, rstatus, writerVars, threadVars>>

ReaderOpenFails ==
  /\ rpc = "idle"
  /\ rdata' = <<>> /\ rstatus' = "error"
  /\ UNCHANGED <<disk, rpc, rpos, rtorn, writerVars, threadVars>>

\* ReaderRead as it must not be: the first fragment ends the loop.
ReaderReadOnce ==
  /\ rpc = "read"
  /\ rdata' = rdata \o Content(rpos, kBufferSize)
  /\ rpos' = rpos + Len(Content(rpos, kBufferSize))
  /\ rpc' = "idle" /\ rstatus' = "ok"
  /\ UNCHANGED <<disk, rtorn, writerVars, threadVars>>

\* One turn of the loop: a fragment, or none and the function returns.
ReaderRead ==
  /\ rpc = "read"
  /\ LET fragment == Content(rpos, kBufferSize)
     IN  /\ rdata' = rdata \o fragment
         /\ rpos' = rpos + Len(fragment)
         /\ IF fragment = <<>>
            THEN rpc' = "idle" /\ rstatus' = "ok"
            ELSE UNCHANGED <<rpc, rstatus>>
  /\ UNCHANGED <<disk, rtorn, writerVars, threadVars>>

\* Read() reports an error: its fragment is dropped, what came before is kept.
ReaderReadFails ==
  /\ rpc = "read"
  /\ rpc' = "idle" /\ rstatus' = "error"
  /\ UNCHANGED <<disk, rpos, rdata, rtorn, writerVars, threadVars>>

Reader == ReaderOpen \/ ReaderOpenFails \/ ReaderRead \/ ReaderReadFails

-----------------------------------------------------------------------------
(* Read() of one PosixRandomAccessFile *)

\* NewRandomAccessFile(); an attempt that fails changes nothing.
RandomOpen ==
  /\ ~fd /\ disk # Absent
  /\ fd' = TRUE /\ fdpos' = 0
  /\ UNCHANGED <<disk, mu, tpc, toff, tsize, tresult, writerVars, readerVars>>

\* The destructor, when no thread reads any more
RandomClose ==
  /\ fd /\ \A t \in Threads : tpc[t] = "idle"
  /\ fd' = FALSE
  /\ UNCHANGED <<disk, fdpos, mu, tpc, toff, tsize, tresult, writerVars, readerVars>>

ReadCall(t, offset, n) ==
  /\ fd /\ tpc[t] = "idle"
  /\ tpc' = [tpc EXCEPT ![t] = "lock"]
  /\ toff' = [toff EXCEPT ![t] = offset]
  /\ tsize' = [tsize EXCEPT ![t] = n]
  /\ UNCHANGED <<disk, fd, fdpos, mu, tresult, writerVars, readerVars>>

\* ReadLock as it must not be: without the lock, as if there were pread().
ReadLockNot(t) ==
  /\ tpc[t] = "lock"
  /\ mu' = mu \cup {t}
  /\ tpc' = [tpc EXCEPT ![t] = "seek"]
  /\ UNCHANGED <<disk, fd, fdpos, toff, tsize, tresult, writerVars, readerVars>>

ReadLock(t) ==
  /\ tpc[t] = "lock" /\ mu = {}
  /\ mu' = {t}
  /\ tpc' = [tpc EXCEPT ![t] = "seek"]
  /\ UNCHANGED <<disk, fd, fdpos, toff, tsize, tresult, writerVars, readerVars>>

ReadSeek(t) ==
  /\ tpc[t] = "seek"
  /\ fdpos' = toff[t]
  /\ tpc' = [tpc EXCEPT ![t] = "read"]
  /\ UNCHANGED <<disk, fd, mu, toff, tsize, tresult, writerVars, readerVars>>

\* _lseeki64() fails: the return gives the lock up.
ReadSeekFails(t) ==
  /\ tpc[t] = "seek"
  /\ mu' = mu \ {t}
  /\ tpc' = [tpc EXCEPT ![t] = "done"]
  /\ tresult' = [tresult EXCEPT ![t] = Failed]
  /\ UNCHANGED <<disk, fd, fdpos, toff, tsize, writerVars, readerVars>>

\* _read(), and the lock is given up
ReadRead(t) ==
  /\ tpc[t] = "read"
  /\ tresult' = [tresult EXCEPT ![t] = Content(fdpos, tsize[t])]
  /\ fdpos' = fdpos + Len(Content(fdpos, tsize[t]))
  /\ mu' = mu \ {t}
  /\ tpc' = [tpc EXCEPT ![t] = "done"]
  /\ UNCHANGED <<disk, fd, toff, tsize, writerVars, readerVars>>

ReadReadFails(t) ==
  /\ tpc[t] = "read"
  /\ tresult' = [tresult EXCEPT ![t] = Failed]
  /\ mu' = mu \ {t}
  /\ tpc' = [tpc EXCEPT ![t] = "done"]
  /\ UNCHANGED <<disk, fd, fdpos, toff, tsize, writerVars, readerVars>>

\* The caller has used the bytes.
ReadReturn(t) ==
  /\ tpc[t] = "done"
  /\ tpc' = [tpc EXCEPT ![t] = "idle"]
  /\ toff' = [toff EXCEPT ![t] = 0]
  /\ tsize' = [tsize EXCEPT ![t] = 0]
  /\ tresult' = [tresult EXCEPT ![t] = <<>>]
  /\ UNCHANGED <<disk, fd, fdpos, mu, writerVars, readerVars>>

RandomReader(t) ==
  \/ \E offset \in Offsets, n \in Sizes : ReadCall(t, offset, n)
  \/ ReadLock(t)
  \/ ReadSeek(t) \/ ReadSeekFails(t)
  \/ ReadRead(t) \/ ReadReadFails(t)
  \/ ReadReturn(t)

Next ==
  \/ Writer
  \/ Reader
  \/ RandomOpen \/ RandomClose
  \/ \E t \in Threads : RandomReader(t)

Spec == Init /\ [][Next]_vars

-----------------------------------------------------------------------------
(* Properties *)

\* The types, and which state of the stream and of mu_ belongs to which point
\* of the code: the stream is closed outside WriteStringToFile.
TypeOK ==
  /\ disk \in Seq(Bytes) \cup {Absent}
  /\ wpc \in {"idle", "append", "write", "close", "delete"}
  /\ wdata \in Seq(Bytes)
  /\ wstatus \in {"none", "ok", "error"}
  /\ stream \in {"closed", "good", "bad"}
  /\ stream = "closed" <=> wpc \in {"idle", "delete"}
  /\ buffer \in Seq(Bytes)
  /\ rpc \in {"idle", "read"}
  /\ rpos \in Nat /\ rdata \in Seq(Bytes)
  /\ rstatus \in {"none", "ok", "error"}
  /\ rtorn \in BOOLEAN /\ fd \in BOOLEAN /\ fdpos \in Nat
  /\ mu = {t \in Threads : tpc[t] \in {"seek", "read"}}
  /\ tpc \in [Threads -> {"idle", "lock", "seek", "read", "done"}]
  /\ toff \in [Threads -> Nat] /\ tsize \in [Threads -> Nat]
  /\ tresult \in [Threads -> Seq(Bytes) \cup {Failed}]

\* While the stream is good, the file and the buffer together are exactly what
\* was appended to the file that NewWritableFile() emptied: BoostFile loses,
\* repeats and keeps nothing (env_boost.cc, Append and Flush).
NothingLost ==
  wpc \in {"write", "close"} /\ stream = "good" => disk \o buffer = wdata

\* A ReadFileToString() that returns OK has the whole file as its last Read()
\* found it, whatever was appended meanwhile, unless the file was truncated
\* under it (env.cc:63-73: the loop ends at an empty fragment only).
ReadsWhole ==
  [][rpc = "read" /\ rpc' = "idle" /\ rstatus' = "ok" /\ ~rtorn => rdata' = disk]_vars

\* Read() of a random access file is "safe for concurrent use by multiple
\* threads" (env.h:194): what it returns are the bytes at its own offset, however
\* the seeks and reads of other threads fall.
ReadIsAtomic ==
  [][\A t \in Threads : tpc[t] = "read" /\ tresult'[t] # Failed /\ tpc'[t] = "done"
       => tresult'[t] = Content(toff[t], tsize[t])]_vars

\* WriteStringToFile() that says OK has written the data (env.h:252,
\* "A utility routine: write "data" to the named file").
OkMeansWritten == wpc = "idle" /\ wstatus = "ok" => disk = wdata
=============================================================================
