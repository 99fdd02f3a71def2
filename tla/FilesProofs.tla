---------------------------- MODULE FilesProofs -----------------------------
(***************************************************************************)
(* Proofs about Files, for any strings, buffer size and number of threads. *)
(*                                                                         *)
(* The inductive invariant joins the three users of the file: what the     *)
(* writer appended is split between the file and the buffer; an untorn     *)
(* read holds a prefix of the file; the thread that holds mu_ owns the     *)
(* position of the descriptor.                                             *)
(***************************************************************************)
EXTENDS Files, SequenceTheorems, TLAPS

\* The writer: nothing is buffered but between write() and close(), and an
\* appendable file is there and starts empty.
WriterOK ==
  /\ wpc \in {"idle", "append", "delete"} => buffer = <<>>
  /\ stream = "good" => disk # Absent
  /\ wpc = "append" /\ stream = "good" => disk = <<>>

\* The reader: its FILE stands behind what it read; that is a prefix of the
\* file unless the file was truncated.
ReaderOK ==
  rpc = "read" =>
    /\ disk # Absent
    /\ rpos = Len(rdata)
    /\ ~rtorn => /\ Len(rdata) <= Len(disk)
                 /\ \A i \in 1 .. Len(rdata) : rdata[i] = disk[i]

\* The threads: one at a time between seek and read, at its own position.
ThreadsOK ==
  /\ fd => disk # Absent
  /\ \A t \in Threads : tpc[t] \in {"lock", "seek", "read"} => fd
  /\ \A t, u \in Threads :
       tpc[t] \in {"seek", "read"} /\ tpc[u] \in {"seek", "read"} => t = u
  /\ \A t \in Threads : tpc[t] = "read" => fdpos = toff[t]

IInv == TypeOK /\ NothingLost /\ WriterOK /\ ReaderOK /\ ThreadsOK

-----------------------------------------------------------------------------
(* Sequences *)

\* Concatenation may be grouped either way.
LEMMA Regroup ==
  ASSUME NEW x \in Seq(Bytes), NEW y \in Seq(Bytes), NEW z \in Seq(Bytes)
  PROVE  (x \o y) \o z = x \o (y \o z)
BY ConcatAssociative

\* Moving the front of the buffer to the end of the file changes neither order
\* nor content.
LEMMA Split ==
  ASSUME NEW s \in Seq(Bytes), NEW b \in Seq(Bytes), NEW n \in 1 .. Len(b)
  PROVE  /\ s \o SubSeq(b, 1, n) \in Seq(Bytes)
         /\ SubSeq(b, n + 1, Len(b)) \in Seq(Bytes)
         /\ (s \o SubSeq(b, 1, n)) \o SubSeq(b, n + 1, Len(b)) = s \o b
<1> DEFINE p == SubSeq(b, 1, n)
           q == SubSeq(b, n + 1, Len(b))
<1>1. /\ p \in Seq(Bytes) /\ Len(p) = n
      /\ \A i \in 1 .. n : p[i] = b[i]
  OBVIOUS
<1>2. /\ q \in Seq(Bytes) /\ Len(q) = Len(b) - n
      /\ \A i \in 1 .. Len(b) - n : q[i] = b[n + i]
  <2>1. \A i \in n + 1 .. Len(b) : b[i] \in Bytes
    BY ElementOfSeq
  <2>2. /\ q \in Seq(Bytes)
        /\ Len(q) = IF n + 1 <= Len(b) THEN Len(b) - (n + 1) + 1 ELSE 0
        /\ \A i \in 1 .. Len(b) - (n + 1) + 1 : q[i] = b[n + 1 + i - 1]
    BY <2>1, SubSeqProperties
  <2> QED
    BY <2>2
<1>t. Len(b) \in Nat /\ n \in Nat /\ n <= Len(b)
  OBVIOUS
<1> HIDE DEF p, q
<1>3. p \o q = b
  <2>0. /\ p \o q \in Seq(Bytes) /\ Len(p \o q) = Len(p) + Len(q)
        /\ \A i \in 1 .. Len(p) + Len(q) : (p \o q)[i] = IF i <= Len(p) THEN p[i] ELSE q[i - Len(p)]
    BY <1>1, <1>2, ConcatProperties
  <2>1. /\ p \o q \in Seq(Bytes) /\ Len(p \o q) = Len(b)
        /\ \A i \in 1 .. Len(b) : (p \o q)[i] = IF i <= n THEN p[i] ELSE q[i - n]
    <3>1. Len(p) + Len(q) = Len(b)
      BY <1>1, <1>2, <1>t
    <3> QED
      BY <1>1, <2>0, <3>1
  <2>2. \A i \in 1 .. Len(b) : (p \o q)[i] = b[i]
    <3> TAKE i \in 1 .. Len(b)
    <3>1. CASE i <= n
      BY <1>1, <2>1, <3>1
    <3>2. CASE ~(i <= n)
      <4>1. i - n \in 1 .. Len(b) - n /\ n + (i - n) = i
        BY <1>t, <3>2
      <4> QED
        BY <1>2, <2>1, <3>2, <4>1
    <3> QED
      BY <3>1, <3>2
  <2> QED
    BY <2>1, <2>2, SeqEqual
<1>4. s \o p \in Seq(Bytes)
  BY <1>1, ConcatProperties
<1>5. (s \o p) \o q = s \o (p \o q)
  BY <1>1, <1>2, Regroup
<1> QED
  BY <1>2, <1>3, <1>4, <1>5 DEF p, q

\* What a read of at least one byte gets: the bytes of the file from pos on,
\* none only at the end.
LEMMA ContentIs ==
  ASSUME disk \in Seq(Bytes), NEW pos \in Nat, NEW n \in Nat
  PROVE  /\ Content(pos, n) \in Seq(Bytes)
         /\ pos <= Len(disk) => pos + Len(Content(pos, n)) <= Len(disk)
         /\ \A i \in 1 .. Len(Content(pos, n)) : Content(pos, n)[i] = disk[pos + i]
         /\ n > 0 /\ Content(pos, n) = <<>> => Len(disk) <= pos
<1> DEFINE m == Smaller(pos + n, Len(disk))
<1>1. m \in Nat /\ m <= Len(disk) /\ (m = pos + n \/ m = Len(disk))
  BY DEF Smaller
<1> HIDE DEF m
<1>2. Content(pos, n) = SubSeq(disk, pos + 1, m)
  BY DEF Content, m
<1>3. CASE m <= pos
  <2>1. Content(pos, n) = <<>>
    BY <1>1, <1>2, <1>3
  <2> QED
    BY <1>1, <1>3, <2>1
<1>4. CASE m > pos
  <2>1. /\ Len(Content(pos, n)) = m - pos
        /\ Content(pos, n) \in Seq(Bytes)
        /\ \A i \in 1 .. m - pos : Content(pos, n)[i] = disk[pos + i]
    BY <1>1, <1>2, <1>4
  <2>2. Content(pos, n) # <<>>
    BY <1>1, <1>4, <2>1
  <2> QED
    BY <1>1, <1>4, <2>1, <2>2
<1> QED
  BY <1>1, <1>3, <1>4
-----------------------------------------------------------------------------
(* The inductive invariant *)

LEMMA EmptyIsThere == <<>> \in Seq(Bytes) /\ <<>> # Absent
<1>1. <<>> \in Seq(Bytes)
  BY EmptySeq
<1> QED BY <1>1, FilesAssumption

LEMMA InitInv == Init => IInv
<1> SUFFICES ASSUME Init PROVE IInv
  OBVIOUS
<1> USE DEF Init
<1>1. TypeOK BY EmptyIsThere DEF TypeOK
<1>2. NothingLost BY DEF NothingLost
<1>3. WriterOK BY DEF WriterOK
<1>4. ReaderOK BY DEF ReaderOK
<1>5. ThreadsOK BY DEF ThreadsOK
<1> QED BY <1>1, <1>2, <1>3, <1>4, <1>5 DEF IInv

\* The steps of the writer that leave the file as it is or remove it
LEMMA WriterInv ==
  ASSUME IInv,
         \/ \E s \in Strings : OpenTruncating(s) \/ OpenFails(s) \/ OpenThrows(s)
         \/ AppendWrite \/ SpillFails \/ AppendReturns \/ CloseReturns \/ DeleteFile
  PROVE  IInv'
<1> USE FilesAssumption DEF IInv
<1>1. ASSUME NEW s \in Strings, OpenTruncating(s) PROVE IInv'
  <2> USE <1>1 DEF OpenTruncating, threadVars
  <2>1. TypeOK' BY DEF TypeOK
  <2>2. NothingLost' BY DEF NothingLost
  <2>3. WriterOK' BY EmptyIsThere DEF WriterOK
  <2>4. ReaderOK' BY EmptyIsThere DEF ReaderOK
  <2>5. ThreadsOK' BY EmptyIsThere DEF ThreadsOK
  <2> QED BY <2>1, <2>2, <2>3, <2>4, <2>5
<1>2. ASSUME NEW s \in Strings, OpenFails(s) PROVE IInv'
  <2> USE <1>2 DEF OpenFails, readerVars, threadVars
  <2>1. TypeOK' BY DEF TypeOK
  <2>2. NothingLost' BY DEF NothingLost
  <2>3. WriterOK' BY DEF WriterOK
  <2>4. ReaderOK' BY DEF ReaderOK
  <2>5. ThreadsOK' BY DEF ThreadsOK
  <2> QED BY <2>1, <2>2, <2>3, <2>4, <2>5
<1>3. ASSUME NEW s \in Strings, OpenThrows(s) PROVE IInv'
  <2> USE <1>3 DEF OpenThrows, readerVars, threadVars
  <2>1. TypeOK' BY DEF TypeOK
  <2>2. NothingLost' BY DEF NothingLost
  <2>3. WriterOK' BY DEF WriterOK
  <2>4. ReaderOK' BY DEF ReaderOK
  <2>5. ThreadsOK' BY DEF ThreadsOK
  <2> QED BY <2>1, <2>2, <2>3, <2>4, <2>5
<1>4. CASE AppendWrite
  <2> USE <1>4 DEF AppendWrite, readerVars, threadVars
  <2>0. stream = "good" => buffer' = wdata /\ disk = <<>> /\ disk \o wdata = wdata
    <3>1. wdata \in Seq(Bytes) BY DEF TypeOK
    <3>2. <<>> \o wdata = wdata BY <3>1, ConcatEmptySeq
    <3>3. stream = "good" => disk = <<>> /\ buffer = <<>> BY DEF WriterOK
    <3> QED BY <3>2, <3>3
  <2>1. TypeOK' BY <2>0 DEF TypeOK
  <2>2. NothingLost' BY <2>0 DEF NothingLost
  <2>3. WriterOK' BY DEF WriterOK
  <2>4. ReaderOK' BY DEF ReaderOK
  <2>5. ThreadsOK' BY DEF ThreadsOK
  <2> QED BY <2>1, <2>2, <2>3, <2>4, <2>5
<1>5. CASE SpillFails
  <2> USE <1>5 DEF SpillFails, readerVars, threadVars
  <2>1. TypeOK' BY DEF TypeOK
  <2>2. NothingLost' BY DEF NothingLost
  <2>3. WriterOK' BY DEF WriterOK
  <2>4. ReaderOK' BY DEF ReaderOK
  <2>5. ThreadsOK' BY DEF ThreadsOK
  <2> QED BY <2>1, <2>2, <2>3, <2>4, <2>5
<1>6. CASE AppendReturns
  <2> USE <1>6 DEF AppendReturns, readerVars, threadVars
  <2>1. TypeOK'
    <3>1. CASE stream = "good" BY <3>1 DEF TypeOK
    <3>2. CASE stream # "good" BY <3>2, EmptyIsThere DEF TypeOK
    <3> QED BY <3>1, <3>2
  <2>2. NothingLost' BY DEF NothingLost
  <2>3. WriterOK' BY DEF WriterOK
  <2>4. ReaderOK' BY DEF ReaderOK
  <2>5. ThreadsOK' BY DEF ThreadsOK
  <2> QED BY <2>1, <2>2, <2>3, <2>4, <2>5
<1>7. CASE CloseReturns
  <2> USE <1>7 DEF CloseReturns, readerVars, threadVars
  <2>1. TypeOK' BY DEF TypeOK
  <2>2. NothingLost' BY DEF NothingLost
  <2>3. WriterOK' BY DEF WriterOK
  <2>4. ReaderOK' BY DEF ReaderOK
  <2>5. ThreadsOK' BY DEF ThreadsOK
  <2> QED BY <2>1, <2>2, <2>3, <2>4, <2>5
<1>8. CASE DeleteFile
  <2> USE <1>8 DEF DeleteFile, readerVars, threadVars
  <2>1. TypeOK' BY DEF TypeOK
  <2>2. NothingLost' BY DEF NothingLost
  <2>3. WriterOK' BY DEF WriterOK, TypeOK
  <2>4. ReaderOK' BY DEF ReaderOK
  <2>5. ThreadsOK' BY DEF ThreadsOK
  <2> QED BY <2>1, <2>2, <2>3, <2>4, <2>5
<1> QED
  BY <1>1, <1>2, <1>3, <1>4, <1>5, <1>6, <1>7, <1>8

\* A piece of the buffer reaches the file: what was read of it stays a prefix.
LEMMA SpillInv ==
  ASSUME IInv, NEW n \in 1 .. Len(buffer), Spill(n)
  PROVE  IInv'
<1> USE DEF Spill, readerVars, threadVars
<1>1. disk \in Seq(Bytes) /\ buffer \in Seq(Bytes)
  BY DEF IInv, TypeOK, WriterOK
<1>2. /\ disk' \in Seq(Bytes) /\ buffer' \in Seq(Bytes)
      /\ disk' \o buffer' = disk \o buffer
  BY <1>1, Split
<1>3. /\ Len(disk) <= Len(disk')
      /\ \A i \in 1 .. Len(disk) : disk'[i] = disk[i]
  <2>1. SubSeq(buffer, 1, n) \in Seq(Bytes)
    BY <1>1
  <2>2. /\ Len(disk') = Len(disk) + Len(SubSeq(buffer, 1, n))
        /\ \A i \in 1 .. Len(disk) + Len(SubSeq(buffer, 1, n)) : disk'[i] =
             IF i <= Len(disk) THEN disk[i] ELSE SubSeq(buffer, 1, n)[i - Len(disk)]
    BY <1>1, <2>1, ConcatProperties
  <2>3. Len(disk) \in Nat /\ Len(SubSeq(buffer, 1, n)) \in Nat
    BY <1>1, <2>1
  <2> QED BY <2>2, <2>3
<1>4. disk' # Absent
  BY <1>2, FilesAssumption
<1>5. TypeOK' BY <1>2 DEF IInv, TypeOK
<1>6. NothingLost' BY <1>2 DEF IInv, NothingLost
<1>7. WriterOK' BY <1>4 DEF IInv, WriterOK
<1>8. ReaderOK'
  <2>1. rdata \in Seq(Bytes) BY DEF IInv, TypeOK
  <2>2. Len(rdata) \in Nat /\ Len(disk) \in Nat /\ Len(disk') \in Nat BY <1>1, <1>2, <2>1
  <2>3. Len(rdata) <= Len(disk) =>
          /\ Len(rdata) <= Len(disk')
          /\ \A i \in 1 .. Len(rdata) : i \in 1 .. Len(disk)
    BY <1>3, <2>2
  <2> QED BY <1>3, <1>4, <2>3 DEF IInv, ReaderOK
<1>9. ThreadsOK' BY <1>4 DEF IInv, ThreadsOK
<1> QED BY <1>5, <1>6, <1>7, <1>8, <1>9 DEF IInv

\* The fragment of a read continues what was read before.
LEMMA ReadInv ==
  ASSUME IInv, ReaderRead
  PROVE  /\ IInv'
         /\ rpc' = "idle" /\ ~rtorn => rdata' = disk
<1> USE DEF IInv
<1> DEFINE fragment == Content(rpos, kBufferSize)
<1>1. disk \in Seq(Bytes) /\ rdata \in Seq(Bytes) /\ rpos = Len(rdata) /\ rpos \in Nat
  BY DEF TypeOK, ReaderOK, ReaderRead
<1>2. /\ fragment \in Seq(Bytes)
      /\ rpos <= Len(disk) => rpos + Len(fragment) <= Len(disk)
      /\ \A i \in 1 .. Len(fragment) : fragment[i] = disk[rpos + i]
      /\ fragment = <<>> => Len(disk) <= rpos
  <2>1. kBufferSize \in Nat /\ kBufferSize > 0
    BY FilesAssumption
  <2> QED BY <1>1, <2>1, ContentIs
<1>3. /\ rdata' = rdata \o fragment
      /\ rpos' = rpos + Len(fragment)
      /\ IF fragment = <<>>
         THEN rpc' = "idle" /\ rstatus' = "ok"
         ELSE UNCHANGED <<rpc, rstatus>>
      /\ UNCHANGED <<disk, rtorn, writerVars, threadVars>>
  BY DEF ReaderRead
<1> HIDE DEF fragment
<1> DEFINE f == fragment
<1>4. /\ rdata' \in Seq(Bytes)
      /\ Len(rdata') = Len(rdata) + Len(f)
      /\ \A i \in 1 .. Len(rdata) + Len(f) :
           rdata'[i] = IF i <= Len(rdata) THEN rdata[i] ELSE f[i - Len(rdata)]
  BY <1>1, <1>2, <1>3, ConcatProperties
<1>5. Len(f) \in Nat /\ Len(disk) \in Nat
  BY <1>1, <1>2
<1>6. TypeOK'
  BY <1>1, <1>3, <1>4, <1>5 DEF TypeOK, writerVars, threadVars
<1>7. NothingLost' /\ WriterOK' /\ ThreadsOK'
  BY <1>3 DEF NothingLost, WriterOK, ThreadsOK, writerVars, threadVars
<1>8. ASSUME ~rtorn
      PROVE  /\ Len(rdata') <= Len(disk)
             /\ \A i \in 1 .. Len(rdata') : rdata'[i] = disk[i]
  <2>1. Len(rdata) <= Len(disk) /\ \A i \in 1 .. Len(rdata) : rdata[i] = disk[i]
    BY <1>8 DEF ReaderOK, ReaderRead
  <2>2. Len(rdata') <= Len(disk)
    BY <1>1, <1>2, <1>4, <1>5, <2>1
  <2>3. ASSUME NEW i \in 1 .. Len(rdata') PROVE rdata'[i] = disk[i]
    <3>1. i \in 1 .. Len(rdata) + Len(f)
      BY <1>4, <2>3
    <3>2. CASE i <= Len(rdata)
      <4>1. i \in 1 .. Len(rdata) BY <1>1, <1>5, <3>1, <3>2
      <4> QED BY <1>4, <2>1, <3>1, <3>2, <4>1
    <3>3. CASE ~(i <= Len(rdata))
      <4>1. i - Len(rdata) \in 1 .. Len(f) /\ rpos + (i - Len(rdata)) = i
        BY <1>1, <1>5, <3>1, <3>3
      <4> QED BY <1>2, <1>4, <3>1, <3>3, <4>1
    <3> QED BY <3>2, <3>3
  <2> QED BY <2>2, <2>3
<1>9. ReaderOK'
  BY <1>1, <1>3, <1>4, <1>8 DEF ReaderOK, ReaderRead
<1>10. ASSUME rpc' = "idle", ~rtorn PROVE rdata' = disk
  <2>1. f = <<>>
    BY <1>3, <1>10 DEF ReaderRead
  <2>2. rdata' = rdata /\ Len(disk) <= Len(rdata)
    BY <1>1, <1>2, <1>3, <2>1
  <2>3. Len(rdata) <= Len(disk) /\ \A i \in 1 .. Len(rdata) : rdata[i] = disk[i]
    BY <1>10 DEF ReaderOK, ReaderRead
  <2>4. Len(rdata) = Len(disk)
    BY <1>1, <1>5, <2>2, <2>3
  <2> QED BY <1>1, <2>2, <2>3, <2>4, SeqEqual
<1> QED BY <1>6, <1>7, <1>9, <1>10

\* The other steps of the reader, and those that open and close the
\* descriptor, change no file.
LEMMA OpenInv ==
  ASSUME IInv,
         ReaderOpen \/ ReaderOpenFails \/ ReaderReadFails \/ RandomOpen \/ RandomClose
  PROVE  IInv'
<1> USE DEF IInv
<1>1. ASSUME ReaderOpen PROVE IInv'
  <2> USE <1>1 DEF ReaderOpen, writerVars, threadVars
  <2>1. TypeOK' BY EmptyIsThere DEF TypeOK
  <2>2. disk \in Seq(Bytes) BY DEF TypeOK
  <2>3. NothingLost' /\ WriterOK' /\ ThreadsOK' BY DEF NothingLost, WriterOK, ThreadsOK
  <2>4. ReaderOK' BY <2>2 DEF ReaderOK
  <2> QED BY <2>1, <2>3, <2>4
<1>2. ASSUME ReaderOpenFails PROVE IInv'
  <2> USE <1>2 DEF ReaderOpenFails, writerVars, threadVars
  <2>1. TypeOK' BY EmptyIsThere DEF TypeOK
  <2>3. NothingLost' /\ WriterOK' /\ ThreadsOK' BY DEF NothingLost, WriterOK, ThreadsOK
  <2>4. ReaderOK' BY DEF ReaderOK
  <2> QED BY <2>1, <2>3, <2>4
<1>3. ASSUME ReaderReadFails PROVE IInv'
  <2> USE <1>3 DEF ReaderReadFails, writerVars, threadVars
  <2>1. TypeOK' BY DEF TypeOK
  <2>3. NothingLost' /\ WriterOK' /\ ThreadsOK' BY DEF NothingLost, WriterOK, ThreadsOK
  <2>4. ReaderOK' BY DEF ReaderOK
  <2> QED BY <2>1, <2>3, <2>4
<1>4. ASSUME RandomOpen PROVE IInv'
  <2> USE <1>4 DEF RandomOpen, writerVars, readerVars
  <2>1. TypeOK' BY DEF TypeOK
  <2>3. NothingLost' /\ WriterOK' /\ ReaderOK' BY DEF NothingLost, WriterOK, ReaderOK
  <2>4. ThreadsOK' BY DEF ThreadsOK
  <2> QED BY <2>1, <2>3, <2>4
<1>5. ASSUME RandomClose PROVE IInv'
  <2> USE <1>5 DEF RandomClose, writerVars, readerVars
  <2>1. TypeOK' BY DEF TypeOK
  <2>3. NothingLost' /\ WriterOK' /\ ReaderOK' BY DEF NothingLost, WriterOK, ReaderOK
  <2>4. ThreadsOK' BY DEF ThreadsOK
  <2> QED BY <2>1, <2>3, <2>4
<1> QED BY <1>1, <1>2, <1>3, <1>4, <1>5

\* A thread in Read(): between its seek and its read it holds mu_, so nobody
\* else moves the position.
LEMMA ThreadInv ==
  ASSUME IInv, NEW t \in Threads, RandomReader(t)
  PROVE  IInv'
<1> USE DEF IInv
<1>1. NothingLost' /\ WriterOK' /\ ReaderOK'
  BY DEF RandomReader, ReadCall, ReadLock, ReadSeek, ReadSeekFails, ReadRead,
         ReadReadFails, ReadReturn, writerVars, readerVars, NothingLost, WriterOK, ReaderOK
<1>2. ASSUME NEW offset \in Offsets, NEW n \in Sizes, ReadCall(t, offset, n)
      PROVE  TypeOK' /\ ThreadsOK'
  <2> USE <1>2 DEF ReadCall, writerVars, readerVars
  <2>1. offset \in Nat /\ n \in Nat BY FilesAssumption
  <2>2. mu' = {u \in Threads : tpc'[u] \in {"seek", "read"}} BY DEF TypeOK
  <2>3. TypeOK' BY <2>1, <2>2 DEF TypeOK
  <2>4. ThreadsOK' BY DEF ThreadsOK, TypeOK
  <2> QED BY <2>3, <2>4
<1>3. ASSUME ReadLock(t) PROVE TypeOK' /\ ThreadsOK'
  <2> USE <1>3 DEF ReadLock, writerVars, readerVars
  <2>1. \A u \in Threads : tpc[u] \notin {"seek", "read"} BY DEF TypeOK
  <2>2. mu' = {u \in Threads : tpc'[u] \in {"seek", "read"}} BY <2>1 DEF TypeOK
  <2>3. TypeOK' BY <2>2 DEF TypeOK
  <2>4. ThreadsOK' BY <2>1 DEF ThreadsOK, TypeOK
  <2> QED BY <2>3, <2>4
<1>4. ASSUME ReadSeek(t) PROVE TypeOK' /\ ThreadsOK'
  <2> USE <1>4 DEF ReadSeek, writerVars, readerVars
  <2>2. mu' = {u \in Threads : tpc'[u] \in {"seek", "read"}} BY DEF TypeOK
  <2>3. TypeOK' BY <2>2 DEF TypeOK
  <2>4. ThreadsOK' BY DEF ThreadsOK, TypeOK
  <2> QED BY <2>3, <2>4
<1>5. ASSUME ReadSeekFails(t) PROVE TypeOK' /\ ThreadsOK'
  <2> USE <1>5 DEF ReadSeekFails, writerVars, readerVars
  <2>2. mu' = {u \in Threads : tpc'[u] \in {"seek", "read"}} BY DEF TypeOK
  <2>3. TypeOK' BY <2>2 DEF TypeOK
  <2>4. ThreadsOK' BY DEF ThreadsOK, TypeOK
  <2> QED BY <2>3, <2>4
<1>6. ASSUME ReadRead(t) PROVE TypeOK' /\ ThreadsOK'
  <2> USE <1>6 DEF ReadRead, writerVars, readerVars
  <2>1. /\ Content(fdpos, tsize[t]) \in Seq(Bytes)
        /\ fdpos' \in Nat
    <3>1. disk \in Seq(Bytes) /\ fdpos \in Nat /\ tsize[t] \in Nat
      BY DEF TypeOK, ThreadsOK
    <3>2. Content(fdpos, tsize[t]) \in Seq(Bytes) BY <3>1, ContentIs
    <3> QED BY <3>1, <3>2
  <2>2. mu' = {u \in Threads : tpc'[u] \in {"seek", "read"}} BY DEF TypeOK
  <2>3. tresult' \in [Threads -> Seq(Bytes) \cup {Failed}] BY <2>1 DEF TypeOK
  <2>4. TypeOK' BY <2>1, <2>2, <2>3 DEF TypeOK
  <2>5. ThreadsOK' BY DEF ThreadsOK, TypeOK
  <2> QED BY <2>4, <2>5
<1>7. ASSUME ReadReadFails(t) PROVE TypeOK' /\ ThreadsOK'
  <2> USE <1>7 DEF ReadReadFails, writerVars, readerVars
  <2>2. mu' = {u \in Threads : tpc'[u] \in {"seek", "read"}} BY DEF TypeOK
  <2>3. TypeOK' BY <2>2 DEF TypeOK
  <2>4. ThreadsOK' BY DEF ThreadsOK, TypeOK
  <2> QED BY <2>3, <2>4
<1>8. ASSUME ReadReturn(t) PROVE TypeOK' /\ ThreadsOK'
  <2> USE <1>8 DEF ReadReturn, writerVars, readerVars
  <2>2. mu' = {u \in Threads : tpc'[u] \in {"seek", "read"}} BY DEF TypeOK
  <2>3. TypeOK' BY <2>2, EmptyIsThere DEF TypeOK
  <2>4. ThreadsOK' BY DEF ThreadsOK, TypeOK
  <2> QED BY <2>3, <2>4
<1> QED
  BY <1>1, <1>2, <1>3, <1>4, <1>5, <1>6, <1>7, <1>8 DEF RandomReader

LEMMA NextInv == IInv /\ [Next]_vars => IInv'
<1> SUFFICES ASSUME IInv, [Next]_vars PROVE IInv'
  OBVIOUS
<1>1. CASE Writer BY <1>1, WriterInv, SpillInv DEF Writer
<1>2. CASE Reader BY <1>2, ReadInv, OpenInv DEF Reader
<1>3. CASE RandomOpen \/ RandomClose BY <1>3, OpenInv
<1>4. CASE \E t \in Threads : RandomReader(t) BY <1>4, ThreadInv
<1>5. CASE UNCHANGED vars
  BY <1>5 DEF vars, IInv, TypeOK, NothingLost, WriterOK, ReaderOK, ThreadsOK
<1> QED BY <1>1, <1>2, <1>3, <1>4, <1>5 DEF Next

\* The invariant of all three users of the file (env.cc, env_boost.cc).
THEOREM Invariance == Spec => []IInv
BY InitInv, NextInv, PTL DEF Spec

-----------------------------------------------------------------------------
(* The properties *)

\* Type correctness, and the state of stream and lock at each point.
THEOREM TypeCorrect == Spec => []TypeOK
<1>1. IInv => TypeOK BY DEF IInv
<1> QED BY <1>1, Invariance, PTL

\* BoostFile loses, repeats and keeps nothing while its stream is good.
THEOREM WriterLosesNothing == Spec => []NothingLost
<1>1. IInv => NothingLost BY DEF IInv
<1> QED BY <1>1, Invariance, PTL

\* ReadFileToString() returns the whole file as its last Read() found it, if
\* nobody truncated the file meanwhile.
THEOREM ReadsAreWhole == Spec => ReadsWhole
<1> DEFINE Whole ==
      rpc = "read" /\ rpc' = "idle" /\ rstatus' = "ok" /\ ~rtorn => rdata' = disk
<1>1. IInv /\ [Next]_vars => [Whole]_vars
  <2> SUFFICES ASSUME IInv, Next PROVE Whole
    BY DEF vars
  <2>1. CASE Writer
    BY <2>1 DEF Writer, OpenTruncating, OpenFails, OpenThrows, AppendWrite, Spill,
       SpillFails, AppendReturns, CloseReturns, DeleteFile, readerVars
  <2>2. CASE ReaderRead BY <2>2, ReadInv
  <2>3. CASE ReaderOpen \/ ReaderOpenFails \/ ReaderReadFails
    BY <2>3 DEF ReaderOpen, ReaderOpenFails, ReaderReadFails
  <2>4. CASE RandomOpen \/ RandomClose BY <2>4 DEF RandomOpen, RandomClose, readerVars
  <2>5. CASE \E t \in Threads : RandomReader(t)
    BY <2>5 DEF RandomReader, ReadCall, ReadLock, ReadSeek, ReadSeekFails, ReadRead,
       ReadReadFails, ReadReturn, readerVars
  <2> QED BY <2>1, <2>2, <2>3, <2>4, <2>5 DEF Next, Reader
<1> QED BY <1>1, Invariance, PTL DEF Spec, ReadsWhole

\* Concurrent reads of a random access file do not disturb each other: each
\* returns the bytes at its own offset.
THEOREM ReadsAreAtomic == Spec => ReadIsAtomic
<1> DEFINE Atomic ==
      \A t \in Threads : tpc[t] = "read" /\ tresult'[t] # Failed /\ tpc'[t] = "done"
        => tresult'[t] = Content(toff[t], tsize[t])
<1>1. IInv /\ [Next]_vars => [Atomic]_vars
  <2> SUFFICES ASSUME IInv, Next, NEW t \in Threads, tpc[t] = "read",
                      tresult'[t] # Failed, tpc'[t] = "done"
               PROVE  tresult'[t] = Content(toff[t], tsize[t])
    BY DEF vars
  <2>1. tpc' # tpc /\ tpc \in [Threads -> {"idle", "lock", "seek", "read", "done"}]
        /\ tresult \in [Threads -> Seq(Bytes) \cup {Failed}]
    BY DEF IInv, TypeOK
  <2>2. ~Writer /\ ~Reader /\ ~RandomOpen /\ ~RandomClose
    <3>1. ~Writer
      BY <2>1 DEF Writer, OpenTruncating, OpenFails, OpenThrows, AppendWrite, Spill,
         SpillFails, AppendReturns, CloseReturns, DeleteFile, threadVars
    <3>2. ~Reader
      BY <2>1 DEF Reader, ReaderOpen, ReaderOpenFails, ReaderRead, ReaderReadFails, threadVars
    <3>3. ~RandomOpen /\ ~RandomClose BY <2>1 DEF RandomOpen, RandomClose
    <3> QED BY <3>1, <3>2, <3>3
  <2>3. PICK u \in Threads : RandomReader(u)
    BY <2>2 DEF Next
  <2>4. u = t
    BY <2>1, <2>3 DEF RandomReader, ReadCall, ReadLock, ReadSeek, ReadSeekFails, ReadRead,
       ReadReadFails, ReadReturn
  <2>5. ReadRead(t) \/ ReadReadFails(t)
    BY <2>3, <2>4 DEF RandomReader, ReadCall, ReadLock, ReadSeek, ReadSeekFails, ReadReturn
  <2>6. ~ReadReadFails(t)
    BY <2>1 DEF ReadReadFails
  <2>7. fdpos = toff[t] BY DEF IInv, ThreadsOK
  <2> QED BY <2>1, <2>5, <2>6, <2>7 DEF ReadRead
<1> QED BY <1>1, Invariance, PTL DEF Spec, ReadIsAtomic
=============================================================================
