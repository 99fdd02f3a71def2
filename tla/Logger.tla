------------------------------- MODULE Logger -------------------------------
(***************************************************************************)
(* WinLogger::Logv of src/win_logger.cc: threads write lines to one log,   *)
(* each formatted into a small buffer, and into a large one if it does not *)
(* fit.  A message is its length, and the places where it has a newline.   *)
(*                                                                         *)
(* External: _snprintf_s cuts the header, which ends with a space;         *)
(* vsnprintf writes what fits and a 0 behind it, and returns the length    *)
(* that it would have liked; fwrite writes the bytes of a call together,   *)
(* or fewer.                                                               *)
(***************************************************************************)
EXTENDS Naturals, Sequences

CONSTANTS
  Loggers,    \* the threads
  Small,      \* 500
  Big,        \* 30000
  Header,     \* how many characters the date, the time and the thread take
  Messages,   \* the messages: length, places of newlines
  MaxLines    \* bound: lines of the log

ASSUME LoggerAssumption ==
  /\ Small \in Nat /\ Big \in Nat /\ Header \in Nat \ {0}
  /\ Header < Small /\ Small < Big
  /\ \A m \in Messages : m.length \in Nat /\ m.newlines \subseteq 1 .. m.length

VARIABLES
  try,       \* try[t]: the turn of the loop, 0 or 1; 2 outside of Logv()
  message,   \* message[t]: its message
  log,       \* the lines given to fwrite(): the message, how much of it is kept, whether a
             \* newline is added, and whether all of the line came to the file
  returned   \* history: the calls that have returned

loggerVars == <<try, message, log, returned>>

\* What a thread outside of Logv() has for a message
Unset == CHOOSE m \in Messages : TRUE

LoggerInit ==
  /\ try = [t \in Loggers |-> 2]
  /\ message = [t \in Loggers |-> Unset]
  /\ log = <<>>
  /\ returned = 0

-----------------------------------------------------------------------------

\* p - base after both prints, with all the room they want
Wanted(m) == Header + m.length

\* KeptLength as it must not be: p = limit
KeptLengthFull(m, bufsize) ==
  (IF Wanted(m) >= bufsize THEN bufsize ELSE Wanted(m)) - Header

\* How much of the message lies before p, which is limit - 1 if not all of it does
KeptLength(m, bufsize) ==
  (IF Wanted(m) >= bufsize THEN bufsize - 1 ELSE Wanted(m)) - Header

\* The line in the buffer: a newline is added unless p[-1] is one, which may be the
\* last byte that was kept of a longer message.
Line(m, bufsize, complete) ==
  LET kept == KeptLength(m, bufsize)
  IN  [message |-> m, kept |-> kept, added |-> kept \notin m.newlines, complete |-> complete]

Logv(t, m) ==
  /\ try[t] = 2 /\ Len(log) < MaxLines
  /\ try' = [try EXCEPT ![t] = 0]
  /\ message' = [message EXCEPT ![t] = m]
  /\ UNCHANGED <<log, returned>>

\* fwrite(), whose result nobody looks at, and the break
Write(t, bufsize) ==
  /\ \E complete \in BOOLEAN :
       log' = Append(log, Line(message[t], bufsize, complete))
  /\ try' = [try EXCEPT ![t] = 2]
  /\ message' = [message EXCEPT ![t] = Unset]
  /\ returned' = returned + 1

WriteSmall(t) ==
  /\ try[t] = 0 /\ Wanted(message[t]) < Small
  /\ Write(t, Small)

Continue(t) ==
  /\ try[t] = 0 /\ Wanted(message[t]) >= Small
  /\ try' = [try EXCEPT ![t] = 1]
  /\ UNCHANGED <<message, log, returned>>

WriteBig(t) == try[t] = 1 /\ Write(t, Big)

\* new char[bufsize] throws.
NewThrows(t) ==
  /\ try[t] = 1
  /\ try' = [try EXCEPT ![t] = 2]
  /\ message' = [message EXCEPT ![t] = Unset]
  /\ UNCHANGED <<log, returned>>

LoggerNext ==
  \E t \in Loggers :
    \/ \E m \in Messages : Logv(t, m)
    \/ WriteSmall(t) \/ Continue(t) \/ WriteBig(t) \/ NewThrows(t)

LoggerSpec == LoggerInit /\ [][LoggerNext]_loggerVars

-----------------------------------------------------------------------------
(* Properties *)

\* A call that returns has given fwrite() one line, from whichever buffer: the header
\* and the message, cut only if the large buffer has no room for it and a 0, and then
\* by as little as leaves room for the newline; with one newline more only where what
\* is kept does not end with one; and no longer than the buffer (win_logger.cc:17-76,
\* with its assertion p <= limit).
LinesWhole ==
  /\ Len(log) = returned
  /\ \A i \in DOMAIN log :
       LET m == log[i].message
           length == Header + log[i].kept + (IF log[i].added THEN 1 ELSE 0)
       IN  /\ IF Header + m.length < Big THEN log[i].kept = m.length
                                        ELSE Header + log[i].kept + 1 = Big
           /\ log[i].added <=> log[i].kept \notin m.newlines
           /\ length <= Big
=============================================================================
