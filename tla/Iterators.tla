------------------------------ MODULE Iterators ------------------------------
(***************************************************************************)
(* The clean-up functions of src/iterator.cpp, and the reference counter   *)
(* of src/memtable.h that they are made for.  newIterator() takes no       *)
(* reference, so a client of a table ref()s it once more and registers an  *)
(* unref() with the iterator, to run when that is deleted.                 *)
(*                                                                         *)
(* cleanup_ is a cell inside the iterator; registerCleanup() puts a cell   *)
(* from the heap behind it.  Cells that were freed are used again.  What a *)
(* function does may be anything, the deletion of another iterator, too:   *)
(* between two steps of a destructor there are steps of others.            *)
(*                                                                         *)
(* External: the client has a reference while it makes an iterator, gives  *)
(* up only references it has, and registers an unref() for each iterator.  *)
(***************************************************************************)
EXTENDS Naturals, Sequences, FiniteSets

CONSTANTS
  Iters,         \* the iterators
  Nodes,         \* the cells of the heap
  NULL,          \* no cell
  MaxRefs,       \* bound: references
  MaxFunctions   \* bound: functions of one iterator

ASSUME IteratorsAssumption ==
  /\ NULL \notin Nodes \cup Iters /\ Nodes \cap Iters = {}
  /\ MaxRefs \in Nat /\ MaxFunctions \in Nat

\* The cell inside an iterator has the iterator's name.
Cells == Iters \cup Nodes

VARIABLES
  table,       \* the MemTable: "none", "new" before the first ref(), "there", "deleted"
  refs,        \* refs_
  held,        \* the references that clients have
  iter,        \* iter[i]: "none", "there", in the destructor "calling" or "called",
               \*   "deleted"
  at,          \* at[i]: the cell whose function is next, or whose was called
  allocated,   \* the cells that new returned
  function,    \* function[c]: the number of its function, 0 for none
  next,        \* next[c]
  registered,  \* history, registered[i]: how many functions were registered
  called       \* history, called[i]: the functions that were called

tableVars == <<table, refs, held>>
listVars == <<allocated, function, next, registered>>
iteratorVars == <<tableVars, iter, at, listVars, called>>

IteratorsInit ==
  /\ table = "none" /\ refs = 0 /\ held = 0
  /\ iter = [i \in Iters |-> "none"]
  /\ at = [i \in Iters |-> NULL]
  /\ allocated = {}
  /\ function = [c \in Cells |-> 0]
  /\ next = [c \in Cells |-> NULL]
  /\ registered = [i \in Iters |-> 0]
  /\ called = [i \in Iters |-> <<>>]

-----------------------------------------------------------------------------
(* MemTable *)

\* The functions that were registered and not called: each will give up one
\* reference.
Pending ==
  {f \in Iters \X (1 .. MaxFunctions) :
     LET i == f[1]
         n == f[2]
     IN  n <= registered[i] /\ \A k \in DOMAIN called[i] : called[i][k] # n}

NewTable ==
  /\ table = "none"
  /\ table' = "new" /\ refs' = 0
  /\ UNCHANGED <<held, iter, at, listVars, called>>

ref ==
  /\ table = "new" \/ held > 0
  /\ refs < MaxRefs
  /\ table' = "there"
  /\ refs' = refs + 1 /\ held' = held + 1
  /\ UNCHANGED <<iter, at, listVars, called>>

\* unref() deletes the table with the last reference.
Unref ==
  /\ refs' = refs - 1
  /\ table' = IF refs' <= 0 THEN "deleted" ELSE table

\* A client gives up its reference.
unref ==
  /\ held > 0
  /\ held' = held - 1 /\ Unref
  /\ UNCHANGED <<iter, at, listVars, called>>

-----------------------------------------------------------------------------
(* Iterator *)

\* MemTable::newIterator, Iterator::Iterator
newIterator(i) ==
  /\ iter[i] = "none" /\ held > 0
  /\ iter' = [iter EXCEPT ![i] = "there"]
  /\ function' = [function EXCEPT ![i] = 0]
  /\ next' = [next EXCEPT ![i] = NULL]
  /\ UNCHANGED <<tableVars, at, allocated, registered, called>>

\* The function's arguments: one of the client's references
Register(i) ==
  /\ iter[i] = "there" /\ held > 0 /\ registered[i] < MaxFunctions
  /\ registered' = [registered EXCEPT ![i] = @ + 1]
  /\ held' = held - 1
  /\ UNCHANGED <<table, refs, iter, at, called>>

\* registerCleanup(), the first function
RegisterFirst(i) ==
  /\ Register(i) /\ function[i] = 0
  /\ function' = [function EXCEPT ![i] = registered'[i]]
  /\ UNCHANGED <<allocated, next>>

\* RegisterNext as it must not be: c->next is not set.
RegisterNextBare(i) ==
  /\ Register(i) /\ function[i] # 0
  /\ \E c \in Nodes \ allocated :
       /\ allocated' = allocated \cup {c}
       /\ next' = [next EXCEPT ![i] = c]
       /\ function' = [function EXCEPT ![c] = registered'[i]]

\* registerCleanup(), any other: a new cell behind cleanup_.  If new throws, nothing
\* has changed and the client keeps its reference.
RegisterNext(i) ==
  /\ Register(i) /\ function[i] # 0
  /\ \E c \in Nodes \ allocated :
       /\ allocated' = allocated \cup {c}
       /\ next' = [next EXCEPT ![c] = next[i], ![i] = c]
       /\ function' = [function EXCEPT ![c] = registered'[i]]

\* ~Iterator() starts.
Delete(i) ==
  /\ iter[i] = "there"
  /\ IF function[i] = 0
     THEN iter' = [iter EXCEPT ![i] = "deleted"] /\ UNCHANGED at
     ELSE iter' = [iter EXCEPT ![i] = "calling"] /\ at' = [at EXCEPT ![i] = i]
  /\ UNCHANGED <<tableVars, listVars, called>>

\* The function of the cell, an unref()
Call(i) ==
  /\ iter[i] = "calling"
  /\ called' = [called EXCEPT ![i] = Append(@, function[at[i]])]
  /\ Unref
  /\ iter' = [iter EXCEPT ![i] = "called"]
  /\ UNCHANGED <<held, at, listVars>>

\* On to a cell, or the end
GoTo(i, c) ==
  /\ at' = [at EXCEPT ![i] = c]
  /\ iter' = [iter EXCEPT ![i] = IF c = NULL THEN "deleted" ELSE "calling"]

\* AfterFirst as it must not be: the loop starts with cleanup_ again.
AfterFirstAgain(i) ==
  /\ iter[i] = "called" /\ at[i] = i
  /\ GoTo(i, IF Len(called[i]) = 1 THEN i ELSE next[i])
  /\ UNCHANGED <<tableVars, listVars, called>>

\* After the function of cleanup_
AfterFirst(i) ==
  /\ iter[i] = "called" /\ at[i] = i
  /\ GoTo(i, next[i])
  /\ UNCHANGED <<tableVars, listVars, called>>

\* After the function of another: next is read, then the cell is deleted.
AfterNext(i) ==
  /\ iter[i] = "called" /\ at[i] # i
  /\ GoTo(i, next[at[i]])
  /\ allocated' = allocated \ {at[i]}
  /\ UNCHANGED <<tableVars, function, next, registered, called>>

IteratorsNext ==
  \/ NewTable \/ ref \/ unref
  \/ \E i \in Iters :
       \/ newIterator(i) \/ RegisterFirst(i) \/ RegisterNext(i)
       \/ Delete(i) \/ Call(i) \/ AfterFirst(i) \/ AfterNext(i)

IteratorsSpec == IteratorsInit /\ [][IteratorsNext]_iteratorVars

-----------------------------------------------------------------------------
(* Properties *)

\* The table is deleted by the last unref() and not before: as long as a client has
\* a reference, or an iterator one that its clean-up will give up, it is there, and
\* no reference is given up twice (the assertions of memtable.h:20 and
\* memtable.cpp:24).
TableOutlivesUsers ==
  /\ refs = held + Cardinality(Pending)
  /\ refs > 0 <=> table = "there"

\* An iterator that is deleted has called each function once, the first that was
\* registered first and the others in reverse, and its cells are freed, whatever the
\* functions did meanwhile (iterator.cpp:11-43).
CleanupsRunOnce ==
  /\ \A i \in Iters :
       iter[i] = "deleted" =>
         LET n == registered[i]
         IN  called[i] = [k \in 1 .. n |-> IF k = 1 THEN 1 ELSE n + 2 - k]
  /\ (\A i \in Iters : iter[i] \in {"none", "deleted"}) => allocated = {}
=============================================================================
