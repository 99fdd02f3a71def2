----------------------------- MODULE OrderedSet -----------------------------
(***************************************************************************)
(* What SkipList<Key, Comparator> promises its clients (src/skiplist.h):   *)
(* a set of keys that only grows, looked up and walked in key order.       *)
(* Every operation is one step: it reads or changes the whole set at once. *)
(* SkipList.tla is the implementation, pointer by pointer.                 *)
(***************************************************************************)
EXTENDS Integers

CONSTANTS
  Keys,      \* the keys, ordered as the comparator orders them
  Readers,   \* the threads that read, each with one Iterator
  NULL       \* the position of an iterator that is not valid()

VARIABLES
  set,       \* the keys inserted so far
  iter,      \* iter[r]: the key the iterator of r stands on, or NULL
  found      \* found[r]: what contains() last returned to r

vars == <<set, iter, found>>

\* v is the least, or the greatest, key of S; NULL when there is none
IsLeast(v, S) ==
  \/ S = {} /\ v = NULL
  \/ v \in S /\ \A k \in S : v <= k

IsGreatest(v, S) ==
  \/ S = {} /\ v = NULL
  \/ v \in S /\ \A k \in S : k <= v

MoveTo(r, v) ==
  /\ iter' = [iter EXCEPT ![r] = v]
  /\ UNCHANGED <<set, found>>

Init ==
  /\ set = {}
  /\ iter = [r \in Readers |-> NULL]
  /\ found = [r \in Readers |-> FALSE]

Insert(k) ==
  /\ k \notin set
  /\ set' = set \cup {k}
  /\ UNCHANGED <<iter, found>>

Contains(r, k) ==
  /\ found' = [found EXCEPT ![r] = (k \in set)]
  /\ UNCHANGED <<set, iter>>

Seek(r, k) ==
  \E v \in Keys \cup {NULL} :
    IsLeast(v, {m \in set : k <= m}) /\ MoveTo(r, v)

SeekToFirst(r) ==
  \E v \in Keys \cup {NULL} : IsLeast(v, set) /\ MoveTo(r, v)

SeekToLast(r) ==
  \E v \in Keys \cup {NULL} : IsGreatest(v, set) /\ MoveTo(r, v)

NextKey(r) ==
  /\ iter[r] # NULL
  /\ \E v \in Keys \cup {NULL} :
       IsLeast(v, {m \in set : iter[r] < m}) /\ MoveTo(r, v)

PrevKey(r) ==
  /\ iter[r] # NULL
  /\ \E v \in Keys \cup {NULL} :
       IsGreatest(v, {m \in set : m < iter[r]}) /\ MoveTo(r, v)

Next ==
  \/ \E k \in Keys : Insert(k)
  \/ \E r \in Readers :
       \/ \E k \in Keys : Contains(r, k) \/ Seek(r, k)
       \/ SeekToFirst(r)
       \/ SeekToLast(r)
       \/ NextKey(r)
       \/ PrevKey(r)

Spec == Init /\ [][Next]_vars

=============================================================================
