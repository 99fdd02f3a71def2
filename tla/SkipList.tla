------------------------------ MODULE SkipList ------------------------------
(***************************************************************************)
(* The skip list of src/skiplist.h: one writer thread inserts while reader *)
(* threads search and iterate without a lock, through the atomic pointers  *)
(* of src/port_win.cc.  Every load or store of a shared pointer is a step. *)
(*                                                                         *)
(* A node is named by its key: insert() asserts that no key is inserted    *)
(* twice.  The key order is the comparator's.  The stores are sequentially *)
(* consistent: setNext is an interlocked exchange, and the two plain       *)
(* stores (curMaxHeight_, noBarrier_SetNext) are followed by one in the    *)
(* same insert before anything else becomes visible.                       *)
(***************************************************************************)
EXTENDS Integers

CONSTANTS
  Keys,         \* the keys a client may insert or look up
  Readers,      \* the reader threads, each with one Iterator
  MaxHeight,    \* kMaxHeight
  Head,         \* head_, the node before every key
  NULL,         \* the null pointer
  Uninit,       \* the content of memory nobody has written
  Wild,         \* a pointer to no node at all
  LockFreeOps   \* the searches that clients run beside an insert; the other
                \* searches exclude insert() through a lock of the client

SearchOps == {"seek", "contains", "prev", "seekToLast"}

ASSUME SkipListAssumption ==
  /\ Keys \subseteq Int
  /\ MaxHeight \in Nat \ {0}
  /\ Head \notin Keys
  /\ NULL \notin Keys \cup {Head}
  /\ Uninit \notin Keys \cup {Head, NULL}
  /\ Wild \notin Keys \cup {Head, NULL, Uninit}
  /\ LockFreeOps \subseteq SearchOps

Levels == 0 .. MaxHeight - 1
Nodes == Keys \cup {Head}

VARIABLES
  next,          \* next[n][l]: next_[l] of node n
  curMaxHeight,  \* curMaxHeight_
  wpc,           \* where the writer is in insert()
  wkey,          \* insert: key
  wx,            \* insert, in findEqualOrGreater: x
  wlvl,          \* insert: level of the search, then i of the linking loop
  prev,          \* insert: the array prev
  op,            \* op[r]: the search reader r is in, "idle" or "crashed"
  rkey,          \* rkey[r]: the key r searches for
  rx,            \* rx[r]: x of the search
  rlvl,          \* rlvl[r]: level of the search
  iter,          \* iter[r]: node_ of the iterator of r
  found          \* found[r]: what contains() last returned to r

writerVars == <<wpc, wkey, wx, wlvl, prev>>
searchVars == <<op, rkey, rx, rlvl>>
resultVars == <<iter, found>>
listVars == <<next, curMaxHeight>>
vars == <<next, curMaxHeight, wpc, wkey, wx, wlvl, prev,
          op, rkey, rx, rlvl, iter, found>>

-----------------------------------------------------------------------------
(* Memory and the comparisons of the search loops *)

\* What a search can load from next_[l] of n.  Arena blocks are not cleared: a
\* slot nobody has written holds a zero or some other bits.  Left out: bits that
\* happen to be the address of a node of this very list.
Loaded(n, l) ==
  IF next[n][l] = Uninit THEN {NULL, Wild} ELSE {next[n][l]}

\* Mutants: compare_ > 0; and compare_ with its arguments swapped
StopsPast(v, key) == v # NULL => v > key
StopsSwapped(v, key) == v # NULL => key >= v

\* next == NULL || compare_(next->key, key) >= 0
Stops(v, key) == v # NULL => v >= key

\* The keys some node points at on level l
Linked(l) == {k \in Keys : \E n \in Nodes : next[n][l] = k}

\* A search that excludes insert()
Guarded(r) == op[r] \in SearchOps \ LockFreeOps

\* The constructor: head_ has every level, all NULL, and the height is 1
Init ==
  /\ next = [n \in Nodes |->
               [l \in Levels |-> IF n = Head THEN NULL ELSE Uninit]]
  /\ curMaxHeight = 1
  /\ wpc = "idle"
  /\ wkey = NULL
  /\ wx = Head
  /\ wlvl = 0
  /\ prev = [l \in Levels |-> Uninit]
  /\ op = [r \in Readers |-> "idle"]
  /\ rkey = [r \in Readers |-> NULL]
  /\ rx = [r \in Readers |-> Head]
  /\ rlvl = [r \in Readers |-> 0]
  /\ iter = [r \in Readers |-> NULL]
  /\ found = [r \in Readers |-> FALSE]

-----------------------------------------------------------------------------
(* insert(key), by the one writer *)

\* The client inserts a fresh key, as the assertion in insert() demands
InsertBegin(k) ==
  /\ wpc = "idle"
  /\ k \notin Linked(0)
  /\ \A r \in Readers : ~Guarded(r)
  /\ wpc' = "search"
  /\ wkey' = k
  /\ wx' = Head
  /\ wlvl' = curMaxHeight - 1
  /\ prev' = [l \in Levels |-> Uninit]
  /\ UNCHANGED <<listVars, searchVars, resultVars>>

\* Mutant: x stays where it is
InsertAdvanceNot ==
  /\ wpc = "search"
  /\ ~Stops(next[wx][wlvl], wkey)
  /\ UNCHANGED vars

\* findEqualOrGreater(key, prev): x = next
InsertAdvance ==
  /\ wpc = "search"
  /\ ~Stops(next[wx][wlvl], wkey)
  /\ wx' = next[wx][wlvl]
  /\ UNCHANGED <<listVars, wpc, wkey, wlvl, prev, searchVars, resultVars>>

\* findEqualOrGreater(key, prev): pre[level] = x; --level
InsertDescend ==
  /\ wpc = "search"
  /\ Stops(next[wx][wlvl], wkey)
  /\ prev' = [prev EXCEPT ![wlvl] = wx]
  /\ wlvl' = wlvl - 1
  /\ wpc' = IF wlvl = 0 THEN "raise" ELSE "search"
  /\ UNCHANGED <<listVars, wkey, wx, searchVars, resultVars>>

\* Mutant: the levels above the old height get no predecessor
InsertRaiseBare(h) ==
  /\ wpc = "raise"
  /\ curMaxHeight' = IF h > curMaxHeight THEN h ELSE curMaxHeight
  /\ next' = [next EXCEPT ![wkey] =
                [l \in Levels |-> IF l = 0 THEN NULL ELSE Uninit]]
  /\ wlvl' = h - 1
  /\ wpc' = "own"
  /\ UNCHANGED <<wkey, wx, prev, searchVars, resultVars>>

\* randomHeight() returns h; the levels above the old height start at head_.
\* newNode: the Node constructor sets next_[0] to null and no other slot.
InsertRaise(h) ==
  /\ wpc = "raise"
  /\ prev' = [l \in Levels |->
                IF curMaxHeight <= l /\ l < h THEN Head ELSE prev[l]]
  /\ curMaxHeight' = IF h > curMaxHeight THEN h ELSE curMaxHeight
  /\ next' = [next EXCEPT ![wkey] =
                [l \in Levels |-> IF l = 0 THEN NULL ELSE Uninit]]
  /\ wlvl' = h - 1
  /\ wpc' = "own"
  /\ UNCHANGED <<wkey, wx, searchVars, resultVars>>

\* Mutants: the predecessor's store comes first; the successor is not copied
InsertOwnSwapped ==
  /\ wpc = "own"
  /\ next' = [next EXCEPT ![prev[wlvl]][wlvl] = wkey]
  /\ wpc' = "publish"
  /\ UNCHANGED <<curMaxHeight, wkey, wx, wlvl, prev, searchVars, resultVars>>

InsertOwnNull ==
  /\ wpc = "own"
  /\ next' = [next EXCEPT ![wkey][wlvl] = NULL]
  /\ wpc' = "publish"
  /\ UNCHANGED <<curMaxHeight, wkey, wx, wlvl, prev, searchVars, resultVars>>

\* node->noBarrier_SetNext(i, prev[i]->noBarrier_Next(i))
InsertOwn ==
  /\ wpc = "own"
  /\ next' = [next EXCEPT ![wkey][wlvl] = next[prev[wlvl]][wlvl]]
  /\ wpc' = "publish"
  /\ UNCHANGED <<curMaxHeight, wkey, wx, wlvl, prev, searchVars, resultVars>>

\* prev[i]->setNext(i, node); --i
InsertPublish ==
  /\ wpc = "publish"
  /\ next' = [next EXCEPT ![prev[wlvl]][wlvl] = wkey]
  /\ wlvl' = wlvl - 1
  /\ wpc' = IF wlvl = 0 THEN "idle" ELSE "own"
  /\ UNCHANGED <<curMaxHeight, wkey, wx, prev, searchVars, resultVars>>

WriterStep ==
  \/ InsertAdvance
  \/ InsertDescend
  \/ \E h \in 1 .. MaxHeight : InsertRaise(h)
  \/ InsertOwn
  \/ InsertPublish

-----------------------------------------------------------------------------
(* The searches: findEqualOrGreater, findLessThan and findLast *)

Begin(r, o, k) ==
  /\ op[r] = "idle"
  /\ o \in LockFreeOps \/ wpc = "idle"
  /\ op' = [op EXCEPT ![r] = o]
  /\ rkey' = [rkey EXCEPT ![r] = k]
  /\ rx' = [rx EXCEPT ![r] = Head]
  /\ rlvl' = [rlvl EXCEPT ![r] = curMaxHeight - 1]
  /\ UNCHANGED <<listVars, writerVars, resultVars>>

BeginSeek(r) == \E k \in Keys : Begin(r, "seek", k)
BeginContains(r) == \E k \in Keys : Begin(r, "contains", k)

\* Iterator::prev asserts valid() and searches for the key it stands on
BeginPrev(r) == iter[r] # NULL /\ Begin(r, "prev", iter[r])
BeginSeekToLast(r) == Begin(r, "seekToLast", rkey[r])

\* findLast loads level 0 whatever its level is
LoadLevel(r) == IF op[r] = "seekToLast" THEN 0 ELSE rlvl[r]

SearchStops(r, v) ==
  IF op[r] = "seekToLast" THEN v = NULL ELSE Stops(v, rkey[r])

\* x = next
SearchAdvance(r) ==
  /\ op[r] \in SearchOps
  /\ \E v \in Loaded(rx[r], LoadLevel(r)) :
       /\ v # Wild
       /\ ~SearchStops(r, v)
       /\ rx' = [rx EXCEPT ![r] = v]
  /\ UNCHANGED <<listVars, writerVars, op, rkey, rlvl, resultVars>>

\* Mutant: the level stays
SearchDescendNot(r) ==
  /\ op[r] \in SearchOps
  /\ rlvl[r] > 0
  /\ \E v \in Loaded(rx[r], LoadLevel(r)) : v # Wild /\ SearchStops(r, v)
  /\ UNCHANGED vars

\* --level, with levels left
SearchDescend(r) ==
  /\ op[r] \in SearchOps
  /\ rlvl[r] > 0
  /\ \E v \in Loaded(rx[r], LoadLevel(r)) : v # Wild /\ SearchStops(r, v)
  /\ rlvl' = [rlvl EXCEPT ![r] = @ - 1]
  /\ UNCHANGED <<listVars, writerVars, op, rkey, rx, resultVars>>

\* Mutant: head_ counts as a key
HeadKept(n) == n

\* prev() and seekToLast() turn head_ into an invalid iterator
BeforeHead(n) == IF n = Head THEN NULL ELSE n

\* The load at level 0 that ends the search, and what the caller does with it:
\* findEqualOrGreater returns next, findLessThan and findLast return x
SearchReturn(r) ==
  /\ op[r] \in SearchOps
  /\ rlvl[r] = 0
  /\ \E v \in Loaded(rx[r], 0) :
       /\ v # Wild
       /\ SearchStops(r, v)
       /\ iter' = CASE op[r] = "seek" -> [iter EXCEPT ![r] = v]
                    [] op[r] = "contains" -> iter
                    [] OTHER -> [iter EXCEPT ![r] = BeforeHead(rx[r])]
       /\ found' = IF op[r] = "contains"
                   THEN [found EXCEPT ![r] = (v = rkey[r])]
                   ELSE found
  /\ op' = [op EXCEPT ![r] = "idle"]
  /\ UNCHANGED <<listVars, writerVars, rkey, rx, rlvl>>

\* An indeterminate pointer that points at no node is dereferenced
SearchCrash(r) ==
  /\ op[r] \in SearchOps
  /\ Wild \in Loaded(rx[r], LoadLevel(r))
  /\ op' = [op EXCEPT ![r] = "crashed"]
  /\ UNCHANGED <<listVars, writerVars, rkey, rx, rlvl, resultVars>>

SearchStep(r) ==
  \/ SearchAdvance(r)
  \/ SearchDescend(r)
  \/ SearchReturn(r)
  \/ SearchCrash(r)

-----------------------------------------------------------------------------
(* The iterator operations that are a single load *)

SeekToFirst(r) ==
  /\ op[r] = "idle"
  /\ iter' = [iter EXCEPT ![r] = next[Head][0]]
  /\ UNCHANGED <<listVars, writerVars, searchVars, found>>

\* Iterator::next asserts valid()
IteratorNext(r) ==
  /\ op[r] = "idle"
  /\ iter[r] # NULL
  /\ iter' = [iter EXCEPT ![r] = next[iter[r]][0]]
  /\ UNCHANGED <<listVars, writerVars, searchVars, found>>

Next ==
  \/ \E k \in Keys : InsertBegin(k)
  \/ WriterStep
  \/ \E r \in Readers :
       \/ BeginSeek(r)
       \/ BeginContains(r)
       \/ BeginPrev(r)
       \/ BeginSeekToLast(r)
       \/ SearchStep(r)
       \/ SeekToFirst(r)
       \/ IteratorNext(r)

Spec == Init /\ [][Next]_vars

\* Threads that are inside an operation keep being scheduled; nobody has to
\* start one.
Fairness ==
  /\ WF_vars(WriterStep)
  /\ \A r \in Readers : WF_vars(SearchStep(r))

FairSpec == Spec /\ Fairness

-----------------------------------------------------------------------------
(* Properties *)

Pointers == Keys \cup {NULL, Uninit}

TypeOK ==
  /\ next \in [Nodes -> [Levels -> Pointers]]
  /\ curMaxHeight \in 1 .. MaxHeight
  /\ wpc \in {"idle", "search", "raise", "own", "publish"}
  /\ wkey \in Keys \cup {NULL}
  /\ wpc # "idle" => wkey \in Keys
  /\ wx \in Nodes
  /\ wlvl \in -1 .. MaxHeight - 1
  /\ wpc \in {"search", "own", "publish"} => wlvl \in Levels
  /\ prev \in [Levels -> Nodes \cup {Uninit}]
  /\ op \in [Readers -> SearchOps \cup {"idle", "crashed"}]
  /\ rkey \in [Readers -> Keys \cup {NULL}]
  /\ \A r \in Readers : op[r] \in SearchOps \ {"seekToLast"} => rkey[r] \in Keys
  /\ rx \in [Readers -> Nodes]
  /\ rlvl \in [Readers -> Levels]
  /\ iter \in [Readers -> Keys \cup {NULL}]
  /\ found \in [Readers -> BOOLEAN]

\* insert() is linking the node it made
Linking == wpc \in {"own", "publish"}

\* n comes before key k
Before(n, k) == n = Head \/ n < k

\* v is the first key of S after node n, NULL when there is none
IsFirstAfter(v, n, S) ==
  \/ v = NULL /\ \A k \in S : ~Before(n, k)
  \/ v \in S /\ Before(n, v) /\ \A k \in S : Before(n, k) => v <= k

\* On every level, head_ and the linked nodes form one chain in key order that
\* misses no linked node: setNext stores into the immediate predecessor.
LevelsOrdered ==
  \A l \in Levels : \A n \in Linked(l) \cup {Head} :
    IsFirstAfter(next[n][l], n, Linked(l))

\* A node on a level is on every level below it, except the node insert() is
\* linking, which it links from the top level down.
TowersNested ==
  \A l, m \in Levels : m < l =>
    \A k \in Linked(l) :
      \/ k \in Linked(m)
      \/ Linking /\ k = wkey /\ m <= wlvl

\* No thread is about to follow a pointer nobody has written: the writer in
\* its search and its linking loop, a reader in a search or on its iterator.
LoadsInitialised ==
  /\ wpc = "search" => next[wx][wlvl] # Uninit
  /\ Linking =>
       prev[wlvl] # Uninit /\ next[prev[wlvl]][wlvl] # Uninit
  /\ \A r \in Readers :
       /\ op[r] \in SearchOps => next[rx[r]][LoadLevel(r)] # Uninit
       /\ iter[r] # NULL => next[iter[r]][0] # Uninit

\* The assertion of insert(): what findEqualOrGreater returned is not key, and
\* it is the place of key among the keys of the list.
InsertAsserts ==
  wpc = "raise" =>
    /\ next[prev[0]][0] # wkey
    /\ IsFirstAfter(next[prev[0]][0], wkey, Linked(0))

\* A node stays on every level it was linked on, so an iterator never stands
\* on a node that left the list.
NothingUnlinked ==
  [][\A l \in Levels : Linked(l) \subseteq Linked(l)']_vars

IteratorsOnList == \A r \in Readers : iter[r] \in Linked(0) \cup {NULL}

\* Every search and every insert that begins comes to an end.
SearchesEnd ==
  \A r \in Readers : op[r] \in SearchOps ~> op[r] = "idle"

InsertsEnd == wpc # "idle" ~> wpc = "idle"

\* Every operation acts as one step of OrderedSet on the keys linked on level
\* 0: an insert at its last setNext, a search at its last load.
Set == INSTANCE OrderedSet WITH set <- Linked(0)

ImplementsOrderedSet == Set!Spec

\* The only unwritten pointers a search can meet, whatever runs beside insert(),
\* are those of the node insert() is linking, below the levels already linked.
OnlyHalfLinkedTowers ==
  \A r \in Readers :
    op[r] \in SearchOps /\ next[rx[r]][LoadLevel(r)] = Uninit =>
      /\ Linking
      /\ rx[r] = wkey
      /\ rlvl[r] <= wlvl

\* A search beside insert() can miss keys but finds no wrong one: when seek()
\* returns a node, it is the first key of the list at or after the target, and
\* when contains() returns true, the key is linked or being linked.
SearchesOnlyMiss ==
  [][\A r \in Readers :
       /\ op[r] = "seek" /\ iter'[r] # iter[r] /\ iter'[r] # NULL =>
            /\ iter'[r] \in Linked(0) \cup {wkey}
            /\ iter'[r] >= rkey[r]
            /\ \A k \in Linked(0) : k >= rkey[r] => iter'[r] <= k
       /\ op[r] = "contains" /\ found'[r] /\ ~found[r] =>
            rkey[r] \in Linked(0) \cup {wkey}]_vars

-----------------------------------------------------------------------------
(* The inductive invariant behind the safety properties *)

\* prev[l] is the place of the new key on level l
PrevOK(l) ==
  /\ prev[l] \in Linked(l) \cup {Head}
  /\ Before(prev[l], wkey)
  /\ next[prev[l]][l] # NULL => next[prev[l]][l] > wkey

\* A node that is not on level l has nothing written in next_[l], but for the
\* node being linked: null from its constructor, or its successor-to-be.
UnlinkedEmpty ==
  \A l \in Levels : \A k \in Keys \ Linked(l) :
    \/ next[k][l] = Uninit
    \/ Linking /\ k = wkey /\ l = 0 /\ next[k][l] = NULL
    \/ wpc = "publish" /\ k = wkey /\ l = wlvl

\* The levels above the current height are empty
EmptyAbove == \A l \in Levels : l >= curMaxHeight => next[Head][l] = NULL

WriterOK ==
  /\ wpc = "search" =>
       /\ wx \in Linked(wlvl) \cup {Head}
       /\ Before(wx, wkey)
       /\ wlvl < curMaxHeight
       /\ \A l \in Levels : wlvl < l /\ l < curMaxHeight => PrevOK(l)
  /\ wpc = "raise" => \A l \in Levels : l < curMaxHeight => PrevOK(l)
  /\ wpc \in {"search", "raise"} => \A l \in Levels : wkey \notin Linked(l)
  /\ Linking => wlvl < curMaxHeight /\ next[wkey][0] # Uninit
  /\ Linking =>
       \A l \in Levels : l <= wlvl => PrevOK(l) /\ wkey \notin Linked(l)
  /\ wpc = "publish" => next[wkey][wlvl] = next[prev[wlvl]][wlvl]

ListInv ==
  LevelsOrdered /\ TowersNested /\ UnlinkedEmpty /\ EmptyAbove /\ WriterOK

\* Where a search without a lock can be: on a linked node, or on the new node
\* at a level that is not linked yet
OnNewNode(n, l) == Linking /\ n = wkey /\ l <= wlvl

ReaderOK(r) ==
  /\ op[r] \in SearchOps =>
       \/ rx[r] \in Linked(LoadLevel(r)) \cup {Head}
       \/ op[r] # "seekToLast" /\ OnNewNode(rx[r], rlvl[r])
  /\ op[r] \in SearchOps \ {"seekToLast"} => Before(rx[r], rkey[r])
  /\ \/ iter[r] \in Linked(0) \cup {NULL}
     \/ OnNewNode(iter[r], 0)
  /\ op[r] = "prev" => rkey[r] = iter[r]
  /\ Guarded(r) => wpc = "idle"

ReadersInv == \A r \in Readers : ReaderOK(r)

IInv == TypeOK /\ ListInv /\ ReadersInv
=============================================================================
