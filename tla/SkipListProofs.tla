--------------------------- MODULE SkipListProofs ---------------------------
(***************************************************************************)
(* Proofs about SkipList: IInv is an inductive invariant for every set of  *)
(* keys and readers, every height, and whatever searches run without a     *)
(* lock; the properties of SkipList.tla follow from it.                    *)
(***************************************************************************)
EXTENDS SkipList, TLAPS

(***************************************************************************)
(* What the steps do to the lists of the levels                            *)
(***************************************************************************)

\* A step that stores into no next_ slot leaves every level as it is.
LEMMA SameNext ==
  ASSUME next' = next
  PROVE  \A l : Linked(l)' = Linked(l)
  BY DEF Linked

\* What a linked node points at on its level is linked on that level.
LEMMA PointsAtLinked ==
  ASSUME ListInv, NEW l \in Levels, NEW n \in Linked(l) \cup {Head}
  PROVE  next[n][l] \in Linked(l) \cup {NULL}
  BY DEF ListInv, LevelsOrdered, IsFirstAfter

\* The constructor of the new node touches no slot that is in use.
LEMMA RaiseKeepsLinked ==
  ASSUME TypeOK, ListInv, NEW h \in 1 .. MaxHeight, InsertRaise(h)
  PROVE  \A l \in Levels : Linked(l)' = Linked(l)
<1> SUFFICES ASSUME NEW l \in Levels
             PROVE  Linked(l)' = Linked(l)
  OBVIOUS
<1>1. wkey \in Keys /\ wkey \notin Linked(l) /\ ~Linking
  BY DEF TypeOK, ListInv, WriterOK, InsertRaise, Linking
<1>2. next[wkey][l] = Uninit
  BY <1>1 DEF ListInv, UnlinkedEmpty, InsertRaise
<1>3. /\ \A n \in Nodes \ {wkey} : next'[n][l] = next[n][l]
      /\ next'[wkey][l] \in {NULL, Uninit}
  BY <1>1 DEF InsertRaise, TypeOK, Nodes
<1> QED
  BY <1>2, <1>3, SkipListAssumption DEF Linked

\* The store into the new node repeats a pointer the predecessor holds.
LEMMA OwnKeepsLinked ==
  ASSUME TypeOK, ListInv, InsertOwn
  PROVE  \A l \in Levels : Linked(l)' = Linked(l)
<1> SUFFICES ASSUME NEW l \in Levels
             PROVE  Linked(l)' = Linked(l)
  OBVIOUS
<1>1. wlvl \in Levels /\ wkey \in Keys /\ wkey \in Nodes
  BY DEF TypeOK, InsertOwn, Nodes
<1>2. CASE l # wlvl
  <2>1. \A n \in Nodes : next'[n][l] = next[n][l]
    BY <1>1, <1>2 DEF InsertOwn, TypeOK
  <2> QED
    BY <2>1 DEF Linked
<1>3. CASE l = wlvl
  <2>1. PrevOK(wlvl) /\ wkey \notin Linked(wlvl)
    BY <1>1, SkipListAssumption DEF ListInv, WriterOK, InsertOwn, Linking, Levels
  <2>2. prev[wlvl] \in Nodes
    BY <2>1 DEF PrevOK, Linked, Nodes
  <2>3. next[wkey][wlvl] \notin Keys
    BY <1>1, <2>1, SkipListAssumption
    DEF ListInv, UnlinkedEmpty, InsertOwn
  <2>4. /\ \A n \in Nodes \ {wkey} : next'[n][wlvl] = next[n][wlvl]
        /\ next'[wkey][wlvl] = next[prev[wlvl]][wlvl]
    BY <1>1 DEF InsertOwn, TypeOK
  <2>5. prev[wlvl] # wkey
    BY <2>1, <1>1, SkipListAssumption DEF PrevOK
  <2> QED
    BY <1>3, <2>2, <2>3, <2>4, <2>5 DEF Linked
<1> QED
  BY <1>2, <1>3

\* setNext links the new node on one level, and no other level changes.
LEMMA PublishLinks ==
  ASSUME TypeOK, ListInv, InsertPublish
  PROVE  /\ \A l \in Levels :
              Linked(l)' = IF l = wlvl THEN Linked(l) \cup {wkey} ELSE Linked(l)
         /\ wlvl \in Levels /\ wkey \in Keys /\ wkey \notin Linked(wlvl)
         /\ prev[wlvl] \in Linked(wlvl) \cup {Head}
         /\ prev[wlvl] # wkey
         /\ next' = [next EXCEPT ![prev[wlvl]][wlvl] = wkey]
<1>1. wlvl \in Levels /\ wkey \in Keys /\ wkey \in Nodes
  BY DEF TypeOK, InsertPublish, Nodes
<1>2. PrevOK(wlvl) /\ wkey \notin Linked(wlvl)
  BY <1>1, SkipListAssumption DEF ListInv, WriterOK, InsertPublish, Linking, Levels
<1>3. prev[wlvl] \in Nodes /\ prev[wlvl] # wkey
  BY <1>1, <1>2, SkipListAssumption DEF PrevOK, Linked, Nodes
<1>4. next[wkey][wlvl] = next[prev[wlvl]][wlvl]
  BY DEF ListInv, WriterOK, InsertPublish
<1>5. /\ \A n \in Nodes \ {prev[wlvl]} : \A l \in Levels : next'[n][l] = next[n][l]
      /\ \A l \in Levels \ {wlvl} : next'[prev[wlvl]][l] = next[prev[wlvl]][l]
      /\ next'[prev[wlvl]][wlvl] = wkey
  BY <1>1, <1>3 DEF InsertPublish, TypeOK
<1>6. ASSUME NEW l \in Levels
      PROVE  Linked(l)' = IF l = wlvl THEN Linked(l) \cup {wkey} ELSE Linked(l)
  <2>1. CASE l # wlvl
    BY <1>3, <1>5, <2>1 DEF Linked
  <2>2. CASE l = wlvl
    BY <1>1, <1>3, <1>4, <1>5, <2>2 DEF Linked
  <2> QED
    BY <2>1, <2>2
<1> QED
  BY <1>1, <1>2, <1>3, <1>6 DEF PrevOK, InsertPublish

(***************************************************************************)
(* The initial state                                                       *)
(***************************************************************************)

LEMMA InitIInv == Init => IInv
<1> SUFFICES ASSUME Init PROVE IInv
  OBVIOUS
<1>1. \A l \in Levels : Linked(l) = {}
  BY SkipListAssumption DEF Init, Linked, Nodes
<1>2. 0 \in Levels /\ 1 \in 1 .. MaxHeight /\ Head \in Nodes
  BY SkipListAssumption DEF Levels, Nodes
<1>3. TypeOK
  <2>1. /\ next \in [Nodes -> [Levels -> Pointers]]
        /\ curMaxHeight \in 1 .. MaxHeight
        /\ prev \in [Levels -> Nodes \cup {Uninit}]
    BY <1>2 DEF Init, Pointers
  <2>2. wlvl \in -1 .. MaxHeight - 1
    BY <1>2 DEF Init, Levels
  <2> QED
    BY <1>2, <2>1, <2>2 DEF Init, TypeOK, SearchOps
<1>4. ListInv
  <2>1. LevelsOrdered
    BY <1>1, <1>2 DEF Init, LevelsOrdered, IsFirstAfter
  <2>2. TowersNested /\ UnlinkedEmpty /\ EmptyAbove
    BY <1>1, SkipListAssumption DEF Init, TowersNested, UnlinkedEmpty, EmptyAbove, Nodes
  <2>3. WriterOK
    BY DEF Init, WriterOK, Linking
  <2> QED
    BY <2>1, <2>2, <2>3 DEF ListInv
<1>5. ReadersInv
  BY DEF Init, ReadersInv, ReaderOK, SearchOps, Guarded
<1> QED
  BY <1>3, <1>4, <1>5 DEF IInv

(***************************************************************************)
(* The lists under the writer's steps                                      *)
(***************************************************************************)

LEMMA ListUnchanged ==
  ASSUME ListInv, UNCHANGED <<listVars, writerVars>>
  PROVE  ListInv'
  BY DEF ListInv, LevelsOrdered, TowersNested, UnlinkedEmpty, EmptyAbove, WriterOK,
         PrevOK, Linked, Linking, IsFirstAfter, listVars, writerVars, Before

LEMMA ListBegin ==
  ASSUME TypeOK, ListInv, NEW k \in Keys, InsertBegin(k)
  PROVE  ListInv'
<1>1. \A l \in Levels : Linked(l)' = Linked(l)
  BY SameNext DEF InsertBegin, listVars
<1>2. ~Linking /\ ~Linking'
  BY DEF InsertBegin, Linking
<1>3. LevelsOrdered' /\ TowersNested' /\ UnlinkedEmpty' /\ EmptyAbove'
  BY <1>1, <1>2
  DEF ListInv, LevelsOrdered, TowersNested, UnlinkedEmpty, EmptyAbove,
      InsertBegin, listVars, Linking
<1>4. \A l \in Levels : k \notin Linked(l)
  <2>1. 0 \in Levels
    BY SkipListAssumption DEF Levels
  <2>2. \A l \in Levels \ {0} : Linked(l) \subseteq Linked(0)
    BY <1>2, <2>1, SkipListAssumption DEF ListInv, TowersNested, Levels
  <2> QED
    BY <2>1, <2>2 DEF InsertBegin
<1>5. WriterOK'
  <2>1. /\ wlvl' = curMaxHeight - 1
        /\ curMaxHeight' = curMaxHeight
        /\ curMaxHeight \in Int
    BY DEF InsertBegin, listVars, TypeOK
  <2>2. \A l \in Levels : ~(wlvl' < l /\ l < curMaxHeight')
    BY <2>1, SkipListAssumption DEF Levels
  <2>3. wx' = Head /\ wkey' = k /\ wpc' = "search"
    BY DEF InsertBegin
  <2>4. wlvl' < curMaxHeight'
    BY <2>1
  <2> QED
    BY <1>1, <1>2, <1>4, <2>2, <2>3, <2>4 DEF WriterOK, Before
<1> QED
  BY <1>3, <1>5 DEF ListInv

LEMMA ListAdvance ==
  ASSUME TypeOK, ListInv, InsertAdvance
  PROVE  ListInv'
<1>1. \A l \in Levels : Linked(l)' = Linked(l)
  BY SameNext DEF InsertAdvance, listVars
<1>2. LevelsOrdered' /\ TowersNested' /\ UnlinkedEmpty' /\ EmptyAbove'
  BY <1>1
  DEF ListInv, LevelsOrdered, TowersNested, UnlinkedEmpty, EmptyAbove,
      InsertAdvance, listVars, Linking
<1>3. WriterOK'
  <2>1. wlvl \in Levels /\ wpc = "search"
    BY DEF TypeOK, InsertAdvance
  <2>2. wx' \in Linked(wlvl) /\ Before(wx', wkey)
    <3>1. next[wx][wlvl] \in Linked(wlvl) \cup {NULL}
      BY <2>1, PointsAtLinked DEF ListInv, WriterOK
    <3>2. wkey \in Int /\ Linked(wlvl) \subseteq Int
      BY <2>1, SkipListAssumption DEF TypeOK, Linked
    <3> QED
      BY <3>1, <3>2 DEF InsertAdvance, Stops, Before
  <2>3. wx' \in (Linked(wlvl) \cup {Head})'
    BY <1>1, <2>1, <2>2 DEF InsertAdvance
  <2>4. \A l \in Levels : PrevOK(l)' <=> PrevOK(l)
    BY <1>1 DEF PrevOK, InsertAdvance, listVars, Before
  <2> QED
    BY <1>1, <2>1, <2>2, <2>3, <2>4
    DEF ListInv, WriterOK, InsertAdvance, listVars, Before, Linking
<1> QED
  BY <1>2, <1>3 DEF ListInv

LEMMA ListDescend ==
  ASSUME TypeOK, ListInv, InsertDescend
  PROVE  ListInv'
<1>1. \A l \in Levels : Linked(l)' = Linked(l)
  BY SameNext DEF InsertDescend, listVars
<1>2. ~Linking /\ ~Linking' /\ wpc = "search" /\ wpc' \in {"search", "raise"}
  BY DEF InsertDescend, Linking
<1>3. LevelsOrdered' /\ TowersNested' /\ UnlinkedEmpty' /\ EmptyAbove'
  BY <1>1, <1>2
  DEF ListInv, LevelsOrdered, TowersNested, UnlinkedEmpty, EmptyAbove,
      InsertDescend, listVars
<1>4. wlvl \in Levels /\ wkey \in Keys /\ wkey \notin Linked(wlvl)
  BY <1>2 DEF TypeOK, ListInv, WriterOK
<1>5. /\ wx \in Linked(wlvl) \cup {Head}
      /\ Before(wx, wkey)
      /\ next[wx][wlvl] # NULL => next[wx][wlvl] > wkey
  <2>1. wx \in Linked(wlvl) \cup {Head} /\ Before(wx, wkey)
    BY <1>2 DEF ListInv, WriterOK
  <2>2. next[wx][wlvl] \in Linked(wlvl) \cup {NULL}
    BY <1>4, <2>1, PointsAtLinked
  <2>3. wkey \in Int /\ Linked(wlvl) \subseteq Int
    BY <1>4, SkipListAssumption DEF Linked
  <2>4. next[wx][wlvl] # NULL => next[wx][wlvl] >= wkey
    BY DEF InsertDescend, Stops
  <2> QED
    BY <1>4, <2>1, <2>2, <2>3, <2>4
<1>6. ASSUME NEW l \in Levels, wlvl <= l, l < curMaxHeight
      PROVE  PrevOK(l)'
  <2>1. CASE l = wlvl
    <3>1. prev'[l] = wx
      BY <2>1, <1>4 DEF InsertDescend, TypeOK
    <3> QED
      BY <2>1, <3>1, <1>1, <1>5 DEF PrevOK, InsertDescend, listVars, Before
  <2>2. CASE l # wlvl
    <3>1. prev'[l] = prev[l]
      BY <2>2, <1>4 DEF InsertDescend, TypeOK
    <3>2. wlvl < l
      BY <1>4, <1>6, <2>2, SkipListAssumption DEF Levels
    <3>3. PrevOK(l)
      BY <1>2, <1>6, <3>2 DEF ListInv, WriterOK
    <3> QED
      BY <3>1, <3>3, <1>1 DEF PrevOK, InsertDescend, listVars, Before
  <2> QED
    BY <2>1, <2>2
<1>7. WriterOK'
  <2>1. wlvl' = wlvl - 1 /\ wx' = wx /\ wkey' = wkey /\ curMaxHeight' = curMaxHeight
    BY DEF InsertDescend, listVars
  <2>2. CASE wlvl = 0
    <3>1. wpc' = "raise"
      BY <2>2 DEF InsertDescend
    <3>2. \A l \in Levels : l < curMaxHeight' => PrevOK(l)'
      BY <1>6, <2>1, <2>2, SkipListAssumption DEF Levels
    <3> QED
      BY <1>1, <1>2, <2>1, <3>1, <3>2 DEF ListInv, WriterOK
  <2>3. CASE wlvl # 0
    <3>1. wpc' = "search" /\ wlvl - 1 \in Levels /\ wlvl - 1 < wlvl
      BY <1>4, <2>3, SkipListAssumption DEF InsertDescend, Levels
    <3>2. wx \in Linked(wlvl - 1) \cup {Head}
      BY <1>2, <1>4, <1>5, <3>1 DEF ListInv, TowersNested
    <3>3. wlvl < curMaxHeight
      BY <1>2 DEF ListInv, WriterOK
    <3>4. wlvl' < curMaxHeight'
      BY <1>4, <2>1, <3>3, SkipListAssumption DEF Levels, TypeOK
    <3>5. ASSUME NEW l \in Levels, wlvl' < l, l < curMaxHeight'
          PROVE  PrevOK(l)'
      <4>1. wlvl <= l
        BY <1>4, <2>1, <3>5, SkipListAssumption DEF Levels
      <4> QED
        BY <1>6, <2>1, <3>5, <4>1
    <3>6. Before(wx, wkey)' /\ wx' \in (Linked(wlvl) \cup {Head})'
      <4>1. \A l \in Levels : l = wlvl' => wx \in Linked(l)' \cup {Head}
        BY <1>1, <2>1, <3>2
      <4> QED
        BY <1>5, <2>1, <3>1, <4>1 DEF Before
    <3> QED
      BY <1>1, <1>2, <2>1, <3>1, <3>4, <3>5, <3>6 DEF ListInv, WriterOK
  <2> QED
    BY <2>2, <2>3
<1> QED
  BY <1>3, <1>7 DEF ListInv

LEMMA ListRaise ==
  ASSUME TypeOK, ListInv, NEW h \in 1 .. MaxHeight, InsertRaise(h)
  PROVE  ListInv'
<1>1. \A l \in Levels : Linked(l)' = Linked(l)
  BY RaiseKeepsLinked
<1>2. /\ wpc = "raise" /\ wpc' = "own" /\ ~Linking /\ Linking'
      /\ wkey \in Keys /\ wkey' = wkey
      /\ wlvl' = h - 1 /\ h \in Int
      /\ \A l \in Levels : wkey \notin Linked(l)
  BY SkipListAssumption DEF TypeOK, ListInv, WriterOK, InsertRaise, Linking
<1>3. /\ \A n \in Nodes \ {wkey} : next'[n] = next[n]
      /\ \A l \in Levels : next'[wkey][l] = IF l = 0 THEN NULL ELSE Uninit
  BY <1>2 DEF InsertRaise, TypeOK, Nodes
<1>4. /\ curMaxHeight' \in Int /\ curMaxHeight \in Int
      /\ curMaxHeight' >= curMaxHeight
      /\ h <= curMaxHeight'
  BY <1>2, SkipListAssumption DEF InsertRaise, TypeOK
<1>5. \A l \in Levels : \A n \in Linked(l) \cup {Head} :
        n # wkey /\ n \in Nodes /\ next'[n] = next[n]
  BY <1>2, <1>3, SkipListAssumption DEF Linked, Nodes
<1>6. LevelsOrdered'
  BY <1>1, <1>5 DEF ListInv, LevelsOrdered, IsFirstAfter
<1>7. TowersNested'
  BY <1>1, <1>2 DEF ListInv, TowersNested
<1>8. UnlinkedEmpty'
  BY <1>1, <1>2, <1>3 DEF ListInv, UnlinkedEmpty, Nodes
<1>9. EmptyAbove'
  BY <1>4, <1>5, SkipListAssumption DEF ListInv, EmptyAbove, Levels
<1>10. WriterOK'
  <2>1. ASSUME NEW l \in Levels, l <= wlvl'
        PROVE  PrevOK(l)'
    <3>1. CASE l < curMaxHeight
      <4>1. prev'[l] = prev[l]
        BY <3>1, <1>4, SkipListAssumption DEF InsertRaise, Levels
      <4>2. PrevOK(l)
        BY <3>1, <1>2 DEF ListInv, WriterOK
      <4> QED
        BY <1>1, <1>2, <1>5, <4>1, <4>2 DEF PrevOK, Before
    <3>2. CASE ~(l < curMaxHeight)
      <4>1. l < h /\ curMaxHeight <= l
        BY <2>1, <3>2, <1>2, <1>4, SkipListAssumption DEF Levels
      <4>2. prev'[l] = Head
        BY <4>1 DEF InsertRaise
      <4>3. next[Head][l] = NULL
        BY <4>1, <1>4, SkipListAssumption DEF ListInv, EmptyAbove, Levels
      <4> QED
        BY <1>5, <4>2, <4>3 DEF PrevOK, Before
    <3> QED
      BY <3>1, <3>2
  <2>2. wlvl' < curMaxHeight'
    BY <1>2, <1>4
  <2>3. (next[wkey][0] # Uninit)'
    BY <1>2, <1>3, SkipListAssumption DEF Levels
  <2> QED
    BY <1>1, <1>2, <2>1, <2>2, <2>3 DEF WriterOK
<1> QED
  BY <1>6, <1>7, <1>8, <1>9, <1>10 DEF ListInv

LEMMA ListOwn ==
  ASSUME TypeOK, ListInv, InsertOwn
  PROVE  ListInv'
<1>1. \A l \in Levels : Linked(l)' = Linked(l)
  BY OwnKeepsLinked
<1>2. /\ wpc = "own" /\ wpc' = "publish" /\ Linking /\ Linking'
      /\ wkey \in Keys /\ wkey' = wkey
      /\ wlvl \in Levels /\ wlvl' = wlvl
      /\ prev' = prev /\ curMaxHeight' = curMaxHeight
  BY DEF TypeOK, InsertOwn, Linking
<1>3. /\ \A l \in Levels : l <= wlvl => PrevOK(l) /\ wkey \notin Linked(l)
      /\ wlvl < curMaxHeight
  BY <1>2 DEF ListInv, WriterOK
<1>4. /\ \A n \in Nodes \ {wkey} : next'[n] = next[n]
      /\ \A l \in Levels \ {wlvl} : next'[wkey][l] = next[wkey][l]
      /\ next'[wkey][wlvl] = next[prev[wlvl]][wlvl]
  BY <1>2 DEF InsertOwn, TypeOK, Nodes
<1>5. ASSUME NEW l \in Levels, NEW n \in Linked(l) \cup {Head}
      PROVE  next'[n][l] = next[n][l]
  <2>1. n \in Nodes
    BY DEF Linked, Nodes
  <2>2. wlvl <= wlvl /\ wkey # Head
    BY <1>2, SkipListAssumption DEF Levels
  <2>3. n = wkey => l # wlvl
    BY <1>3, <2>2
  <2> QED
    BY <1>4, <2>1, <2>3
<1>6. LevelsOrdered'
  BY <1>1, <1>5 DEF ListInv, LevelsOrdered, IsFirstAfter
<1>7. TowersNested' /\ EmptyAbove'
  BY <1>1, <1>2, <1>5 DEF ListInv, TowersNested, EmptyAbove
<1>8. UnlinkedEmpty'
  BY <1>1, <1>2, <1>4 DEF ListInv, UnlinkedEmpty, Nodes
<1>9. WriterOK'
  <2>1. ASSUME NEW l \in Levels, l <= wlvl
        PROVE  PrevOK(l)'
    BY <1>1, <1>2, <1>3, <1>5, <2>1 DEF PrevOK, Before
  <2>2. (next[wkey][wlvl] = next[prev[wlvl]][wlvl])'
    <3>1. PrevOK(wlvl)
      BY <1>2, <1>3, SkipListAssumption DEF Levels
    <3>2. next'[prev[wlvl]][wlvl] = next[prev[wlvl]][wlvl]
      BY <1>2, <1>5, <3>1 DEF PrevOK
    <3> QED
      BY <1>2, <1>4, <3>2
  <2>3. (next[wkey][0] # Uninit)'
    <3>1. next[prev[wlvl]][wlvl] # Uninit
      <4>1. PrevOK(wlvl)
        BY <1>2, <1>3, SkipListAssumption DEF Levels
      <4> QED
        BY <1>2, <4>1, PointsAtLinked, SkipListAssumption DEF PrevOK, Linked
    <3>2. next[wkey][0] # Uninit /\ 0 \in Levels
      BY <1>2, SkipListAssumption DEF ListInv, WriterOK, Levels
    <3> QED
      BY <1>2, <1>4, <3>1, <3>2
  <2> QED
    BY <1>1, <1>2, <1>3, <2>1, <2>2, <2>3 DEF WriterOK
<1> QED
  BY <1>6, <1>7, <1>8, <1>9 DEF ListInv

LEMMA ListPublish ==
  ASSUME TypeOK, ListInv, InsertPublish
  PROVE  ListInv'
<1>1. /\ \A l \in Levels :
           Linked(l)' = IF l = wlvl THEN Linked(l) \cup {wkey} ELSE Linked(l)
      /\ wlvl \in Levels /\ wkey \in Keys /\ wkey \notin Linked(wlvl)
      /\ prev[wlvl] \in Linked(wlvl) \cup {Head}
      /\ prev[wlvl] # wkey
      /\ next' = [next EXCEPT ![prev[wlvl]][wlvl] = wkey]
  BY PublishLinks
<1>2. /\ wpc = "publish" /\ Linking /\ wkey' = wkey
      /\ wlvl' = wlvl - 1 /\ wlvl' < wlvl /\ wlvl \in Int
      /\ wpc' = (IF wlvl = 0 THEN "idle" ELSE "own")
      /\ prev' = prev /\ curMaxHeight' = curMaxHeight
  BY <1>1, SkipListAssumption DEF InsertPublish, Linking, Levels
<1>3. /\ \A l \in Levels : l <= wlvl => PrevOK(l) /\ wkey \notin Linked(l)
      /\ wlvl < curMaxHeight
      /\ next[wkey][wlvl] = next[prev[wlvl]][wlvl]
  BY <1>2 DEF ListInv, WriterOK
<1>4. prev[wlvl] \in Nodes /\ wkey \in Nodes
  BY <1>1 DEF Linked, Nodes
<1>5. /\ \A n \in Nodes \ {prev[wlvl]} : next'[n] = next[n]
      /\ \A l \in Levels \ {wlvl} : next'[prev[wlvl]][l] = next[prev[wlvl]][l]
      /\ next'[prev[wlvl]][wlvl] = wkey
  BY <1>1, <1>4 DEF TypeOK
<1>6. PrevOK(wlvl)
  BY <1>1, <1>2, <1>3
<1>7. LevelsOrdered'
  <2> SUFFICES ASSUME NEW l \in Levels, NEW n \in Linked(l)' \cup {Head}
               PROVE  IsFirstAfter(next'[n][l], n, Linked(l)')
    BY DEF LevelsOrdered, IsFirstAfter, Before
  <2>1. CASE l # wlvl
    <3>1. next'[n][l] = next[n][l] /\ Linked(l)' = Linked(l)
      BY <1>1, <1>5, <2>1 DEF Linked, Nodes
    <3> QED
      BY <3>1 DEF ListInv, LevelsOrdered
  <2>2. CASE l = wlvl
    <3> DEFINE S == Linked(l)
               v == next[prev[wlvl]][l]
    <3>1. Linked(l)' = S \cup {wkey} /\ S \subseteq Int /\ wkey \in Int
      BY <1>1, <2>2, SkipListAssumption DEF Linked
    <3>2. IsFirstAfter(v, prev[wlvl], S) /\ v \in S \cup {NULL}
      BY <1>1, <2>2, PointsAtLinked DEF ListInv, LevelsOrdered
    <3>3. Before(prev[wlvl], wkey) /\ (v # NULL => v > wkey)
      BY <1>6, <2>2 DEF PrevOK
    <3>4. NULL \notin S /\ Head \notin S \cup {wkey} /\ NULL # wkey
      BY <1>1, SkipListAssumption DEF Linked
    <3>5. CASE n = prev[wlvl]
      <4>1. next'[n][l] = wkey
        BY <1>5, <2>2, <3>5
      <4>2. \A k \in S : Before(n, k) => wkey <= k
        BY <3>1, <3>2, <3>3, <3>4, <3>5 DEF IsFirstAfter
      <4> QED
        BY <3>1, <3>3, <3>5, <4>1, <4>2 DEF IsFirstAfter
    <3>6. CASE n = wkey
      <4>1. next'[n][l] = v
        BY <1>1, <1>3, <1>4, <1>5, <2>2, <3>6
      <4>2. \A k \in S : Before(wkey, k) => Before(prev[wlvl], k)
        BY <1>1, <2>2, <3>1, <3>3, <3>4 DEF Before
      <4> QED
        BY <3>1, <3>2, <3>3, <3>4, <3>6, <4>1, <4>2 DEF IsFirstAfter, Before
    <3>7. CASE n # prev[wlvl] /\ n # wkey
      <4>1. n \in S \cup {Head} /\ next'[n][l] = next[n][l]
        BY <1>5, <3>1, <3>7 DEF Linked, Nodes
      <4>2. IsFirstAfter(next[n][l], n, S) /\ next[n][l] \in S \cup {NULL}
        BY <4>1, PointsAtLinked DEF ListInv, LevelsOrdered
      <4>3. Before(n, wkey) => next[n][l] \in S /\ next[n][l] <= wkey
        <5> SUFFICES ASSUME Before(n, wkey)
                     PROVE  next[n][l] \in S /\ next[n][l] <= wkey
          OBVIOUS
        <5>1. prev[wlvl] \in S /\ Before(n, prev[wlvl])
          <6>1. prev[wlvl] # Head
            BY <1>1, <2>2, <3>1, <3>2, <3>3, <3>4, <3>7, <4>1
            DEF IsFirstAfter, Before
          <6> QED
            BY <1>1, <2>2, <3>1, <3>2, <3>3, <3>4, <3>7, <4>1, <6>1
            DEF IsFirstAfter, Before
        <5>2. next[n][l] \in S /\ next[n][l] <= prev[wlvl]
          BY <4>2, <5>1 DEF IsFirstAfter
        <5> QED
          BY <3>1, <3>3, <3>4, <5>1, <5>2 DEF Before
      <4> QED
        BY <3>1, <3>4, <4>1, <4>2, <4>3 DEF IsFirstAfter
    <3> QED
      BY <3>5, <3>6, <3>7
  <2> QED
    BY <2>1, <2>2
<1>8. TowersNested'
  <2> SUFFICES ASSUME NEW l \in Levels, NEW m \in Levels, m < l,
                      NEW k \in Linked(l)', k \notin Linked(m)'
               PROVE  Linking' /\ k = wkey' /\ m <= wlvl'
    BY DEF TowersNested
  <2>1. m # wlvl \/ k # wkey
    BY <1>1
  <2>2. CASE k \in Linked(l)
    <3>1. k = wkey /\ m <= wlvl
      BY <1>1, <2>2 DEF ListInv, TowersNested
    <3> QED
      BY <1>2, <2>1, <3>1, SkipListAssumption DEF Linking, Levels
  <2>3. CASE k \notin Linked(l)
    <3>1. k = wkey /\ l = wlvl
      BY <1>1, <2>3
    <3> QED
      BY <1>2, <3>1, SkipListAssumption DEF Linking, Levels
  <2> QED
    BY <2>2, <2>3
<1>9. UnlinkedEmpty'
  <2> SUFFICES ASSUME NEW l \in Levels, NEW k \in Keys \ Linked(l)'
               PROVE  \/ next'[k][l] = Uninit
                      \/ Linking' /\ k = wkey' /\ l = 0 /\ next'[k][l] = NULL
    BY DEF UnlinkedEmpty
  <2>1. k \notin Linked(l) /\ (l = wlvl => k # wkey)
    BY <1>1
  <2>2. next'[k][l] = next[k][l]
    BY <1>1, <1>4, <1>5, <2>1, SkipListAssumption DEF Nodes
  <2>3. CASE next[k][l] = Uninit
    BY <2>2, <2>3
  <2>4. CASE next[k][l] # Uninit
    <3>1. k = wkey /\ l = 0 /\ next[k][l] = NULL
      BY <1>2, <2>1, <2>4 DEF ListInv, UnlinkedEmpty
    <3> QED
      BY <1>2, <2>1, <2>2, <3>1 DEF Linking
  <2> QED
    BY <2>3, <2>4
<1>10. EmptyAbove'
  <2> SUFFICES ASSUME NEW l \in Levels, l >= curMaxHeight
               PROVE  next'[Head][l] = NULL
    BY <1>2 DEF EmptyAbove
  <2>1. l # wlvl
    BY <1>3, <1>1, SkipListAssumption DEF Levels, TypeOK
  <2>2. next'[Head][l] = next[Head][l]
    BY <1>4, <1>5, <2>1 DEF Nodes
  <2> QED
    BY <2>2 DEF ListInv, EmptyAbove
<1>11. WriterOK'
  <2>1. CASE wlvl = 0
    BY <1>2, <2>1 DEF WriterOK, Linking
  <2>2. CASE wlvl # 0
    <3>1. wpc' = "own" /\ Linking'
      BY <1>2, <2>2 DEF Linking
    <3>2. wlvl' < curMaxHeight'
      BY <1>1, <1>2, <1>3, SkipListAssumption DEF Levels, TypeOK
    <3>3. ASSUME NEW l \in Levels, l <= wlvl'
          PROVE  PrevOK(l)' /\ (wkey \notin Linked(l))'
      <4>1. l <= wlvl /\ l # wlvl
        BY <1>2, <3>3, SkipListAssumption DEF Levels
      <4>2. PrevOK(l) /\ wkey \notin Linked(l)
        BY <1>3, <4>1
      <4>3. prev[l] \in Nodes
        BY <4>2 DEF PrevOK, Linked, Nodes
      <4>4. next'[prev[l]][l] = next[prev[l]][l]
        BY <1>5, <4>1, <4>3
      <4> QED
        BY <1>1, <1>2, <4>1, <4>2, <4>4 DEF PrevOK, Before
    <3>4. (next[wkey][0] # Uninit)'
      <4>1. next[wkey][0] # Uninit /\ 0 \in Levels
        BY <1>2, SkipListAssumption DEF ListInv, WriterOK, Levels
      <4> QED
        BY <1>1, <1>2, <1>4, <1>5, <4>1
    <3> QED
      BY <3>1, <3>2, <3>3, <3>4 DEF WriterOK, Linking
  <2> QED
    BY <2>1, <2>2
<1> QED
  BY <1>7, <1>8, <1>9, <1>10, <1>11 DEF ListInv

\* Every step keeps the lists in order.
LEMMA ListStep ==
  ASSUME TypeOK, ListInv, [Next]_vars
  PROVE  ListInv'
<1>1. ASSUME NEW k \in Keys, InsertBegin(k) PROVE ListInv'
  BY <1>1, ListBegin
<1>2. CASE InsertAdvance
  BY <1>2, ListAdvance
<1>3. CASE InsertDescend
  BY <1>3, ListDescend
<1>4. ASSUME NEW h \in 1 .. MaxHeight, InsertRaise(h) PROVE ListInv'
  BY <1>4, ListRaise
<1>5. CASE InsertOwn
  BY <1>5, ListOwn
<1>6. CASE InsertPublish
  BY <1>6, ListPublish
<1>7. ASSUME NEW r \in Readers,
             \/ BeginSeek(r) \/ BeginContains(r) \/ BeginPrev(r)
             \/ BeginSeekToLast(r) \/ SearchStep(r)
             \/ SeekToFirst(r) \/ IteratorNext(r)
      PROVE  ListInv'
  <2>1. UNCHANGED <<listVars, writerVars>>
    BY <1>7
    DEF BeginSeek, BeginContains, BeginPrev, BeginSeekToLast, Begin, SearchStep,
        SearchAdvance, SearchDescend, SearchReturn, SearchCrash, SeekToFirst,
        IteratorNext
  <2> QED
    BY <2>1, ListUnchanged
<1>8. CASE UNCHANGED vars
  BY <1>8, ListUnchanged DEF vars, listVars, writerVars
<1> QED
  BY <1>1, <1>2, <1>3, <1>4, <1>5, <1>6, <1>7, <1>8 DEF Next, WriterStep

(***************************************************************************)
(* Types                                                                   *)
(***************************************************************************)

\* A load of a search yields a node of its level, or null.
LEMMA ReaderLoads ==
  ASSUME TypeOK, ListInv, NEW r \in Readers, ReaderOK(r), op[r] \in SearchOps,
         NEW v \in Loaded(rx[r], LoadLevel(r)), v # Wild
  PROVE  v \in Linked(LoadLevel(r)) \cup {NULL}
<1>1. LoadLevel(r) \in Levels
  BY SkipListAssumption DEF LoadLevel, TypeOK, Levels
<1>2. next[rx[r]][LoadLevel(r)] \in {NULL, Uninit} \cup Linked(LoadLevel(r))
  <2>1. CASE rx[r] \in Linked(LoadLevel(r)) \cup {Head}
    BY <1>1, <2>1, PointsAtLinked
  <2>2. CASE op[r] # "seekToLast" /\ OnNewNode(rx[r], rlvl[r])
    <3>1. LoadLevel(r) = rlvl[r] /\ rx[r] = wkey /\ rlvl[r] <= wlvl /\ Linking
      BY <2>2 DEF LoadLevel, OnNewNode
    <3>2. PrevOK(rlvl[r]) /\ wkey \notin Linked(rlvl[r]) /\ wkey \in Keys
      BY <1>1, <3>1 DEF ListInv, WriterOK, TypeOK, Linking
    <3>3. wpc = "publish" => next[wkey][wlvl] = next[prev[wlvl]][wlvl]
      BY DEF ListInv, WriterOK
    <3>4. next[prev[rlvl[r]]][rlvl[r]] \in Linked(rlvl[r]) \cup {NULL}
      BY <1>1, <3>1, <3>2, PointsAtLinked DEF PrevOK
    <3> QED
      BY <1>1, <3>1, <3>2, <3>3, <3>4 DEF ListInv, UnlinkedEmpty
  <2> QED
    BY <2>1, <2>2 DEF ReaderOK
<1> QED
  BY <1>2, SkipListAssumption DEF Loaded, Linked

\* The bottom slot of every node an iterator can stand on is written.
LEMMA IteratorLoads ==
  ASSUME TypeOK, ListInv, NEW r \in Readers, ReaderOK(r), iter[r] # NULL
  PROVE  next[iter[r]][0] \in Linked(0) \cup {NULL}
<1>1. 0 \in Levels
  BY SkipListAssumption DEF Levels
<1>2. CASE iter[r] \in Linked(0)
  BY <1>1, <1>2, PointsAtLinked
<1>3. CASE OnNewNode(iter[r], 0)
  <2>1. /\ iter[r] = wkey /\ Linking /\ wkey \in Keys
        /\ PrevOK(0) /\ wkey \notin Linked(0)
        /\ next[wkey][0] # Uninit
    BY <1>1, <1>3 DEF OnNewNode, ListInv, WriterOK, TypeOK, Linking
  <2>2. wpc = "publish" => next[wkey][wlvl] = next[prev[wlvl]][wlvl]
    BY DEF ListInv, WriterOK
  <2>3. next[prev[0]][0] \in Linked(0) \cup {NULL}
    BY <1>1, <2>1, PointsAtLinked DEF PrevOK
  <2> QED
    BY <1>1, <2>1, <2>2, <2>3 DEF ListInv, UnlinkedEmpty
<1> QED
  BY <1>2, <1>3 DEF ReaderOK

LEMMA TypeWriter ==
  ASSUME TypeOK, ListInv, ReadersInv, WriterStep
  PROVE  TypeOK'
<1> USE DEF TypeOK
<1>1. CASE InsertAdvance
  <2>1. next[wx][wlvl] \in Linked(wlvl) \cup {NULL}
    BY <1>1, PointsAtLinked DEF ListInv, WriterOK, InsertAdvance
  <2>2. wx' \in Nodes
    BY <1>1, <2>1 DEF InsertAdvance, Stops, Linked, Nodes
  <2> QED
    BY <1>1, <2>2 DEF InsertAdvance, listVars, searchVars, resultVars
<1>2. CASE InsertDescend
  <2>1. wlvl \in Levels /\ wkey \in Keys
    BY <1>2 DEF InsertDescend
  <2>2. wlvl' \in -1 .. MaxHeight - 1 /\ (wpc' = "search" => wlvl' \in Levels)
    BY <1>2, <2>1, SkipListAssumption DEF InsertDescend, Levels
  <2>3. prev' \in [Levels -> Nodes \cup {Uninit}]
    BY <1>2 DEF InsertDescend
  <2> QED
    BY <1>2, <2>1, <2>2, <2>3 DEF InsertDescend, listVars, searchVars, resultVars
<1>3. ASSUME NEW h \in 1 .. MaxHeight, InsertRaise(h)
      PROVE  TypeOK'
  <2>1. next' \in [Nodes -> [Levels -> Pointers]]
    BY <1>3 DEF InsertRaise, Pointers
  <2>2. curMaxHeight' \in 1 .. MaxHeight
    BY <1>3 DEF InsertRaise
  <2>3. wlvl' \in Levels /\ wlvl' \in -1 .. MaxHeight - 1
    BY <1>3, SkipListAssumption DEF InsertRaise, Levels
  <2>4. prev' \in [Levels -> Nodes \cup {Uninit}]
    BY <1>3 DEF InsertRaise, Nodes
  <2>5. wkey \in Keys
    BY <1>3 DEF InsertRaise
  <2> QED
    BY <1>3, <2>1, <2>2, <2>3, <2>4, <2>5 DEF InsertRaise, searchVars, resultVars
<1>4. CASE InsertOwn
  <2>1. wlvl \in Levels /\ wkey \in Nodes
    BY <1>4 DEF InsertOwn, Nodes
  <2>2. PrevOK(wlvl)
    BY <1>4, <2>1, SkipListAssumption DEF ListInv, WriterOK, InsertOwn, Linking, Levels
  <2>3. next[prev[wlvl]][wlvl] \in Pointers
    BY <2>1, <2>2, PointsAtLinked DEF PrevOK, Linked, Pointers
  <2>4. next' \in [Nodes -> [Levels -> Pointers]]
    BY <1>4, <2>1, <2>3 DEF InsertOwn
  <2> QED
    BY <1>4, <2>1, <2>4 DEF InsertOwn, searchVars, resultVars
<1>5. CASE InsertPublish
  <2>1. wlvl \in Levels /\ wkey \in Keys
    BY <1>5 DEF InsertPublish
  <2>2. wlvl' \in -1 .. MaxHeight - 1 /\ (wpc' = "own" => wlvl' \in Levels)
    BY <1>5, <2>1, SkipListAssumption DEF InsertPublish, Levels
  <2>3. next' \in [Nodes -> [Levels -> Pointers]]
    BY <1>5, <2>1 DEF InsertPublish, Pointers
  <2> QED
    BY <1>5, <2>1, <2>2, <2>3 DEF InsertPublish, searchVars, resultVars
<1> QED
  BY <1>1, <1>2, <1>3, <1>4, <1>5 DEF WriterStep

LEMMA TypeReader ==
  ASSUME TypeOK, ListInv, ReadersInv, NEW r \in Readers,
         \/ BeginSeek(r) \/ BeginContains(r) \/ BeginPrev(r)
         \/ BeginSeekToLast(r) \/ SearchStep(r)
         \/ SeekToFirst(r) \/ IteratorNext(r)
  PROVE  TypeOK'
<1> USE DEF TypeOK
<1>1. ASSUME NEW o \in SearchOps, NEW k \in Keys \cup {NULL}, Begin(r, o, k),
             o # "seekToLast" => k \in Keys
      PROVE  TypeOK'
  <2>1. curMaxHeight - 1 \in Levels
    BY SkipListAssumption DEF Levels
  <2>2. /\ op' \in [Readers -> SearchOps \cup {"idle", "crashed"}]
        /\ rkey' \in [Readers -> Keys \cup {NULL}]
        /\ rx' \in [Readers -> Nodes]
        /\ rlvl' \in [Readers -> Levels]
    BY <1>1, <2>1 DEF Begin, Nodes
  <2>3. \A q \in Readers : op'[q] \in SearchOps \ {"seekToLast"} => rkey'[q] \in Keys
    BY <1>1 DEF Begin
  <2> QED
    BY <1>1, <2>2, <2>3 DEF Begin, listVars, writerVars, resultVars
<1>2. CASE BeginSeek(r) \/ BeginContains(r)
  BY <1>1, <1>2 DEF BeginSeek, BeginContains, SearchOps
<1>3. CASE BeginPrev(r) \/ BeginSeekToLast(r)
  BY <1>1, <1>3 DEF BeginPrev, BeginSeekToLast, SearchOps
<1>4. ReaderOK(r)
  BY DEF ReadersInv
<1>5. CASE SearchAdvance(r)
  <2>1. PICK v \in Loaded(rx[r], LoadLevel(r)) :
          v # Wild /\ ~SearchStops(r, v) /\ rx' = [rx EXCEPT ![r] = v]
    BY <1>5 DEF SearchAdvance
  <2>2. v \in Nodes
    <3>1. v \in Linked(LoadLevel(r)) \cup {NULL}
      BY <1>4, <1>5, <2>1, ReaderLoads DEF SearchAdvance
    <3>2. v # NULL
      BY <2>1 DEF SearchStops, Stops
    <3> QED
      BY <3>1, <3>2 DEF Linked, Nodes
  <2>3. rx' \in [Readers -> Nodes]
    BY <2>1, <2>2
  <2>4. UNCHANGED <<listVars, writerVars, op, rkey, rlvl, resultVars>>
    BY <1>5 DEF SearchAdvance
  <2> QED
    BY <2>3, <2>4 DEF listVars, writerVars, resultVars
<1>6. CASE SearchDescend(r)
  <2>1. rlvl' \in [Readers -> Levels]
    BY <1>6, SkipListAssumption DEF SearchDescend, Levels
  <2> QED
    BY <1>6, <2>1 DEF SearchDescend, listVars, writerVars, resultVars
<1>7. CASE SearchReturn(r)
  <2>1. PICK v \in Loaded(rx[r], 0) :
          /\ v # Wild
          /\ SearchStops(r, v)
          /\ iter' = CASE op[r] = "seek" -> [iter EXCEPT ![r] = v]
                       [] op[r] = "contains" -> iter
                       [] OTHER -> [iter EXCEPT ![r] = BeforeHead(rx[r])]
          /\ found' = IF op[r] = "contains"
                      THEN [found EXCEPT ![r] = (v = rkey[r])]
                      ELSE found
    BY <1>7 DEF SearchReturn
  <2>2. v \in Keys \cup {NULL}
    <3>1. LoadLevel(r) = 0
      BY <1>7 DEF SearchReturn, LoadLevel
    <3> QED
      BY <1>4, <1>7, <2>1, <3>1, ReaderLoads DEF SearchReturn, Linked
  <2>3. BeforeHead(rx[r]) \in Keys \cup {NULL}
    BY DEF BeforeHead, Nodes
  <2>4. iter' \in [Readers -> Keys \cup {NULL}]
    BY <2>1, <2>2, <2>3
  <2>5. found' \in [Readers -> BOOLEAN]
    BY <2>1
  <2>6. /\ op' \in [Readers -> SearchOps \cup {"idle", "crashed"}]
        /\ \A q \in Readers : op'[q] \in SearchOps => op'[q] = op[q]
    BY <1>7 DEF SearchReturn, SearchOps
  <2> QED
    BY <1>7, <2>4, <2>5, <2>6 DEF SearchReturn, listVars, writerVars
<1>8. CASE SearchCrash(r)
  <2>1. /\ op' \in [Readers -> SearchOps \cup {"idle", "crashed"}]
        /\ \A q \in Readers : op'[q] \in SearchOps => op'[q] = op[q]
    BY <1>8 DEF SearchCrash, SearchOps
  <2> QED
    BY <1>8, <2>1 DEF SearchCrash, listVars, writerVars, resultVars
<1>9. CASE SeekToFirst(r)
  <2>1. next[Head][0] \in Keys \cup {NULL}
    <3>1. 0 \in Levels
      BY SkipListAssumption DEF Levels
    <3>2. next[Head][0] \in Linked(0) \cup {NULL}
      BY <3>1, PointsAtLinked
    <3> QED
      BY <3>2 DEF Linked
  <2> QED
    BY <1>9, <2>1 DEF SeekToFirst, listVars, writerVars, searchVars
<1>10. CASE IteratorNext(r)
  <2>1. next[iter[r]][0] \in Keys \cup {NULL}
    BY <1>4, <1>10, IteratorLoads DEF IteratorNext, Linked
  <2> QED
    BY <1>10, <2>1 DEF IteratorNext, listVars, writerVars, searchVars
<1> QED
  BY <1>2, <1>3, <1>5, <1>6, <1>7, <1>8, <1>9, <1>10 DEF SearchStep

(***************************************************************************)
(* The readers                                                             *)
(***************************************************************************)

\* What the writer does to the levels and to the new node, seen by a reader
\* that stands on a node: linked nodes stay, the new node gets linked.
LEMMA WriterAndNodes ==
  ASSUME TypeOK, ListInv, [Next]_vars
  PROVE  /\ \A l \in Levels : Linked(l) \subseteq Linked(l)'
         /\ \A l \in Levels : \A n : OnNewNode(n, l) =>
              \/ n \in Linked(l)'
              \/ Linking' /\ n = wkey' /\ l <= wlvl'
<1>1. CASE InsertPublish
  <2>1. /\ \A l \in Levels :
             Linked(l)' = IF l = wlvl THEN Linked(l) \cup {wkey} ELSE Linked(l)
        /\ wlvl \in Levels
    BY <1>1, PublishLinks
  <2>2. /\ wkey' = wkey /\ wlvl' = wlvl - 1
        /\ wpc' = IF wlvl = 0 THEN "idle" ELSE "own"
    BY <1>1 DEF InsertPublish
  <2>3. ASSUME NEW l \in Levels, NEW n, OnNewNode(n, l), n \notin Linked(l)'
        PROVE  Linking' /\ n = wkey' /\ l <= wlvl'
    <3>1. n = wkey /\ l <= wlvl /\ l # wlvl
      BY <2>1, <2>3 DEF OnNewNode
    <3> QED
      BY <2>1, <2>2, <3>1, SkipListAssumption DEF Levels, Linking
  <2> QED
    BY <2>1, <2>3
<1>2. ASSUME NEW h \in 1 .. MaxHeight, InsertRaise(h)
      PROVE  /\ \A l \in Levels : Linked(l)' = Linked(l)
             /\ ~Linking
  BY <1>2, RaiseKeepsLinked DEF InsertRaise, Linking
<1>3. CASE InsertOwn
  <2>1. /\ \A l \in Levels : Linked(l)' = Linked(l)
        /\ Linking' /\ wkey' = wkey /\ wlvl' = wlvl
    BY <1>3, OwnKeepsLinked DEF InsertOwn, Linking
  <2> QED
    BY <2>1 DEF OnNewNode
<1>4. ASSUME NEW k \in Keys, InsertBegin(k)
      PROVE  (\A l \in Levels : Linked(l)' = Linked(l)) /\ ~Linking
  BY <1>4, SameNext DEF InsertBegin, listVars, Linking
<1>5. CASE InsertAdvance \/ InsertDescend
  <2>1. (\A l \in Levels : Linked(l)' = Linked(l)) /\ ~Linking
    BY <1>5, SameNext DEF InsertAdvance, InsertDescend, listVars, Linking
  <2> QED
    BY <2>1 DEF OnNewNode
<1>6. CASE \/ \E r \in Readers :
                \/ BeginSeek(r) \/ BeginContains(r) \/ BeginPrev(r)
                \/ BeginSeekToLast(r) \/ SearchStep(r)
                \/ SeekToFirst(r) \/ IteratorNext(r)
           \/ UNCHANGED vars
  <2>1. UNCHANGED <<listVars, writerVars>>
    BY <1>6
    DEF BeginSeek, BeginContains, BeginPrev, BeginSeekToLast, Begin, SearchStep,
        SearchAdvance, SearchDescend, SearchReturn, SearchCrash, SeekToFirst,
        IteratorNext, vars, listVars, writerVars
  <2>2. /\ \A l \in Levels : Linked(l)' = Linked(l)
        /\ wpc' = wpc /\ wkey' = wkey /\ wlvl' = wlvl
    BY <2>1, SameNext DEF listVars, writerVars
  <2> QED
    BY <2>2 DEF OnNewNode, Linking
<1> QED
  BY <1>1, <1>2, <1>3, <1>4, <1>5, <1>6 DEF Next, WriterStep, OnNewNode

\* A reader that does not move keeps its place while others move.
LEMMA ReaderStays ==
  ASSUME TypeOK, ListInv, ReadersInv, [Next]_vars, NEW r \in Readers,
         op'[r] = op[r], rkey'[r] = rkey[r], rx'[r] = rx[r], rlvl'[r] = rlvl[r],
         iter'[r] = iter[r],
         Guarded(r) => wpc' = "idle"
  PROVE  ReaderOK(r)'
<1>1. ReaderOK(r)
  BY DEF ReadersInv
<1>2. LoadLevel(r)' = LoadLevel(r) /\ LoadLevel(r) \in Levels /\ 0 \in Levels
  BY SkipListAssumption DEF LoadLevel, TypeOK, Levels
<1>3. op[r] \in SearchOps =>
        \/ rx[r] \in Linked(LoadLevel(r))' \cup {Head}
        \/ op[r] # "seekToLast" /\ OnNewNode(rx[r], rlvl[r])'
  <2> SUFFICES ASSUME op[r] \in SearchOps
               PROVE  \/ rx[r] \in Linked(LoadLevel(r))' \cup {Head}
                      \/ op[r] # "seekToLast" /\ OnNewNode(rx[r], rlvl[r])'
    OBVIOUS
  <2>1. \A l \in Levels : l = LoadLevel(r) =>
          \/ rx[r] \in Linked(l)' \cup {Head}
          \/ op[r] # "seekToLast" /\ OnNewNode(rx[r], rlvl[r])'
    BY <1>1, WriterAndNodes DEF ReaderOK, OnNewNode, LoadLevel
  <2> QED
    BY <1>2, <2>1
<1>4. iter[r] \in Linked(0)' \cup {NULL} \/ OnNewNode(iter[r], 0)'
  BY <1>1, <1>2, WriterAndNodes DEF ReaderOK, OnNewNode
<1>5. Before(rx[r], rkey[r])' <=> Before(rx[r], rkey[r])
  BY DEF Before
<1> QED
  BY <1>1, <1>2, <1>3, <1>4, <1>5 DEF ReaderOK, Guarded, OnNewNode

LEMMA ReadersUnderWriter ==
  ASSUME TypeOK, ListInv, ReadersInv,
         (\E k \in Keys : InsertBegin(k)) \/ WriterStep
  PROVE  ReadersInv'
<1> SUFFICES ASSUME NEW r \in Readers
             PROVE  ReaderOK(r)'
  BY DEF ReadersInv
<1>1. UNCHANGED <<searchVars, resultVars>> /\ [Next]_vars
  BY DEF InsertBegin, WriterStep, InsertAdvance, InsertDescend, InsertRaise,
         InsertOwn, InsertPublish, Next
<1>2. ~Guarded(r)
  <2>1. CASE \E k \in Keys : InsertBegin(k)
    BY <2>1 DEF InsertBegin
  <2>2. CASE WriterStep
    <3>1. wpc # "idle"
      BY <2>2 DEF WriterStep, InsertAdvance, InsertDescend, InsertRaise,
                  InsertOwn, InsertPublish
    <3> QED
      BY <3>1 DEF ReadersInv, ReaderOK
  <2> QED
    BY <2>1, <2>2
<1> QED
  BY <1>1, <1>2, ReaderStays DEF searchVars, resultVars

LEMMA ReadersUnderReader ==
  ASSUME TypeOK, ListInv, ReadersInv, NEW r \in Readers,
         \/ BeginSeek(r) \/ BeginContains(r) \/ BeginPrev(r)
         \/ BeginSeekToLast(r) \/ SearchStep(r)
         \/ SeekToFirst(r) \/ IteratorNext(r)
  PROVE  ReadersInv'
<1>1. UNCHANGED <<listVars, writerVars>> /\ [Next]_vars
  BY DEF BeginSeek, BeginContains, BeginPrev, BeginSeekToLast, Begin, SearchStep,
         SearchAdvance, SearchDescend, SearchReturn, SearchCrash, SeekToFirst,
         IteratorNext, Next
<1>2. /\ \A l : Linked(l)' = Linked(l)
      /\ wpc' = wpc /\ wkey' = wkey /\ wlvl' = wlvl
  BY <1>1, SameNext DEF listVars, writerVars
<1>3. \A n, l : OnNewNode(n, l)' <=> OnNewNode(n, l)
  BY <1>2 DEF OnNewNode, Linking
<1>4. ReaderOK(r)
  BY DEF ReadersInv
<1>5. ASSUME NEW q \in Readers, q # r
      PROVE  ReaderOK(q)'
  <2>1. /\ op'[q] = op[q] /\ rkey'[q] = rkey[q] /\ rx'[q] = rx[q]
        /\ rlvl'[q] = rlvl[q] /\ iter'[q] = iter[q]
    BY <1>5
    DEF TypeOK, BeginSeek, BeginContains, BeginPrev, BeginSeekToLast, Begin,
        SearchStep, SearchAdvance, SearchDescend, SearchReturn, SearchCrash,
        SeekToFirst, IteratorNext, searchVars, resultVars
  <2>2. Guarded(q) => wpc' = "idle"
    BY <1>2 DEF ReadersInv, ReaderOK
  <2> QED
    BY <1>1, <2>1, <2>2, ReaderStays
<1>6. ReaderOK(r)'
  <2>1. ASSUME NEW o, NEW k, Begin(r, o, k), o = "prev" => k = iter[r]
        PROVE  ReaderOK(r)'
    <3>1. /\ op'[r] = o /\ rkey'[r] = k /\ rx'[r] = Head /\ iter'[r] = iter[r]
          /\ o \in LockFreeOps \/ wpc = "idle"
      BY <2>1 DEF Begin, TypeOK, resultVars
    <3> QED
      BY <1>2, <1>3, <1>4, <2>1, <3>1 DEF ReaderOK, Before, Guarded
  <2>2. CASE BeginSeek(r) \/ BeginContains(r) \/ BeginPrev(r) \/ BeginSeekToLast(r)
    BY <2>1, <2>2 DEF BeginSeek, BeginContains, BeginPrev, BeginSeekToLast
  <2>3. CASE SearchAdvance(r)
    <3>1. PICK v \in Loaded(rx[r], LoadLevel(r)) :
            v # Wild /\ ~SearchStops(r, v) /\ rx' = [rx EXCEPT ![r] = v]
      BY <2>3 DEF SearchAdvance
    <3>2. UNCHANGED <<op, rkey, rlvl, iter>> /\ op[r] \in SearchOps
      BY <2>3 DEF SearchAdvance, resultVars
    <3>3. v \in Linked(LoadLevel(r)) \cup {NULL} /\ v # NULL
      BY <1>4, <3>1, <3>2, ReaderLoads DEF SearchStops, Stops
    <3>4. rx'[r] = v /\ LoadLevel(r)' = LoadLevel(r)
      BY <3>1, <3>2 DEF TypeOK, LoadLevel
    <3>5. op[r] # "seekToLast" => Before(v, rkey[r])
      <4>1. op[r] # "seekToLast" => rkey[r] \in Int /\ v \in Int /\ ~(v >= rkey[r])
        BY <3>1, <3>2, <3>3, SkipListAssumption
        DEF SearchStops, Stops, TypeOK, Linked
      <4> QED
        BY <4>1 DEF Before
    <3> QED
      BY <1>2, <1>3, <1>4, <3>2, <3>3, <3>4, <3>5 DEF ReaderOK, Guarded, Before
  <2>4. CASE SearchDescend(r)
    <3>1. /\ UNCHANGED <<op, rkey, rx, iter>> /\ op[r] \in SearchOps
          /\ rlvl[r] \in Levels /\ rlvl'[r] = rlvl[r] - 1
          /\ rlvl[r] - 1 \in Levels /\ rlvl[r] - 1 < rlvl[r]
      BY <2>4, SkipListAssumption DEF SearchDescend, TypeOK, resultVars, Levels
    <3>2. CASE op[r] = "seekToLast"
      <4>1. LoadLevel(r) = 0 /\ LoadLevel(r)' = 0
        BY <3>1, <3>2 DEF LoadLevel
      <4> QED
        BY <1>2, <1>3, <1>4, <3>1, <3>2, <4>1 DEF ReaderOK, Guarded
    <3>3. CASE op[r] # "seekToLast"
      <4>1. LoadLevel(r) = rlvl[r] /\ LoadLevel(r)' = rlvl[r] - 1
        BY <3>1, <3>3 DEF LoadLevel
      <4>2. \/ rx[r] \in Linked(rlvl[r] - 1) \cup {Head}
            \/ OnNewNode(rx[r], rlvl[r] - 1)
        <5>1. CASE rx[r] \in Linked(rlvl[r])
          BY <3>1, <5>1 DEF ListInv, TowersNested, OnNewNode
        <5>2. CASE OnNewNode(rx[r], rlvl[r])
          BY <3>1, <5>2, SkipListAssumption DEF OnNewNode, TypeOK, Levels
        <5> QED
          BY <1>4, <3>1, <3>3, <4>1, <5>1, <5>2 DEF ReaderOK
      <4> QED
        BY <1>2, <1>3, <1>4, <3>1, <3>3, <4>1, <4>2 DEF ReaderOK, Guarded, Before
    <3> QED
      BY <3>2, <3>3
  <2>5. CASE SearchReturn(r)
    <3>1. PICK v \in Loaded(rx[r], 0) :
            /\ v # Wild
            /\ SearchStops(r, v)
            /\ iter' = CASE op[r] = "seek" -> [iter EXCEPT ![r] = v]
                         [] op[r] = "contains" -> iter
                         [] OTHER -> [iter EXCEPT ![r] = BeforeHead(rx[r])]
      BY <2>5 DEF SearchReturn
    <3>2. LoadLevel(r) = 0 /\ op[r] \in SearchOps /\ op'[r] = "idle"
      BY <2>5 DEF SearchReturn, LoadLevel, TypeOK
    <3>3. v \in Linked(0) \cup {NULL}
      BY <1>4, <3>1, <3>2, ReaderLoads
    <3>4. BeforeHead(rx[r]) \in Linked(0) \cup {NULL} \/ OnNewNode(BeforeHead(rx[r]), 0)
      <4>1. OnNewNode(rx[r], rlvl[r]) => OnNewNode(rx[r], 0) /\ rx[r] # Head
        BY <2>5, SkipListAssumption DEF SearchReturn, OnNewNode, Linking, TypeOK
      <4> QED
        BY <1>4, <3>2, <4>1, SkipListAssumption DEF ReaderOK, BeforeHead, Linked
    <3>5. iter'[r] \in Linked(0) \cup {NULL} \/ OnNewNode(iter'[r], 0)
      BY <1>4, <3>1, <3>3, <3>4 DEF TypeOK, ReaderOK
    <3> QED
      BY <1>2, <1>3, <3>2, <3>5 DEF ReaderOK, Guarded, SearchOps, OnNewNode
  <2>6. CASE SearchCrash(r)
    <3>1. op'[r] = "crashed" /\ iter' = iter
      BY <2>6 DEF SearchCrash, TypeOK, resultVars
    <3> QED
      BY <1>2, <1>3, <1>4, <3>1 DEF ReaderOK, Guarded, SearchOps
  <2>7. CASE SeekToFirst(r) \/ IteratorNext(r)
    <3>1. /\ UNCHANGED <<op, rkey, rx, rlvl>> /\ op[r] = "idle"
          /\ iter'[r] \in Linked(0) \cup {NULL}
      <4>1. 0 \in Levels
        BY SkipListAssumption DEF Levels
      <4>2. next[Head][0] \in Linked(0) \cup {NULL}
        BY <4>1, PointsAtLinked
      <4>3. iter[r] # NULL => next[iter[r]][0] \in Linked(0) \cup {NULL}
        BY <1>4, IteratorLoads
      <4> QED
        BY <2>7, <4>2, <4>3 DEF SeekToFirst, IteratorNext, searchVars, TypeOK
    <3>2. LoadLevel(r)' = LoadLevel(r)
      BY <3>1 DEF LoadLevel
    <3> QED
      BY <1>2, <1>3, <1>4, <3>1, <3>2 DEF ReaderOK, Guarded, Before
  <2> QED
    BY <2>2, <2>3, <2>4, <2>5, <2>6, <2>7 DEF SearchStep
<1> QED
  BY <1>5, <1>6 DEF ReadersInv

(***************************************************************************)
(* The theorems                                                            *)
(***************************************************************************)

LEMMA StepIInv == IInv /\ [Next]_vars => IInv'
<1> SUFFICES ASSUME TypeOK, ListInv, ReadersInv, [Next]_vars
             PROVE  IInv'
  BY DEF IInv
<1>1. ListInv'
  BY ListStep
<1>2. CASE (\E k \in Keys : InsertBegin(k)) \/ WriterStep
  <2>1. ReadersInv'
    BY <1>2, ReadersUnderWriter
  <2>2. ASSUME NEW k \in Keys, InsertBegin(k)
        PROVE  TypeOK'
    <3>1. curMaxHeight - 1 \in Levels /\ curMaxHeight - 1 \in -1 .. MaxHeight - 1
      BY SkipListAssumption DEF TypeOK, Levels
    <3>2. prev' \in [Levels -> Nodes \cup {Uninit}]
      BY <2>2 DEF InsertBegin
    <3> QED
      BY <2>2, <3>1, <3>2
      DEF TypeOK, InsertBegin, Nodes, listVars, searchVars, resultVars
  <2>3. TypeOK'
    BY <1>2, <2>2, TypeWriter
  <2> QED
    BY <1>1, <2>1, <2>3 DEF IInv
<1>3. ASSUME NEW r \in Readers,
             \/ BeginSeek(r) \/ BeginContains(r) \/ BeginPrev(r)
             \/ BeginSeekToLast(r) \/ SearchStep(r)
             \/ SeekToFirst(r) \/ IteratorNext(r)
      PROVE  IInv'
  BY <1>1, <1>3, TypeReader, ReadersUnderReader DEF IInv
<1>4. CASE UNCHANGED vars
  <2>1. ReadersInv'
    <3>1. ASSUME NEW r \in Readers PROVE ReaderOK(r)'
      BY <1>4, ReaderStays DEF vars, ReadersInv, ReaderOK
    <3> QED
      BY <3>1 DEF ReadersInv
  <2>2. TypeOK'
    BY <1>4 DEF vars, TypeOK
  <2> QED
    BY <1>1, <2>1, <2>2 DEF IInv
<1> QED
  BY <1>2, <1>3, <1>4 DEF Next

\* The inductive invariant holds, whatever searches run without a lock.
THEOREM Invariance == Spec => []IInv
<1> QED
  BY InitIInv, StepIInv, PTL DEF Spec

\* Every variable keeps its type: no null or unwritten pointer becomes a node.
THEOREM TypeCorrect == Spec => []TypeOK
<1>1. IInv => TypeOK
  BY DEF IInv
<1> QED
  BY <1>1, Invariance, PTL

\* Every level is one chain in key order, and the levels are nested, at every
\* step of every insert and beside any search.
THEOREM ListCorrect == Spec => [](LevelsOrdered /\ TowersNested)
<1>1. IInv => LevelsOrdered /\ TowersNested
  BY DEF IInv, ListInv
<1> QED
  BY <1>1, Invariance, PTL

\* The assertion of insert() holds, and prev[0] is the place of the key.
THEOREM InsertAssertsHold == Spec => []InsertAsserts
<1>1. IInv => InsertAsserts
  <2> SUFFICES ASSUME TypeOK, ListInv, wpc = "raise"
               PROVE  /\ next[prev[0]][0] # wkey
                      /\ IsFirstAfter(next[prev[0]][0], wkey, Linked(0))
    BY DEF IInv, InsertAsserts
  <2>1. 0 \in Levels /\ 0 < curMaxHeight
    BY SkipListAssumption DEF TypeOK, Levels
  <2>2. PrevOK(0) /\ wkey \notin Linked(0) /\ wkey \in Keys
    BY <2>1 DEF ListInv, WriterOK, TypeOK
  <2> DEFINE v == next[prev[0]][0]
  <2>3. v \in Linked(0) \cup {NULL} /\ IsFirstAfter(v, prev[0], Linked(0))
    BY <2>1, <2>2, PointsAtLinked DEF PrevOK, ListInv, LevelsOrdered
  <2>4. Linked(0) \subseteq Int /\ wkey \in Int /\ NULL \notin Keys
        /\ Linked(0) \subseteq Keys /\ Head \notin Keys
    BY <2>2, SkipListAssumption DEF Linked
  <2>5. \A k \in Linked(0) : Before(wkey, k) => Before(prev[0], k)
    BY <2>2, <2>4 DEF PrevOK, Before
  <2> QED
    BY <2>2, <2>3, <2>4, <2>5 DEF PrevOK, IsFirstAfter, Before
<1> QED
  BY <1>1, Invariance, PTL

\* No step takes a node off a level.
THEOREM NodesStay == Spec => NothingUnlinked
<1>1. IInv /\ [Next]_vars => [\A l \in Levels : Linked(l) \subseteq Linked(l)']_vars
  BY WriterAndNodes DEF IInv
<1> QED
  BY <1>1, Invariance, PTL DEF Spec, NothingUnlinked

\* Without any lock, a search meets unwritten pointers nowhere but in the node
\* insert() is linking, below the levels it has linked.
THEOREM UnwrittenOnlyInNewNode == Spec => []OnlyHalfLinkedTowers
<1>1. IInv => OnlyHalfLinkedTowers
  <2> SUFFICES ASSUME TypeOK, ListInv, NEW r \in Readers, ReaderOK(r),
                      op[r] \in SearchOps, next[rx[r]][LoadLevel(r)] = Uninit
               PROVE  Linking /\ rx[r] = wkey /\ rlvl[r] <= wlvl
    BY DEF IInv, ReadersInv, OnlyHalfLinkedTowers
  <2>1. LoadLevel(r) \in Levels
    BY SkipListAssumption DEF LoadLevel, TypeOK, Levels
  <2>2. rx[r] \notin Linked(LoadLevel(r)) \cup {Head}
    BY <2>1, PointsAtLinked, SkipListAssumption DEF Linked
  <2> QED
    BY <2>2 DEF ReaderOK, OnNewNode
<1> QED
  BY <1>1, Invariance, PTL

(***************************************************************************)
(* Clients that lock: only seekToLast and iteration run beside an insert   *)
(***************************************************************************)

\* Clients that keep seek, contains and prev apart from insert
ClientsLock == LockFreeOps \subseteq {"seekToLast"}

\* A locked search runs while no node is half linked.
LEMMA LockedSearch ==
  ASSUME ClientsLock, NEW r \in Readers, ReaderOK(r), op[r] \in SearchOps
  PROVE  rx[r] \in Linked(LoadLevel(r)) \cup {Head}
<1>1. op[r] # "seekToLast" => wpc = "idle"
  BY DEF ClientsLock, ReaderOK, Guarded
<1> QED
  BY <1>1 DEF ReaderOK, OnNewNode, Linking

LEMMA LockedReturn ==
  ASSUME ClientsLock, TypeOK, ListInv, NEW r \in Readers, ReaderOK(r),
         SearchReturn(r)
  PROVE  \E v \in Linked(0) \cup {NULL} :
           /\ v = next[rx[r]][0]
           /\ rx[r] \in Linked(0) \cup {Head}
           /\ SearchStops(r, v)
           /\ iter' = CASE op[r] = "seek" -> [iter EXCEPT ![r] = v]
                        [] op[r] = "contains" -> iter
                        [] OTHER -> [iter EXCEPT ![r] = BeforeHead(rx[r])]
           /\ found' = IF op[r] = "contains"
                       THEN [found EXCEPT ![r] = (v = rkey[r])]
                       ELSE found
<1>1. op[r] \in SearchOps /\ LoadLevel(r) = 0 /\ 0 \in Levels
  BY SkipListAssumption DEF SearchReturn, LoadLevel, Levels
<1>2. rx[r] \in Linked(0) \cup {Head}
  BY <1>1, LockedSearch
<1>3. next[rx[r]][0] \in Linked(0) \cup {NULL}
  BY <1>1, <1>2, PointsAtLinked
<1>4. Loaded(rx[r], 0) = {next[rx[r]][0]}
  BY <1>3, SkipListAssumption DEF Loaded, Linked
<1> QED
  BY <1>2, <1>3, <1>4 DEF SearchReturn

LEMMA StepIterators ==
  ClientsLock /\ IInv /\ IteratorsOnList /\ [Next]_vars => IteratorsOnList'
<1> SUFFICES ASSUME ClientsLock, TypeOK, ListInv, ReadersInv, IteratorsOnList,
                    [Next]_vars, NEW q \in Readers
             PROVE  (iter[q] \in Linked(0) \cup {NULL})'
  BY DEF IInv, IteratorsOnList
<1>1. 0 \in Levels /\ Linked(0) \subseteq Linked(0)'
  BY SkipListAssumption, WriterAndNodes DEF Levels
<1>2. ASSUME NEW r \in Readers, SearchReturn(r)
      PROVE  iter'[q] \in Linked(0) \cup {NULL}
  <2>1. ReaderOK(r)
    BY DEF ReadersInv
  <2>2. BeforeHead(rx[r]) \in Linked(0) \cup {NULL}
    BY <1>2, <2>1, LockedReturn DEF BeforeHead
  <2>3. PICK v \in Linked(0) \cup {NULL} :
          iter' = CASE op[r] = "seek" -> [iter EXCEPT ![r] = v]
                    [] op[r] = "contains" -> iter
                    [] OTHER -> [iter EXCEPT ![r] = BeforeHead(rx[r])]
    BY <1>2, <2>1, LockedReturn
  <2> QED
    BY <2>2, <2>3 DEF TypeOK, IteratorsOnList
<1>3. ASSUME NEW r \in Readers, SeekToFirst(r) \/ IteratorNext(r)
      PROVE  iter'[q] \in Linked(0) \cup {NULL}
  <2>1. next[Head][0] \in Linked(0) \cup {NULL}
    BY <1>1, PointsAtLinked
  <2>2. iter[r] # NULL => next[iter[r]][0] \in Linked(0) \cup {NULL}
    BY IteratorLoads DEF ReadersInv
  <2> QED
    BY <1>3, <2>1, <2>2 DEF SeekToFirst, IteratorNext, TypeOK, IteratorsOnList
<1>4. CASE UNCHANGED iter
  BY <1>1, <1>4 DEF IteratorsOnList
<1> QED
  BY <1>1, <1>2, <1>3, <1>4
  DEF Next, WriterStep, SearchStep, InsertBegin, InsertAdvance, InsertDescend,
      InsertRaise, InsertOwn, InsertPublish, BeginSeek, BeginContains, BeginPrev,
      BeginSeekToLast, Begin, SearchAdvance, SearchDescend, SearchCrash,
      resultVars, vars

\* An iterator stands on a key of the list or is not valid.
THEOREM LockedIterators ==
  ASSUME ClientsLock
  PROVE  Spec => []IteratorsOnList
<1>1. Init => IteratorsOnList
  BY DEF Init, IteratorsOnList
<1>2. IInv /\ IteratorsOnList /\ [Next]_vars => IteratorsOnList'
  BY StepIterators
<1> QED
  BY <1>1, <1>2, Invariance, PTL DEF Spec

\* Nobody follows a pointer that was never written: neither insert(), nor a
\* search, nor an iterator.
THEOREM LockedLoads ==
  ASSUME ClientsLock
  PROVE  Spec => []LoadsInitialised
<1>1. IInv /\ IteratorsOnList => LoadsInitialised
  <2> SUFFICES ASSUME TypeOK, ListInv, ReadersInv, IteratorsOnList
               PROVE  LoadsInitialised
    BY DEF IInv
  <2>1. \A l \in Levels : \A n \in Linked(l) \cup {Head} : next[n][l] # Uninit
    BY PointsAtLinked, SkipListAssumption DEF Linked
  <2>2. wpc = "search" => next[wx][wlvl] # Uninit
    BY <2>1 DEF ListInv, WriterOK, TypeOK
  <2>3. Linking => prev[wlvl] # Uninit /\ next[prev[wlvl]][wlvl] # Uninit
    <3> SUFFICES ASSUME Linking
                 PROVE  prev[wlvl] # Uninit /\ next[prev[wlvl]][wlvl] # Uninit
      OBVIOUS
    <3>1. wlvl \in Levels /\ wlvl <= wlvl
      BY SkipListAssumption DEF Linking, TypeOK, Levels
    <3>2. prev[wlvl] \in Linked(wlvl) \cup {Head}
      BY <3>1 DEF ListInv, WriterOK, PrevOK
    <3> QED
      BY <2>1, <3>1, <3>2, SkipListAssumption DEF Linked
  <2>4. ASSUME NEW r \in Readers
        PROVE  /\ op[r] \in SearchOps => next[rx[r]][LoadLevel(r)] # Uninit
               /\ iter[r] # NULL => next[iter[r]][0] # Uninit
    <3>1. LoadLevel(r) \in Levels /\ 0 \in Levels /\ ReaderOK(r)
      BY SkipListAssumption DEF LoadLevel, TypeOK, Levels, ReadersInv
    <3>2. op[r] \in SearchOps => rx[r] \in Linked(LoadLevel(r)) \cup {Head}
      BY <3>1, LockedSearch
    <3> QED
      BY <2>1, <3>1, <3>2 DEF IteratorsOnList
  <2> QED
    BY <2>2, <2>3, <2>4 DEF LoadsInitialised
<1> QED
  BY <1>1, Invariance, LockedIterators, PTL

(***************************************************************************)
(* The refinement of OrderedSet                                            *)
(***************************************************************************)

LEMMA BottomLevel ==
  /\ 0 \in Levels
  /\ Linked(0) \subseteq Keys /\ Linked(0) \subseteq Int
  /\ NULL \notin Keys /\ Head \notin Keys
<1>1. 0 \in Levels
  BY SkipListAssumption DEF Levels
<1>2. Linked(0) \subseteq Keys
  BY DEF Linked
<1> QED
  BY <1>1, <1>2, SkipListAssumption

\* The load that ends a search finds the set's answer.
LEMMA ReturnRefines ==
  ASSUME ClientsLock, TypeOK, ListInv, NEW r \in Readers, ReaderOK(r),
         SearchReturn(r)
  PROVE  Set!Next
<1>1. 0 \in Levels /\ Linked(0) \subseteq Keys /\ Linked(0) \subseteq Int
      /\ NULL \notin Keys /\ Head \notin Keys
  BY BottomLevel
<1>2. PICK v \in Linked(0) \cup {NULL} :
        /\ v = next[rx[r]][0]
        /\ rx[r] \in Linked(0) \cup {Head}
        /\ SearchStops(r, v)
        /\ iter' = CASE op[r] = "seek" -> [iter EXCEPT ![r] = v]
                     [] op[r] = "contains" -> iter
                     [] OTHER -> [iter EXCEPT ![r] = BeforeHead(rx[r])]
        /\ found' = IF op[r] = "contains"
                    THEN [found EXCEPT ![r] = (v = rkey[r])]
                    ELSE found
  BY LockedReturn
<1>3. UNCHANGED Linked(0) /\ op[r] \in SearchOps
  BY SameNext DEF SearchReturn, listVars
<1>4. IsFirstAfter(v, rx[r], Linked(0))
  BY <1>1, <1>2 DEF ListInv, LevelsOrdered
<1>5. op[r] # "seekToLast" =>
        /\ rkey[r] \in Keys /\ rkey[r] \in Int
        /\ Before(rx[r], rkey[r])
        /\ v # NULL => v >= rkey[r]
  BY <1>2, <1>3, SkipListAssumption DEF TypeOK, ReaderOK, SearchStops, Stops
<1>6. op[r] # "seekToLast" => Set!IsLeast(v, {m \in Linked(0) : rkey[r] <= m})
  BY <1>1, <1>2, <1>4, <1>5 DEF IsFirstAfter, Before, Set!IsLeast
<1>7. op[r] # "seekToLast" =>
        Set!IsGreatest(BeforeHead(rx[r]), {m \in Linked(0) : m < rkey[r]})
  <2> SUFFICES ASSUME op[r] # "seekToLast"
               PROVE  Set!IsGreatest(BeforeHead(rx[r]), {m \in Linked(0) : m < rkey[r]})
    OBVIOUS
  <2>1. ASSUME NEW m \in Linked(0), m < rkey[r]
        PROVE  ~Before(rx[r], m)
    BY <1>1, <1>2, <1>4, <1>5, <2>1 DEF IsFirstAfter
  <2>2. CASE rx[r] = Head
    BY <2>1, <2>2 DEF Before, BeforeHead, Set!IsGreatest
  <2>3. CASE rx[r] \in Linked(0)
    <3>1. rx[r] \in Int /\ rx[r] # Head /\ rx[r] < rkey[r]
      BY <1>1, <1>5, <2>3 DEF Before
    <3>2. \A m \in Linked(0) : m < rkey[r] => m <= rx[r]
      BY <1>1, <2>1, <3>1 DEF Before
    <3> QED
      BY <2>3, <3>1, <3>2 DEF BeforeHead, Set!IsGreatest
  <2> QED
    BY <1>2, <2>2, <2>3
<1>8. CASE op[r] = "seek"
  <2>1. Set!Seek(r, rkey[r])
    BY <1>1, <1>2, <1>3, <1>5, <1>6, <1>8 DEF Set!Seek, Set!MoveTo
  <2> QED
    BY <1>5, <1>8, <2>1 DEF Set!Next
<1>9. CASE op[r] = "contains"
  <2>1. (v = rkey[r]) <=> rkey[r] \in Linked(0)
    <3>1. rkey[r] \in Linked(0) => v # NULL /\ v <= rkey[r]
      BY <1>1, <1>2, <1>5, <1>6, <1>9 DEF Set!IsLeast
    <3>2. v # NULL => v \in Linked(0) /\ v >= rkey[r] /\ v \in Int
      BY <1>1, <1>2, <1>5, <1>9
    <3>3. rkey[r] \in Int /\ rkey[r] # NULL
      BY <1>1, <1>5, <1>9
    <3> QED
      BY <3>1, <3>2, <3>3
  <2>2. iter' = iter /\ found' = [found EXCEPT ![r] = (v = rkey[r])]
    BY <1>2, <1>9
  <2>3. (v = rkey[r]) = (rkey[r] \in Linked(0))
    BY <2>1
  <2>4. Set!Contains(r, rkey[r])
    BY <1>3, <2>2, <2>3 DEF Set!Contains
  <2> QED
    BY <1>5, <1>9, <2>4 DEF Set!Next
<1>10. CASE op[r] = "prev"
  <2>1. rkey[r] = iter[r] /\ iter[r] # NULL
    BY <1>1, <1>5, <1>10 DEF ReaderOK
  <2>2. iter' = [iter EXCEPT ![r] = BeforeHead(rx[r])] /\ found' = found
    BY <1>2, <1>10
  <2>3. BeforeHead(rx[r]) \in Keys \cup {NULL}
    BY <1>1, <1>2 DEF BeforeHead
  <2>4. Set!PrevKey(r)
    BY <1>3, <1>7, <1>10, <2>1, <2>2, <2>3 DEF Set!PrevKey, Set!MoveTo
  <2> QED
    BY <2>4 DEF Set!Next
<1>11. CASE op[r] = "seekToLast"
  <2>1. v = NULL
    BY <1>2, <1>11 DEF SearchStops
  <2>2. Set!IsGreatest(BeforeHead(rx[r]), Linked(0))
    BY <1>1, <1>2, <1>4, <2>1 DEF IsFirstAfter, Before, BeforeHead, Set!IsGreatest
  <2>3. iter' = [iter EXCEPT ![r] = BeforeHead(rx[r])] /\ found' = found
    BY <1>2, <1>11
  <2>4. BeforeHead(rx[r]) \in Keys \cup {NULL}
    BY <1>1, <1>2 DEF BeforeHead
  <2>5. Set!SeekToLast(r)
    BY <1>3, <2>2, <2>3, <2>4 DEF Set!SeekToLast, Set!MoveTo
  <2> QED
    BY <2>5 DEF Set!Next
<1> QED
  BY <1>3, <1>8, <1>9, <1>10, <1>11 DEF SearchOps

LEMMA StepRefines ==
  ClientsLock /\ IInv /\ IteratorsOnList /\ [Next]_vars => [Set!Next]_(Set!vars)
<1> SUFFICES ASSUME ClientsLock, TypeOK, ListInv, ReadersInv, IteratorsOnList,
                    [Next]_vars
             PROVE  Set!Next \/ UNCHANGED <<Linked(0), iter, found>>
  BY DEF IInv, Set!vars
<1>1. 0 \in Levels /\ Linked(0) \subseteq Keys /\ Linked(0) \subseteq Int
      /\ NULL \notin Keys /\ Head \notin Keys
  BY BottomLevel
<1>2. CASE InsertPublish
  <2>1. /\ wkey \in Keys /\ wlvl \in Levels /\ wkey \notin Linked(wlvl)
        /\ Linked(0)' = IF 0 = wlvl THEN Linked(0) \cup {wkey} ELSE Linked(0)
    BY <1>1, <1>2, PublishLinks
  <2>2. UNCHANGED <<iter, found>>
    BY <1>2 DEF InsertPublish, resultVars
  <2>3. CASE wlvl = 0
    <3>1. Set!Insert(wkey)
      <4>1. wkey \notin Linked(0) /\ Linked(0)' = Linked(0) \cup {wkey}
        BY <2>1, <2>3
      <4> QED
        BY <2>2, <4>1 DEF Set!Insert
    <3> QED
      BY <2>1, <3>1 DEF Set!Next
  <2> QED
    BY <2>1, <2>2, <2>3
<1>3. ASSUME NEW r \in Readers, SearchReturn(r)
      PROVE  Set!Next
  BY <1>3, ReturnRefines DEF ReadersInv
<1>4. ASSUME NEW r \in Readers, SeekToFirst(r)
      PROVE  Set!Next
  <2>1. IsFirstAfter(next[Head][0], Head, Linked(0))
        /\ next[Head][0] \in Linked(0) \cup {NULL}
    BY <1>1, PointsAtLinked DEF ListInv, LevelsOrdered
  <2>2. Set!IsLeast(next[Head][0], Linked(0))
    BY <1>1, <2>1 DEF IsFirstAfter, Before, Set!IsLeast
  <2>3. UNCHANGED Linked(0)
    BY <1>4, SameNext DEF SeekToFirst, listVars
  <2>4. Set!SeekToFirst(r)
    BY <1>1, <1>4, <2>1, <2>2, <2>3 DEF SeekToFirst, Set!SeekToFirst, Set!MoveTo
  <2> QED
    BY <2>4 DEF Set!Next
<1>5. ASSUME NEW r \in Readers, IteratorNext(r)
      PROVE  Set!Next
  <2>1. iter[r] \in Linked(0) /\ iter[r] # NULL
    BY <1>5 DEF IteratorNext, IteratorsOnList
  <2> DEFINE v == next[iter[r]][0]
  <2>2. IsFirstAfter(v, iter[r], Linked(0)) /\ v \in Linked(0) \cup {NULL}
    BY <1>1, <2>1, PointsAtLinked DEF ListInv, LevelsOrdered
  <2>3. Set!IsLeast(v, {m \in Linked(0) : iter[r] < m})
    BY <1>1, <2>1, <2>2 DEF IsFirstAfter, Before, Set!IsLeast
  <2>4. UNCHANGED Linked(0)
    BY <1>5, SameNext DEF IteratorNext, listVars
  <2>5. Set!NextKey(r)
    BY <1>1, <1>5, <2>1, <2>2, <2>3, <2>4 DEF IteratorNext, Set!NextKey, Set!MoveTo
  <2> QED
    BY <2>5 DEF Set!Next
<1>6. ASSUME NEW h \in 1 .. MaxHeight, InsertRaise(h)
      PROVE  UNCHANGED <<Linked(0), iter, found>>
  BY <1>1, <1>6, RaiseKeepsLinked DEF InsertRaise, resultVars
<1>7. CASE InsertOwn
  BY <1>1, <1>7, OwnKeepsLinked DEF InsertOwn, resultVars
<1>8. CASE UNCHANGED <<next, iter, found>>
  BY <1>8, SameNext
<1> QED
  BY <1>2, <1>3, <1>4, <1>5, <1>6, <1>7, <1>8
  DEF Next, WriterStep, SearchStep, InsertBegin, InsertAdvance, InsertDescend,
      BeginSeek, BeginContains, BeginPrev, BeginSeekToLast, Begin, SearchAdvance,
      SearchDescend, SearchCrash, listVars, resultVars, vars

\* With locking clients the list is linearizable: every operation takes effect
\* in one step of the abstract set, whatever runs beside it.
THEOREM Refinement ==
  ASSUME ClientsLock
  PROVE  Spec => ImplementsOrderedSet
<1>1. Init => Set!Init
  <2>1. Init => Linked(0) = {}
    BY SkipListAssumption DEF Init, Linked, Nodes, Levels
  <2> QED
    BY <2>1 DEF Init, Set!Init
<1>2. IInv /\ IteratorsOnList /\ [Next]_vars => [Set!Next]_(Set!vars)
  BY StepRefines
<1> QED
  BY <1>1, <1>2, Invariance, LockedIterators, PTL
  DEF Spec, ImplementsOrderedSet, Set!Spec

(***************************************************************************)
(* Clients that do not lock                                                *)
(***************************************************************************)

\* The last load of a search, wherever it stands, skips no linked key.
LEMMA LastLoad ==
  ASSUME TypeOK, ListInv, NEW r \in Readers, ReaderOK(r),
         op[r] \in SearchOps \ {"seekToLast"}, rlvl[r] = 0,
         NEW v \in Loaded(rx[r], 0), v # Wild, v # NULL
  PROVE  /\ v \in Linked(0)
         /\ \A k \in Linked(0) : k >= rkey[r] => v <= k
<1>1. LoadLevel(r) = 0
  BY DEF LoadLevel
<1>2. v \in Linked(0)
  BY <1>1, ReaderLoads
<1>3. v = next[rx[r]][0]
  BY SkipListAssumption DEF Loaded
<1>4. rkey[r] \in Int /\ Before(rx[r], rkey[r])
  BY SkipListAssumption DEF TypeOK, ReaderOK
<1>5. CASE rx[r] \in Linked(0) \cup {Head}
  <2>1. IsFirstAfter(v, rx[r], Linked(0))
    BY <1>3, <1>5, BottomLevel DEF ListInv, LevelsOrdered
  <2>2. \A k \in Linked(0) : k >= rkey[r] => Before(rx[r], k)
    BY <1>4, <1>5, BottomLevel DEF Before
  <2> QED
    BY <1>2, <2>1, <2>2, BottomLevel DEF IsFirstAfter
<1>6. CASE OnNewNode(rx[r], 0)
  <2>1. rx[r] = wkey /\ Linking /\ PrevOK(0) /\ wkey \notin Linked(0) /\ wkey \in Keys
    BY <1>6, BottomLevel DEF OnNewNode, ListInv, WriterOK, TypeOK, Linking
  <2>2. wpc = "publish" /\ wlvl = 0
    BY <1>2, <1>3, <2>1, BottomLevel, SkipListAssumption DEF ListInv, UnlinkedEmpty
  <2>3. v = next[prev[0]][0]
    BY <1>3, <2>1, <2>2 DEF ListInv, WriterOK
  <2>4. IsFirstAfter(v, prev[0], Linked(0))
    BY <2>1, <2>3, BottomLevel DEF PrevOK, ListInv, LevelsOrdered
  <2>5. ASSUME NEW k \in Linked(0), k >= rkey[r]
        PROVE  Before(prev[0], k)
    <3>1. wkey \in Int /\ k \in Int /\ wkey # Head /\ wkey < k
      BY <1>4, <2>1, <2>5, BottomLevel, SkipListAssumption DEF Before
    <3>2. prev[0] = Head \/ (prev[0] \in Int /\ prev[0] < wkey)
      BY <2>1, BottomLevel DEF PrevOK, Before
    <3> QED
      BY <3>1, <3>2 DEF Before
  <2> QED
    BY <1>2, <2>4, <2>5, BottomLevel DEF IsFirstAfter
<1> QED
  BY <1>1, <1>2, <1>5, <1>6 DEF ReaderOK

\* A search beside an insert can miss a key, and never answers with a wrong one.
THEOREM RacingSearches == Spec => SearchesOnlyMiss
<1> DEFINE Body ==
      \A r \in Readers :
        /\ op[r] = "seek" /\ iter'[r] # iter[r] /\ iter'[r] # NULL =>
             /\ iter'[r] \in Linked(0) \cup {wkey}
             /\ iter'[r] >= rkey[r]
             /\ \A k \in Linked(0) : k >= rkey[r] => iter'[r] <= k
        /\ op[r] = "contains" /\ found'[r] /\ ~found[r] =>
             rkey[r] \in Linked(0) \cup {wkey}
<1>1. IInv /\ [Next]_vars => Body
  <2> SUFFICES ASSUME TypeOK, ListInv, ReadersInv, [Next]_vars, NEW r \in Readers
               PROVE  /\ op[r] = "seek" /\ iter'[r] # iter[r] /\ iter'[r] # NULL =>
                           /\ iter'[r] \in Linked(0) \cup {wkey}
                           /\ iter'[r] >= rkey[r]
                           /\ \A k \in Linked(0) : k >= rkey[r] => iter'[r] <= k
                      /\ op[r] = "contains" /\ found'[r] /\ ~found[r] =>
                           rkey[r] \in Linked(0) \cup {wkey}
    BY DEF IInv
  <2>1. CASE SearchReturn(r)
    <3>1. PICK v \in Loaded(rx[r], 0) :
            /\ v # Wild
            /\ SearchStops(r, v)
            /\ iter' = CASE op[r] = "seek" -> [iter EXCEPT ![r] = v]
                         [] op[r] = "contains" -> iter
                         [] OTHER -> [iter EXCEPT ![r] = BeforeHead(rx[r])]
            /\ found' = IF op[r] = "contains"
                        THEN [found EXCEPT ![r] = (v = rkey[r])]
                        ELSE found
      BY <2>1 DEF SearchReturn
    <3>2. ReaderOK(r) /\ rlvl[r] = 0
      BY <2>1 DEF ReadersInv, SearchReturn
    <3>3. op[r] \in SearchOps \ {"seekToLast"} /\ v # NULL =>
            /\ v \in Linked(0)
            /\ \A k \in Linked(0) : k >= rkey[r] => v <= k
      BY <3>1, <3>2, LastLoad
    <3>4. CASE op[r] = "seek"
      <4>1. iter'[r] = v
        BY <3>1, <3>4 DEF TypeOK
      <4> QED
        BY <3>1, <3>3, <3>4, <4>1 DEF SearchOps, SearchStops, Stops
    <3>5. CASE op[r] = "contains"
      <4>1. found'[r] = (v = rkey[r]) /\ rkey[r] \in Keys
        BY <3>1, <3>5 DEF TypeOK, SearchOps
      <4>2. v = rkey[r] => v \in Linked(0)
        BY <3>3, <3>5, <4>1, SkipListAssumption DEF SearchOps
      <4> QED
        BY <3>5, <4>1, <4>2
    <3> QED
      BY <3>4, <3>5
  <2>2. CASE ~SearchReturn(r)
    <3>1. op[r] # "idle" => iter'[r] = iter[r] /\ found'[r] = found[r]
      BY <2>2
      DEF TypeOK, Next, WriterStep, SearchStep, InsertBegin, InsertAdvance,
          InsertDescend, InsertRaise, InsertOwn, InsertPublish, BeginSeek,
          BeginContains, BeginPrev, BeginSeekToLast, Begin, SearchAdvance,
          SearchDescend, SearchReturn, SearchCrash, SeekToFirst, IteratorNext,
          resultVars, vars
    <3> QED
      BY <3>1
  <2> QED
    BY <2>1, <2>2
<1>2. IInv /\ [Next]_vars => [Body]_vars
  BY <1>1
<1> QED
  BY <1>2, Invariance, PTL DEF Spec, SearchesOnlyMiss
=============================================================================
