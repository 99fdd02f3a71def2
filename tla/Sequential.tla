----------------------------- MODULE Sequential ------------------------------
(***************************************************************************)
(* The components that one thread at a time uses, side by side, for one    *)
(* run: a behaviour is that of a client of one of them, and the others     *)
(* rest.  Constants for the run of all of them.                            *)
(***************************************************************************)
EXTENDS Coding, InternalKeys, Arena, Iterators, Statuses, Random, Logger, Decimal

VARIABLE client  \* the component that the client uses

\* Both sides of every length of a number
Boundaries ==
  {0, Max32 - 1, Max64 - 1} \cup {Base ^ k : k \in {1, 2, 3, 4, 5, 9}}
    \cup {Base ^ k - 1 : k \in {1, 2, 3, 4, 5, 9}}

\* Slices whose length takes one and two bytes (three with a tag), and whose bytes
\* look like numbers
SomeSlices == {<<>>, <<0>>, <<5, 6, 7>>, <<7, 0, 4, 1, 3>>,
               <<1, 1, 1, 1, 1, 1, 1, 2>>}

\* The ends of the range
SomeSequenceNumbers == {0, (2 * Base) ^ 7 - 1}

\* Every user key of up to two bytes
ShortKeys == UNION {[1 .. n -> Byte] : n \in 0 .. 2}

\* Every uint32_t
SomeSeeds == 0 .. 2 * Half - 1

\* Messages that end on both sides of the end of each buffer, with and without a
\* newline at their end and at the place where the large one cuts them
SomeMessages ==
  UNION {[length : {n}, newlines : SUBSET ({n, Big - Header - 1} \cap 1 .. n)] :
           n \in {0, Small - Header - 1, Small - Header, Big - Header - 1, Big - Header}}

\* Every string of up to four characters
ShortSlices == UNION {[1 .. n -> Characters] : n \in 0 .. 4}

-----------------------------------------------------------------------------

SequentialInit ==
  /\ client \in {"coding", "keys", "arena", "iterators", "statuses", "random", "logger",
                 "decimal"}
  /\ CodingInit /\ ArenaInit /\ IteratorsInit /\ StatusesInit /\ LoggerInit
  /\ IF client = "keys" THEN Init ELSE key = Seek(<<>>) /\ limit = Seek(<<>>)
  /\ IF client = "random" THEN RandomInit
     ELSE seed = 0 /\ seeded = 0 /\ height = 1 /\ drawing = FALSE
  /\ IF client = "decimal" THEN DecimalInit
     ELSE in = <<>> /\ val = 0 /\ begin = <<>> /\ ok = TRUE

SequentialNext ==
  /\ UNCHANGED client
  /\ \/ /\ client = "coding" /\ CodingNext
        /\ UNCHANGED <<vars, arenaVars, iteratorVars, statusVars, randomVars, loggerVars,
                       decimalVars>>
     \/ /\ client = "keys" /\ Next
        /\ UNCHANGED <<codingVars, arenaVars, iteratorVars, statusVars, randomVars,
                       loggerVars, decimalVars>>
     \/ /\ client = "arena" /\ ArenaNext
        /\ UNCHANGED <<codingVars, vars, iteratorVars, statusVars, randomVars,
                       loggerVars, decimalVars>>
     \/ /\ client = "iterators" /\ IteratorsNext
        /\ UNCHANGED <<codingVars, vars, arenaVars, statusVars, randomVars, loggerVars,
                       decimalVars>>
     \/ /\ client = "statuses" /\ StatusesNext
        /\ UNCHANGED <<codingVars, vars, arenaVars, iteratorVars, randomVars, loggerVars,
                       decimalVars>>
     \/ /\ client = "random" /\ RandomNext
        /\ UNCHANGED <<codingVars, vars, arenaVars, iteratorVars, statusVars, loggerVars,
                       decimalVars>>
     \/ /\ client = "logger" /\ LoggerNext
        /\ UNCHANGED <<codingVars, vars, arenaVars, iteratorVars, statusVars, randomVars,
                       decimalVars>>
     \/ /\ client = "decimal" /\ DecimalNext
        /\ UNCHANGED <<codingVars, vars, arenaVars, iteratorVars, statusVars, randomVars,
                       loggerVars>>

SequentialSpec ==
  SequentialInit /\ [][SequentialNext]_<<client, codingVars, vars, arenaVars, iteratorVars,
                                         statusVars, randomVars, loggerVars, decimalVars>>
=============================================================================
