------------------------------ MODULE Statuses ------------------------------
(***************************************************************************)
(* The text of a Status (src/status.h, src/status.cpp): a Status that is   *)
(* not OK owns an array from the heap with its code and message, and every *)
(* copy has one of its own.  The objects are a client's, or the status_ of *)
(* an EmptyIterator (src/iterator.cpp), which is made as a copy and copied *)
(* by status().                                                            *)
(*                                                                         *)
(* External: any new may throw; arrays that were deleted are given out     *)
(* again; a client does not touch a Status whose assignment threw, and     *)
(* cannot: its destructor would delete the array once more.                *)
(***************************************************************************)
EXTENDS Naturals

CONSTANTS
  Objects,   \* the variables and members of type Status
  Arrays,    \* the arrays of the heap
  Texts,     \* what arrays hold: a code and a message
  FREE,      \* what a free array holds
  NoText,    \* state_ of a Status that is OK
  NoObject   \* a Status that does not exist

ASSUME StatusesAssumption ==
  /\ FREE \notin Texts /\ {NoText, NoObject} \cap (Arrays \cup Texts) = {}
  /\ NoText # NoObject

VARIABLES
  state,    \* state[o]: state_, or NoObject
  heap,     \* heap[a]: what the array holds
  meaning,  \* history, meaning[o]: what the client put into o
  thrown    \* the objects whose assignment threw

statusVars == <<state, heap, meaning, thrown>>

StatusesInit ==
  /\ state = [o \in Objects |-> NoObject]
  /\ heap = [a \in Arrays |-> FREE]
  /\ meaning = [o \in Objects |-> NoObject]
  /\ thrown = {}

-----------------------------------------------------------------------------

Exists(o) == state[o] # NoObject /\ o \notin thrown

\* state_ becomes a new array with the text, in the heap h; or NoText for an OK.
Fill(o, text, h) ==
  IF text = NoText
  THEN state' = [state EXCEPT ![o] = NoText] /\ heap' = h
  ELSE \E a \in Arrays :
         /\ h[a] = FREE
         /\ state' = [state EXCEPT ![o] = a] /\ heap' = [h EXCEPT ![a] = text]

\* What copyState() reads, NoText for an OK
Text(o) == IF state[o] = NoText THEN NoText ELSE heap[state[o]]

\* The heap after delete[] state_
Deleted(o) == IF state[o] = NoText THEN heap ELSE [heap EXCEPT ![state[o]] = FREE]

\* Status(), Status::OK() and the constructor with a code; if new throws there,
\* there is no object.
Construct(o, text) ==
  /\ state[o] = NoObject
  /\ Fill(o, text, heap)
  /\ meaning' = [meaning EXCEPT ![o] = text]
  /\ UNCHANGED thrown

\* CopyConstruct as it must not be: state_ is copied.
CopyConstructShallow(o, s) ==
  /\ state[o] = NoObject /\ Exists(s)
  /\ state' = [state EXCEPT ![o] = state[s]]
  /\ meaning' = [meaning EXCEPT ![o] = meaning[s]]
  /\ UNCHANGED <<heap, thrown>>

\* Status(const Status&)
CopyConstruct(o, s) ==
  /\ state[o] = NoObject /\ Exists(s)
  /\ Fill(o, Text(s), heap)
  /\ meaning' = [meaning EXCEPT ![o] = meaning[s]]
  /\ UNCHANGED thrown

\* operator=, which does nothing for o = o
AssignSelf(o) == Exists(o) /\ UNCHANGED statusVars

Assign(o, s) ==
  /\ Exists(o) /\ Exists(s) /\ o # s
  /\ Fill(o, Text(s), Deleted(o))
  /\ meaning' = [meaning EXCEPT ![o] = meaning[s]]
  /\ UNCHANGED thrown

\* copyState() throws: the old array, if there is one, is deleted already, and
\* state_ points to it.
AssignThrows(o, s) ==
  /\ Exists(o) /\ Exists(s) /\ o # s /\ Text(s) # NoText
  /\ heap' = Deleted(o)
  /\ thrown' = IF state[o] = NoText THEN thrown ELSE thrown \cup {o}
  /\ UNCHANGED <<state, meaning>>

\* ~Status()
Destroy(o) ==
  /\ Exists(o)
  /\ heap' = Deleted(o)
  /\ state' = [state EXCEPT ![o] = NoObject]
  /\ meaning' = [meaning EXCEPT ![o] = NoObject]
  /\ UNCHANGED thrown

StatusesNext ==
  \/ \E o \in Objects, text \in Texts \cup {NoText} : Construct(o, text)
  \/ \E o \in Objects : AssignSelf(o) \/ Destroy(o)
  \/ \E o, s \in Objects : CopyConstruct(o, s) \/ Assign(o, s) \/ AssignThrows(o, s)

StatusesSpec == StatusesInit /\ [][StatusesNext]_statusVars

-----------------------------------------------------------------------------
(* Properties *)

\* A Status says what its client put into it, whatever happens to those it was
\* copied from or to; no two share an array and no array is lost (status.h:63-75);
\* only one whose assignment threw points to an array it does not own.
TextsOwned ==
  LET Live == {o \in Objects : Exists(o)}
  IN  /\ \A o \in Live : Text(o) = meaning[o]
      /\ \A o, s \in Live : o # s /\ state[o] \in Arrays => state[o] # state[s]
      /\ {a \in Arrays : heap[a] # FREE} = {state[o] : o \in Live} \cap Arrays
=============================================================================
