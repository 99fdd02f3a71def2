------------------------------ MODULE MemTable ------------------------------
(***************************************************************************)
(* MemTable::add of src/memtable.cpp: the layout of an entry.  A caller    *)
(* adds keys and values of any sizes; what counts here is where each part  *)
(* of an entry ends, and how many bytes the arena was asked for.  The rest *)
(* of the table is a skip list over the entries.                           *)
(***************************************************************************)
EXTENDS Varint

CONSTANTS
  KeySizes,    \* the sizes of user keys
  ValueSizes,  \* the sizes of values
  MaxEntries   \* bound: the entries of a table

VARIABLE entries  \* the entries: the bytes allocated, and the end of the last part

-----------------------------------------------------------------------------

Init == entries = <<>>

\* The computation of encoded_len
EncodedLength(key_size, val_size) ==
  LET internal_key_size == val_size + 8
  IN  varintLength(internal_key_size) + internal_key_size
        + varintLength(val_size) + val_size

\* p - buf at the end: encoded_len as a number, the key, the tag, the value's
\* size as a number, the value.
Written(key_size, val_size) ==
  Groups32(EncodedLength(key_size, val_size)) + key_size + 8
    + Groups32(val_size) + val_size

add(key_size, val_size) ==
  /\ Len(entries) < MaxEntries
  /\ entries' = Append(entries, [allocated |-> EncodedLength(key_size, val_size),
                                 written |-> Written(key_size, val_size)])

Next == \E k \in KeySizes, v \in ValueSizes : add(k, v)

Spec == Init /\ [][Next]_entries

-----------------------------------------------------------------------------
(* Properties *)

\* An entry fills the bytes that the arena was asked for, neither fewer nor more
\* (the assertion of memtable.cpp:89).
EntriesFill == \A i \in DOMAIN entries : entries[i].allocated = entries[i].written
=============================================================================
