------------------------------- MODULE Coding -------------------------------
(***************************************************************************)
(* The strings of src/coding.cpp and the keys of src/dbformat.cpp that are *)
(* made with it: a client puts numbers of fixed and variable length,       *)
(* slices with a length, and internal keys with theirs into a string, and  *)
(* another gets them back, with the matching functions, from the first     *)
(* bytes of that string: all of it, or a part that ends anywhere.          *)
(***************************************************************************)
EXTENDS Varint

CONSTANTS
  Numbers,    \* the numbers that clients put
  Slices,     \* the slices that clients put, and their user keys
  CodedSequenceNumbers,
  MaxItems    \* bound: items put into one string

ASSUME CodingAssumption ==
  /\ Numbers \subseteq 0 .. Max64 - 1
  /\ Slices \subseteq Seq(CodedByte)
  \* The code cuts a length to 32 bits: no slice has 4 GB.
  /\ \A d \in Slices : Len(d) + 8 < Max32
  /\ CodedSequenceNumbers \subseteq 0 .. Power(2 * Base, 7) - 1
  /\ MaxItems \in Nat

VARIABLES
  dst,    \* the string
  items,  \* what was put into it: kind, value, and the length of dst after it
  cut,    \* how many bytes of dst the getter was given, or -1
  input,  \* its Slice: what it has not got yet
  got,    \* the values it got
  failed  \* a get returned false

codingVars == <<dst, items, cut, input, got, failed>>

-----------------------------------------------------------------------------
(* Internal keys *)

ValueTypes == {0, 1}  \* kTypeDeletion and kTypeValue

\* packSequenceAndType: (seq << 8) | t
packSequenceAndType(seq, type) == seq * (2 * Base) + type

\* appendInternalKey
appendInternalKey(k) == k.user_key \o encodeFixed(packSequenceAndType(k.sequence, k.type), 8)

\* LookupKey::LookupKey, what memtable_key() returns of it
LookupKey(user_key, seq) ==
  encodeVarint32(Len(user_key) + 8) \o user_key \o encodeFixed(packSequenceAndType(seq, 1), 8)

\* encodeKey of memtable.cpp, which makes the same of an internal key
encodeKey(target) == encodeVarint32(Len(target)) \o target

\* parseInternalKey returns true
Parses(k) ==
  Len(k) >= 8 /\ decodeFixed(SubSeq(k, Len(k) - 7, Len(k)), 8) % (2 * Base) <= 1

parseInternalKey(k) ==
  LET num == decodeFixed(SubSeq(k, Len(k) - 7, Len(k)), 8)
  IN  [user_key |-> SubSeq(k, 1, Len(k) - 8),
       sequence |-> num \div (2 * Base),
       type |-> num % (2 * Base)]

-----------------------------------------------------------------------------
(* The clients *)

CodingInit ==
  /\ dst = <<>> /\ items = <<>>
  /\ cut = -1 /\ input = <<>>
  /\ got = <<>> /\ failed = FALSE

Put(kind, value, bytes) ==
  /\ cut = -1 /\ Len(items) < MaxItems
  /\ dst' = dst \o bytes
  /\ items' = Append(items, [kind |-> kind, value |-> value, end |-> Len(dst')])
  /\ UNCHANGED <<cut, input, got, failed>>

putVarint32(v) == v < Max32 /\ Put("32", v, encodeVarint32(v))

putVarint64(v) == Put("64", v, encodeVarint64(v))

putFixed32(v) == v < Max32 /\ Put("fixed32", v, encodeFixed(v, 4))

putFixed64(v) == Put("fixed64", v, encodeFixed(v, 8))

putLengthPrefixedSlice(d) == Put("slice", d, encodeVarint32(Len(d)) \o d)

ParsedInternalKey(user_key, seq, type) ==
  [user_key |-> user_key, sequence |-> seq, type |-> type]

putLookupKey(user_key, seq) ==
  Put("key", ParsedInternalKey(user_key, seq, 1), LookupKey(user_key, seq))

putKey(k) == Put("key", k, encodeKey(appendInternalKey(k)))

\* The getter gets the first n bytes.
Hand(n) ==
  /\ cut = -1 /\ items # <<>>
  /\ cut' = n /\ input' = SubSeq(dst, 1, n)
  /\ UNCHANGED <<dst, items, got, failed>>

\* The next item to get is of this kind.
Expects(kind) ==
  /\ cut # -1 /\ ~failed /\ Len(got) < Len(items)
  /\ items[Len(got) + 1].kind = kind

Drop(s, n) == SubSeq(s, n + 1, Len(s))

Get(kind, r) ==
  /\ Expects(kind)
  /\ IF r.used = 0
     THEN failed' = TRUE /\ UNCHANGED <<input, got>>
     ELSE /\ input' = Drop(input, r.used)
          /\ got' = Append(got, r.value)
          /\ UNCHANGED failed
  /\ UNCHANGED <<dst, items, cut>>

getVarint32 == Get("32", getVarint32Ptr(input))

getVarint64 == Get("64", getVarint64Ptr(input))

\* decodeFixed32 and decodeFixed64 test no limit: it is the client who does.
getFixed(kind, n) ==
  Get(kind, IF Len(input) < n THEN [value |-> 0, used |-> 0]
                  ELSE [value |-> decodeFixed(input, n), used |-> n])

\* The client of an internal key takes the slice apart.
Accepts(kind, slice) == kind = "key" => Parses(slice)
Result(kind, slice) == IF kind = "key" THEN parseInternalKey(slice) ELSE slice

\* A failure may have taken the length from the input.
getLengthPrefixedSlice(kind) ==
  /\ Expects(kind)
  /\ LET r == getVarint32Ptr(input)
         rest == Drop(input, r.used)
         there == r.used # 0 /\ Len(rest) >= r.value
         slice == SubSeq(rest, 1, r.value)
     IN  /\ input' = IF there THEN Drop(rest, r.value) ELSE rest
         /\ IF there /\ Accepts(kind, slice)
            THEN got' = Append(got, Result(kind, slice)) /\ UNCHANGED failed
            ELSE failed' = TRUE /\ UNCHANGED got
  /\ UNCHANGED <<dst, items, cut>>

CodingNext ==
  \/ \E v \in Numbers : putVarint32(v) \/ putVarint64(v) \/ putFixed32(v) \/ putFixed64(v)
  \/ \E d \in Slices : putLengthPrefixedSlice(d)
  \/ \E d \in Slices, seq \in CodedSequenceNumbers :
       \/ putLookupKey(d, seq)
       \/ \E type \in ValueTypes : putKey(ParsedInternalKey(d, seq, type))
  \/ \E n \in 0 .. Len(dst) : Hand(n)
  \/ getVarint32 \/ getVarint64
  \/ \E kind \in {"slice", "key"} : getLengthPrefixedSlice(kind)
  \/ getFixed("fixed32", 4) \/ getFixed("fixed64", 8)

CodingSpec == CodingInit /\ [][CodingNext]_codingVars

-----------------------------------------------------------------------------
(* Properties *)

\* The end of the first n items in dst
End(n) == IF n = 0 THEN 0 ELSE items[n].end

\* The getter finds what the putter put, item by item, whatever comes before and
\* after it and wherever the bytes end (coding.cpp, put... and get...).
GotIsSent == \A i \in DOMAIN got : got[i] = items[i].value

\* A get fails if and only if its item is not there completely, and a get that
\* succeeds leaves the input at the start of the next item: getVarint32Ptr and
\* the others never look beyond limit and never give up before it.
OnlyCutItemsFail ==
  cut # -1 => IF failed THEN cut < End(Len(got) + 1)
                        ELSE Len(input) = cut - End(Len(got))

\* What encodeVarint32 and encodeVarint64 write is as long as varintLength says,
\* and fits into the buffers of putVarint32 and putVarint64 (5 and 10 bytes); a
\* LookupKey fits into the "at most: 5 + usize + 8" bytes of dbformat.cpp:97, and
\* has the length of the same key that encodeKey made.
LengthsAgree ==
  \A i \in DOMAIN items :
    LET size == End(i) - End(i - 1)
        v == items[i].value
    IN  CASE items[i].kind = "32" -> size = varintLength(v) /\ size <= 5
          [] items[i].kind = "64" -> size = varintLength(v) /\ size <= 10
          [] items[i].kind = "fixed32" -> size = 4
          [] items[i].kind = "fixed64" -> size = 8
          [] items[i].kind = "slice" -> size = varintLength(Len(v)) + Len(v)
          [] items[i].kind = "key" ->
               LET usize == Len(v.user_key)
               IN  size = varintLength(usize + 8) + usize + 8 /\ size <= usize + 13
=============================================================================
