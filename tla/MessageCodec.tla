----------------------------- MODULE MessageCodec -----------------------------
(***************************************************************************)
(* The wire format of Message.cpp and the MessageBuilder that fills it.    *)
(*                                                                         *)
(* A message is a type and a payload; on the wire it is the byte of the    *)
(* type, the length of the payload in four bytes, and the payload.  A      *)
(* builder appends fields to a buffer and build() moves that buffer into a *)
(* message; the example program builds message after message with one      *)
(* builder.  The reader of a message has no description of its fields: it  *)
(* knows them, and reads each at the offset where the one before has       *)
(* ended.                                                                  *)
(*                                                                         *)
(* A byte is a digit to the base Radix, 256 in the program.                *)
(***************************************************************************)
EXTENDS Naturals, Sequences

CONSTANTS
  Radix,        \* the values of a byte
  Types,        \* Message::Type
  Words,        \* the arguments of addUint32 ...
  LongWords,    \* ... of addUint64 ...
  Strings,      \* ... of addString ...
  Blocks,       \* ... and of addData: sequences of bytes
  MaxPayload,   \* bound: the length of a payload
  MaxMessages   \* bound: the messages one builder builds

Bytes    == 0 .. Radix - 1
TwoTo32  == Radix * (Radix * (Radix * Radix))

Data == 0     \* Message::Type::DATA

ASSUME CodecAssumption ==
  /\ Radix \in Nat /\ Radix >= 2
  /\ Types \subseteq Bytes /\ Data \in Types
  /\ Words \subseteq 0 .. TwoTo32 - 1
  /\ LongWords \subseteq 0 .. TwoTo32 * TwoTo32 - 1
  /\ Strings \subseteq Seq(Bytes) /\ Blocks \subseteq Seq(Bytes)
  /\ MaxPayload \in Nat /\ MaxPayload < TwoTo32
  /\ MaxMessages \in Nat

-----------------------------------------------------------------------------
(* Numbers in bytes, the lowest first.                                     *)

Byte(n)  == n % Radix
Shift(n) == n \div Radix

\* addUint32, and the length in serialize.
WordBytes(n) ==
  <<Byte(n), Byte(Shift(n)), Byte(Shift(Shift(n))), Byte(Shift(Shift(Shift(n))))>>

LongWordBytes(n) == WordBytes(n % TwoTo32) \o WordBytes(n \div TwoTo32)

Word(b1, b2, b3, b4) == b1 + Radix * (b2 + Radix * (b3 + Radix * b4))

\* extractUint32, and the length in deserialize: the four bytes after offset.
WordAt(data, offset) ==
  Word(data[offset + 1], data[offset + 2], data[offset + 3], data[offset + 4])

ExtractUint32(data, offset) ==
  IF offset + 4 > Len(data) THEN 0 ELSE WordAt(data, offset)

ExtractString(data, offset) ==
  LET length == ExtractUint32(data, offset)
      start  == offset + 4
  IN  IF start + length > Len(data) THEN <<>> ELSE SubSeq(data, start + 1, start + length)

-----------------------------------------------------------------------------
(* Messages on the wire.                                                   *)

\* Mutant: the length counts the header too.
SerializeWithHeader(m) ==
  <<m.type>> \o WordBytes((5 + Len(m.payload)) % TwoTo32) \o m.payload

Serialize(m) == <<m.type>> \o WordBytes(Len(m.payload) % TwoTo32) \o m.payload

\* The two exceptions, and a read behind the end of the data.
TooSmall   == [error |-> "Message too small to deserialize"]
Incomplete == [error |-> "Message payload incomplete"]
Undefined  == [error |-> "undefined"]

\* Mutant: the length is not compared with what is there.
DeserializeUnchecked(data) ==
  IF Len(data) < 5 THEN TooSmall
  ELSE LET size == WordAt(data, 1)
       IN  IF 5 + size > Len(data) THEN Undefined
           ELSE [type |-> data[1], payload |-> SubSeq(data, 6, 5 + size)]

\* The sum 5 + size is one of 32-bit numbers.
Deserialize(data) ==
  IF Len(data) < 5 THEN TooSmall
  ELSE LET size == WordAt(data, 1)
       IN  IF Len(data) < (5 + size) % TwoTo32 THEN Incomplete
           ELSE IF 5 + size > Len(data) THEN Undefined
           ELSE [type |-> data[1], payload |-> SubSeq(data, 6, 5 + size)]

-----------------------------------------------------------------------------
(* The builder.                                                            *)

VARIABLES
  type,     \* type_
  buffer,   \* buffer_
  added,    \* the calls of add... since the last build
  built,    \* the messages, ...
  builtBy   \* ... and the calls each was built by

vars == <<type, buffer, added, built, builtBy>>

Message(t, payload) == [type |-> t, payload |-> payload]

Init ==
  /\ type = Data
  /\ buffer = <<>>
  /\ added = <<>>
  /\ built = <<>>
  /\ builtBy = <<>>

SetType(t) ==
  /\ Len(built) < MaxMessages
  /\ type' = t
  /\ UNCHANGED <<buffer, added, built, builtBy>>

Add(kind, value, bytes) ==
  /\ Len(built) < MaxMessages
  /\ Len(buffer) + Len(bytes) <= MaxPayload
  /\ buffer' = buffer \o bytes
  /\ added' = Append(added, [kind |-> kind, value |-> value])
  /\ UNCHANGED <<type, built, builtBy>>

AddUint32(n) == Add("word", n, WordBytes(n))
AddUint64(n) == Add("long", n, LongWordBytes(n))
AddData(block) == Add("data", block, block)

AddString(s) == Add("string", s, WordBytes(Len(s)) \o s)

\* Mutant: build copies the buffer.
BuildCopies ==
  /\ Len(built) < MaxMessages
  /\ built' = Append(built, Message(type, buffer))
  /\ builtBy' = Append(builtBy, added)
  /\ added' = <<>>
  /\ UNCHANGED <<type, buffer>>

\* A vector that has been moved from is empty; type_ stays.
Build ==
  /\ Len(built) < MaxMessages
  /\ built' = Append(built, Message(type, buffer))
  /\ builtBy' = Append(builtBy, added)
  /\ buffer' = <<>>
  /\ added' = <<>>
  /\ UNCHANGED type

Next ==
  \/ \E t \in Types : SetType(t)
  \/ \E n \in Words : AddUint32(n)
  \/ \E n \in LongWords : AddUint64(n)
  \/ \E s \in Strings : AddString(s)
  \/ \E block \in Blocks : AddData(block)
  \/ Build

Spec == Init /\ [][Next]_vars

-----------------------------------------------------------------------------
(* Properties.                                                             *)

TypeOK ==
  /\ type \in Types
  /\ buffer \in Seq(Bytes) /\ Len(buffer) <= MaxPayload
  /\ built \in Seq([type: Types, payload: Seq(Bytes)]) /\ Len(built) <= MaxMessages
  /\ \A i \in 1 .. Len(built) : Len(built[i].payload) <= MaxPayload

\* (Message.cpp:13-52)  What deserialize makes of a serialized message is that
\* message, up to the longest payload whose length fits into its four bytes,
\* although 5 + size then no longer does.
RoundTrip ==
  \A i \in 1 .. Len(built) :
    Deserialize(Serialize(built[i])) = built[i]

\* (Message.cpp:33-52)  A part of a serialized message that has lost its end is
\* refused, and not read past its end, as long as 5 + size fits into 32 bits.
CutIsRefused ==
  \A i \in 1 .. Len(built) :
    LET m    == built[i]
        data == Serialize(m)
    IN  5 + Len(m.payload) < TwoTo32 =>
          \A n \in 0 .. Len(data) - 1 :
            Deserialize(SubSeq(data, 1, n)) \in {TooSmall, Incomplete}

Width(field) ==
  CASE field.kind = "word"   -> 4
    [] field.kind = "long"   -> 8
    [] field.kind = "string" -> 4 + Len(field.value)
    [] field.kind = "data"   -> Len(field.value)

ReadField(field, data, offset) ==
  CASE field.kind = "word"   -> ExtractUint32(data, offset)
    [] field.kind = "long"   -> WordAt(data, offset) + TwoTo32 * WordAt(data, offset + 4)
    [] field.kind = "string" -> ExtractString(data, offset)
    [] field.kind = "data"   -> SubSeq(data, offset + 1, offset + Len(field.value))

\* Where each field starts, and where the last one ends.
Offsets(fields) ==
  LET offset[k \in 0 .. Len(fields)] ==
        IF k = 0 THEN 0 ELSE offset[k - 1] + Width(fields[k])
  IN  offset

\* (Message.cpp:61-92)  A reader that knows the fields of a message, whatever
\* mixture they are and however many messages the builder has built before,
\* reads what was added and comes out at the end of the payload.
FieldsReadBack ==
  \A i \in 1 .. Len(built) :
    LET fields == builtBy[i]
        data   == built[i].payload
        offset == Offsets(fields)
    IN  /\ offset[Len(fields)] = Len(data)
        /\ \A k \in 1 .. Len(fields) :
             ReadField(fields[k], data, offset[k - 1]) = fields[k].value
=============================================================================
