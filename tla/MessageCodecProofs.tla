-------------------------- MODULE MessageCodecProofs --------------------------
(***************************************************************************)
(* Proofs about MessageCodec, for every base of the bytes, every set of    *)
(* fields and payloads of every length that fits into four bytes: numbers  *)
(* in digits, the layout of a serialized message, and of fields in a       *)
(* buffer, where each field stands behind the one before.                  *)
(***************************************************************************)
EXTENDS MessageCodec, SequenceTheorems, WellFoundedInduction, TLAPS

-----------------------------------------------------------------------------
(* Quotients and remainders.                                               *)

LEMMA DivMod ==
  ASSUME NEW b \in Nat \ {0}, NEW n \in Nat
  PROVE  n = (n % b) + b * (n \div b) /\ n % b \in 0 .. b - 1 /\ n \div b \in Nat
OBVIOUS

LEMMA DivLess ==
  ASSUME NEW b \in Nat \ {0}, NEW n \in Nat, NEW k \in Nat, n < b * k
  PROVE  n \div b < k
<1>1. n = (n % b) + b * (n \div b) /\ n % b \in 0 .. b - 1 /\ n \div b \in Nat
  BY DivMod
<1> PICK q \in Nat, r \in 0 .. b - 1 : q = n \div b /\ n = r + b * q
  BY <1>1
<1>2. ASSUME q >= k PROVE FALSE
  <2>1. PICK d \in Nat : q = k + d
    <3>1. q - k \in Nat /\ q = k + (q - k)
      BY <1>2
    <3> QED BY <3>1
  <2>2. b * q = b * k + b * d
    BY <2>1
  <2>3. b * d \in Nat /\ b * k \in Nat
    OBVIOUS
  <2> QED BY <2>2, <2>3
<1> QED BY <1>2

LEMMA ModLess ==
  ASSUME NEW r \in Nat \ {0}, NEW n \in Nat
  PROVE  n % r \in Nat /\ n % r <= n /\ n % r < r /\ (n < r => n % r = n)
OBVIOUS

-----------------------------------------------------------------------------
(* Numbers in bytes.                                                       *)

LEMMA RadixFacts ==
  /\ Radix \in Nat \ {0}
  /\ TwoTo32 \in Nat \ {0}
  /\ Radix * (Radix * Radix) \in Nat /\ Radix * Radix \in Nat
<1>1. Radix \in Nat /\ Radix >= 2
  BY CodecAssumption
<1>2. ASSUME NEW k \in Nat \ {0} PROVE Radix * k \in Nat \ {0}
  BY <1>1
<1>3. Radix * Radix \in Nat \ {0}
  BY <1>1, <1>2
<1>4. Radix * (Radix * Radix) \in Nat \ {0}
  BY <1>2, <1>3
<1>5. Radix * (Radix * (Radix * Radix)) \in Nat \ {0}
  BY <1>2, <1>4
<1> QED BY <1>1, <1>3, <1>4, <1>5 DEF TwoTo32

\* A byte taken off a number, and what is left.
LEMMA ByteShift ==
  ASSUME NEW n \in Nat
  PROVE  Byte(n) \in Bytes /\ Shift(n) \in Nat /\ n = Byte(n) + Radix * Shift(n)
BY RadixFacts, DivMod DEF Byte, Shift, Bytes

LEMMA WordBytesType ==
  ASSUME NEW n \in Nat
  PROVE  WordBytes(n) \in Seq(Bytes) /\ Len(WordBytes(n)) = 4
<1>1. Shift(n) \in Nat /\ Shift(Shift(n)) \in Nat /\ Shift(Shift(Shift(n))) \in Nat
  BY ByteShift
<1>2. /\ Byte(n) \in Bytes /\ Byte(Shift(n)) \in Bytes
      /\ Byte(Shift(Shift(n))) \in Bytes /\ Byte(Shift(Shift(Shift(n)))) \in Bytes
  BY <1>1, ByteShift
<1> QED BY <1>2 DEF WordBytes

LEMMA LongWordBytesType ==
  ASSUME NEW n \in Nat
  PROVE  LongWordBytes(n) \in Seq(Bytes)
<1>1. n % TwoTo32 \in Nat /\ n \div TwoTo32 \in Nat
  BY RadixFacts, DivMod
<1> QED BY <1>1, WordBytesType DEF LongWordBytes

\* Four bytes hold every number below 2^32.
LEMMA WordInverse ==
  ASSUME NEW n \in Nat, n < TwoTo32
  PROVE  Word(Byte(n), Byte(Shift(n)), Byte(Shift(Shift(n))), Byte(Shift(Shift(Shift(n))))) = n
<1>1. PICK n1 \in Nat : n1 = Shift(n) /\ n = Byte(n) + Radix * n1
  BY ByteShift
<1>2. PICK n2 \in Nat : n2 = Shift(n1) /\ n1 = Byte(n1) + Radix * n2
  BY ByteShift
<1>3. PICK n3 \in Nat : n3 = Shift(n2) /\ n2 = Byte(n2) + Radix * n3
  BY ByteShift
<1>4. n1 < Radix * (Radix * Radix)
  BY <1>1, RadixFacts, DivLess DEF Shift, TwoTo32
<1>5. n2 < Radix * Radix
  BY <1>2, <1>4, RadixFacts, DivLess DEF Shift
<1>6. n3 < Radix
  BY <1>3, <1>5, RadixFacts, DivLess DEF Shift
<1>7. Byte(n3) = n3
  BY <1>6, RadixFacts, ModLess DEF Byte
<1>8. Word(Byte(n), Byte(n1), Byte(n2), Byte(n3)) = n
  <2>1. Byte(n2) + Radix * Byte(n3) = n2
    BY <1>3, <1>7
  <2>2. Byte(n1) + Radix * (Byte(n2) + Radix * Byte(n3)) = n1
    BY <1>2, <2>1
  <2> QED BY <1>1, <2>2 DEF Word
<1> QED BY <1>1, <1>2, <1>3, <1>8

\* The bytes of a number, read as a number.
LEMMA WordRead ==
  ASSUME NEW n \in Nat, n < TwoTo32
  PROVE  Word(WordBytes(n)[1], WordBytes(n)[2], WordBytes(n)[3], WordBytes(n)[4]) = n
<1>1. \A a, b, c, d : <<a, b, c, d>>[1] = a /\ <<a, b, c, d>>[2] = b
                     /\ <<a, b, c, d>>[3] = c /\ <<a, b, c, d>>[4] = d
  OBVIOUS
<1>2. /\ WordBytes(n)[1] = Byte(n) /\ WordBytes(n)[2] = Byte(Shift(n))
      /\ WordBytes(n)[3] = Byte(Shift(Shift(n)))
      /\ WordBytes(n)[4] = Byte(Shift(Shift(Shift(n))))
  BY <1>1 DEF WordBytes
<1> QED BY <1>2, WordInverse

-----------------------------------------------------------------------------
(* The layout of a serialized message.                                     *)

Fits(m) ==
  m.payload \in Seq(Bytes) /\ Len(m.payload) < TwoTo32
    /\ m = [type |-> m.type, payload |-> m.payload]

LEMMA Header ==
  ASSUME NEW s \in Seq(Bytes), NEW w \in Seq(Bytes), Len(s) = 1, Len(w) = 4
  PROVE  /\ s \o w \in Seq(Bytes) /\ Len(s \o w) = 5 /\ (s \o w)[1] = s[1]
         /\ (s \o w)[2] = w[1] /\ (s \o w)[3] = w[2] /\ (s \o w)[4] = w[3]
         /\ (s \o w)[5] = w[4]
<1>1. /\ s \o w \in Seq(Bytes) /\ Len(s \o w) = Len(s) + Len(w)
      /\ \A i \in 1 .. Len(s) + Len(w) :
           (s \o w)[i] = IF i <= Len(s) THEN s[i] ELSE w[i - Len(s)]
  BY ConcatProperties
<1>2. /\ Len(s \o w) = 1 + 4
      /\ \A i \in 1 .. 1 + 4 : (s \o w)[i] = IF i <= 1 THEN s[i] ELSE w[i - 1]
  BY <1>1
<1> QED BY <1>1, <1>2

LEMMA Behind ==
  ASSUME NEW head \in Seq(Bytes), NEW payload \in Seq(Bytes), Len(head) = 5
  PROVE  /\ head \o payload \in Seq(Bytes)
         /\ Len(head \o payload) = 5 + Len(payload)
         /\ \A k \in 1 .. 5 : (head \o payload)[k] = head[k]
         /\ \A k \in 1 .. Len(payload) : (head \o payload)[5 + k] = payload[k]
<1> PICK size \in Nat : size = Len(payload)
  OBVIOUS
<1>0. /\ head \o payload \in Seq(Bytes) /\ Len(head \o payload) = Len(head) + Len(payload)
      /\ \A i \in 1 .. Len(head) + Len(payload) :
           (head \o payload)[i] = IF i <= Len(head) THEN head[i] ELSE payload[i - Len(head)]
  BY ConcatProperties
<1>1. /\ head \o payload \in Seq(Bytes) /\ Len(head \o payload) = 5 + size
      /\ \A i \in 1 .. 5 + size :
           (head \o payload)[i] = IF i <= 5 THEN head[i] ELSE payload[i - 5]
  BY <1>0
<1>2. ASSUME NEW k \in 1 .. 5 PROVE (head \o payload)[k] = head[k]
  BY <1>1
<1>3. ASSUME NEW k \in 1 .. size PROVE (head \o payload)[5 + k] = payload[k]
  <2>1. 5 + k \in 1 .. 5 + size /\ ~(5 + k <= 5) /\ (5 + k) - 5 = k
    OBVIOUS
  <2> QED BY <1>1, <2>1
<1> QED BY <1>1, <1>2, <1>3

\* Five bytes, the last four with the length, and the payload.
LEMMA Layout ==
  ASSUME NEW m, Fits(m), m.type \in Bytes
  PROVE  /\ Serialize(m) \in Seq(Bytes)
         /\ Len(Serialize(m)) = 5 + Len(m.payload)
         /\ Serialize(m)[1] = m.type
         /\ WordAt(Serialize(m), 1) = Len(m.payload)
         /\ \A k \in 1 .. Len(m.payload) : Serialize(m)[5 + k] = m.payload[k]
<1> PICK size \in Nat, payload \in Seq(Bytes) : size = Len(m.payload) /\ payload = m.payload
  BY DEF Fits
<1>1. size % TwoTo32 = size /\ size < TwoTo32
  BY RadixFacts, ModLess DEF Fits
<1> DEFINE head == <<m.type>> \o WordBytes(size)
<1>2. WordBytes(size) \in Seq(Bytes) /\ Len(WordBytes(size)) = 4
  BY WordBytesType
<1>4. /\ head \in Seq(Bytes) /\ Len(head) = 5 /\ head[1] = m.type
      /\ head[2] = WordBytes(size)[1] /\ head[3] = WordBytes(size)[2]
      /\ head[4] = WordBytes(size)[3] /\ head[5] = WordBytes(size)[4]
  <2>1. <<m.type>> \in Seq(Bytes) /\ Len(<<m.type>>) = 1 /\ <<m.type>>[1] = m.type
    OBVIOUS
  <2> QED BY <1>2, <2>1, Header
<1>5. Serialize(m) = head \o payload
  BY <1>1 DEF Serialize
<1> HIDE DEF head
<1>6. /\ head \o payload \in Seq(Bytes) /\ Len(head \o payload) = 5 + size
      /\ \A k \in 1 .. 5 : (head \o payload)[k] = head[k]
      /\ \A k \in 1 .. size : (head \o payload)[5 + k] = payload[k]
  BY <1>4, Behind
<1>7. WordAt(head \o payload, 1) = size
  <2>1. WordAt(head \o payload, 1)
          = Word(WordBytes(size)[1], WordBytes(size)[2], WordBytes(size)[3], WordBytes(size)[4])
    BY <1>4, <1>6 DEF WordAt
  <2> QED BY ONLY <1>1, <2>1, WordRead
<1>8. /\ (head \o payload)[1] = m.type
      /\ \A k \in 1 .. Len(m.payload) : (head \o payload)[5 + k] = m.payload[k]
  BY <1>4, <1>6
<1> QED BY <1>5, <1>6, <1>7, <1>8

\* deserialize undoes serialize.
LEMMA SerializeInverse ==
  ASSUME NEW m, Fits(m), m.type \in Bytes
  PROVE  Deserialize(Serialize(m)) = m
<1> PICK size \in Nat, payload \in Seq(Bytes) : size = Len(m.payload) /\ payload = m.payload
  BY DEF Fits
<1> PICK data \in Seq(Bytes) : data = Serialize(m)
  BY Layout
<1>1. /\ Len(data) = 5 + size /\ data[1] = m.type /\ WordAt(data, 1) = size
      /\ \A k \in 1 .. size : data[5 + k] = payload[k]
  BY Layout
<1>2. (5 + size) % TwoTo32 <= 5 + size /\ (5 + size) % TwoTo32 \in Nat
  <2>1. 5 + size \in Nat
    OBVIOUS
  <2> QED BY <2>1, RadixFacts, ModLess
<1>3. Deserialize(data) = [type |-> m.type, payload |-> SubSeq(data, 6, 5 + size)]
  <2>1. ~(Len(data) < 5) /\ ~(5 + size > Len(data)) /\ ~(Len(data) < (5 + size) % TwoTo32)
    BY <1>1, <1>2
  <2> QED BY <1>1, <2>1 DEF Deserialize
<1>4. SubSeq(data, 6, 5 + size) = payload
  <2>1. SubSeq(data, 6, 5 + size) \in Seq(Bytes) /\ Len(SubSeq(data, 6, 5 + size)) = size
    BY <1>1
  <2>2. ASSUME NEW k \in 1 .. size PROVE SubSeq(data, 6, 5 + size)[k] = payload[k]
    <3>1. SubSeq(data, 6, 5 + size)[k] = data[5 + k]
      BY <1>1
    <3> QED BY <1>1, <3>1
  <2> QED BY <2>1, <2>2, SeqEqual
<1> QED BY <1>3, <1>4 DEF Fits

\* deserialize refuses what has lost its end.
LEMMA CutRefused ==
  ASSUME NEW m, Fits(m), m.type \in Bytes, 5 + Len(m.payload) < TwoTo32,
         NEW n \in 0 .. Len(Serialize(m)) - 1
  PROVE  Deserialize(SubSeq(Serialize(m), 1, n)) \in {TooSmall, Incomplete}
<1> PICK size \in Nat : size = Len(m.payload)
  BY DEF Fits
<1> PICK data \in Seq(Bytes) : data = Serialize(m)
  BY Layout
<1>1. Len(data) = 5 + size /\ WordAt(data, 1) = size
  BY Layout
<1> PICK part \in Seq(Bytes) :
      /\ part = SubSeq(data, 1, n) /\ Len(part) = n
      /\ \A k \in 1 .. n : part[k] = data[k]
  <2>1. n \in Int /\ \A k \in 1 .. n : data[k] \in Bytes
    BY <1>1
  <2>2. /\ SubSeq(data, 1, n) \in Seq(Bytes)
        /\ Len(SubSeq(data, 1, n)) = IF 1 <= n THEN n - 1 + 1 ELSE 0
        /\ \A k \in 1 .. n - 1 + 1 : SubSeq(data, 1, n)[k] = data[1 + k - 1]
    BY <2>1, SubSeqProperties
  <2>3. n \in Nat
    BY <1>1
  <2>4. Len(SubSeq(data, 1, n)) = n /\ \A k \in 1 .. n : SubSeq(data, 1, n)[k] = data[k]
    BY ONLY <2>2, <2>3
  <2> QED BY <2>2, <2>4
<1>2. CASE n < 5
  BY <1>2 DEF Deserialize
<1>3. CASE n >= 5
  <2>1. WordAt(part, 1) = size
    <3>1. part[2] = data[2] /\ part[3] = data[3] /\ part[4] = data[4] /\ part[5] = data[5]
      <4>1. 2 \in 1 .. n /\ 3 \in 1 .. n /\ 4 \in 1 .. n /\ 5 \in 1 .. n
        BY <1>1, <1>3
      <4> QED BY <4>1
    <3>2. /\ WordAt(part, 1) = Word(part[2], part[3], part[4], part[5])
          /\ WordAt(data, 1) = Word(data[2], data[3], data[4], data[5])
      BY DEF WordAt
    <3> QED BY <1>1, <3>1, <3>2
  <2>2. (5 + size) % TwoTo32 = 5 + size
    <3>1. 5 + size \in Nat
      OBVIOUS
    <3> QED BY <3>1, RadixFacts, ModLess
  <2>3. n < 5 + size
    BY <1>1
  <2> QED BY <1>3, <2>1, <2>2, <2>3 DEF Deserialize
<1> QED BY <1>2, <1>3
-----------------------------------------------------------------------------
(* Fields in a buffer.                                                     *)

\* What a call of add... appends.
Encoding(field) ==
  CASE field.kind = "word"   -> WordBytes(field.value)
    [] field.kind = "long"   -> LongWordBytes(field.value)
    [] field.kind = "string" -> WordBytes(Len(field.value)) \o field.value
    [] field.kind = "data"   -> field.value

Fields ==
  {[kind |-> "word", value |-> n] : n \in Words}
    \cup {[kind |-> "long", value |-> n] : n \in LongWords}
    \cup {[kind |-> "string", value |-> s] : s \in Strings}
    \cup {[kind |-> "data", value |-> block] : block \in Blocks}

\* The bytes stand in data behind offset.
Placed(bytes, data, offset) ==
  /\ offset + Len(bytes) <= Len(data)
  /\ \A j \in 1 .. Len(bytes) : data[offset + j] = bytes[j]

LEMMA PlacedStays ==
  ASSUME NEW bytes \in Seq(Bytes), NEW data \in Seq(Bytes), NEW more \in Seq(Bytes),
         NEW offset \in Nat, Placed(bytes, data, offset)
  PROVE  Placed(bytes, data \o more, offset)
<1> PICK n \in Nat, d \in Nat, m \in Nat : n = Len(bytes) /\ d = Len(data) /\ m = Len(more)
  OBVIOUS
<1>1. offset + n <= d /\ \A j \in 1 .. n : data[offset + j] = bytes[j]
  BY DEF Placed
<1>2. /\ Len(data \o more) = d + m
      /\ \A i \in 1 .. d + m : (data \o more)[i] = IF i <= d THEN data[i] ELSE more[i - d]
  BY ConcatProperties
<1>3. ASSUME NEW j \in 1 .. n PROVE (data \o more)[offset + j] = bytes[j]
  <2>1. offset + j \in 1 .. d + m /\ offset + j <= d
    BY <1>1
  <2> QED BY <1>1, <1>2, <2>1
<1> QED BY <1>1, <1>2, <1>3 DEF Placed

LEMMA PlacedBehind ==
  ASSUME NEW bytes \in Seq(Bytes), NEW data \in Seq(Bytes)
  PROVE  Placed(bytes, data \o bytes, Len(data))
<1> PICK n \in Nat, d \in Nat : n = Len(bytes) /\ d = Len(data)
  OBVIOUS
<1>1. /\ Len(data \o bytes) = d + n
      /\ \A i \in 1 .. d + n : (data \o bytes)[i] = IF i <= d THEN data[i] ELSE bytes[i - d]
  BY ConcatProperties
<1>2. ASSUME NEW j \in 1 .. n PROVE (data \o bytes)[d + j] = bytes[j]
  <2>1. d + j \in 1 .. d + n /\ ~(d + j <= d) /\ (d + j) - d = j
    OBVIOUS
  <2> QED BY <1>1, <2>1
<1> QED BY <1>1, <1>2 DEF Placed

\* Of two pieces that stand behind offset the second starts where the first ends.
LEMMA PlacedParts ==
  ASSUME NEW s \in Seq(Bytes), NEW t \in Seq(Bytes), NEW data \in Seq(Bytes),
         NEW offset \in Nat, Placed(s \o t, data, offset)
  PROVE  Placed(s, data, offset) /\ Placed(t, data, offset + Len(s))
<1> PICK m \in Nat, n \in Nat, d \in Nat : m = Len(s) /\ n = Len(t) /\ d = Len(data)
  OBVIOUS
<1>1. /\ Len(s \o t) = m + n
      /\ \A i \in 1 .. m + n : (s \o t)[i] = IF i <= m THEN s[i] ELSE t[i - m]
  BY ConcatProperties
<1>2. offset + (m + n) <= d /\ \A j \in 1 .. m + n : data[offset + j] = (s \o t)[j]
  BY <1>1 DEF Placed
<1>3. ASSUME NEW j \in 1 .. m PROVE data[offset + j] = s[j]
  BY <1>1, <1>2
<1>4. ASSUME NEW j \in 1 .. n PROVE data[(offset + m) + j] = t[j]
  <2>1. m + j \in 1 .. m + n /\ ~(m + j <= m) /\ (m + j) - m = j
        /\ offset + (m + j) = (offset + m) + j
    OBVIOUS
  <2> QED BY <1>1, <1>2, <2>1
<1> QED BY <1>2, <1>3, <1>4 DEF Placed

\* Four bytes behind offset, read as a number.
LEMMA PlacedWord ==
  ASSUME NEW n \in Nat, n < TwoTo32, NEW data \in Seq(Bytes), NEW offset \in Nat,
         Placed(WordBytes(n), data, offset)
  PROVE  /\ WordAt(data, offset) = n
         /\ ExtractUint32(data, offset) = n
<1> DEFINE w == WordBytes(n)
<1>1. Len(w) = 4
  BY WordBytesType
<1>2. offset + 4 <= Len(data) /\ \A j \in 1 .. 4 : data[offset + j] = w[j]
  BY <1>1 DEF Placed
<1>3. Word(w[1], w[2], w[3], w[4]) = n
  BY WordRead
<1> HIDE DEF w
<1>4. /\ data[offset + 1] = w[1] /\ data[offset + 2] = w[2]
      /\ data[offset + 3] = w[3] /\ data[offset + 4] = w[4]
  BY <1>2
<1>5. WordAt(data, offset) = n
  BY <1>3, <1>4 DEF WordAt
<1> QED BY <1>2, <1>5 DEF ExtractUint32

\* Bytes behind offset, cut out.
LEMMA PlacedBlock ==
  ASSUME NEW bytes \in Seq(Bytes), NEW data \in Seq(Bytes), NEW offset \in Nat,
         Placed(bytes, data, offset)
  PROVE  SubSeq(data, offset + 1, offset + Len(bytes)) = bytes
<1> PICK n \in Nat : n = Len(bytes)
  OBVIOUS
<1>1. offset + n <= Len(data) /\ \A j \in 1 .. n : data[offset + j] = bytes[j]
  BY DEF Placed
<1> DEFINE cut == SubSeq(data, offset + 1, offset + n)
<1>2. /\ cut \in Seq(Bytes) /\ Len(cut) = n
      /\ \A j \in 1 .. n : cut[j] = data[offset + j]
  BY <1>1
<1> HIDE DEF cut
<1>3. cut = bytes
  BY <1>1, <1>2, SeqEqual
<1> QED BY <1>3 DEF cut

\* Four bytes in front of others.
LEMMA PlacedWordFirst ==
  ASSUME NEW w \in Seq(Bytes), Len(w) = 4, NEW t \in Seq(Bytes), NEW data \in Seq(Bytes),
         NEW offset \in Nat, Placed(w \o t, data, offset)
  PROVE  /\ Placed(w, data, offset) /\ Placed(t, data, offset + 4)
         /\ Len(w \o t) = 4 + Len(t)
<1> PICK n \in Nat : n = Len(t)
  OBVIOUS
<1>1. Placed(w, data, offset) /\ Placed(t, data, offset + Len(w))
  BY PlacedParts
<1>2. Len(w \o t) = Len(w) + n
  BY ConcatProperties
<1> QED BY <1>1, <1>2

\* Both halves of a long word.
LEMMA LongRead ==
  ASSUME NEW n \in Nat, n < TwoTo32 * TwoTo32, NEW data \in Seq(Bytes), NEW offset \in Nat,
         Placed(LongWordBytes(n), data, offset)
  PROVE  /\ WordAt(data, offset) + TwoTo32 * WordAt(data, offset + 4) = n
         /\ Len(LongWordBytes(n)) = 8
<1> PICK low \in Nat, high \in Nat :
      low = n % TwoTo32 /\ high = n \div TwoTo32 /\ n = low + TwoTo32 * high
        /\ low < TwoTo32 /\ high < TwoTo32
  BY RadixFacts, DivMod, DivLess, ModLess
<1> PICK v \in Seq(Bytes), w \in Seq(Bytes) :
      v = WordBytes(low) /\ w = WordBytes(high) /\ Len(v) = 4 /\ Len(w) = 4
  BY WordBytesType
<1>1. Placed(v \o w, data, offset)
  BY DEF LongWordBytes
<1>2. Placed(v, data, offset) /\ Placed(w, data, offset + 4) /\ Len(v \o w) = 4 + 4
  BY <1>1, PlacedWordFirst
<1>3. WordAt(data, offset) = low
  BY <1>2, PlacedWord
<1>4. WordAt(data, offset + 4) = high
  <2>1. offset + 4 \in Nat
    OBVIOUS
  <2> QED BY <1>2, <2>1, PlacedWord
<1>5. LongWordBytes(n) = v \o w
  BY DEF LongWordBytes
<1>6. WordAt(data, offset) + TwoTo32 * WordAt(data, offset + 4) = n
  BY ONLY <1>3, <1>4, n = low + TwoTo32 * high
<1>7. Len(LongWordBytes(n)) = 8
  BY ONLY <1>2, <1>5
<1> QED BY ONLY <1>6, <1>7

LEMMA StringRead ==
  ASSUME NEW s \in Seq(Bytes), NEW data \in Seq(Bytes), Len(data) < TwoTo32, NEW offset \in Nat,
         Placed(WordBytes(Len(s)) \o s, data, offset)
  PROVE  /\ ExtractString(data, offset) = s
         /\ Len(WordBytes(Len(s)) \o s) = 4 + Len(s)
<1> PICK n \in Nat, d \in Nat : n = Len(s) /\ d = Len(data)
  OBVIOUS
<1> PICK w \in Seq(Bytes) : w = WordBytes(n) /\ Len(w) = 4
  BY WordBytesType
<1>1. Placed(w, data, offset) /\ Placed(s, data, offset + 4) /\ Len(w \o s) = 4 + n
  BY PlacedWordFirst
<1>2. (offset + 4) + n <= d
  BY <1>1 DEF Placed
<1>3. n < TwoTo32
  BY <1>2, RadixFacts
<1>4. ExtractUint32(data, offset) = n
  BY <1>1, <1>3, PlacedWord
<1>5. ExtractString(data, offset) = SubSeq(data, (offset + 4) + 1, (offset + 4) + n)
  BY <1>2, <1>4 DEF ExtractString
<1>6. SubSeq(data, (offset + 4) + 1, (offset + 4) + n) = s
  <2>1. offset + 4 \in Nat
    OBVIOUS
  <2> QED BY <1>1, <2>1, PlacedBlock
<1> QED BY <1>1, <1>5, <1>6

\* What a reader of the field finds behind offset is its value.
LEMMA FieldRead ==
  ASSUME NEW field \in Fields, NEW data \in Seq(Bytes), Len(data) < TwoTo32,
         NEW offset \in Nat, Placed(Encoding(field), data, offset)
  PROVE  /\ ReadField(field, data, offset) = field.value
         /\ Width(field) = Len(Encoding(field))
<1>1. CASE \E n \in Words : field = [kind |-> "word", value |-> n]
  <2> PICK n \in Words : field = [kind |-> "word", value |-> n]
    BY <1>1
  <2>1. n \in Nat /\ n < TwoTo32
    BY CodecAssumption, RadixFacts
  <2>2. Encoding(field) = WordBytes(n)
    BY DEF Encoding
  <2>3. ReadField(field, data, offset) = ExtractUint32(data, offset) /\ Width(field) = 4
    BY DEF ReadField, Width
  <2> QED BY <2>1, <2>2, <2>3, PlacedWord, WordBytesType
<1>2. CASE \E n \in LongWords : field = [kind |-> "long", value |-> n]
  <2> PICK n \in LongWords : field = [kind |-> "long", value |-> n]
    BY <1>2
  <2>1. n \in Nat /\ n < TwoTo32 * TwoTo32
    BY CodecAssumption, RadixFacts
  <2>2. Encoding(field) = LongWordBytes(n)
    BY DEF Encoding
  <2>3. /\ ReadField(field, data, offset) = WordAt(data, offset) + TwoTo32 * WordAt(data, offset + 4)
        /\ Width(field) = 8
    BY DEF ReadField, Width
  <2> QED BY <2>1, <2>2, <2>3, LongRead
<1>3. CASE \E s \in Strings : field = [kind |-> "string", value |-> s]
  <2> PICK s \in Strings : field = [kind |-> "string", value |-> s]
    BY <1>3
  <2>1. s \in Seq(Bytes)
    BY CodecAssumption
  <2>2. Encoding(field) = WordBytes(Len(s)) \o s
    BY DEF Encoding
  <2>3. ReadField(field, data, offset) = ExtractString(data, offset) /\ Width(field) = 4 + Len(s)
    BY DEF ReadField, Width
  <2> QED BY <2>1, <2>2, <2>3, StringRead
<1>4. CASE \E block \in Blocks : field = [kind |-> "data", value |-> block]
  <2> PICK block \in Blocks : field = [kind |-> "data", value |-> block]
    BY <1>4
  <2>1. block \in Seq(Bytes)
    BY CodecAssumption
  <2>2. Encoding(field) = block
    BY DEF Encoding
  <2>3. /\ ReadField(field, data, offset) = SubSeq(data, offset + 1, offset + Len(block))
        /\ Width(field) = Len(block)
    BY DEF ReadField, Width
  <2> QED BY <2>1, <2>2, <2>3, PlacedBlock
<1> QED BY <1>1, <1>2, <1>3, <1>4 DEF Fields

LEMMA EncodingType ==
  ASSUME NEW field \in Fields
  PROVE  Encoding(field) \in Seq(Bytes)
<1>1. ASSUME NEW n \in Words, field = [kind |-> "word", value |-> n]
      PROVE  Encoding(field) \in Seq(Bytes)
  <2>1. Encoding(field) = WordBytes(n)
    BY <1>1 DEF Encoding
  <2> QED BY <2>1, CodecAssumption, WordBytesType
<1>2. ASSUME NEW n \in LongWords, field = [kind |-> "long", value |-> n]
      PROVE  Encoding(field) \in Seq(Bytes)
  <2>1. Encoding(field) = LongWordBytes(n)
    BY <1>2 DEF Encoding
  <2> QED BY <2>1, CodecAssumption, LongWordBytesType
<1>3. ASSUME NEW s \in Strings, field = [kind |-> "string", value |-> s]
      PROVE  Encoding(field) \in Seq(Bytes)
  <2>1. Encoding(field) = WordBytes(Len(s)) \o s
    BY <1>3 DEF Encoding
  <2>2. s \in Seq(Bytes) /\ WordBytes(Len(s)) \in Seq(Bytes)
    BY CodecAssumption, WordBytesType
  <2> QED BY <2>1, <2>2, ConcatProperties
<1>4. ASSUME NEW block \in Blocks, field = [kind |-> "data", value |-> block]
      PROVE  Encoding(field) \in Seq(Bytes)
  <2>1. Encoding(field) = block
    BY <1>4 DEF Encoding
  <2> QED BY <2>1, CodecAssumption
<1> QED BY <1>1, <1>2, <1>3, <1>4 DEF Fields

\* The buffer is the encodings of the fields, one behind the other: starts says
\* where each begins and where the last one ends.
Laid(starts, fields, data) ==
  /\ starts \in [0 .. Len(fields) -> Nat]
  /\ starts[0] = 0
  /\ \A k \in 1 .. Len(fields) :
       /\ starts[k] = starts[k - 1] + Len(Encoding(fields[k]))
       /\ Placed(Encoding(fields[k]), data, starts[k - 1])
  /\ starts[Len(fields)] = Len(data)

Holds(fields, data) ==
  fields \in Seq(Fields) /\ data \in Seq(Bytes) /\ \E starts : Laid(starts, fields, data)

LEMMA NothingHeld == Holds(<<>>, <<>>)
<1> DEFINE starts == [k \in 0 .. 0 |-> 0]
<1>1. Len(<<>>) = 0 /\ <<>> \in Seq(Fields) /\ <<>> \in Seq(Bytes)
  OBVIOUS
<1>2. starts \in [0 .. 0 -> Nat] /\ starts[0] = 0
  OBVIOUS
<1> HIDE DEF starts
<1>3. Laid(starts, <<>>, <<>>)
  BY <1>1, <1>2 DEF Laid
<1> QED BY <1>1, <1>3 DEF Holds

LEMMA OneMoreHeld ==
  ASSUME NEW fields, NEW data, Holds(fields, data), NEW field \in Fields
  PROVE  Holds(Append(fields, field), data \o Encoding(field))
<1>1. fields \in Seq(Fields) /\ data \in Seq(Bytes)
  BY DEF Holds
<1> PICK n \in Nat, d \in Nat : n = Len(fields) /\ d = Len(data)
  BY <1>1
<1> PICK starts : Laid(starts, fields, data)
  BY DEF Holds
<1> PICK bytes \in Seq(Bytes), w \in Nat : bytes = Encoding(field) /\ w = Len(bytes)
  BY EncodingType
<1> PICK fs \in Seq(Fields) :
      /\ fs = Append(fields, field) /\ Len(fs) = n + 1 /\ fs[n + 1] = field
      /\ \A k \in 1 .. n : fs[k] = fields[k]
  <2>1. /\ Append(fields, field) \in Seq(Fields)
        /\ Len(Append(fields, field)) = Len(fields) + 1
        /\ \A k \in 1 .. Len(fields) : Append(fields, field)[k] = fields[k]
        /\ Append(fields, field)[Len(fields) + 1] = field
    BY <1>1, AppendProperties
  <2> QED BY <2>1
<1> PICK more \in Seq(Bytes) : more = data \o bytes /\ Len(more) = d + w
  <2>1. data \o bytes \in Seq(Bytes) /\ Len(data \o bytes) = Len(data) + Len(bytes)
    BY ONLY <1>1, bytes \in Seq(Bytes), ConcatProperties
  <2> QED BY <2>1
<1> DEFINE ends == [k \in 0 .. n + 1 |-> IF k = n + 1 THEN d + w ELSE starts[k]]
<1>2. /\ starts \in [0 .. n -> Nat] /\ starts[0] = 0 /\ starts[n] = d
      /\ \A k \in 1 .. n : /\ starts[k] = starts[k - 1] + Len(Encoding(fields[k]))
                           /\ Placed(Encoding(fields[k]), data, starts[k - 1])
  BY DEF Laid
<1>3. /\ ends \in [0 .. n + 1 -> Nat] /\ ends[n + 1] = d + w
      /\ \A k \in 0 .. n : ends[k] = starts[k]
  <2>1. \A k \in 0 .. n : starts[k] \in Nat
    BY <1>2
  <2>2. ASSUME NEW k \in 0 .. n + 1 PROVE (IF k = n + 1 THEN d + w ELSE starts[k]) \in Nat
    <3>1. k = n + 1 \/ k \in 0 .. n
      OBVIOUS
    <3> QED BY <2>1, <3>1
  <2>3. n + 1 \in 0 .. n + 1 /\ \A k \in 0 .. n : k \in 0 .. n + 1 /\ k # n + 1
    OBVIOUS
  <2> QED BY <2>2, <2>3
<1> HIDE DEF ends
<1>4. ASSUME NEW k \in 1 .. n
      PROVE  /\ ends[k] = ends[k - 1] + Len(Encoding(fs[k]))
             /\ Placed(Encoding(fs[k]), more, ends[k - 1])
  <2>1. k - 1 \in 0 .. n /\ k \in 0 .. n /\ starts[k - 1] \in Nat
    BY <1>2
  <2>2. fields[k] \in Fields /\ fs[k] = fields[k]
    BY <1>1
  <2>3. Placed(Encoding(fields[k]), more, starts[k - 1])
    BY <1>1, <1>2, <2>1, <2>2, EncodingType, PlacedStays
  <2> QED BY <1>2, <1>3, <2>1, <2>2, <2>3
<1>5. /\ ends[n + 1] = ends[(n + 1) - 1] + Len(Encoding(fs[n + 1]))
      /\ Placed(Encoding(fs[n + 1]), more, ends[(n + 1) - 1])
  <2>1. (n + 1) - 1 = n /\ ends[n] = d
    BY <1>2, <1>3
  <2>2. Placed(bytes, more, d)
    BY <1>1, PlacedBehind
  <2> QED BY <1>3, <2>1, <2>2
<1>6. ASSUME NEW k \in 1 .. n + 1
      PROVE  /\ ends[k] = ends[k - 1] + Len(Encoding(fs[k]))
             /\ Placed(Encoding(fs[k]), more, ends[k - 1])
  <2>1. k \in 1 .. n \/ k = n + 1
    OBVIOUS
  <2> QED BY <1>4, <1>5, <2>1
<1>7. ends[0] = 0
  BY <1>2, <1>3
<1>8. Laid(ends, fs, more)
  BY <1>3, <1>6, <1>7 DEF Laid
<1> QED BY <1>8 DEF Holds

-----------------------------------------------------------------------------
(* The offsets a reader adds up.  That a recursive function exists and is  *)
(* what its equation says follows from any function that satisfies the     *)
(* equation, and Laid has one.                                             *)

IsOffsets(offset, fields) ==
  offset = [k \in 0 .. Len(fields) |-> IF k = 0 THEN 0 ELSE offset[k - 1] + Width(fields[k])]

LEMMA OffsetsValue ==
  ASSUME NEW offset, NEW fields, fields \in Seq(Fields), IsOffsets(offset, fields)
  PROVE  /\ offset[0] = 0
         /\ \A k \in 1 .. Len(fields) : offset[k] = offset[k - 1] + Width(fields[k])
<1> PICK n \in Nat : n = Len(fields)
  OBVIOUS
<1>1. \A k \in 0 .. n : offset[k] = IF k = 0 THEN 0 ELSE offset[k - 1] + Width(fields[k])
  BY DEF IsOffsets
<1>2. 0 \in 0 .. n /\ \A k \in 1 .. n : k \in 0 .. n /\ k # 0
  OBVIOUS
<1> QED BY <1>1, <1>2

\* The least number of a set of naturals, for proofs by induction.
LEMMA NatLeast ==
  ASSUME NEW T \in SUBSET Nat, T # {}
  PROVE  \E x \in T : \A y \in T : x <= y
<1> DEFINE R == {ss \in Nat \X Nat : ss[1] < ss[2]}
<1>1. IsWellFoundedOn(R, Nat)
  BY NatLessThanWellFounded DEF OpToRel
<1>2. \E x \in T : \A y \in T : ~(<<y, x>> \in R)
  <2> HIDE DEF R
  <2> QED BY <1>1, WFMin
<1>3. PICK x \in T : \A y \in T : ~(<<y, x>> \in R)
  BY <1>2
<1>4. \A y \in T : ~(y < x)
  BY <1>3
<1> QED BY <1>4

\* The offsets the reader adds up are where the fields start.
LEMMA OffsetsAreStarts ==
  ASSUME NEW fields \in Seq(Fields), NEW data \in Seq(Bytes), Len(data) < TwoTo32,
         NEW starts, Laid(starts, fields, data)
  PROVE  \A k \in 0 .. Len(fields) : Offsets(fields)[k] = starts[k]
<1> PICK n \in Nat : n = Len(fields)
  OBVIOUS
<1>1. /\ starts \in [0 .. n -> Nat] /\ starts[0] = 0
      /\ \A k \in 1 .. n : /\ starts[k] = starts[k - 1] + Len(Encoding(fields[k]))
                           /\ Placed(Encoding(fields[k]), data, starts[k - 1])
  BY DEF Laid
<1>2. ASSUME NEW k \in 1 .. n PROVE starts[k] = starts[k - 1] + Width(fields[k])
  <2>1. k - 1 \in 0 .. n /\ k \in 1 .. Len(fields)
    OBVIOUS
  <2>2. starts[k - 1] \in Nat
    BY <1>1, <2>1
  <2>3. fields[k] \in Fields
    BY <2>1
  <2>4. Width(fields[k]) = Len(Encoding(fields[k]))
    BY <1>1, <2>2, <2>3, FieldRead
  <2> QED BY <1>1, <2>4
<1>3. IsOffsets(starts, fields)
  <2>1. ASSUME NEW k \in 0 .. n
        PROVE  starts[k] = IF k = 0 THEN 0 ELSE starts[k - 1] + Width(fields[k])
    <3>1. k = 0 \/ k \in 1 .. n
      OBVIOUS
    <3> QED BY <1>1, <1>2, <3>1
  <2>2. starts = [k \in 0 .. n |-> IF k = 0 THEN 0 ELSE starts[k - 1] + Width(fields[k])]
    BY <1>1, <2>1
  <2> QED BY <2>2 DEF IsOffsets
<1> DEFINE offset == Offsets(fields)
<1>4. IsOffsets(offset, fields)
  <2>1. offset = CHOOSE f : IsOffsets(f, fields)
    BY DEF Offsets, IsOffsets
  <2> QED BY <1>3, <2>1
<1>5. offset[0] = 0 /\ \A k \in 1 .. n : offset[k] = offset[k - 1] + Width(fields[k])
  BY <1>4, OffsetsValue
<1> HIDE DEF offset
<1> DEFINE T == {k \in 0 .. n : offset[k] # starts[k]}
<1>6. T = {}
  <2> SUFFICES ASSUME T # {} PROVE FALSE
    OBVIOUS
  <2>1. T \in SUBSET Nat
    OBVIOUS
  <2>2. PICK k \in T : \A y \in T : k <= y
    <3> HIDE DEF T
    <3> QED BY <2>1, NatLeast
  <2>3. k \in 1 .. n /\ k - 1 \in 0 .. n
    BY <1>1, <1>5
  <2>4. offset[k - 1] = starts[k - 1]
    BY <2>2, <2>3
  <2> QED BY <1>2, <1>5, <2>2, <2>3, <2>4
<1> QED BY <1>6 DEF offset

\* A reader of what a builder has filled reads back what was added.
LEMMA HeldIsRead ==
  ASSUME NEW fields, NEW data, Holds(fields, data), Len(data) < TwoTo32
  PROVE  /\ Offsets(fields)[Len(fields)] = Len(data)
         /\ \A k \in 1 .. Len(fields) :
              ReadField(fields[k], data, Offsets(fields)[k - 1]) = fields[k].value
<1>1. fields \in Seq(Fields) /\ data \in Seq(Bytes)
  BY DEF Holds
<1> PICK n \in Nat : n = Len(fields)
  BY <1>1
<1> PICK starts : Laid(starts, fields, data)
  BY DEF Holds
<1>2. \A k \in 0 .. n : Offsets(fields)[k] = starts[k]
  BY <1>1, OffsetsAreStarts
<1>3. /\ starts \in [0 .. n -> Nat] /\ starts[n] = Len(data)
      /\ \A k \in 1 .. n : Placed(Encoding(fields[k]), data, starts[k - 1])
  BY DEF Laid
<1>4. ASSUME NEW k \in 1 .. n
      PROVE  ReadField(fields[k], data, Offsets(fields)[k - 1]) = fields[k].value
  <2>1. k - 1 \in 0 .. n /\ starts[k - 1] \in Nat /\ fields[k] \in Fields
    BY <1>1, <1>3
  <2>2. ReadField(fields[k], data, starts[k - 1]) = fields[k].value
    BY <1>1, <1>3, <2>1, FieldRead
  <2> QED BY <1>2, <2>1, <2>2
<1> QED BY <1>2, <1>3, <1>4

-----------------------------------------------------------------------------
(* What was added is what is there, in the buffer and in every message.    *)

FieldsInv ==
  /\ Holds(added, buffer)
  /\ Len(builtBy) = Len(built) /\ builtBy \in Seq(Seq(Fields))
  /\ \A i \in 1 .. Len(built) : Holds(builtBy[i], built[i].payload)

CodecInv == TypeOK /\ FieldsInv

LEMMA AddKeepsFields ==
  ASSUME FieldsInv, NEW field \in Fields, Add(field.kind, field.value, Encoding(field)),
         field = [kind |-> field.kind, value |-> field.value]
  PROVE  FieldsInv'
<1>1. /\ buffer' = buffer \o Encoding(field) /\ added' = Append(added, field)
      /\ built' = built /\ builtBy' = builtBy
  BY DEF Add
<1>2. Holds(added', buffer')
  BY <1>1, OneMoreHeld DEF FieldsInv
<1> QED BY <1>1, <1>2 DEF FieldsInv

LEMMA BuildKeepsFields ==
  ASSUME TypeOK, FieldsInv, Build
  PROVE  FieldsInv'
<1> DEFINE Msgs == [type: Types, payload: Seq(Bytes)]
<1>1. built \in Seq(Msgs) /\ Message(type, buffer) \in Msgs
  BY DEF TypeOK, Message
<1> PICK last \in Msgs : last = Message(type, buffer) /\ last.payload = buffer
  BY <1>1 DEF Message
<1> HIDE DEF Msgs
<1> PICK n \in Nat : n = Len(built)
  BY <1>1
<1>2. /\ built' = Append(built, last) /\ builtBy' = Append(builtBy, added)
      /\ buffer' = <<>> /\ added' = <<>>
  BY DEF Build
<1>3. /\ Holds(added, buffer) /\ added \in Seq(Fields)
      /\ Len(builtBy) = n /\ builtBy \in Seq(Seq(Fields))
      /\ \A i \in 1 .. n : Holds(builtBy[i], built[i].payload)
  BY DEF FieldsInv, Holds
<1>4. /\ Len(Append(built, last)) = n + 1 /\ Append(built, last)[n + 1] = last
      /\ \A i \in 1 .. n : Append(built, last)[i] = built[i]
  BY <1>1, AppendProperties
<1>5. /\ Append(builtBy, added) \in Seq(Seq(Fields))
      /\ Len(Append(builtBy, added)) = n + 1 /\ Append(builtBy, added)[n + 1] = added
      /\ \A i \in 1 .. n : Append(builtBy, added)[i] = builtBy[i]
  BY <1>3, AppendProperties
<1>6. ASSUME NEW i \in 1 .. n + 1
      PROVE  Holds(Append(builtBy, added)[i], Append(built, last)[i].payload)
  <2>1. i \in 1 .. n \/ i = n + 1
    OBVIOUS
  <2> QED BY <1>3, <1>4, <1>5, <2>1
<1> QED BY <1>2, <1>4, <1>5, <1>6, NothingHeld DEF FieldsInv

LEMMA FieldsNext == CodecInv /\ [Next]_vars => FieldsInv'
<1> SUFFICES ASSUME TypeOK, FieldsInv, [Next]_vars PROVE FieldsInv'
  BY DEF CodecInv
<1>1. ASSUME NEW t \in Types, SetType(t) PROVE FieldsInv'
  BY <1>1 DEF SetType, FieldsInv
<1>2. ASSUME NEW n \in Words, AddUint32(n) PROVE FieldsInv'
  <2> DEFINE field == [kind |-> "word", value |-> n]
  <2>1. field \in Fields /\ Encoding(field) = WordBytes(n)
    BY DEF Fields, Encoding
  <2> QED BY <1>2, <2>1, AddKeepsFields DEF AddUint32
<1>3. ASSUME NEW n \in LongWords, AddUint64(n) PROVE FieldsInv'
  <2> DEFINE field == [kind |-> "long", value |-> n]
  <2>1. field \in Fields /\ Encoding(field) = LongWordBytes(n)
    BY DEF Fields, Encoding
  <2> QED BY <1>3, <2>1, AddKeepsFields DEF AddUint64
<1>4. ASSUME NEW s \in Strings, AddString(s) PROVE FieldsInv'
  <2> DEFINE field == [kind |-> "string", value |-> s]
  <2>1. field \in Fields /\ Encoding(field) = WordBytes(Len(s)) \o s
    BY DEF Fields, Encoding
  <2> QED BY <1>4, <2>1, AddKeepsFields DEF AddString
<1>5. ASSUME NEW block \in Blocks, AddData(block) PROVE FieldsInv'
  <2> DEFINE field == [kind |-> "data", value |-> block]
  <2>1. field \in Fields /\ Encoding(field) = block
    BY DEF Fields, Encoding
  <2> QED BY <1>5, <2>1, AddKeepsFields DEF AddData
<1>6. CASE UNCHANGED vars
  BY <1>6 DEF vars, FieldsInv
<1> QED BY <1>1, <1>2, <1>3, <1>4, <1>5, <1>6, BuildKeepsFields DEF Next

-----------------------------------------------------------------------------
(* The theorems.                                                           *)

LEMMA BufferGrows ==
  ASSUME TypeOK, NEW bytes \in Seq(Bytes), NEW kind, NEW value, Add(kind, value, bytes)
  PROVE  TypeOK'
<1>1. buffer \o bytes \in Seq(Bytes) /\ Len(buffer \o bytes) = Len(buffer) + Len(bytes)
  BY ConcatProperties DEF TypeOK
<1> QED BY <1>1 DEF Add, TypeOK

LEMMA BuildType == TypeOK /\ Build => TypeOK'
<1> SUFFICES ASSUME TypeOK, Build PROVE TypeOK'
  OBVIOUS
<1> DEFINE Msgs == [type: Types, payload: Seq(Bytes)]
<1> PICK last \in Msgs : last = Message(type, buffer)
  BY DEF TypeOK, Message
<1>1. /\ built \in Seq(Msgs) /\ Len(built) <= MaxMessages /\ Len(last.payload) <= MaxPayload
      /\ \A i \in 1 .. Len(built) : Len(built[i].payload) <= MaxPayload
      /\ type \in Types /\ Len(built) < MaxMessages
  BY DEF TypeOK, Message, Build
<1>2. built' = Append(built, last) /\ buffer' = <<>> /\ type' = type
  BY DEF Build
<1> HIDE DEF Msgs
<1>3. /\ Append(built, last) \in Seq(Msgs) /\ Len(Append(built, last)) = Len(built) + 1
      /\ \A i \in 1 .. Len(built) : Append(built, last)[i] = built[i]
      /\ Append(built, last)[Len(built) + 1] = last
  BY <1>1, AppendProperties
<1>4. ASSUME NEW i \in 1 .. Len(built) + 1 PROVE Len(Append(built, last)[i].payload) <= MaxPayload
  <2>1. i \in 1 .. Len(built) \/ i = Len(built) + 1
    BY <1>1
  <2> QED BY <1>1, <1>3, <2>1
<1>5. built' \in Seq(Msgs) /\ Len(built') <= MaxMessages
      /\ \A i \in 1 .. Len(built') : Len(built'[i].payload) <= MaxPayload
  <2>1. Len(built) + 1 <= MaxMessages
    BY <1>1, CodecAssumption
  <2> QED BY <1>2, <1>3, <1>4, <2>1
<1>6. buffer' \in Seq(Bytes) /\ Len(buffer') <= MaxPayload
  BY <1>2, CodecAssumption
<1> QED BY <1>1, <1>2, <1>5, <1>6 DEF TypeOK, Msgs

LEMMA TypeNext == TypeOK /\ [Next]_vars => TypeOK'
<1> SUFFICES ASSUME TypeOK, [Next]_vars PROVE TypeOK'
  OBVIOUS
<1>1. ASSUME NEW t \in Types, SetType(t) PROVE TypeOK'
  BY <1>1 DEF SetType, TypeOK
<1>2. ASSUME NEW n \in Words, AddUint32(n) PROVE TypeOK'
  <2>1. WordBytes(n) \in Seq(Bytes)
    BY CodecAssumption, WordBytesType
  <2> QED BY <1>2, <2>1, BufferGrows DEF AddUint32
<1>3. ASSUME NEW n \in LongWords, AddUint64(n) PROVE TypeOK'
  <2>1. LongWordBytes(n) \in Seq(Bytes)
    BY CodecAssumption, LongWordBytesType
  <2> QED BY <1>3, <2>1, BufferGrows DEF AddUint64
<1>4. ASSUME NEW s \in Strings, AddString(s) PROVE TypeOK'
  <2>1. s \in Seq(Bytes) /\ Len(s) \in Nat
    BY CodecAssumption
  <2>2. WordBytes(Len(s)) \o s \in Seq(Bytes)
    BY <2>1, WordBytesType, ConcatProperties
  <2> QED BY <1>4, <2>2, BufferGrows DEF AddString
<1>5. ASSUME NEW block \in Blocks, AddData(block) PROVE TypeOK'
  <2>1. block \in Seq(Bytes)
    BY CodecAssumption
  <2> QED BY <1>5, <2>1, BufferGrows DEF AddData
<1>6. CASE UNCHANGED vars
  BY <1>6 DEF vars, TypeOK
<1> QED BY <1>1, <1>2, <1>3, <1>4, <1>5, <1>6, BuildType DEF Next

\* (Message.cpp:75-97)  Every byte of a payload is a byte, and no payload grows
\* past its bound.
THEOREM TypeCorrect == Spec => []TypeOK
<1>1. Init => TypeOK
  BY CodecAssumption DEF Init, TypeOK
<1> QED BY <1>1, TypeNext, PTL DEF Spec

LEMMA BuiltFits ==
  ASSUME TypeOK, NEW i \in 1 .. Len(built)
  PROVE  Fits(built[i]) /\ built[i].type \in Bytes
<1>1. built[i] \in [type: Types, payload: Seq(Bytes)] /\ Len(built[i].payload) <= MaxPayload
  <2> DEFINE Msgs == [type: Types, payload: Seq(Bytes)]
  <2>1. built \in Seq(Msgs) /\ Len(built[i].payload) <= MaxPayload
    BY DEF TypeOK
  <2> HIDE DEF Msgs
  <2>2. built[i] \in Msgs
    BY <2>1
  <2> QED BY <2>1, <2>2 DEF Msgs
<1>2. MaxPayload \in Nat /\ MaxPayload < TwoTo32 /\ TwoTo32 \in Nat
  BY CodecAssumption, RadixFacts
<1>3. Len(built[i].payload) \in Nat
  BY <1>1
<1>4. Len(built[i].payload) < TwoTo32
  BY <1>1, <1>2, <1>3
<1> QED BY <1>1, <1>4, CodecAssumption DEF Fits

\* (Message.cpp:13-52)  What is built, serialized and deserialized is what was
\* built.
THEOREM WireFormatInvertible == Spec => []RoundTrip
<1>1. TypeOK => RoundTrip
  BY BuiltFits, SerializeInverse DEF RoundTrip
<1> QED BY <1>1, TypeCorrect, PTL

\* (Message.cpp:33-52)  What has lost its end on the way is refused.
THEOREM CutsAreNoticed == Spec => []CutIsRefused
<1>1. TypeOK => CutIsRefused
  <2> SUFFICES ASSUME TypeOK, NEW i \in 1 .. Len(built), 5 + Len(built[i].payload) < TwoTo32,
                      NEW n \in 0 .. Len(Serialize(built[i])) - 1
               PROVE  Deserialize(SubSeq(Serialize(built[i]), 1, n)) \in {TooSmall, Incomplete}
    BY DEF CutIsRefused
  <2> QED BY BuiltFits, CutRefused
<1> QED BY <1>1, TypeCorrect, PTL

\* (Message.cpp:61-92)  The buffer holds the fields that were added, one behind
\* the other, and so does every message that has been built.
THEOREM BuilderInvariance == Spec => []CodecInv
<1>1. Init => CodecInv
  <2> SUFFICES ASSUME Init PROVE CodecInv
    OBVIOUS
  <2>1. TypeOK
    BY CodecAssumption DEF Init, TypeOK
  <2>2. built = <<>> /\ builtBy = <<>> /\ Holds(added, buffer)
    BY NothingHeld DEF Init
  <2> QED BY <2>1, <2>2 DEF CodecInv, FieldsInv
<1>2. CodecInv /\ [Next]_vars => CodecInv'
  BY FieldsNext, TypeNext DEF CodecInv
<1> QED BY <1>1, <1>2, PTL DEF Spec

\* (Message.cpp:61-92)  A reader that knows the fields of a message reads what
\* was added, whatever the fields and the earlier messages.
THEOREM ReadersGetTheFields == Spec => []FieldsReadBack
<1>1. CodecInv => FieldsReadBack
  <2> SUFFICES ASSUME CodecInv, NEW i \in 1 .. Len(built)
               PROVE  /\ Offsets(builtBy[i])[Len(builtBy[i])] = Len(built[i].payload)
                      /\ \A k \in 1 .. Len(builtBy[i]) :
                           ReadField(builtBy[i][k], built[i].payload, Offsets(builtBy[i])[k - 1])
                             = builtBy[i][k].value
    BY DEF FieldsReadBack
  <2>1. Len(built[i].payload) < TwoTo32
    BY BuiltFits DEF CodecInv, Fits
  <2>2. Holds(builtBy[i], built[i].payload)
    BY DEF CodecInv, FieldsInv
  <2> QED BY <2>1, <2>2, HeldIsRead
<1> QED BY <1>1, BuilderInvariance, PTL
=============================================================================
