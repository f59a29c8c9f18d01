------------------------- MODULE FeatureWalk_proofs ------------------------
(***************************************************************************)
(* Whatever a device answers, the walk over its feature descriptors stays   *)
(* inside them, and they stay inside the buffer; and of a well built answer *)
(* it returns the features that are meant.                                  *)
(***************************************************************************)
EXTENDS FeatureWalk, SequenceTheorems, FiniteSetTheorems, TLAPS

\* The slice of the descriptors is of bytes and fits the buffer, however long the answer.
LEMMA AnswerType ==
  ASSUME NEW r \in Responses, r.len >= 4, r.len + 4 <= BUF
  PROVE  /\ Descriptors(r) \in Seq(0..255)
         /\ Len(Descriptors(r)) <= BUF - 8
<1>1. r.len \in Nat /\ r.data \in Seq(0..255) /\ BUF \in Nat
  BY ResponsesAssumption
<1>2. \A k \in 1..r.len - 4 : (IF k <= Len(r.data) THEN r.data[k] ELSE 0) \in 0..255
  <2>1. ASSUME NEW k \in 1..r.len - 4, k <= Len(r.data) PROVE r.data[k] \in 0..255
    <3>1. k \in 1..Len(r.data)
      BY <1>1, <2>1, LenProperties
    <3> QED
      BY <1>1, <3>1, ElementOfSeq
  <2>2. 0 \in 0..255
    OBVIOUS
  <2> QED
    BY <2>1, <2>2, Zenon
<1>3. PICK n \in Nat : n = r.len - 4
  BY <1>1
<1>4. Descriptors(r) \in [1..n -> 0..255]
  BY <1>2, <1>3 DEF Descriptors
<1>5. Descriptors(r) \in Seq(0..255)
  BY <1>4, SeqDef
<1>6. Len(Descriptors(r)) = n
  BY <1>3, <1>4, <1>5, LenProperties
<1> QED
  BY <1>1, <1>3, <1>5, <1>6

\* The byte that a round reads is one of the descriptors'.
LEMMA DescriptorLength ==
  ASSUME TypeOK, MoreDescriptors
  PROVE  DtorLen(dtors, i) \in 4..259
<1>1. dtors \in Seq(0..255) /\ Len(dtors) \in Nat /\ i \in 0..Len(dtors) /\ i + 3 < Len(dtors)
  BY LenProperties DEF TypeOK, MoreDescriptors
<1>2. i + 4 \in 1..Len(dtors)
  BY <1>1
<1>3. dtors[i + 4] \in 0..255
  BY <1>1, <1>2, ElementOfSeq
<1> QED
  BY <1>3 DEF DtorLen

\* The walk begins at the first byte.
Inv == TypeOK /\ response \in Responses /\ (pc = "call" => i = 0)

\* What a round does to the walk, without what it makes of the descriptor.
LEMMA StepEffect ==
  ASSUME TypeOK, Step
  PROVE  /\ UNCHANGED <<dtors, response>>
         /\ \/ i' = i /\ pc' = "done" /\ status' = "panic"
            \/ /\ i' \in 0..Len(dtors) /\ i' >= i + 4
               /\ UNCHANGED <<pc, status>>
<1>1. PICK len \in 4..259 : len = DtorLen(dtors, i)
  BY DescriptorLength DEF Step
<1>2. PICK n \in Nat : n = Len(dtors)
  BY LenProperties DEF TypeOK
<1>3. i \in 0..n
  BY <1>2 DEF TypeOK
<1>4. UNCHANGED <<dtors, response>>
  BY DEF Step
<1>5. \/ i' = i /\ pc' = "done" /\ status' = "panic"
      \/ i' = i + len /\ ~(i + len > n) /\ UNCHANGED <<pc, status>>
  BY <1>1, <1>2, Zenon DEF Step, Return
<1>6. CASE i' = i + len /\ ~(i + len > n) /\ UNCHANGED <<pc, status>>
  <2>1. \A k \in 0..n : k + len <= n => k + len \in 0..n /\ k + len >= k + 4
    OBVIOUS
  <2>2. i + len <= n
    BY <1>3, <1>6
  <2>3. i' \in 0..n /\ i' >= i + 4
    BY <1>3, <1>6, <2>1, <2>2
  <2> QED
    BY <1>2, <1>4, <1>6, <2>3
<1> QED
  BY <1>4, <1>5, <1>6

\* Each action keeps the walk inside the descriptors.
LEMMA InvStep ==
  ASSUME Inv, [Next]_vars
  PROVE  Inv'
<1> DEFINE Rest == /\ dtors \in Seq(0..255) /\ Len(dtors) <= BUF - 8
                   /\ response.len \in Nat /\ response.data \in Seq(0..255)
                   /\ response \in Responses
<1>1. Rest /\ pc \in {"call", "walk", "done"} /\ i \in 0..Len(dtors) /\ (pc = "call" => i = 0)
      /\ status \in {"none", "Err", "panic", "Ok"}
  BY DEF Inv, TypeOK
<1>2. CASE CommandFails
  BY <1>1, <1>2 DEF CommandFails, Return, Inv, TypeOK
<1>3. CASE CommandAnswers
  <2>1. pc = "call" /\ UNCHANGED <<i, features, response>>
    BY <1>3 DEF CommandAnswers
  <2>2. CASE pc' = "done" /\ status' \in {"Err", "panic"} /\ UNCHANGED dtors
    BY <1>1, <2>1, <2>2 DEF Inv, TypeOK
  <2>3. CASE /\ BUF >= response.len + 4 /\ response.len >= 4 /\ pc' = "walk"
             /\ dtors' = Descriptors(response) /\ UNCHANGED status
    <3>1. response.len + 4 <= BUF
      BY <2>3, <1>1, ResponsesAssumption
    <3>2. dtors' \in Seq(0..255) /\ Len(dtors') <= BUF - 8
      BY <1>1, <2>3, <3>1, AnswerType
    <3>3. Len(dtors') \in Nat
      BY <3>2
    <3> QED
      BY <1>1, <2>1, <2>3, <3>2, <3>3 DEF Inv, TypeOK
  <2> QED
    BY <1>3, <2>2, <2>3 DEF CommandAnswers, Return
<1>4. CASE Step
  <2>1. pc = "walk"
    BY <1>4 DEF Step
  <2> QED
    BY <1>1, <1>4, <2>1, StepEffect DEF Inv, TypeOK
<1>5. CASE WalkEnds
  BY <1>1, <1>5 DEF WalkEnds, Return, Inv, TypeOK
<1>6. CASE UNCHANGED vars
  BY <1>1, <1>6 DEF vars, Inv, TypeOK
<1> QED
  BY <1>2, <1>3, <1>4, <1>5, <1>6 DEF Next

\* A call begins with no descriptors.
LEMMA InvInit == Init => Inv
<1>1. ASSUME Init PROVE Inv
  <2>1. <<>> \in Seq(0..255) /\ Len(<<>>) = 0
    OBVIOUS
  <2> QED
    BY <1>1, <2>1, ResponsesAssumption DEF Init, Inv, TypeOK
<1> QED
  BY <1>1

\* The walk never leaves the descriptors, and they never leave the buffer.
THEOREM Typing == Spec => []TypeOK
<1>1. Inv => TypeOK
  BY DEF Inv
<1> QED
  BY <1>1, InvInit, InvStep, PTL DEF Spec

-----------------------------------------------------------------------------
(* What filter_map collects. *)
\* Nothing is kept of nothing.
LEMMA FilterNone == \A s : Filter(s, {}) = <<>>
<1>1. Cardinality({}) = 0
  BY FS_EmptySet
<1>2. 1..0 = {}
  OBVIOUS
<1> QED
  BY <1>1, <1>2 DEF Filter

\* Up to k a set of the indices below n + 1 has as many members as it has with
\* n + 1, and no more than it has in all.
LEMMA CountUpTo ==
  ASSUME NEW n \in Nat, NEW keep \in SUBSET (1..n)
  PROVE  /\ IsFiniteSet(keep) /\ Cardinality(keep) \in Nat
         /\ Cardinality(keep \union {n + 1}) = Cardinality(keep) + 1
         /\ (keep \union {n + 1}) \cap 1..n + 1 = keep \union {n + 1}
         /\ \A k \in keep : /\ (keep \union {n + 1}) \cap 1..k = keep \cap 1..k
                            /\ Cardinality(keep \cap 1..k) <= Cardinality(keep)
<1>1. IsFiniteSet(keep) /\ Cardinality(keep) \in Nat
  <2>1. IsFiniteSet(1..n)
    BY FS_Interval
  <2> QED
    BY <2>1, FS_Subset, FS_CardinalityType
<1>2. n + 1 \notin keep
  OBVIOUS
<1>3. Cardinality(keep \union {n + 1}) = Cardinality(keep) + 1
  BY <1>1, <1>2, FS_AddElement
<1>4. (keep \union {n + 1}) \cap 1..n + 1 = keep \union {n + 1}
  <2>1. 1..n \subseteq 1..n + 1 /\ n + 1 \in 1..n + 1
    OBVIOUS
  <2>2. keep \union {n + 1} \subseteq 1..n + 1
    BY <2>1
  <2> QED
    BY <2>2, Zenon
<1>5. ASSUME NEW k \in keep
      PROVE  /\ (keep \union {n + 1}) \cap 1..k = keep \cap 1..k
             /\ Cardinality(keep \cap 1..k) <= Cardinality(keep)
  <2>1. n + 1 \notin 1..k
    OBVIOUS
  <2>2. keep \cap 1..k \subseteq keep
    OBVIOUS
  <2> QED
    BY <1>1, <2>1, <2>2, FS_Subset
<1> QED
  BY <1>1, <1>3, <1>4, <1>5

\* One more index, behind those that are kept, appends its item.
LEMMA FilterGrows ==
  ASSUME NEW s, NEW n \in Nat, NEW keep \in SUBSET (1..n)
  PROVE  Filter(s, keep \union {n + 1}) = Append(Filter(s, keep), s[n + 1])
<1> DEFINE more == keep \union {n + 1}
           size == Cardinality(keep)
           S    == {s[Nth(keep, m)] : m \in 1..size} \union {s[n + 1]}
<1>1. size \in Nat /\ Cardinality(more) = size + 1
  BY CountUpTo
<1>2. ASSUME NEW m \in 1..size PROVE Nth(more, m) = Nth(keep, m)
  <2>1. \A k : (k \in more /\ Cardinality(more \cap 1..k) = m)
                 <=> (k \in keep /\ Cardinality(keep \cap 1..k) = m)
    <3>1. ASSUME NEW k \in keep PROVE more \cap 1..k = keep \cap 1..k
      BY CountUpTo
    <3>2. Cardinality(more \cap 1..n + 1) = size + 1
      BY CountUpTo
    <3>3. m # size + 1
      BY <1>1
    <3> HIDE DEF size
    <3> QED
      BY <3>1, <3>2, <3>3, Zenon
  <2>2. (CHOOSE k : k \in more /\ Cardinality(more \cap 1..k) = m)
        = (CHOOSE k : k \in keep /\ Cardinality(keep \cap 1..k) = m)
    BY <2>1, Zenon
  <2> QED
    BY <2>2 DEF Nth
<1>3. Nth(more, size + 1) = n + 1
  <2>1. ASSUME NEW k \in more, Cardinality(more \cap 1..k) = size + 1 PROVE k = n + 1
    <3>1. ASSUME k \in keep PROVE FALSE
      <4>1. Cardinality(more \cap 1..k) = Cardinality(keep \cap 1..k) /\ Cardinality(keep \cap 1..k) <= size
        BY <3>1, CountUpTo
      <4> HIDE DEF more, size
      <4> QED
        BY <4>1, <2>1, <1>1
    <3> QED
      BY <3>1
  <2>2. n + 1 \in more /\ Cardinality(more \cap 1..n + 1) = size + 1
    BY <1>1, CountUpTo
  <2> HIDE DEF more
  <2> QED
    BY <2>1, <2>2 DEF Nth
<1>4. Filter(s, keep) \in [1..size -> S] /\ s[n + 1] \in S
  BY DEF Filter
<1> HIDE DEF S
<1>5. Filter(s, keep) \in Seq(S) /\ Len(Filter(s, keep)) = size
  BY <1>1, <1>4, SeqDef, LenProperties
<1>6. /\ Append(Filter(s, keep), s[n + 1]) \in Seq(S)
      /\ Len(Append(Filter(s, keep), s[n + 1])) = size + 1
      /\ \A m \in 1..size : Append(Filter(s, keep), s[n + 1])[m] = Filter(s, keep)[m]
      /\ Append(Filter(s, keep), s[n + 1])[size + 1] = s[n + 1]
  BY <1>4, <1>5, AppendProperties
<1>7. Filter(s, more) = [m \in 1..size + 1 |-> s[Nth(more, m)]]
  BY <1>1 DEF Filter
<1>8. \A m \in 1..size : Filter(s, keep)[m] = s[Nth(keep, m)]
  BY DEF Filter
<1> HIDE DEF more, size
<1>9. ASSUME NEW m \in 1..size + 1 PROVE s[Nth(more, m)] = Append(Filter(s, keep), s[n + 1])[m]
  <2>1. CASE m = size + 1
    BY <2>1, <1>3, <1>6
  <2>2. CASE m \in 1..size
    BY <2>2, <1>2, <1>6, <1>8
  <2>3. m = size + 1 \/ m \in 1..size
    BY <1>1
  <2> QED
    BY <2>1, <2>2, <2>3, Zenon
<1>10. Append(Filter(s, keep), s[n + 1]) = [m \in 1..size + 1 |-> Append(Filter(s, keep), s[n + 1])[m]]
  BY <1>6, <1>1, LenProperties
<1> QED
  BY <1>7, <1>9, <1>10 DEF more

-----------------------------------------------------------------------------
(* A descriptor is read as the feature that it describes. *)
Bytes == Seq(0..255)

\* The powers that the flags are at.
LEMMA Powers == 2^0 = 1 /\ 2^1 = 2 /\ 2^2 = 4 /\ 2^3 = 8 /\ 2^7 = 128
  OBVIOUS

\* A flag is the number of its bit, or zero.
LEMMA BitIs ==
  ASSUME NEW flag \in BOOLEAN, NEW n \in Nat, n > 0
  PROVE  Bit(flag, n) \in {0, n} /\ (Bit(flag, n) = n <=> flag)
<1>1. CASE flag
  BY <1>1 DEF Bit
<1>2. CASE ~flag
  BY <1>2 DEF Bit
<1> QED
  BY <1>1, <1>2

\* The flag at the lowest bit, alone in its byte.
LEMMA LowestFlag ==
  ASSUME NEW p \in BOOLEAN, NEW byte, byte = Bit(p, 1)
  PROVE  Flag(byte, 0) = p
BY Powers DEF Flag, Bit

\* The flags of a byte that a feature has, with the number behind them, if any.
LEMMA FlagsRead ==
  ASSUME NEW p \in BOOLEAN, NEW q \in BOOLEAN, NEW r \in BOOLEAN, NEW byte
  PROVE  /\ byte = Bit(p, 1) + Bit(q, 2) => Flag(byte, 0) = p /\ Flag(byte, 1) = q
         /\ byte = Bit(p, 1) + Bit(q, 2) + Bit(r, 4)
              => Flag(byte, 0) = p /\ Flag(byte, 1) = q /\ Flag(byte, 2) = r
         /\ byte = Bit(p, 1) + Bit(q, 2) + Bit(r, 128)
              => Flag(byte, 0) = p /\ Flag(byte, 1) = q /\ Flag(byte, 7) = r
         /\ \A n \in 0..7 : byte = Bit(p, 1) + Bit(q, 4) + Bit(r, 8) + 32 * n
              => Flag(byte, 0) = p /\ Flag(byte, 2) = q /\ Flag(byte, 3) = r /\ byte \div 32 = n
<1>1. PICK a \in {0, 1}, b \in {0, 2}, b4 \in {0, 4}, c \in {0, 4}, c8 \in {0, 8}, c128 \in {0, 128} :
        /\ a = Bit(p, 1) /\ b = Bit(q, 2) /\ b4 = Bit(q, 4)
        /\ c = Bit(r, 4) /\ c8 = Bit(r, 8) /\ c128 = Bit(r, 128)
        /\ p = (a = 1) /\ q = (b = 2) /\ q = (b4 = 4) /\ r = (c = 4) /\ r = (c8 = 8) /\ r = (c128 = 128)
  BY BitIs
<1>2. ASSUME byte = a + b PROVE Flag(byte, 0) = (a = 1) /\ Flag(byte, 1) = (b = 2)
  BY <1>2, Powers DEF Flag
<1>3. ASSUME byte = a + b + c PROVE Flag(byte, 0) = (a = 1) /\ Flag(byte, 1) = (b = 2) /\ Flag(byte, 2) = (c = 4)
  BY <1>3, Powers DEF Flag
<1>4. ASSUME byte = a + b + c128
      PROVE Flag(byte, 0) = (a = 1) /\ Flag(byte, 1) = (b = 2) /\ Flag(byte, 7) = (c128 = 128)
  BY <1>4, Powers DEF Flag
<1>5. ASSUME NEW n \in 0..7, byte = a + b4 + c8 + 32 * n
      PROVE /\ Flag(byte, 0) = (a = 1) /\ Flag(byte, 2) = (b4 = 4) /\ Flag(byte, 3) = (c8 = 8)
            /\ byte \div 32 = n
  BY <1>5, Powers DEF Flag
<1> QED
  BY <1>1, <1>2, <1>3, <1>4, <1>5

\* What the bytes of a descriptor are.
LEMMA ByteAt ==
  ASSUME NEW bytes \in Bytes
  PROVE  /\ Len(bytes) \in Nat
         /\ \A j \in 1..Len(bytes) : bytes[j] \in 0..255 /\ bytes[j] \in Nat
<1>1. Len(bytes) \in Nat
  BY LenProperties DEF Bytes
<1>2. \A j \in 1..Len(bytes) : bytes[j] \in 0..255
  BY ElementOfSeq DEF Bytes
<1>3. \A x \in 0..255 : x \in Nat
  OBVIOUS
<1> QED
  BY <1>1, <1>2, <1>3, Zenon

\* What the descriptor of a feature has in its header, and that its data begin
\* with those of the feature.
LEMMA Header ==
  ASSUME NEW bytes \in Bytes, NEW f, Describes(bytes, f)
  PROVE  /\ WholeDescriptor(bytes) /\ Code(bytes) = FeatureCode(f)
         /\ Len(bytes) \in Nat /\ Len(bytes) >= 4 /\ bytes[4] \in Nat /\ Len(bytes) = bytes[4] + 4
         /\ Len(FeatureData(f)) <= bytes[4]
         /\ \A j \in DOMAIN FeatureData(f) : bytes[4 + j] = FeatureData(f)[j]
<1>1. Code(bytes) = FeatureCode(f)
  BY DEF Describes, Code, Word
<1>2. Len(bytes) \in Nat /\ Len(bytes) >= 4
  BY ByteAt DEF Describes
<1>3. 4 \in 1..Len(bytes)
  BY <1>2
<1>4. bytes[4] \in Nat
  BY <1>3, ByteAt
<1> QED
  BY <1>1, <1>2, <1>4 DEF Describes, WholeDescriptor

\* The first n bytes of the data of a feature, where its descriptor has them.
LEMMA DataBytes ==
  ASSUME NEW bytes \in Bytes, NEW f, Describes(bytes, f), NEW n \in Nat,
         DOMAIN FeatureData(f) = 1..n, Len(FeatureData(f)) = n
  PROVE  Len(bytes) >= 4 + n /\ \A j \in 1..n : bytes[4 + j] = FeatureData(f)[j]
<1>1. PICK size \in Nat, last \in Nat : size = Len(bytes) /\ last = bytes[4]
  BY Header
<1>2. size = last + 4 /\ n <= last
  BY <1>1, Header
<1>3. size >= 4 + n
  BY <1>2
<1>4. \A j \in 1..n : bytes[4 + j] = FeatureData(f)[j]
  <2>1. \A j \in DOMAIN FeatureData(f) : bytes[4 + j] = FeatureData(f)[j]
    BY Header
  <2> QED
    BY <2>1, Zenon
<1> QED
  BY <1>1, <1>3, <1>4

\* Data of one byte.
LEMMA FirstByte ==
  ASSUME NEW bytes \in Bytes, NEW f, Describes(bytes, f), NEW b, FeatureData(f) = <<b>>
  PROVE  Len(bytes) >= 5 /\ bytes[5] = b
<1>1. DOMAIN FeatureData(f) = 1..1 /\ Len(FeatureData(f)) = 1 /\ FeatureData(f)[1] = b
  OBVIOUS
<1>2. Len(bytes) >= 4 + 1 /\ \A j \in 1..1 : bytes[4 + j] = FeatureData(f)[j]
  BY <1>1, DataBytes
<1>3. bytes[4 + 1] = b
  BY <1>1, <1>2
<1> QED
  BY <1>2, <1>3

\* Data of four bytes.
LEMMA FourBytes ==
  ASSUME NEW bytes \in Bytes, NEW f, Describes(bytes, f), NEW b, NEW c, NEW d, NEW e,
         FeatureData(f) = <<b, c, d, e>>
  PROVE  Len(bytes) >= 4 + 4 /\ bytes[5] = b /\ bytes[6] = c /\ bytes[7] = d /\ bytes[8] = e
<1>1. /\ DOMAIN FeatureData(f) = 1..4 /\ Len(FeatureData(f)) = 4 /\ 4 \in Nat
      /\ FeatureData(f)[1] = b /\ FeatureData(f)[2] = c /\ FeatureData(f)[3] = d /\ FeatureData(f)[4] = e
  OBVIOUS
<1>2. Len(bytes) >= 4 + 4 /\ \A j \in 1..4 : bytes[4 + j] = FeatureData(f)[j]
  BY <1>1, DataBytes, Zenon
<1>3. bytes[4 + 1] = b /\ bytes[4 + 2] = c /\ bytes[4 + 3] = d /\ bytes[4 + 4] = e
  BY <1>1, <1>2
<1> QED
  BY <1>2, <1>3

\* The bit that says that a feature is current.
LEMMA ActiveBit ==
  ASSUME NEW bytes \in Bytes, NEW f, Describes(bytes, f), "active" \in DOMAIN f, f.active \in BOOLEAN
  PROVE  Flag(bytes[3], 0) = f.active
<1>1. Len(bytes) \in Nat /\ Len(bytes) >= 4 /\ bytes[3] % 2 = Bit(f.active, 1)
  BY Header DEF Describes
<1>2. 3 \in 1..Len(bytes)
  BY <1>1
<1>3. bytes[3] \in 0..255
  BY <1>2, ByteAt
<1>4. Flag(bytes[3], 0) <=> bytes[3] % 2 = 1
  <2>1. \A x \in 0..255 : x \div 1 = x
    OBVIOUS
  <2> QED
    BY <1>3, <2>1, Powers DEF Flag
<1>5. Bit(f.active, 1) = 1 <=> f.active
  BY BitIs
<1> QED
  BY <1>1, <1>4, <1>5 DEF Flag

\* The crate's reading of a descriptor is the value of its feature.
Reads(bytes, f) == ~Panics(bytes) /\ Parse(bytes) = ValueOf(f)

\* A number is its digits of 8 bits, and the words of 16 bits are two of them.
LEMMA LongOf ==
  ASSUME NEW bytes, NEW n \in Nat,
         bytes[5] = (n \div 65536) \div 256, bytes[6] = (n \div 65536) % 256,
         bytes[7] = (n % 65536) \div 256, bytes[8] = (n % 65536) % 256
  PROVE  Long(bytes, 4) = n
<1>1. \A m \in Nat : 256 * (m \div 256) + (m % 256) = m
  OBVIOUS
<1>2. PICK high \in Nat, low \in Nat : high = n \div 65536 /\ low = n % 65536 /\ n = 65536 * high + low
  OBVIOUS
<1>3. 256 * bytes[5] + bytes[6] = high /\ 256 * bytes[7] + bytes[8] = low
  BY <1>1, <1>2
<1> QED
  BY <1>2, <1>3, SMT DEF Long, Word

\* A descriptor that has the data that its parser reads is parsed as its code says.
LEMMA Dispatch ==
  ASSUME NEW bytes \in Bytes, NEW f, Describes(bytes, f), NEW code, FeatureCode(f) = code,
         NEW n \in Nat, Len(bytes) >= 4 + n, DataRead(code) = n
  PROVE  WholeDescriptor(bytes) /\ Code(bytes) = code /\ ~Panics(bytes)
<1>1. WholeDescriptor(bytes) /\ Code(bytes) = code /\ Len(bytes) \in Nat
  BY Header
<1>2. ~(Len(bytes) < 4 + n)
  BY <1>1
<1> QED
  BY <1>1, <1>2 DEF Panics

\* Core: the number of the interface.
LEMMA ReadsCore ==
  ASSUME NEW bytes \in Bytes, NEW f, Describes(bytes, f),
         f \in [is : {"Core"}, interface : U32]
  PROVE  Reads(bytes, f)
<1>1. f.is = "Core" /\ f.interface \in Nat /\ f = [is |-> "Core", interface |-> f.interface]
  BY DEF U32
<1>2. PICK n \in Nat : n = f.interface
  BY <1>1
<1> DEFINE high == n \div 65536
           low  == n % 65536
<1>3. FeatureData(f) = <<high \div 256, high % 256, low \div 256, low % 256>>
  BY <1>1, <1>2 DEF FeatureData
<1>4. FeatureCode(f) = 1
  BY <1>1 DEF FeatureCode
<1> HIDE DEF high, low
<1>5. /\ Len(bytes) >= 4 + 4
      /\ bytes[5] = high \div 256 /\ bytes[6] = high % 256 /\ bytes[7] = low \div 256 /\ bytes[8] = low % 256
  BY <1>3, FourBytes
<1>6. Long(bytes, 4) = n
  <2>1. /\ bytes[5] = (n \div 65536) \div 256 /\ bytes[6] = (n \div 65536) % 256
        /\ bytes[7] = (n % 65536) \div 256 /\ bytes[8] = (n % 65536) % 256
    BY <1>5, SMT DEF high, low
  <2> QED
    BY <2>1, LongOf, SMT
<1>7. Parse(bytes) = Core(bytes) /\ ~Panics(bytes)
  BY <1>4, <1>5, Dispatch DEF Parse, DataRead
<1>8. ValueOf(f) = IF n \in Interfaces THEN f ELSE NoFeature
  BY <1>1, <1>2 DEF ValueOf
<1> QED
  BY <1>1, <1>2, <1>6, <1>7, <1>8 DEF Reads, Core

\* Morphing: two flags.
LEMMA ReadsMorphing ==
  ASSUME NEW bytes \in Bytes, NEW f, Describes(bytes, f), f \in Morphings
  PROVE  Reads(bytes, f)
<1>1. /\ f.is = "Morphing" /\ f.async_events \in BOOLEAN /\ f.op_chg_events \in BOOLEAN
      /\ f = [is |-> "Morphing", async_events |-> f.async_events, op_chg_events |-> f.op_chg_events]
  BY DEF Morphings
<1>2. FeatureData(f) = <<Bit(f.async_events, 1) + Bit(f.op_chg_events, 2)>> /\ FeatureCode(f) = 2
  BY <1>1 DEF FeatureData, FeatureCode
<1>3. Len(bytes) >= 4 + 1 /\ bytes[5] = Bit(f.async_events, 1) + Bit(f.op_chg_events, 2)
  BY <1>2, FirstByte
<1>4. Flag(bytes[5], 0) = f.async_events /\ Flag(bytes[5], 1) = f.op_chg_events
  BY <1>1, <1>3, FlagsRead
<1>5. Parse(bytes) = Morphing(bytes) /\ ~Panics(bytes)
  BY <1>2, <1>3, Dispatch DEF Parse, DataRead
<1>6. ValueOf(f) = f
  BY <1>1 DEF ValueOf
<1> QED
  BY <1>1, <1>4, <1>5, <1>6 DEF Reads, Morphing

\* Removable Medium: three flags, one of them inverted, and the mechanism.
LEMMA ReadsMedium ==
  ASSUME NEW bytes \in Bytes, NEW f, Describes(bytes, f),
         f \in [is : {"RemovableMedium"}, eject : BOOLEAN, lock : BOOLEAN,
                prevent_jumper : BOOLEAN, load_mech : 0..7]
  PROVE  Reads(bytes, f)
<1>1. /\ f.is = "RemovableMedium" /\ f.eject \in BOOLEAN /\ f.lock \in BOOLEAN
      /\ f.prevent_jumper \in BOOLEAN /\ f.load_mech \in 0..7
      /\ f = [is |-> "RemovableMedium", eject |-> f.eject, lock |-> f.lock,
              prevent_jumper |-> f.prevent_jumper, load_mech |-> f.load_mech]
  OBVIOUS
<1> DEFINE byte == Bit(f.lock, 1) + Bit(~f.prevent_jumper, 4) + Bit(f.eject, 8) + 32 * f.load_mech
<1>2. FeatureData(f) = <<byte>> /\ FeatureCode(f) = 3
  BY <1>1 DEF FeatureData, FeatureCode
<1> HIDE DEF byte
<1>3. Len(bytes) >= 4 + 1 /\ bytes[5] = byte
  BY <1>2, FirstByte
<1>4. /\ Flag(byte, 0) = f.lock /\ Flag(byte, 2) = ~f.prevent_jumper /\ Flag(byte, 3) = f.eject
      /\ byte \div 32 = f.load_mech
  <2>1. PICK p \in BOOLEAN, q \in BOOLEAN, r \in BOOLEAN, n \in 0..7 :
          p = f.lock /\ q = ~f.prevent_jumper /\ r = f.eject /\ n = f.load_mech
    BY <1>1
  <2>2. byte = Bit(p, 1) + Bit(q, 4) + Bit(r, 8) + 32 * n
    BY <2>1 DEF byte
  <2>3. Flag(byte, 0) = p /\ Flag(byte, 2) = q /\ Flag(byte, 3) = r /\ byte \div 32 = n
    BY <2>2, FlagsRead
  <2> QED
    BY <2>1, <2>3
<1>5. Parse(bytes) = Medium(bytes) /\ ~Panics(bytes)
  BY <1>2, <1>3, Dispatch DEF Parse, DataRead
<1>6. ValueOf(f) = IF f.load_mech \in LoadMechanisms THEN f ELSE NoFeature
  BY <1>1 DEF ValueOf
<1>7. (~Flag(byte, 2)) = f.prevent_jumper
  BY <1>1, <1>4
<1> QED
  BY <1>1, <1>3, <1>4, <1>5, <1>6, <1>7 DEF Reads, Medium

\* CD Read, of a device whose two bits agree.
LEMMA ReadsCdRead ==
  ASSUME NEW bytes \in Bytes, NEW f, Describes(bytes, f), f \in CdReads, f.c2_error = f.cd_text
  PROVE  Reads(bytes, f)
<1>1. /\ f.is = "CdRead" /\ f.active \in BOOLEAN /\ f.c2_error \in BOOLEAN
      /\ f.cd_text \in BOOLEAN /\ f.dap \in BOOLEAN /\ "active" \in DOMAIN f
      /\ f = [is |-> "CdRead", active |-> f.active, c2_error |-> f.c2_error,
              cd_text |-> f.cd_text, dap |-> f.dap]
  BY DEF CdReads
<1>2. FeatureData(f) = <<Bit(f.cd_text, 1) + Bit(f.c2_error, 2) + Bit(f.dap, 128)>> /\ FeatureCode(f) = 30
  BY <1>1 DEF FeatureData, FeatureCode
<1>3. Len(bytes) >= 4 + 1 /\ bytes[5] = Bit(f.cd_text, 1) + Bit(f.c2_error, 2) + Bit(f.dap, 128)
  BY <1>2, FirstByte
<1>4. Flag(bytes[5], 0) = f.cd_text /\ Flag(bytes[5], 1) = f.c2_error /\ Flag(bytes[5], 7) = f.dap
  BY <1>1, <1>3, FlagsRead
<1>5. Flag(bytes[3], 0) = f.active
  BY <1>1, ActiveBit
<1>6. Parse(bytes) = CdRead(bytes) /\ ~Panics(bytes)
  BY <1>2, <1>3, Dispatch DEF Parse, DataRead
<1>7. ValueOf(f) = f
  BY <1>1 DEF ValueOf
<1> QED
  BY <1>1, <1>4, <1>5, <1>6, <1>7 DEF Reads, CdRead

\* External audio play: three flags and the number of levels.
LEMMA ReadsAudio ==
  ASSUME NEW bytes \in Bytes, NEW f, Describes(bytes, f), 
         f \in [is : {"CdAudioExternalPlay"}, active : BOOLEAN, scan : BOOLEAN,
                sep_channel_mute : BOOLEAN, sep_volume : BOOLEAN, volume_levels : U16]
  PROVE  Reads(bytes, f)
<1>1. /\ f.is = "CdAudioExternalPlay" /\ f.active \in BOOLEAN /\ f.scan \in BOOLEAN
      /\ f.sep_channel_mute \in BOOLEAN /\ f.sep_volume \in BOOLEAN /\ "active" \in DOMAIN f
      /\ f.volume_levels \in Nat
      /\ f = [is |-> "CdAudioExternalPlay", active |-> f.active, scan |-> f.scan,
              sep_channel_mute |-> f.sep_channel_mute, sep_volume |-> f.sep_volume,
              volume_levels |-> f.volume_levels]
  BY DEF U16
<1> DEFINE byte == Bit(f.sep_volume, 1) + Bit(f.sep_channel_mute, 2) + Bit(f.scan, 4)
<1>2. FeatureData(f) = <<byte, 0, f.volume_levels \div 256, f.volume_levels % 256>> /\ FeatureCode(f) = 259
  BY <1>1 DEF FeatureData, FeatureCode
<1> HIDE DEF byte
<1>3. /\ Len(bytes) >= 4 + 4
      /\ bytes[5] = byte /\ bytes[7] = f.volume_levels \div 256 /\ bytes[8] = f.volume_levels % 256
  BY <1>2, FourBytes
<1>4. Flag(byte, 0) = f.sep_volume /\ Flag(byte, 1) = f.sep_channel_mute /\ Flag(byte, 2) = f.scan
  BY <1>1, FlagsRead DEF byte
<1>5. Flag(bytes[3], 0) = f.active
  BY <1>1, ActiveBit
<1>6. Word(bytes, 6) = f.volume_levels
  <2>1. \A n \in Nat : 256 * (n \div 256) + (n % 256) = n
    OBVIOUS
  <2>2. 256 * bytes[7] + bytes[8] = f.volume_levels
    BY <1>1, <1>3, <2>1, Zenon
  <2> QED
    BY <2>2 DEF Word
<1>7. Parse(bytes) = CdAudioExternalPlay(bytes) /\ ~Panics(bytes)
  BY <1>2, <1>3, Dispatch DEF Parse, DataRead
<1>8. ValueOf(f) = f
  BY <1>1 DEF ValueOf
<1> QED
  BY <1>1, <1>3, <1>4, <1>5, <1>6, <1>7, <1>8 DEF Reads, CdAudioExternalPlay

\* CSS: the version, in the last of four bytes.
LEMMA ReadsDvdCss ==
  ASSUME NEW bytes \in Bytes, NEW f, Describes(bytes, f), f \in DvdCsses(255)
  PROVE  Reads(bytes, f)
<1>1. /\ f.is = "DvdCss" /\ f.active \in BOOLEAN /\ "active" \in DOMAIN f
      /\ f = [is |-> "DvdCss", active |-> f.active, version |-> f.version]
  BY DEF DvdCsses
<1>2. FeatureData(f) = <<0, 0, 0, f.version>> /\ FeatureCode(f) = 262
  BY <1>1 DEF FeatureData, FeatureCode
<1>3. Len(bytes) >= 4 + 4 /\ bytes[8] = f.version
  BY <1>2, FourBytes
<1>4. Flag(bytes[3], 0) = f.active
  BY <1>1, ActiveBit
<1>5. Parse(bytes) = DvdCss(bytes) /\ ~Panics(bytes)
  BY <1>2, <1>3, Dispatch DEF Parse, DataRead
<1>6. ValueOf(f) = f
  BY <1>1 DEF ValueOf
<1> QED
  BY <1>1, <1>3, <1>4, <1>5, <1>6 DEF Reads, DvdCss

\* A serial number: as many characters as the descriptor has data.
LEMMA ReadsSerial ==
  ASSUME NEW bytes \in Bytes, NEW f, Describes(bytes, f),
         f \in [is : {"DriveSerialNumber"}, active : BOOLEAN, sno : Seq(0..127 \union {255})]
  PROVE  Reads(bytes, f)
<1> DEFINE Chars == Seq(0..127 \union {255})
<1>1. f.is = "DriveSerialNumber" /\ f.active \in BOOLEAN /\ "active" \in DOMAIN f /\ f.sno \in Chars
  OBVIOUS
<1>2. FeatureData(f) = f.sno /\ FeatureCode(f) = 264
  BY <1>1 DEF FeatureData, FeatureCode
<1> HIDE DEF Chars
<1>3. /\ Len(bytes) \in Nat /\ Len(bytes) >= 4 /\ bytes[4] \in Nat /\ Len(bytes) = bytes[4] + 4
      /\ Len(f.sno) = bytes[4] /\ \A j \in DOMAIN f.sno : bytes[4 + j] = f.sno[j]
  BY <1>1, <1>2, Header DEF Describes
<1>4. PICK n \in Nat : n = bytes[4] /\ Len(bytes) = n + 4 /\ Len(f.sno) = n /\ DOMAIN f.sno = 1..n
  BY <1>1, <1>3, LenProperties DEF Chars
<1>5. SubSeq(bytes, 5, 4 + n) = f.sno
  <2>1. SubSeq(bytes, 5, 4 + n) = [j \in 1..n |-> bytes[4 + j]]
    <3>1. SubSeq(bytes, 5, 4 + n) = [j \in 1..(4 + n) - 5 + 1 |-> bytes[5 + j - 1]]
      BY <1>4 DEF SubSeq
    <3> QED
      BY <3>1
  <2>2. f.sno = [j \in 1..n |-> f.sno[j]]
    BY <1>1, <1>4, LenProperties DEF Chars
  <2> QED
    BY <1>3, <1>4, <2>1, <2>2
<1>6. Flag(bytes[3], 0) = f.active
  BY <1>1, ActiveBit
<1>7. Parse(bytes) = DriveSerialNum(bytes) /\ ~Panics(bytes)
  <2>1. Len(bytes) >= 4 + 0
    BY <1>3
  <2> QED
    BY <1>2, <2>1, Dispatch DEF Parse, DataRead
<1>8. ValueOf(f) = IF f.active /\ \A k \in DOMAIN f.sno : f.sno[k] < 128
                   THEN [is |-> "DriveSerialNumber", sno |-> f.sno] ELSE NoFeature
  BY <1>1 DEF ValueOf
<1>9. DriveSerialNum(bytes) = ValueOf(f)
  BY <1>4, <1>5, <1>6, <1>8, Zenon DEF DriveSerialNum
<1> QED
  BY <1>7, <1>9 DEF Reads

\* A feature without a parser is left out, whatever its data.
LEMMA ReadsOther ==
  ASSUME NEW bytes \in Bytes, NEW f, Describes(bytes, f),
         f \in [is : {"Other"}, code : U16 \ {0, 1, 2, 3, 30, 259, 262, 264}]
  PROVE  Reads(bytes, f)
<1>1. f.is = "Other" /\ f.code \notin {0, 1, 2, 3, 30, 259, 262, 264}
  OBVIOUS
<1>2. FeatureCode(f) = f.code
  BY <1>1 DEF FeatureCode
<1>3. DataRead(f.code) = 0
  BY <1>1 DEF DataRead
<1>4. Len(bytes) >= 4 + 0
  BY Header
<1>5. Code(bytes) = f.code /\ WholeDescriptor(bytes) /\ ~Panics(bytes)
  BY <1>2, <1>3, <1>4, Dispatch
<1>6. Parse(bytes) = NoFeature
  BY <1>1, <1>5 DEF Parse
<1>7. ValueOf(f) = NoFeature
  BY <1>1 DEF ValueOf
<1> QED
  BY <1>5, <1>6, <1>7 DEF Reads
\* A list's chunks are its profiles.
LEMMA ReadsList ==
  ASSUME NEW bytes \in Bytes, NEW f, Describes(bytes, f),
         f \in [is : {"ProfileList"}, profiles : Seq(AnyProfile)]
  PROVE  Reads(bytes, f)
<1> DEFINE List == Seq(AnyProfile)
<1>1. f.is = "ProfileList" /\ f.profiles \in List /\ f = [is |-> "ProfileList", profiles |-> f.profiles]
  OBVIOUS
<1>2. PICK ps \in List, n \in Nat : ps = f.profiles /\ n = Len(ps)
  BY <1>1, LenProperties
<1>3. /\ \A k \in 1..n : ps[k] \in AnyProfile
      /\ ps = [k \in 1..n |-> ps[k]] /\ DOMAIN ps = 1..n
  BY <1>2, ElementOfSeq, LenProperties
<1> DEFINE data == [j \in 1..4 * n |-> ProfileBytes(ps[(j + 3) \div 4])[((j + 3) % 4) + 1]]
<1>4. FeatureData(f) = data /\ FeatureCode(f) = 0
  BY <1>1, <1>2 DEF FeatureData, FeatureCode
<1> HIDE DEF List
<1>5. DOMAIN data = 1..4 * n /\ Len(data) = 4 * n
  <2>1. 4 * n \in Nat
    BY <1>2
  <2> QED
    BY <2>1, LenProperties
<1> HIDE DEF data
<1>6. /\ Len(bytes) = 4 * n + 4
      /\ \A j \in 1..4 * n : bytes[4 + j] = data[j]
  <2>1. Len(data) = bytes[4]
    BY <1>1, <1>4 DEF Describes
  <2>2. Len(bytes) = bytes[4] + 4 /\ \A j \in DOMAIN data : bytes[4 + j] = data[j]
    BY <1>4, Header
  <2> QED
    BY <1>5, <2>1, <2>2
<1>7. ASSUME NEW k \in 1..n
      PROVE  /\ bytes[4 * k + 1] = ps[k].kind \div 256
             /\ bytes[4 * k + 2] = ps[k].kind % 256
             /\ bytes[4 * k + 3] = Bit(ps[k].active, 1)
  <2>1. /\ 4 * k - 3 \in 1..4 * n /\ 4 * k - 2 \in 1..4 * n /\ 4 * k - 1 \in 1..4 * n
        /\ (4 * k - 3 + 3) \div 4 = k /\ (4 * k - 3 + 3) % 4 = 0
        /\ (4 * k - 2 + 3) \div 4 = k /\ (4 * k - 2 + 3) % 4 = 1
        /\ (4 * k - 1 + 3) \div 4 = k /\ (4 * k - 1 + 3) % 4 = 2
        /\ 4 + (4 * k - 3) = 4 * k + 1 /\ 4 + (4 * k - 2) = 4 * k + 2 /\ 4 + (4 * k - 1) = 4 * k + 3
    OBVIOUS
  <2>2. /\ data[4 * k - 3] = ProfileBytes(ps[k])[1]
        /\ data[4 * k - 2] = ProfileBytes(ps[k])[2]
        /\ data[4 * k - 1] = ProfileBytes(ps[k])[3]
    BY <2>1 DEF data
  <2>3. /\ bytes[4 * k + 1] = ProfileBytes(ps[k])[1]
        /\ bytes[4 * k + 2] = ProfileBytes(ps[k])[2]
        /\ bytes[4 * k + 3] = ProfileBytes(ps[k])[3]
    BY <1>6, <2>1, <2>2
  <2> QED
    BY <2>3 DEF ProfileBytes
<1>8. ASSUME NEW k \in 1..n
      PROVE  [active |-> Flag(bytes[4 * k + 3], 0), kind |-> Word(bytes, 4 * k)] = ps[k]
  <2>1. /\ ps[k].active \in BOOLEAN /\ ps[k].kind \in Nat
        /\ ps[k] = [active |-> ps[k].active, kind |-> ps[k].kind]
    BY <1>3 DEF AnyProfile, U16
  <2>2. Word(bytes, 4 * k) = ps[k].kind
    <3>1. \A m \in Nat : 256 * (m \div 256) + (m % 256) = m
      OBVIOUS
    <3> QED
      BY <1>7, <2>1, <3>1, SMT DEF Word
  <2>3. Flag(bytes[4 * k + 3], 0) = ps[k].active
    BY <1>7, <2>1, LowestFlag
  <2> QED
    BY <2>1, <2>2, <2>3
<1>9. (Len(bytes) \div 4) - 1 = n
  BY <1>6
<1>10. [k \in 1..(Len(bytes) \div 4) - 1 |->
          [active |-> Flag(bytes[4 * k + 3], 0), kind |-> Word(bytes, 4 * k)]] = ps
  BY <1>3, <1>8, <1>9
<1>11. ProfileList(bytes) = [is |-> "ProfileList",
         profiles |-> Filter(ps, {k \in DOMAIN ps : ps[k].kind \in ProfileKinds})]
  BY <1>10, Zenon DEF ProfileList
<1>12. ValueOf(f) = [is |-> "ProfileList",
         profiles |-> Filter(ps, {k \in DOMAIN ps : ps[k].kind \in ProfileKinds})]
  BY <1>1, <1>2 DEF ValueOf
<1>13. Parse(bytes) = ProfileList(bytes) /\ ~Panics(bytes)
  <2>1. Len(bytes) >= 4 + 0
    BY Header
  <2> QED
    <3>1. DataRead(0) = 0
      BY DEF DataRead
    <3>2. WholeDescriptor(bytes) /\ Code(bytes) = 0 /\ ~Panics(bytes)
      BY <1>4, <2>1, <3>1, Dispatch
    <3> QED
      BY <3>2 DEF Parse
<1> QED
  BY <1>11, <1>12, <1>13 DEF Reads

\* A descriptor is read as the feature that it describes, whichever that is.
LEMMA ReadsFeature ==
  ASSUME NEW bytes \in Bytes, NEW f, IsFeature(f), Describes(bytes, f),
         f.is = "CdRead" => f.c2_error = f.cd_text
  PROVE  Reads(bytes, f)
<1>1. CASE f \in [is : {"ProfileList"}, profiles : Seq(AnyProfile)]
  BY <1>1, ReadsList
<1>2. CASE f \in [is : {"Core"}, interface : U32]
  BY <1>2, ReadsCore
<1>3. CASE f \in Morphings
  BY <1>3, ReadsMorphing
<1>4. CASE f \in [is : {"RemovableMedium"}, eject : BOOLEAN, lock : BOOLEAN,
                  prevent_jumper : BOOLEAN, load_mech : 0..7]
  BY <1>4, ReadsMedium
<1>5. CASE f \in CdReads
  BY <1>5, ReadsCdRead DEF CdReads
<1>6. CASE f \in [is : {"CdAudioExternalPlay"}, active : BOOLEAN, scan : BOOLEAN,
                  sep_channel_mute : BOOLEAN, sep_volume : BOOLEAN, volume_levels : U16]
  BY <1>6, ReadsAudio
<1>7. CASE f \in DvdCsses(255)
  BY <1>7, ReadsDvdCss
<1>8. CASE f \in [is : {"DriveSerialNumber"}, active : BOOLEAN, sno : Seq(0..127 \union {255})]
  BY <1>8, ReadsSerial
<1>9. CASE f \in [is : {"Other"}, code : U16 \ {0, 1, 2, 3, 30, 259, 262, 264}]
  BY <1>9, ReadsOther
<1> QED
  BY <1>1, <1>2, <1>3, <1>4, <1>5, <1>6, <1>7, <1>8, <1>9 DEF IsFeature

-----------------------------------------------------------------------------
(* The walk over the descriptors of a well built answer. *)
\* The walk has read the first k descriptors of a well built answer.
Read(k) == /\ i = End(response.layout, k)
           /\ features = Filter(Values(response), Told(response) \cap 1..k)

\* The answers that FeaturesOfTheDevice is about.
Readable == WellBuilt /\ BothOrNeither

Size == Len(response.layout)

ReadInv ==
  /\ Inv
  /\ pc = "call" => features = <<>>
  /\ pc = "walk" /\ Readable => dtors = response.data /\ \E k \in 0..Size : Read(k)
  /\ FeaturesOfTheDevice

\* The descriptors of a well built answer are its data.
LEMMA WholeAnswer ==
  ASSUME response \in Responses, Readable
  PROVE  /\ response.len >= 4 /\ BUF >= response.len + 4
         /\ Descriptors(response) = response.data
<1>1. /\ response.len \in Nat /\ response.data \in Seq(0..255) /\ BUF \in Nat
      /\ Len(response.data) \in Nat /\ response.len = Len(response.data) + 4 /\ response.len + 4 <= BUF
  BY ResponsesAssumption, LenProperties DEF Readable, WellBuilt
<1>2. response.data = [k \in 1..Len(response.data) |-> response.data[k]]
  BY <1>1, LenProperties
<1> DEFINE data == response.data
           n == Len(data)
<1>3. Descriptors(response) = [k \in 1..n |-> IF k <= n THEN data[k] ELSE 0]
  <2>1. response.len - 4 = n
    BY <1>1
  <2> QED
    BY <2>1 DEF Descriptors
<1>4. \A k \in 1..n : (IF k <= n THEN data[k] ELSE 0) = data[k]
  BY <1>1
<1> HIDE DEF n, data
<1>5. [k \in 1..n |-> IF k <= n THEN data[k] ELSE 0] = [k \in 1..n |-> data[k]]
  BY <1>4
<1>6. response.len >= 4 /\ BUF >= response.len + 4
  BY <1>1
<1> QED
  BY <1>2, <1>3, <1>5, <1>6 DEF n, data

\* What the walk finds behind the first k descriptors, and what it makes of it.
LEMMA NextDescriptor ==
  ASSUME TypeOK, response \in Responses, Readable, dtors = response.data,
         NEW k \in 0..Size, k # Size, Read(k)
  PROVE  /\ k + 1 \in 1..Size
         /\ MoreDescriptors
         /\ LET len  == DtorLen(dtors, i)
                dtor == Slice(dtors, i, len)
            IN  /\ i + len = End(response.layout, k + 1)
                /\ ~(i + len > Len(dtors)) /\ ~Panics(dtor)
                /\ Parse(dtor) = Values(response)[k + 1]
<1> DEFINE item  == response.layout[k + 1]
           bytes == item.bytes
           size  == Len(bytes)
           data  == response.data
<1>1. Size \in Nat /\ DOMAIN response.layout = 1..Size
  BY ResponsesAssumption DEF Size
<1>2. k + 1 \in 1..Size /\ k + 1 # 0 /\ k + 1 - 1 = k
  BY <1>1
<1>3. /\ bytes \in Bytes /\ IsFeature(item.means) /\ Describes(bytes, item.means)
      /\ item.means.is = "CdRead" => item.means.c2_error = item.means.cd_text
  BY <1>1, <1>2, ResponsesAssumption DEF Readable, WellBuilt, BothOrNeither, Bytes
<1>4. item.at = i /\ i + size <= Len(data) /\ SubSeq(data, i + 1, i + size) = bytes
      /\ End(response.layout, k + 1) = i + size
  <2>1. /\ item.at = End(response.layout, k + 1 - 1)
        /\ End(response.layout, k + 1) <= Len(data)
        /\ SubSeq(data, item.at + 1, End(response.layout, k + 1)) = bytes
    <3>1. k + 1 \in DOMAIN response.layout
      BY <1>1, <1>2
    <3>2. \A j \in DOMAIN response.layout :
            /\ response.layout[j].at = End(response.layout, j - 1)
            /\ End(response.layout, j) <= Len(response.data)
            /\ SubSeq(response.data, response.layout[j].at + 1, End(response.layout, j))
               = response.layout[j].bytes
      BY DEF Readable, WellBuilt, LaidOut
    <3> QED
      BY <3>1, <3>2
  <2>2. End(response.layout, k + 1) = item.at + size
    BY <1>2 DEF End
  <2>3. item.at = i
    BY <1>2, <2>1 DEF Read
  <2> QED
    BY <2>1, <2>2, <2>3
<1>5. size \in Nat /\ size >= 4 /\ bytes[4] + 4 = size
  BY <1>3, Header
<1>6. i \in Nat /\ Len(data) \in Nat
  BY LenProperties DEF TypeOK
<1> HIDE DEF size, bytes, data, item
<1>7. bytes[4] = data[i + 4]
  <2>1. SubSeq(data, i + 1, i + size) = [j \in 1..size |-> data[i + j]]
    <3>1. SubSeq(data, i + 1, i + size) = [j \in 1..(i + size) - (i + 1) + 1 |-> data[(i + 1) + j - 1]]
      BY <1>5, <1>6 DEF SubSeq
    <3>2. (i + size) - (i + 1) + 1 = size
      BY <1>5, <1>6
    <3>3. \A j \in 1..size : (i + 1) + j - 1 = i + j
      BY <1>5, <1>6
    <3> QED
      BY <3>1, <3>2, <3>3
  <2>2. 4 \in 1..size
    BY <1>5
  <2> QED
    BY <1>4, <2>1, <2>2
<1>8. DtorLen(dtors, i) = size
  BY <1>5, <1>7 DEF DtorLen, data
<1>9. Slice(dtors, i, size) = bytes
  BY <1>4 DEF Slice, data
<1>10. MoreDescriptors /\ ~(i + size > Len(dtors))
  <2>1. i + 3 < Len(data)
    BY <1>4, <1>5, <1>6
  <2>2. ~(i + size > Len(data))
    BY <1>4, <1>5, <1>6
  <2> QED
    BY <2>1, <2>2 DEF MoreDescriptors, data
<1>11. ~Panics(bytes) /\ Parse(bytes) = ValueOf(item.means)
  BY <1>3, ReadsFeature DEF Reads
<1>12. Values(response)[k + 1] = ValueOf(item.means)
  BY <1>1, <1>2 DEF Values, item
<1> QED
  BY <1>2, <1>4, <1>8, <1>9, <1>10, <1>11, <1>12

\* A round reads one descriptor more.
LEMMA RoundReads ==
  ASSUME TypeOK, response \in Responses, Readable, dtors = response.data,
         NEW k \in 0..Size, Read(k), Step
  PROVE  pc' = "walk" /\ k + 1 \in 0..Size /\ Read(k + 1)'
<1>1. Size \in Nat /\ DOMAIN response.layout = 1..Size
  BY ResponsesAssumption DEF Size
<1>2. k # Size
  <2>1. ASSUME k = Size PROVE FALSE
    <3>1. i = Len(dtors)
      BY <2>1 DEF Read, Readable, WellBuilt, LaidOut, Size
    <3>2. Len(dtors) \in Nat
      BY LenProperties DEF TypeOK
    <3> QED
      BY <3>1, <3>2 DEF Step, MoreDescriptors
  <2> QED
    BY <2>1
<1> DEFINE len  == DtorLen(dtors, i)
           dtor == Slice(dtors, i, len)
           value == Values(response)[k + 1]
           before == Told(response) \cap 1..k
           after  == Told(response) \cap 1..k + 1
<1>3. /\ k + 1 \in 1..Size
      /\ i + len = End(response.layout, k + 1)
      /\ ~(i + len > Len(dtors) \/ Panics(dtor)) /\ Parse(dtor) = value
  BY <1>2, NextDescriptor
<1>4. /\ features' = IF value # NoFeature THEN Append(features, value) ELSE features
      /\ i' = i + len
      /\ pc' = "walk" /\ response' = response
  BY <1>3, Zenon DEF Step
<1> HIDE DEF len, dtor
<1>5. k + 1 \in Told(response) <=> value # NoFeature
  BY <1>1, <1>3 DEF Told
<1>6. 1..k + 1 = 1..k \union {k + 1}
  OBVIOUS
<1>7. features = Filter(Values(response), before)
  BY DEF Read
<1>8. before \in SUBSET (1..k) /\ k \in Nat
  BY <1>1
<1> HIDE DEF value
<1>9. features' = Filter(Values(response), after)
  <2>1. CASE value # NoFeature
    <3>1. after = before \union {k + 1}
      BY <1>5, <1>6, <2>1
    <3> HIDE DEF before, after
    <3>2. Filter(Values(response), before \union {k + 1}) = Append(Filter(Values(response), before), Values(response)[k + 1])
      BY <1>8, FilterGrows
    <3> QED
      BY <1>4, <1>7, <2>1, <3>1, <3>2 DEF value
  <2>2. CASE value = NoFeature
    <3>1. after = before
      BY <1>5, <1>6, <2>2
    <3> QED
      BY <1>4, <1>7, <2>2, <3>1
  <2> QED
    BY <2>1, <2>2
<1>10. Read(k + 1)'
  BY <1>3, <1>4, <1>9 DEF Read
<1>11. k + 1 \in 0..Size
  BY <1>1, <1>3
<1> QED
  BY <1>4, <1>10, <1>11

\* Before the call nothing is read.
LEMMA ReadInvInit == Init => ReadInv
  BY InvInit DEF Init, ReadInv, FeaturesOfTheDevice, Readable

\* Each action keeps the walk with the descriptors of a well built answer.
LEMMA ReadInvStep ==
  ASSUME ReadInv, [Next]_vars
  PROVE  ReadInv'
<1>1. TypeOK /\ response \in Responses /\ Inv'
  BY InvStep DEF ReadInv, Inv
<1>2. CASE CommandFails
  BY <1>1, <1>2 DEF CommandFails, Return, ReadInv, FeaturesOfTheDevice, Readable
<1>3. CASE CommandAnswers
  <2>1. pc = "call" /\ UNCHANGED <<i, features, response>> /\ i = 0 /\ features = <<>>
    BY <1>3 DEF CommandAnswers, ReadInv, Inv
  <2>2. Readable' <=> Readable
    BY <2>1 DEF Readable, WellBuilt, BothOrNeither, LaidOut
  <2>3. CASE pc' = "done" /\ status' = "Err"
    BY <1>1, <2>3 DEF ReadInv, FeaturesOfTheDevice, Readable
  <2>4. CASE BUF >= response.len + 4 /\ response.len < 4 /\ Return("panic")
    <3>1. ~Readable
      <4>1. ASSUME Readable PROVE FALSE
        <5>1. response.len >= 4 /\ response.len \in Nat
          BY <1>1, <4>1, WholeAnswer, ResponsesAssumption
        <5> QED
          BY <2>4, <5>1
      <4> QED
        BY <4>1
    <3> QED
      BY <1>1, <2>2, <2>4, <3>1 DEF Return, ReadInv, FeaturesOfTheDevice, Readable
  <2>5. CASE pc' = "walk" /\ dtors' = Descriptors(response)
    <3>1. ASSUME Readable PROVE dtors' = response.data /\ 0 \in 0..Size /\ Read(0)'
      <4>1. Size \in Nat
        BY <1>1, ResponsesAssumption DEF Size
      <4>2. Told(response) \cap 1..0 = {}
        OBVIOUS
      <4>3. features' = Filter(Values(response), Told(response) \cap 1..0)
        BY <2>1, <4>2, FilterNone
      <4>4. Read(0)'
        BY <2>1, <4>3 DEF Read, End
      <4> QED
        BY <1>1, <2>5, <3>1, <4>1, <4>4, WholeAnswer
    <3>2. Size' = Size
      BY <2>1 DEF Size
    <3> QED
      BY <1>1, <2>1, <2>2, <2>5, <3>1, <3>2 DEF ReadInv, FeaturesOfTheDevice, Readable
  <2> QED
    BY <1>3, <2>3, <2>4, <2>5 DEF CommandAnswers, Return
<1>4. CASE Step
  <2>1. pc = "walk" /\ UNCHANGED <<dtors, response>>
    BY <1>4 DEF Step
  <2>2. Readable' <=> Readable
    BY <2>1 DEF Readable, WellBuilt, BothOrNeither, LaidOut
  <2>3. CASE Readable
    <3>1. dtors = response.data
      BY <2>1, <2>3 DEF ReadInv
    <3>2. PICK k \in 0..Size : Read(k)
      BY <2>1, <2>3 DEF ReadInv
    <3>3. pc' = "walk" /\ k + 1 \in 0..Size /\ Read(k + 1)'
      BY <1>1, <1>4, <2>3, <3>1, <3>2, RoundReads
    <3>4. Size' = Size
      BY <2>1 DEF Size
    <3> QED
      BY <1>1, <2>1, <3>1, <3>3, <3>4 DEF ReadInv, FeaturesOfTheDevice, Readable
  <2>4. CASE ~Readable
    <3>1. pc' # "call"
      BY <1>1, <1>4, <2>1, StepEffect
    <3> QED
      BY <1>1, <2>2, <2>4, <3>1 DEF ReadInv, FeaturesOfTheDevice, Readable
  <2> QED
    BY <2>3, <2>4
<1>5. CASE WalkEnds
  <2>1. pc = "walk" /\ UNCHANGED <<dtors, i, features, response>> /\ pc' = "done" /\ status' = "Ok"
        /\ ~MoreDescriptors
    BY <1>5 DEF WalkEnds, Return
  <2>2. Readable' <=> Readable
    BY <2>1 DEF Readable, WellBuilt, BothOrNeither, LaidOut
  <2>3. ASSUME Readable PROVE features = Filter(Values(response), Told(response))
    <3>1. PICK k \in 0..Size : Read(k)
      BY <2>1, <2>3 DEF ReadInv
    <3>2. k = Size
      BY <1>1, <2>1, <2>3, <3>1, NextDescriptor DEF ReadInv
    <3>3. Told(response) \cap 1..Size = Told(response)
      <4>1. DOMAIN response.layout = 1..Size
        BY <1>1, ResponsesAssumption DEF Size
      <4> QED
        BY <4>1 DEF Told
    <3> QED
      BY <3>1, <3>2, <3>3 DEF Read
  <2>4. (Filter(Values(response), Told(response)))' = Filter(Values(response), Told(response))
    BY <2>1
  <2> QED
    BY <1>1, <2>1, <2>2, <2>3, <2>4 DEF ReadInv, FeaturesOfTheDevice, Readable
<1>6. CASE UNCHANGED vars
  <2>1. UNCHANGED <<pc, dtors, i, features, status, response>>
    BY <1>6 DEF vars
  <2>2. ReadInv' <=> ReadInv
    BY <2>1, <1>1 DEF ReadInv, FeaturesOfTheDevice, Read, Size, Readable, WellBuilt, BothOrNeither, LaidOut, Told, Values
  <2> QED
    BY <2>2
<1> QED
  BY <1>2, <1>3, <1>4, <1>5, <1>6 DEF Next

\* The features of a well built answer are those that the device means, of a
\* drive that can do both or neither of C2 pointers and CD-Text.
THEOREM DeviceFeatures == Spec => []FeaturesOfTheDevice
<1>1. ReadInv => FeaturesOfTheDevice
  BY DEF ReadInv
<1> QED
  BY <1>1, ReadInvInit, ReadInvStep, PTL DEF Spec
=============================================================================
